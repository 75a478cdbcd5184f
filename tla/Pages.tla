------------------------------- MODULE Pages -------------------------------
(***************************************************************************)
(* A page of the web applications over the API (frontend/apps/*/pages and  *)
(* checkout-web/app): it loads rows, offers controls on them, sends their  *)
(* requests and brings the answers into what it shows.  Each page is a     *)
(* record: which rows it asks for, what a failed load does to those it     *)
(* shows, and its controls.  A row's status is "open" or "done", the two   *)
(* values its controls move it between.                                    *)
(***************************************************************************)
EXTENDS Naturals, SequencesExt

CONSTANTS
  Rows,      \* the rows of the page's table in the database
  NoRow,     \* no row
  MaxCalls   \* bound: requests of the page under way

ASSUME PagesAssumption == NoRow \notin Rows /\ MaxCalls \in Nat \ {0}

Status == {"open", "done"}

(* A control: where it is (on a row, in a row's panel, on the ticked rows, in a  *)
(* form); the statuses of the rows it is offered for; those it gives; which of   *)
(* its kind wait, disabled, until its answer; and what follows an answer.        *)
Control(on, from, to, waits, after) ==
  [on |-> on, from |-> from, to |-> to, waits |-> waits, after |-> after,
   refused |-> FALSE, tears |-> FALSE]

Select      == Control("row", Status, Status, "none", "merge")
Bulk(waits) == Control("ticked", Status, Status, waits, "reload")
Form(after) == Control("form", {}, {"open"}, "all", after)
\* The API refuses what the control asks for, always.
Refused(c)  == [c EXCEPT !.refused = TRUE]
\* It may refuse when it has stored the row already: a release saves its hold, and then
\* the order cannot be completed.
Tearing(c)  == [c EXCEPT !.tears = TRUE]

(* A page: the statuses it asks for; whether it can load again (a filter, a       *)
(* button); whether a failed load empties it; whether a load hides its controls.  *)
Page(lists, again, empties, hides, controls) ==
  [lists |-> lists, again |-> again, empties |-> empties, hides |-> hides, controls |-> controls]

Table(controls) == Page(Status, TRUE, TRUE, FALSE, controls)
Hiding(controls) == Page(Status, FALSE, TRUE, TRUE, controls)
Report == Hiding({})

-----------------------------------------------------------------------------
\* admin-web.
RefundsPage       == Table({Select, Bulk("none")})
AdminOrgsPage     == Table({Select, Bulk("none")})
UsersPage         == Table({Select, Bulk("all")})
AdminOrdersPage   == Table({Select, Control("row", Status, {"done"}, "none", "reload")})
AdminDisputesPage == Table({Control("panel", {"open"}, {"done"}, "all", "reload"),
                            Control("row", {"done"}, {"open"}, "own", "reload")})
VerificationsPage == Page({"open"}, FALSE, FALSE, TRUE,
                          {Control("panel", {"open"}, {"done"}, "all", "reload")})
RiskHoldsPage     == Hiding({Tearing(Control("row", {"open"}, {"done"}, "none", "mark"))})
AuditLogsPage     == Report
AdminDashboard    == Report

\* seller-web.  The products API refuses every PATCH and DELETE.
ProductsPage       == Page(Status, FALSE, TRUE, FALSE,
                           {Form("merge"), Refused(Control("row", Status, {"open"}, "all", "merge")),
                            Refused(Control("row", Status, {"done"}, "none", "merge"))})
CheckoutLinksPage  == Page(Status, FALSE, TRUE, FALSE, {Form("merge")})
SellerOrdersPage   == Report
OrderDetailPage    == Report   \* its statuses are in lower case: no order offers a control
ShipmentsPage      == Report
ShipmentDetailPage == Report
SellerDashboard    == Report

\* checkout-web.  The API refuses every dispute of a buyer.
CheckoutPage == Hiding({Form("leave")})
OrderPage    == Hiding({Form("leave")})
TrackPage    == Report
PaymentPage  == Report
DisputePage  == Hiding({Refused(Form("merge"))})

AdminPages    == {RefundsPage, AdminOrgsPage, UsersPage, AdminOrdersPage, AdminDisputesPage,
                  VerificationsPage, RiskHoldsPage, AuditLogsPage, AdminDashboard}
SellerPages   == {ProductsPage, CheckoutLinksPage, SellerOrdersPage, OrderDetailPage,
                  ShipmentsPage, ShipmentDetailPage, SellerDashboard}
CheckoutPages == {CheckoutPage, OrderPage, TrackPage, PaymentPage, DisputePage}

NoPage == Page({}, FALSE, FALSE, FALSE, {})

-----------------------------------------------------------------------------
VARIABLES
  row,      \* row -> its status in the database
  page,     \* the page that is open
  shown,    \* row -> the status the page shows of it
  ticked,   \* the rows that are ticked
  panel,    \* the row whose panel is open
  loading,  \* the page's flag of that name, where it hides the controls
  busy,     \* the control that waits for its answer
  calls,    \* the requests of the page, in the order they were sent
  blind,    \* history: the last load failed
  torn,     \* history: the rows stored, in calm, by requests refused since the last load
  calm      \* nobody else writes, and requests are served and answered in order, none lost

view  == <<page, shown, ticked, panel, loading, busy, calls, blind, torn>>
pvars == <<row, calm, view>>

Empty == [r \in Rows |-> "none"]
Idle  == <<>>
Load  == Control("page", {}, {}, "none", "none")

Call(c, R, s, frees) ==
  [control |-> c, rows |-> R, to |-> s, frees |-> frees, stage |-> "sent", got |-> Empty]
LoadCall(frees) == Call(Load, {}, "none", frees)

\* Nothing is shown: the page is left, and React ignores answers to it.
Closed ==
  /\ page' = NoPage /\ shown' = Empty /\ ticked' = {} /\ panel' = NoRow
  /\ loading' = FALSE /\ busy' = Idle /\ calls' = <<>> /\ blind' = FALSE /\ torn' = {}

PagesInit ==
  /\ row \in [Rows -> Status \cup {"none"}]
  /\ page = NoPage /\ shown = Empty /\ ticked = {} /\ panel = NoRow
  /\ loading = FALSE /\ busy = Idle /\ calls = <<>> /\ blind = FALSE /\ torn = {}
  /\ calm \in BOOLEAN

\* The page is mounted: its effect loads the rows.
Open(p) ==
  /\ page = NoPage
  /\ page' = p
  /\ calls' = <<LoadCall(FALSE)>> /\ loading' = p.hides
  /\ UNCHANGED <<row, calm, shown, ticked, panel, busy, blind, torn>>

Leave == page # NoPage /\ Closed /\ UNCHANGED <<row, calm>>

Usable == ~loading
Room   == Len(calls) < MaxCalls

\* Refresh, or another filter: the load before is not cancelled.
LoadAgain ==
  /\ page.again /\ Room
  /\ calls' = Append(calls, LoadCall(FALSE)) /\ loading' = page.hides
  /\ UNCHANGED <<row, calm, page, shown, ticked, panel, busy, blind, torn>>

Ticks   == \E c \in page.controls : c.on = "ticked"
Visible == {r \in Rows : shown[r] # "none"}

\* toggleSelection ...
Tick(r) ==
  /\ Ticks /\ r \in Visible
  /\ ticked' = IF r \in ticked THEN ticked \ {r} ELSE ticked \cup {r}
  /\ UNCHANGED <<row, calm, page, shown, panel, loading, busy, calls, blind, torn>>

\* ... and toggleSelectAll, which takes away the visible rows or adds them.
TickAll ==
  /\ Ticks
  /\ ticked' = IF Visible # {} /\ Visible \subseteq ticked THEN ticked \ Visible
               ELSE ticked \cup Visible
  /\ UNCHANGED <<row, calm, page, shown, panel, loading, busy, calls, blind, torn>>

\* A row's panel is opened, from a button that is offered for its status, or closed.
OpenPanel(r) ==
  /\ Usable
  /\ \E c \in page.controls : c.on = "panel" /\ shown[r] \in c.from
  /\ panel' = r
  /\ UNCHANGED <<row, calm, page, shown, ticked, loading, busy, calls, blind, torn>>

ClosePanel ==
  /\ Usable /\ panel \in Visible
  /\ panel' = NoRow
  /\ UNCHANGED <<row, calm, page, shown, ticked, loading, busy, calls, blind, torn>>

\* The rows a control is offered for.  An open panel stays, whatever becomes of its row.
Offers(c, R) ==
  \/ c.on = "row" /\ \E r \in Visible : R = {r} /\ shown[r] \in c.from
  \/ c.on = "panel" /\ panel \in Visible /\ R = {panel}
  \/ c.on = "ticked" /\ ticked # {} /\ R = ticked
  \/ c.on = "form" /\ R = {}

\* A control is used: its handler sends the request.
Press(c, R, s) ==
  /\ Usable /\ Room
  /\ Offers(c, R) /\ s \in c.to
  /\ c.waits = "all" => busy = Idle
  /\ c.waits = "own" => busy # <<R, s>>
  /\ busy' = IF c.waits = "none" THEN busy ELSE <<R, s>>
  /\ calls' = Append(calls, Call(c, R, s, c.waits # "none"))
  /\ UNCHANGED <<row, calm, page, shown, ticked, panel, loading, blind, torn>>

-----------------------------------------------------------------------------
Answered(i, R, got) ==
  calls' = [calls EXCEPT ![i].stage = "answered", ![i].rows = R, ![i].got = got]

Only(R, f) == [r \in Rows |-> IF r \in R THEN f[r] ELSE "none"]

\* The API serves a request: the rows that match, ...
ServeLoad(i) ==
  /\ calls[i].control = Load
  /\ \E R \in IF page.again THEN SUBSET Rows ELSE {Rows} :
       Answered(i, {}, Only({r \in R : row[r] \in page.lists}, row))
  /\ torn' = {}
  /\ UNCHANGED row

\* ... the rows it changed, ...
ServeWrite(i) ==
  /\ calls[i].control # Load /\ calls[i].control.on # "form"
  /\ row' = [r \in Rows |-> IF r \in calls[i].rows THEN calls[i].to ELSE row[r]]
  /\ Answered(i, calls[i].rows, Only(calls[i].rows, row'))
  /\ UNCHANGED torn

\* ... or the one it inserted.
ServeForm(i) ==
  /\ calls[i].control.on = "form"
  /\ \E r \in Rows : /\ row[r] = "none"
                     /\ row' = [row EXCEPT ![r] = calls[i].to]
                     /\ Answered(i, {r}, Only({r}, row'))
  /\ UNCHANGED torn

Serve(i) ==
  /\ calls[i].stage = "sent" /\ ~calls[i].control.refused
  /\ calm => \A j \in 1 .. i - 1 : calls[j].stage # "sent"
  /\ ServeLoad(i) \/ ServeWrite(i) \/ ServeForm(i)
  /\ UNCHANGED <<calm, page, shown, ticked, panel, loading, busy, blind>>

\* It refuses, even after it has stored the row, cannot be reached, or its answer is lost.
Fail(i) ==
  /\ \/ calls[i].stage = "sent" /\ UNCHANGED torn
     \/ calls[i].stage = "answered" /\ ~calm /\ UNCHANGED torn
     \/ calls[i].stage = "answered" /\ calm /\ calls[i].control.tears
        /\ torn' = torn \cup calls[i].rows
  /\ calls' = [calls EXCEPT ![i] = [@ EXCEPT !.stage = "failed", !.rows = {}, !.got = Empty]]
  /\ UNCHANGED <<row, calm, page, shown, ticked, panel, loading, busy, blind>>

\* Another user, or the system, writes a row.
Other(r, s) ==
  /\ ~calm /\ page # NoPage
  /\ row' = [row EXCEPT ![r] = s]
  /\ UNCHANGED <<calm, view>>

Freed(i) == IF calls[i].frees THEN Idle ELSE busy

\* Mutant: the ticks stay when the rows are replaced.
LoadedOver(i) ==
  /\ calls[i].control = Load /\ calls[i].stage = "answered"
  /\ shown' = calls[i].got
  /\ blind' = FALSE /\ loading' = FALSE /\ busy' = Freed(i)
  /\ calls' = RemoveAt(calls, i)
  /\ UNCHANGED <<page, panel, ticked, torn>>

\* A load is answered: the rows are replaced, and the ticks on others taken away.
Loaded(i) ==
  /\ calls[i].control = Load /\ calls[i].stage = "answered"
  /\ shown' = calls[i].got
  /\ ticked' = {r \in ticked : shown'[r] # "none"}
  /\ blind' = FALSE /\ loading' = FALSE /\ busy' = Freed(i)
  /\ calls' = RemoveAt(calls, i)
  /\ UNCHANGED <<page, panel, torn>>

\* It fails: the ticks stay.
LoadFailed(i) ==
  /\ calls[i].control = Load /\ calls[i].stage = "failed"
  /\ shown' = IF page.empties THEN Empty ELSE shown
  /\ blind' = TRUE /\ loading' = FALSE /\ busy' = Freed(i)
  /\ calls' = RemoveAt(calls, i)
  /\ UNCHANGED <<page, panel, ticked, torn>>

Done(i, after) ==
  /\ calls[i].stage = "answered" /\ calls[i].control.after = after
  /\ panel' = IF calls[i].control.on = "panel" THEN NoRow ELSE panel

\* Mutant: the answer is thrown away.
MergedNothing(i) ==
  /\ Done(i, "merge")
  /\ busy' = Freed(i) /\ calls' = RemoveAt(calls, i)
  /\ UNCHANGED <<page, shown, ticked, loading, blind, torn>>

\* A change is answered: the row of the answer replaces the one shown, or joins, ...
Merged(i) ==
  /\ Done(i, "merge")
  /\ shown' = [r \in Rows |->
       IF r \in calls[i].rows /\ (r \in Visible \/ calls[i].control.on = "form")
       THEN calls[i].got[r] ELSE shown[r]]
  /\ busy' = Freed(i) /\ calls' = RemoveAt(calls, i)
  /\ UNCHANGED <<page, ticked, loading, blind, torn>>

\* ... the row shown is marked, ...
Marked(i) ==
  /\ Done(i, "mark")
  /\ shown' = [r \in Rows |-> IF r \in calls[i].rows \cap Visible THEN calls[i].to ELSE shown[r]]
  /\ busy' = Freed(i) /\ calls' = RemoveAt(calls, i)
  /\ UNCHANGED <<page, ticked, loading, blind, torn>>

\* ... or the handler loads the rows again, and the controls go on waiting.
Reloaded(i) ==
  /\ Done(i, "reload")
  /\ calls' = Append(RemoveAt(calls, i), LoadCall(calls[i].frees)) /\ loading' = page.hides
  /\ UNCHANGED <<page, shown, ticked, busy, blind, torn>>

\* Mutant: only an answer enables the controls again.
ChangeStuck(i) ==
  /\ calls[i].control # Load /\ calls[i].stage = "failed"
  /\ calls' = RemoveAt(calls, i)
  /\ UNCHANGED <<page, shown, ticked, panel, loading, busy, blind, torn>>

\* A change fails: the error is shown and the controls are enabled again.
ChangeFailed(i) ==
  /\ calls[i].control # Load /\ calls[i].stage = "failed"
  /\ busy' = Freed(i) /\ calls' = RemoveAt(calls, i)
  /\ UNCHANGED <<page, shown, ticked, panel, loading, blind, torn>>

\* After checkout, and to pay, the browser goes elsewhere.
Left(i) == Done(i, "leave") /\ Closed

Apply(i) ==
  /\ calm => i = 1
  /\ \/ Loaded(i) \/ LoadFailed(i) \/ Merged(i) \/ Marked(i) \/ Reloaded(i)
     \/ ChangeFailed(i) \/ Left(i)
  /\ UNCHANGED <<row, calm>>

Handle(i) == i \in DOMAIN calls /\ (Serve(i) \/ Fail(i) \/ Apply(i))

Use ==
  \/ LoadAgain \/ TickAll \/ ClosePanel
  \/ \E r \in Rows : Tick(r) \/ OpenPanel(r)
  \/ \E c \in page.controls, R \in SUBSET Rows, s \in Status : Press(c, R, s)

PagesNext ==
  \/ Use \/ Leave
  \/ \E i \in 1 .. MaxCalls : Handle(i)
  \/ \E r \in Rows, s \in Status : Other(r, s)

-----------------------------------------------------------------------------
\* The rows a bulk change is sent for are among those shown, however ticks, filters
\* and late answers mix: except after a load that failed, which leaves the ticks of
\* the rows it took away.
SelectionIsShown == ~blind => ticked \subseteq Visible

\* With nobody else about, and answers in order and none lost, a page without requests
\* under way shows each row as it is stored, unless its last load failed, or a release of
\* that row was refused after it was stored: the page goes on showing it as held.
RowsAreFresh == calm /\ ~blind /\ calls = <<>> =>
  \A r \in Visible \ torn : shown[r] = row[r]

\* Controls that wait for an answer are enabled again, whatever becomes of the request.
ControlsReturn == busy # Idle ~> busy = Idle
=============================================================================
