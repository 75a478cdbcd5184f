------------------------------- MODULE Account -------------------------------
(***************************************************************************)
(* What signing in with a phone number promises: each session is opened    *)
(* for a user who is active, with a code that was sent and that opens no   *)
(* other; from then on its token is exchanged for the next one, until the  *)
(* session is logged out for good; and only administrators change what a   *)
(* user was registered as.  Requests and failures do not show.             *)
(***************************************************************************)
EXTENDS Naturals

CONSTANT Sessions

VARIABLES
  status,  \* the user, "none" before he is registered
  sent,    \* the number of codes sent
  opener,  \* session -> the code that opened it, 0 before
  token,   \* session -> the last token made for it, 0 before
  live     \* the sessions that are not logged out

vars == <<status, sent, opener, token, live>>

Init ==
  /\ status = "none"
  /\ sent = 0
  /\ opener = [s \in Sessions |-> 0]
  /\ token = [s \in Sessions |-> 0]
  /\ live = {}

Send ==
  /\ sent' = sent + 1
  /\ UNCHANGED <<status, opener, token, live>>

Register ==
  /\ status = "none"
  /\ status' = "active"
  /\ UNCHANGED <<sent, opener, token, live>>

Open(s, c) ==
  /\ status = "active"
  /\ token[s] = 0
  /\ \A r \in Sessions : opener[r] # c
  /\ opener' = [opener EXCEPT ![s] = c]
  /\ token' = [token EXCEPT ![s] = 1]
  /\ live' = live \cup {s}
  /\ UNCHANGED <<status, sent>>

Exchange(s) ==
  /\ s \in live
  /\ token' = [token EXCEPT ![s] = @ + 1]
  /\ UNCHANGED <<status, sent, opener, live>>

\* A session that was never opened cannot be logged out.
Logout(s) ==
  /\ status = "active" /\ token[s] # 0
  /\ live' = live \ {s}
  /\ UNCHANGED <<status, sent, opener, token>>

Administer ==
  /\ status # "none"
  /\ status' \in {"active", "blocked"}
  /\ UNCHANGED <<sent, opener, token, live>>

Next ==
  \/ Send \/ Register \/ Administer
  \/ \E s \in Sessions : \/ \E c \in 1 .. sent : Open(s, c)
                         \/ Exchange(s) \/ Logout(s)

Spec == Init /\ [][Next]_vars
=============================================================================
