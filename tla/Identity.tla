------------------------------ MODULE Identity ------------------------------
(***************************************************************************)
(* Sign-in with one phone number (identity/): the rate limit, the one-time *)
(* code, the user's row, the sessions and their refresh tokens, and the    *)
(* administrators who update the user.  The n-th code sent and the n-th    *)
(* token of a session are the number n: both are random, and taken to be   *)
(* different each time.                                                    *)
(***************************************************************************)
EXTENDS Naturals, FiniteSets

CONSTANTS
  Sessions,     \* the rows the sessions table may hold
  NoSession,    \* a request that handles no session
  Workers,      \* the slots of concurrent requests
  AdminPhone,   \* this phone is ADMIN_PHONE
  Patches,      \* bound: the sets of fields administrators set at once
  MaxSends,     \* bound: codes sent
  MaxTokens     \* bound: tokens of one session

RATE_LIMIT_MAX == 3

ASSUME IdentityAssumption ==
  NoSession \notin Sessions /\ IsFiniteSet(Workers) /\ AdminPhone \in BOOLEAN
  /\ Patches \subseteq SUBSET {"status", "role"}
  /\ MaxSends \in Nat /\ MaxTokens \in Nat \ {0}

VARIABLES
  otp,       \* otp:<phone>: the code stored, 0 without one
  sends,     \* the number of codes sent
  count,     \* otp_rate:<phone>, 0 without the key
  timed,     \* that key has its expiry
  user,      \* the user's row; status "none" while there is none
  token,     \* session -> the token whose hash it stores, 0 without a row
  issued,    \* session -> the number of tokens made for it
  active,    \* the sessions whose isActive is set
  lapsed,    \* the sessions past their expiresAt
  pc,        \* worker -> the next await to return
  code,      \* worker -> the code it was sent
  ses, old,  \* worker -> the session it refreshes, the token it was sent
  mem, set,  \* worker -> the user it has in memory, the fields it sets
  origin,    \* history: session -> the code that opened it
  parent,    \* history: session -> token -> the token it was exchanged for
  left,      \* history: the sessions that were logged out
  barred,    \* history: the last status an administrator set is "blocked"
  quiet      \* no call fails any more and the server does not restart

redis   == <<otp, sends, count, timed>>
tables  == <<user, token, issued, active, lapsed>>
slot    == <<pc, code, ses, old, mem, set>>
history == <<origin, parent, left, barred>>
vars    == <<redis, tables, slot, history, quiet>>

Rows   == [status : {"none", "active", "blocked"}, role : {"buyer", "admin"}]
NoUser == [status |-> "none", role |-> "buyer"]

TypeOK ==
  /\ otp \in 0 .. MaxSends /\ sends \in 0 .. MaxSends
  /\ count \in 0 .. RATE_LIMIT_MAX + 1 /\ timed \in BOOLEAN
  /\ user \in Rows
  /\ token \in [Sessions -> 0 .. MaxTokens] /\ issued \in [Sessions -> 0 .. MaxTokens]
  /\ active \subseteq Sessions /\ lapsed \subseteq Sessions /\ left \subseteq Sessions
  /\ pc \in [Workers -> {"idle", "expire", "send", "delete", "find", "create", "upgrade",
                         "open", "rotate", "update"}]
  /\ code \in [Workers -> 0 .. MaxSends]
  /\ ses \in [Workers -> Sessions \cup {NoSession}] /\ old \in [Workers -> 0 .. MaxTokens]
  /\ mem \in [Workers -> Rows] /\ set \in [Workers -> SUBSET {"status", "role"}]
  /\ origin \in [Sessions -> 0 .. MaxSends]
  /\ parent \in [Sessions -> [1 .. MaxTokens -> 0 .. MaxTokens]]
  /\ barred \in BOOLEAN /\ quiet \in BOOLEAN

Init ==
  /\ otp = 0 /\ sends = 0 /\ count = 0 /\ timed = FALSE
  /\ user = NoUser
  /\ token = [s \in Sessions |-> 0] /\ issued = [s \in Sessions |-> 0]
  /\ active = {} /\ lapsed = {} /\ left = {}
  /\ pc = [w \in Workers |-> "idle"]
  /\ code = [w \in Workers |-> 0]
  /\ ses = [w \in Workers |-> NoSession] /\ old = [w \in Workers |-> 0]
  /\ mem = [w \in Workers |-> NoUser] /\ set = [w \in Workers |-> {}]
  /\ origin = [s \in Sessions |-> 0]
  /\ parent = [s \in Sessions |-> [t \in 1 .. MaxTokens |-> 0]]
  /\ barred = FALSE /\ quiet \in BOOLEAN

\* Worker w awaits at, handling code c, session s with token t, or user u, of
\* whom it sets the fields f.
Await(w, at, c, s, t, u, f) ==
  /\ pc' = [pc EXCEPT ![w] = at]
  /\ code' = [code EXCEPT ![w] = c]
  /\ ses' = [ses EXCEPT ![w] = s] /\ old' = [old EXCEPT ![w] = t]
  /\ mem' = [mem EXCEPT ![w] = u] /\ set' = [set EXCEPT ![w] = f]

\* What the row may be once the copy in memory is saved: the ORM compares it with the
\* row and writes what differs, so a column the request did not set is overwritten
\* or keeps what another request stored meanwhile.
Saved(w) == {u \in Rows : \A g \in {"status", "role"} :
  u[g] = mem[w][g] \/ (g \notin set[w] /\ u[g] = user[g])}

Goto(w, at) == Await(w, at, code[w], NoSession, 0, NoUser, {})
Finish(w)   == Await(w, "idle", 0, NoSession, 0, NoUser, {})

-----------------------------------------------------------------------------
\* Mutant: the counter gets no expiry.
SendWithoutExpiry(w) ==
  /\ pc[w] = "idle"
  /\ count' = IF count > RATE_LIMIT_MAX THEN count ELSE count + 1
  /\ IF count < RATE_LIMIT_MAX /\ sends < MaxSends THEN Goto(w, "send") ELSE Finish(w)
  /\ UNCHANGED <<otp, sends, timed, tables, history, quiet>>

\* sendOtp, checkRateLimit: count the request; the first one of a window goes on to
\* set the expiry, one too many is refused ...
SendCount(w) ==
  /\ pc[w] = "idle"
  /\ count' = IF count > RATE_LIMIT_MAX THEN count ELSE count + 1
  /\ \/ count >= RATE_LIMIT_MAX /\ Finish(w)
     \/ /\ count < RATE_LIMIT_MAX
        /\ sends + Cardinality({v \in Workers : pc[v] \in {"expire", "send"}}) < MaxSends
        /\ Goto(w, IF count = 0 THEN "expire" ELSE "send")
  /\ UNCHANGED <<otp, sends, timed, tables, history, quiet>>

SendExpire(w) ==
  /\ pc[w] = "expire"
  /\ timed' = TRUE
  /\ Goto(w, "send")
  /\ UNCHANGED <<otp, sends, count, tables, history, quiet>>

\* ... then store a new code, over the one that is there.
SendStore(w) ==
  /\ pc[w] = "send"
  /\ sends' = sends + 1 /\ otp' = sends + 1
  /\ Finish(w)
  /\ UNCHANGED <<count, timed, tables, history, quiet>>

-----------------------------------------------------------------------------
\* Mutants: the code is not deleted, and the upgrade to
\* administrator activates the user.
DeleteNothing(w) ==
  /\ pc[w] = "delete"
  /\ Goto(w, "find")
  /\ UNCHANGED <<redis, tables, history, quiet>>

UpgradeActivates(w) ==
  /\ pc[w] = "upgrade"
  /\ user' = [mem[w] EXCEPT !.status = "active"]
  /\ Goto(w, "open")
  /\ UNCHANGED <<redis, token, issued, active, lapsed, history, quiet>>

\* verifyOtp: the code given is the one stored (the model has a row left for the
\* session) ...
VerifyRead(w, c) ==
  /\ pc[w] = "idle"
  /\ Cardinality({s \in Sessions : token[s] = 0})
       > Cardinality({v \in Workers : pc[v] \in {"delete", "find", "create", "upgrade", "open"}})
  /\ c # 0 /\ c = otp
  /\ Await(w, "delete", c, NoSession, 0, NoUser, {})
  /\ UNCHANGED <<redis, tables, history, quiet>>

\* ... delete what is stored ...
VerifyDelete(w) ==
  /\ pc[w] = "delete"
  /\ otp' = 0
  /\ Goto(w, "find")
  /\ UNCHANGED <<sends, count, timed, tables, history, quiet>>

\* ... find the user; a blocked one is refused, unless there is a role to save first ...
VerifyFind(w) ==
  /\ pc[w] = "find"
  /\ \/ user.status = "none" /\ Goto(w, "create")
     \/ /\ user.status # "none" /\ AdminPhone /\ user.role # "admin"
        /\ Await(w, "upgrade", code[w], NoSession, 0, [user EXCEPT !.role = "admin"], {"role"})
     \/ /\ user.status # "none" /\ ~(AdminPhone /\ user.role # "admin")
        /\ IF user.status = "active" THEN Goto(w, "open") ELSE Finish(w)
  /\ UNCHANGED <<redis, tables, history, quiet>>

\* ... insert him; phone_e164 is unique, so a second insert is refused ...
VerifyCreate(w) ==
  /\ pc[w] = "create"
  /\ IF user.status = "none"
     THEN /\ user' = [status |-> "active", role |-> IF AdminPhone THEN "admin" ELSE "buyer"]
          /\ Goto(w, "open")
     ELSE user' = user /\ Finish(w)
  /\ UNCHANGED <<redis, token, issued, active, lapsed, history, quiet>>

\* ... or save the copy in memory ...
VerifyUpgrade(w) ==
  /\ pc[w] = "upgrade"
  /\ user' \in Saved(w)
  /\ IF mem[w].status = "active" THEN Goto(w, "open") ELSE Finish(w)
  /\ UNCHANGED <<redis, token, issued, active, lapsed, history, quiet>>

\* ... and open a session with its first token.
VerifyOpen(w, s) ==
  /\ pc[w] = "open"
  /\ token[s] = 0
  /\ token' = [token EXCEPT ![s] = 1] /\ issued' = [issued EXCEPT ![s] = 1]
  /\ active' = active \cup {s}
  /\ origin' = [origin EXCEPT ![s] = code[w]]
  /\ Finish(w)
  /\ UNCHANGED <<redis, user, lapsed, parent, left, barred, quiet>>

-----------------------------------------------------------------------------
\* Mutants: a session that is not active is refreshed; the new token is not stored.
RefreshInactive(w, s, t) ==
  /\ pc[w] = "idle"
  /\ token[s] # 0 /\ s \notin lapsed /\ t = token[s]
  /\ issued[s] + Cardinality({v \in Workers : ses[v] = s}) < MaxTokens
  /\ Await(w, "rotate", 0, s, t, NoUser, {})
  /\ UNCHANGED <<redis, tables, history, quiet>>

SaveOldToken(w) ==
  /\ pc[w] = "rotate"
  /\ issued' = [issued EXCEPT ![ses[w]] = @ + 1]
  /\ lapsed' = lapsed \ {ses[w]}
  /\ parent' = [parent EXCEPT ![ses[w]][issued[ses[w]] + 1] = old[w]]
  /\ Finish(w)
  /\ UNCHANGED <<redis, user, token, active, origin, left, barred, quiet>>

\* rotateRefreshToken: the session is active, has not expired and stores the token
\* given (the model has a token left) ...
RefreshRead(w, s, t) ==
  /\ pc[w] = "idle"
  /\ s \in active /\ s \notin lapsed /\ t = token[s]
  /\ issued[s] + Cardinality({v \in Workers : ses[v] = s}) < MaxTokens
  /\ Await(w, "rotate", 0, s, t, NoUser, {})
  /\ UNCHANGED <<redis, tables, history, quiet>>

\* ... make a new one and save the copy in memory, which is active: a logout since
\* then is overwritten, or kept if it comes just before the write.
RefreshSave(w) ==
  /\ pc[w] = "rotate"
  /\ issued' = [issued EXCEPT ![ses[w]] = @ + 1]
  /\ token' = [token EXCEPT ![ses[w]] = issued[ses[w]] + 1]
  /\ active' \in {active, active \cup {ses[w]}} /\ lapsed' = lapsed \ {ses[w]}
  /\ parent' = [parent EXCEPT ![ses[w]][issued[ses[w]] + 1] = old[w]]
  /\ Finish(w)
  /\ UNCHANGED <<redis, user, origin, left, barred, quiet>>

\* logout: one UPDATE, for a user who is not blocked.
Logout(w, s) ==
  /\ pc[w] = "idle"
  /\ token[s] # 0 /\ user.status = "active"
  /\ active' = active \ {s} /\ left' = left \cup {s}
  /\ UNCHANGED <<redis, user, token, issued, lapsed, slot, origin, parent, barred, quiet>>

-----------------------------------------------------------------------------
\* Mutant: the status is not compared with USER_STATUSES.
UpdateUnlisted(w, u, f) ==
  /\ pc[w] = "idle" /\ user.status # "none"
  /\ Await(w, "update", 0, NoSession, 0, [u EXCEPT !.status = "suspended"], f)
  /\ UNCHANGED <<redis, tables, history, quiet>>

\* AdminService.updateUser: read the user and set the fields f in memory ...
UpdateRead(w, u, f) ==
  /\ pc[w] = "idle"
  /\ user.status # "none" /\ u.status # "none"
  /\ \A g \in {"status", "role"} \ f : u[g] = user[g]
  /\ Await(w, "update", 0, NoSession, 0, u, f)
  /\ UNCHANGED <<redis, tables, history, quiet>>

\* ... and save him.
UpdateSave(w) ==
  /\ pc[w] = "update"
  /\ user' \in Saved(w)
  /\ barred' = IF "status" \in set[w] THEN mem[w].status = "blocked" ELSE barred
  /\ Finish(w)
  /\ UNCHANGED <<redis, token, issued, active, lapsed, origin, parent, left, quiet>>
-----------------------------------------------------------------------------
\* A Redis key reaches its expiry; thirty days pass.
ExpireCode ==
  /\ otp # 0
  /\ otp' = 0
  /\ UNCHANGED <<sends, count, timed, tables, slot, history, quiet>>

ExpireCount ==
  /\ timed
  /\ count' = 0 /\ timed' = FALSE
  /\ UNCHANGED <<otp, sends, tables, slot, history, quiet>>

Lapse(s) ==
  /\ token[s] # 0 /\ s \notin lapsed
  /\ lapsed' = lapsed \cup {s}
  /\ UNCHANGED <<redis, user, token, issued, active, slot, history, quiet>>

\* The awaited call fails, or the process dies.
Abort(w) ==
  /\ pc[w] # "idle" /\ ~quiet
  /\ Finish(w)
  /\ UNCHANGED <<redis, tables, history, quiet>>

-----------------------------------------------------------------------------
Progress(w) ==
  \/ SendExpire(w) \/ SendStore(w)
  \/ VerifyDelete(w) \/ VerifyFind(w) \/ VerifyCreate(w) \/ VerifyUpgrade(w)
  \/ \E s \in Sessions : VerifyOpen(w, s)
  \/ RefreshSave(w) \/ UpdateSave(w)

Request(w) ==
  \/ SendCount(w)
  \/ \E c \in 1 .. sends : VerifyRead(w, c)
  \/ \E s \in Sessions : Logout(w, s) \/ \E t \in 1 .. issued[s] : RefreshRead(w, s, t)
  \/ \E u \in Rows, f \in Patches : UpdateRead(w, u, f)

Next ==
  \/ \E w \in Workers : Request(w) \/ Progress(w) \/ Abort(w)
  \/ ExpireCode \/ ExpireCount
  \/ \E s \in Sessions : Lapse(s)

Spec == Init /\ [][Next]_vars

\* Node runs a callback whose await has returned, and Redis expires its keys.
FairSpec == Spec /\ WF_vars(ExpireCount) /\ \A w \in Workers : WF_vars(Progress(w))

-----------------------------------------------------------------------------
\* A code opens one session at most.
CodeOnce == \A r, s \in Sessions : origin[s] # 0 /\ origin[r] = origin[s] => r = s

\* A refresh token is exchanged once at most, so the tokens of a session form a line.
TokenOnce == \A s \in Sessions : \A m, n \in 1 .. MaxTokens :
  parent[s][n] # 0 /\ parent[s][m] = parent[s][n] => m = n

\* However requests overlap, repeat or fail: a code that has opened a session is not
\* stored any more, and the token a session stores was not exchanged before.  So
\* whoever comes with a used one from then on is refused.
UsedIsRefused == \A s \in Sessions :
  /\ origin[s] # 0 => origin[s] # otp
  /\ \A n \in 1 .. MaxTokens : parent[s][n] # 0 => parent[s][n] # token[s]

\* A session that was logged out stays so.
LogoutIsFinal == left \cap active = {}

\* A user whom an administrator blocked stays blocked until one unblocks him.
BlockIsKept == barred => user.status = "blocked"

\* A session is opened only for a user who is not blocked.
OpenedForActive ==
  [][\A s \in Sessions : token[s] = 0 /\ token'[s] # 0 => user.status = "active"]_vars

\* As long as requests do not overlap, the service keeps what an account promises: a code
\* opens one session, of an active user, whose tokens follow each other to its logout.
Life == INSTANCE Account WITH status <- user.status, sent <- sends, opener <- origin, live <- active
ImplementsAccount == Life!Spec

\* Where no call fails, who is refused for sending too often may send again later.
LimitIsLifted == quiet => (count > RATE_LIMIT_MAX ~> count = 0)
=============================================================================
