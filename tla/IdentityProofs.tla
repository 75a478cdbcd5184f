---------------------------- MODULE IdentityProofs --------------------------
(***************************************************************************)
(* What module Identity guarantees for one phone and any number of         *)
(* sessions, codes, tokens and requests.  However the requests overlap, a  *)
(* code or a token is refused once it was used; more is guaranteed as long *)
(* as they do not overlap (Serial).  Failures and restarts come anywhere.  *)
(***************************************************************************)
EXTENDS Identity, FiniteSetTheorems, TLAPS

\* The requests about to send a code, and those that refresh session s.
Sending      == {v \in Workers : pc[v] \in {"expire", "send"}}
Refreshing(s) == {v \in Workers : ses[v] = s}

\* The bounds of the model leave room for what the requests are about to make.
RoomInv ==
  /\ sends + Cardinality(Sending) <= MaxSends
  /\ \A s \in Sessions : issued[s] + Cardinality(Refreshing(s)) <= MaxTokens
  /\ \A w \in Workers : pc[w] # "rotate" => ses[w] = NoSession

\* A request that goes on to open a session holds a code that is stored no more, nor
\* will be again; a session stores the last token made for it, and a request that
\* refreshes it holds one that was stored.
UsedInv ==
  /\ otp <= sends
  /\ \A s \in Sessions : origin[s] # 0 => origin[s] <= sends /\ origin[s] # otp
  /\ \A w \in Workers :
       pc[w] \in {"delete", "find", "create", "upgrade", "open"} =>
         /\ code[w] \in 1 .. sends
         /\ pc[w] # "delete" => code[w] # otp
  /\ \A s \in Sessions : token[s] = issued[s]
  /\ \A s \in Sessions : \A n \in 1 .. MaxTokens :
       parent[s][n] # 0 => parent[s][n] < n /\ n <= token[s]
  /\ \A w \in Workers : pc[w] = "rotate" =>
       ses[w] \in Sessions /\ old[w] \in 1 .. token[ses[w]]

\* What holds whatever overlaps.
BaseInv == TypeOK /\ RoomInv /\ UsedInv

Serial == \A v, w \in Workers : v = w

\* Where requests do not overlap, one that goes on to open a session is the first
\* that does so with its code, and one that refreshes a session holds the last token,
\* and nobody has logged out since.
SessionInv ==
  /\ \A w \in Workers : pc[w] \in {"delete", "find", "create", "upgrade", "open"} =>
       \A s \in Sessions : origin[s] # code[w]
  /\ CodeOnce
  /\ \A s \in Sessions : \A n \in 1 .. MaxTokens : parent[s][n] \in {0, n - 1}
  /\ \A s \in left : token[s] # 0
  /\ \A w \in Workers : pc[w] = "rotate" => ses[w] \in active \ left /\ old[w] = token[ses[w]]
  /\ LogoutIsFinal

\* A request about to save a user has him as he is stored, but for what it sets; one
\* about to open a session has found him active.
UserInv == \A w \in Workers :
  /\ pc[w] \in {"upgrade", "update"} /\ "status" \notin set[w] => mem[w].status = user.status
  /\ pc[w] = "upgrade" => "status" \notin set[w]
  /\ pc[w] = "update" => mem[w].status # "none" /\ user.status # "none"
  /\ pc[w] = "open" => user.status = "active"

AccountInv == UserInv /\ BlockIsKept
IInv       == BaseInv /\ SessionInv /\ AccountInv

\* What one request's step makes of the requests about to send a code ...
LEMMA SendingStep ==
  ASSUME NEW w \in Workers, \A v \in Workers : v # w => pc'[v] = pc[v]
  PROVE  /\ Cardinality(Sending) \in Nat /\ Cardinality(Sending') \in Nat
         /\ pc[w] \in {"expire", "send"} /\ pc'[w] \notin {"expire", "send"} =>
              Cardinality(Sending') = Cardinality(Sending) - 1
         /\ pc[w] \notin {"expire", "send"} /\ pc'[w] \in {"expire", "send"} =>
              Cardinality(Sending') = Cardinality(Sending) + 1
         /\ (pc[w] \in {"expire", "send"} <=> pc'[w] \in {"expire", "send"}) =>
              Cardinality(Sending') = Cardinality(Sending)
<1>1. IsFiniteSet(Sending)
  BY FS_Subset, IdentityAssumption DEF Sending
<1>2. Cardinality(Sending) \in Nat
  BY <1>1, FS_CardinalityType
<1>3. /\ w \in Sending => Cardinality(Sending \ {w}) = Cardinality(Sending) - 1
      /\ w \notin Sending => Cardinality(Sending \cup {w}) = Cardinality(Sending) + 1
  BY <1>1, FS_AddElement, FS_RemoveElement
<1>4. CASE pc[w] \in {"expire", "send"} /\ pc'[w] \notin {"expire", "send"}
  <2>1. w \in Sending /\ Sending' = Sending \ {w}
    BY <1>4 DEF Sending
  <2>2. Cardinality(Sending) > 0
    BY <2>1, <1>1, <1>2, FS_EmptySet
  <2> QED
    BY <1>2, <1>3, <1>4, <2>1, <2>2
<1>5. CASE pc[w] \notin {"expire", "send"} /\ pc'[w] \in {"expire", "send"}
  <2>1. w \notin Sending /\ Sending' = Sending \cup {w}
    BY <1>5 DEF Sending
  <2> QED
    BY <1>2, <1>3, <1>5, <2>1
<1>6. CASE pc[w] \in {"expire", "send"} <=> pc'[w] \in {"expire", "send"}
  <2>1. Sending' = Sending
    BY <1>6 DEF Sending
  <2> QED
    BY <1>2, <1>6, <2>1
<1> QED
  BY <1>4, <1>5, <1>6

\* ... and of those that refresh a session.
LEMMA RefreshingStep ==
  ASSUME NEW w \in Workers, \A v \in Workers : v # w => ses'[v] = ses[v], NEW r \in Sessions
  PROVE  /\ Cardinality(Refreshing(r)) \in Nat /\ Cardinality(Refreshing(r)') \in Nat
         /\ ses[w] = r /\ ses'[w] # r => Cardinality(Refreshing(r)') = Cardinality(Refreshing(r)) - 1
         /\ ses[w] # r /\ ses'[w] = r => Cardinality(Refreshing(r)') = Cardinality(Refreshing(r)) + 1
         /\ (ses[w] = r <=> ses'[w] = r) => Cardinality(Refreshing(r)') = Cardinality(Refreshing(r))
<1> DEFINE R == Refreshing(r)
<1>1. IsFiniteSet(R)
  BY FS_Subset, IdentityAssumption DEF Refreshing
<1>2. Cardinality(R) \in Nat
  BY <1>1, FS_CardinalityType
<1>3. /\ w \in R => Cardinality(R \ {w}) = Cardinality(R) - 1
      /\ w \notin R => Cardinality(R \cup {w}) = Cardinality(R) + 1
  BY <1>1, FS_AddElement, FS_RemoveElement
<1>4. CASE ses[w] = r /\ ses'[w] # r
  <2>1. w \in R /\ R' = R \ {w}
    BY <1>4 DEF Refreshing
  <2>2. Cardinality(R) > 0
    BY <2>1, <1>1, <1>2, FS_EmptySet
  <2> QED
    BY <1>2, <1>3, <1>4, <2>1, <2>2
<1>5. CASE ses[w] # r /\ ses'[w] = r
  <2>1. w \notin R /\ R' = R \cup {w}
    BY <1>5 DEF Refreshing
  <2> QED
    BY <1>2, <1>3, <1>5, <2>1
<1>6. CASE ses[w] = r <=> ses'[w] = r
  <2>1. R' = R
    BY <1>6 DEF Refreshing
  <2> QED
    BY <1>2, <1>6, <2>1
<1> QED
  BY <1>4, <1>5, <1>6

\* Together: a step keeps the bounds if it makes no more than it leaves room for.
LEMMA RoomStep ==
  ASSUME BaseInv, NEW w \in Workers,
         \A v \in Workers : v # w => pc'[v] = pc[v] /\ ses'[v] = ses[v],
         pc'[w] # "rotate" => ses'[w] = NoSession,
         \/ sends' = sends /\ (pc'[w] \in {"expire", "send"} =>
              pc[w] \in {"expire", "send"} \/ sends + Cardinality(Sending) < MaxSends)
         \/ sends' = sends + 1 /\ pc[w] \in {"expire", "send"} /\ pc'[w] \notin {"expire", "send"},
         \A r \in Sessions :
           \/ issued'[r] = issued[r] /\ (ses'[w] = r =>
                ses[w] = r \/ issued[r] + Cardinality(Refreshing(r)) < MaxTokens)
           \/ issued'[r] = issued[r] + 1 /\ ses[w] = r /\ ses'[w] # r
           \/ issued'[r] = 1 /\ Refreshing(r) = {} /\ ses'[w] # r
  PROVE  RoomInv'
<1>0. /\ \A v \in Workers : v # w => pc'[v] = pc[v]
      /\ \A v \in Workers : v # w => ses'[v] = ses[v]
      /\ sends \in Nat /\ MaxSends \in Nat /\ MaxTokens \in Nat \ {0}
      /\ sends + Cardinality(Sending) <= MaxSends
      /\ \A r \in Sessions :
           issued[r] \in Nat /\ issued[r] + Cardinality(Refreshing(r)) <= MaxTokens
  BY IdentityAssumption DEF BaseInv, TypeOK, RoomInv
<1>1. sends' + Cardinality(Sending') <= MaxSends
  BY <1>0, SendingStep
<1>2. ASSUME NEW r \in Sessions PROVE issued'[r] + Cardinality(Refreshing(r)') <= MaxTokens
  <2>1. CASE Refreshing(r) = {} /\ ses'[w] # r
    <3>1. Refreshing(r)' = {}
      BY <1>0, <2>1 DEF Refreshing
    <3>2. Cardinality(Refreshing(r)') = 0 /\ Cardinality(Refreshing(r)) = 0
      BY <2>1, <3>1, FS_EmptySet
    <3>3. ses[w] # r
      BY <2>1 DEF Refreshing
    <3>4. issued'[r] \in {issued[r], 1}
      BY <3>3
    <3>5. issued[r] <= MaxTokens /\ 1 <= MaxTokens
      BY <1>0, <3>2
    <3> QED
      BY <1>0, <3>2, <3>4, <3>5
  <2>2. CASE ~(Refreshing(r) = {} /\ ses'[w] # r)
    BY <1>0, <2>2, RefreshingStep
  <2> QED
    BY <2>1, <2>2
<1>3. \A v \in Workers : pc'[v] # "rotate" => ses'[v] = NoSession
  BY DEF BaseInv, RoomInv
<1> QED
  BY <1>1, <1>2, <1>3 DEF RoomInv

\* A request about to make a code, or a token, finds room for it.
LEMMA RoomLeft ==
  ASSUME BaseInv, NEW w \in Workers
  PROVE  /\ pc[w] \in {"expire", "send"} => sends < MaxSends
         /\ pc[w] = "rotate" => issued[ses[w]] < MaxTokens
<1> USE IdentityAssumption DEF BaseInv, TypeOK, RoomInv
<1>1. IsFiniteSet(Sending) /\ \A s \in Sessions : IsFiniteSet(Refreshing(s))
  BY FS_Subset DEF Sending, Refreshing
<1>2. ASSUME pc[w] \in {"expire", "send"} PROVE sends < MaxSends
  <2>1. w \in Sending
    BY <1>2 DEF Sending
  <2>2. Cardinality(Sending) # 0
    BY <1>1, <2>1, FS_EmptySet
  <2>3. Cardinality(Sending) \in Nat
    BY <1>1, FS_CardinalityType
  <2> QED
    BY <2>2, <2>3
<1>3. ASSUME pc[w] = "rotate" PROVE issued[ses[w]] < MaxTokens
  <2>1. ses[w] \in Sessions
    BY <1>3 DEF UsedInv
  <2>2. w \in Refreshing(ses[w])
    BY DEF Refreshing
  <2>3. Cardinality(Refreshing(ses[w])) # 0
    BY <1>1, <2>1, <2>2, FS_EmptySet
  <2>4. Cardinality(Refreshing(ses[w])) \in Nat
    BY <1>1, <2>1, FS_CardinalityType
  <2> QED
    BY <2>1, <2>3, <2>4
<1> QED
  BY <1>2, <1>3

\* Every step keeps the bounds.
LEMMA StepRoom == ASSUME BaseInv, [Next]_vars PROVE RoomInv'
<1> USE IdentityAssumption DEF BaseInv, TypeOK, RoomInv, redis, tables, slot, history
<1> DEFINE Others(w) == \A v \in Workers : v # w => pc'[v] = pc[v] /\ ses'[v] = ses[v]
<1>1. ASSUME NEW w \in Workers, SendCount(w) PROVE RoomInv'
  <2>1. /\ sends' = sends /\ issued' = issued /\ ses'[w] = NoSession /\ pc'[w] # "rotate"
        /\ pc'[w] \in {"expire", "send"} => sends + Cardinality(Sending) < MaxSends
        /\ Others(w)
    BY <1>1 DEF SendCount, Goto, Finish, Await, Sending, RATE_LIMIT_MAX
  <2> HIDE DEF BaseInv, TypeOK, RoomInv
  <2> QED
    BY <2>1, RoomStep
<1>2. ASSUME NEW w \in Workers, SendStore(w) PROVE RoomInv'
  <2>1. /\ sends' = sends + 1 /\ issued' = issued /\ ses'[w] = NoSession
        /\ pc[w] = "send" /\ pc'[w] = "idle" /\ Others(w)
    BY <1>2 DEF SendStore, Finish, Await
  <2> HIDE DEF BaseInv, TypeOK, RoomInv
  <2> QED
    BY <2>1, RoomStep
<1>3. ASSUME NEW w \in Workers, NEW s \in Sessions, VerifyOpen(w, s) PROVE RoomInv'
  <2>1. /\ sends' = sends /\ issued' = [issued EXCEPT ![s] = 1] /\ ses'[w] = NoSession
        /\ pc'[w] = "idle" /\ token[s] = 0 /\ Others(w)
    BY <1>3 DEF VerifyOpen, Finish, Await
  <2>2. Refreshing(s) = {}
    BY <2>1 DEF Refreshing, UsedInv
  <2>3. \A r \in Sessions : issued'[r] = IF r = s THEN 1 ELSE issued[r]
    BY <2>1
  <2> HIDE DEF BaseInv, TypeOK, RoomInv
  <2> QED
    BY <2>1, <2>2, <2>3, RoomStep
<1>4. ASSUME NEW w \in Workers, NEW s \in Sessions, NEW t \in 1 .. issued[s], RefreshRead(w, s, t)
      PROVE  RoomInv'
  <2>1. /\ sends' = sends /\ issued' = issued /\ pc'[w] = "rotate" /\ ses'[w] = s
        /\ issued[s] + Cardinality(Refreshing(s)) < MaxTokens /\ Others(w)
    BY <1>4 DEF RefreshRead, Await, Refreshing
  <2> HIDE DEF BaseInv, TypeOK, RoomInv
  <2> QED
    BY <2>1, RoomStep
<1>5. ASSUME NEW w \in Workers, RefreshSave(w) PROVE RoomInv'
  <2>1. /\ sends' = sends /\ issued' = [issued EXCEPT ![ses[w]] = @ + 1] /\ ses'[w] = NoSession
        /\ pc'[w] = "idle" /\ Others(w)
    BY <1>5 DEF RefreshSave, Finish, Await
  <2>2. \A r \in Sessions : issued'[r] = IF r = ses[w] THEN issued[r] + 1 ELSE issued[r]
    BY <2>1
  <2> HIDE DEF BaseInv, TypeOK, RoomInv
  <2> QED
    BY <2>1, <2>2, RoomStep
<1>6. ASSUME NEW w \in Workers,
             SendExpire(w) \/ (\E c \in 1 .. sends : VerifyRead(w, c)) \/ VerifyDelete(w)
               \/ VerifyFind(w) \/ VerifyCreate(w) \/ VerifyUpgrade(w) \/ Abort(w)
               \/ UpdateSave(w) \/ \E u \in Rows, f \in Patches : UpdateRead(w, u, f)
      PROVE  RoomInv'
  <2>1. /\ sends' = sends /\ issued' = issued /\ ses'[w] = NoSession /\ Others(w)
        /\ pc'[w] = "send" => pc[w] = "expire"
        /\ pc'[w] \notin {"rotate", "expire"}
    <3>1. CASE SendExpire(w) \/ VerifyDelete(w) \/ VerifyFind(w)
      BY <3>1 DEF SendExpire, VerifyDelete, VerifyFind, Goto, Finish, Await
    <3>2. CASE VerifyCreate(w) \/ VerifyUpgrade(w) \/ Abort(w) \/ UpdateSave(w)
      BY <3>2 DEF VerifyCreate, VerifyUpgrade, Abort, UpdateSave, Goto, Finish, Await
    <3>3. CASE \E c \in 1 .. sends : VerifyRead(w, c)
      BY <3>3 DEF VerifyRead, Await
    <3>4. CASE \E u \in Rows, f \in Patches : UpdateRead(w, u, f)
      BY <3>4 DEF UpdateRead, Await
    <3> QED
      BY <1>6, <3>1, <3>2, <3>3, <3>4
  <2> HIDE DEF BaseInv, TypeOK, RoomInv
  <2> QED
    BY <2>1, RoomStep
<1>7. CASE UNCHANGED <<sends, issued, pc, ses>>
  BY <1>7 DEF Sending, Refreshing
<1> QED
  BY <1>1, <1>2, <1>3, <1>4, <1>5, <1>6, <1>7
  DEF Next, Request, Progress, Logout, ExpireCode, ExpireCount, Lapse, vars

\* A save writes a user; a column it did not set is as in memory or as stored.
LEMMA SavedUser ==
  ASSUME NEW w \in Workers, NEW u \in Saved(w)
  PROVE  /\ u \in Rows
         /\ u.status = mem[w].status \/ ("status" \notin set[w] /\ u.status = user.status)
BY DEF Saved

\* The initial states satisfy the inductive invariant.
LEMMA InitIInv == Init => IInv
<1> SUFFICES ASSUME Init PROVE IInv
  OBVIOUS
<1> USE IdentityAssumption DEF Init
<1>1. TypeOK
  <2>1. timed \in BOOLEAN /\ barred \in BOOLEAN /\ quiet \in BOOLEAN
    BY Zenon
  <2>2. parent \in [Sessions -> [1 .. MaxTokens -> 0 .. MaxTokens]]
    OBVIOUS
  <2> QED
    BY <2>1, <2>2 DEF TypeOK, Rows, NoUser, RATE_LIMIT_MAX
<1>2. RoomInv
  <2>1. Sending = {} /\ \A s \in Sessions : Refreshing(s) = {}
    BY DEF Sending, Refreshing
  <2>2. Cardinality(Sending) = 0 /\ \A s \in Sessions : Cardinality(Refreshing(s)) = 0
    BY <2>1, FS_EmptySet
  <2> QED
    BY <2>2 DEF RoomInv
<1>3. UsedInv
  BY DEF UsedInv
<1>4. SessionInv /\ AccountInv
  BY DEF SessionInv, AccountInv, CodeOnce, UserInv, LogoutIsFinal, BlockIsKept
<1> QED
  BY <1>1, <1>2, <1>3, <1>4 DEF IInv, BaseInv

\* The types of what a request has in memory, and that awaiting keeps them.
SlotOK ==
  /\ pc \in [Workers -> {"idle", "expire", "send", "delete", "find", "create", "upgrade",
                         "open", "rotate", "update"}]
  /\ code \in [Workers -> 0 .. MaxSends]
  /\ ses \in [Workers -> Sessions \cup {NoSession}] /\ old \in [Workers -> 0 .. MaxTokens]
  /\ mem \in [Workers -> Rows] /\ set \in [Workers -> SUBSET {"status", "role"}]

LEMMA AwaitTypes ==
  ASSUME TypeOK, NEW w \in Workers,
         NEW at \in {"idle", "expire", "send", "delete", "find", "create", "upgrade", "open"},
         NEW c \in 0 .. MaxSends, NEW u \in Rows, NEW f \in SUBSET {"status", "role"},
         Await(w, at, c, NoSession, 0, u, f)
  PROVE  SlotOK'
<1>1. /\ pc' \in [Workers -> {"idle", "expire", "send", "delete", "find", "create", "upgrade",
                            "open", "rotate", "update"}]
      /\ code' \in [Workers -> 0 .. MaxSends]
  BY DEF TypeOK, Await
<1>2. ses' \in [Workers -> Sessions \cup {NoSession}] /\ old' \in [Workers -> 0 .. MaxTokens]
  BY IdentityAssumption DEF TypeOK, Await
<1>3. mem' \in [Workers -> Rows] /\ set' \in [Workers -> SUBSET {"status", "role"}]
  BY DEF TypeOK, Await
<1> QED
  BY <1>1, <1>2, <1>3 DEF SlotOK

\* A request that goes on, or is done, has nothing else in memory.
LEMMA GotoTypes ==
  ASSUME TypeOK, NEW w \in Workers,
         NEW at \in {"idle", "expire", "send", "delete", "find", "create", "upgrade", "open"},
         Goto(w, at) \/ Finish(w)
  PROVE  SlotOK'
<1>1. NoUser \in Rows /\ {} \in SUBSET {"status", "role"}
  BY DEF NoUser, Rows
<1>2. code[w] \in 0 .. MaxSends /\ 0 \in 0 .. MaxSends
  BY IdentityAssumption DEF TypeOK
<1>3. CASE Goto(w, at)
  BY <1>1, <1>2, <1>3, AwaitTypes DEF Goto
<1>4. CASE Finish(w)
  BY <1>1, <1>2, <1>4, AwaitTypes DEF Finish
<1> QED
  BY <1>3, <1>4

\* Every step keeps the types.
LEMMA StepType == ASSUME BaseInv, [Next]_vars PROVE TypeOK'
<1> USE IdentityAssumption
    DEF Rows, NoUser, RATE_LIMIT_MAX, TypeOK, redis, tables, slot, history
<1>0. /\ TypeOK
      /\ \A w \in Workers : pc[w] \in {"expire", "send"} => sends < MaxSends
      /\ \A w \in Workers : pc[w] = "rotate" => ses[w] \in Sessions /\ issued[ses[w]] < MaxTokens
  BY RoomLeft DEF BaseInv, UsedInv
<1>1. ASSUME NEW w \in Workers, SendCount(w) PROVE TypeOK'
  <2>1. Finish(w) \/ Goto(w, "expire") \/ Goto(w, "send")
    BY <1>1 DEF SendCount
  <2>2. SlotOK'
    BY <1>0, <2>1, GotoTypes
  <2> QED
    BY <1>0, <1>1, <2>2 DEF SendCount, SlotOK
<1>2. ASSUME NEW w \in Workers, SendExpire(w) PROVE TypeOK'
  BY <1>2, <1>0 DEF SendExpire, Goto, Await
<1>3. ASSUME NEW w \in Workers, SendStore(w) PROVE TypeOK'
  BY <1>3, <1>0 DEF SendStore, Await, Finish
<1>4. ASSUME NEW w \in Workers, NEW c \in 1 .. sends, VerifyRead(w, c) PROVE TypeOK'
  BY <1>4, <1>0 DEF VerifyRead, Await
<1>5. ASSUME NEW w \in Workers, VerifyDelete(w) PROVE TypeOK'
  BY <1>5, <1>0 DEF VerifyDelete, Goto, Await
<1>6. ASSUME NEW w \in Workers, VerifyFind(w) PROVE TypeOK'
  <2>1. CASE Await(w, "upgrade", code[w], NoSession, 0, [user EXCEPT !.role = "admin"], {"role"})
    <3>1. /\ [user EXCEPT !.role = "admin"] \in Rows /\ {"role"} \in SUBSET {"status", "role"}
          /\ code[w] \in 0 .. MaxSends
      BY <1>0
    <3>2. SlotOK'
      BY <1>0, <2>1, <3>1, AwaitTypes
    <3> QED
      BY <1>0, <1>6, <3>2 DEF VerifyFind, SlotOK
  <2>2. CASE Goto(w, "create") \/ Goto(w, "open") \/ Finish(w)
    <3>1. SlotOK'
      BY <1>0, <2>2, GotoTypes
    <3> QED
      BY <1>0, <1>6, <3>1 DEF VerifyFind, SlotOK
  <2> QED
    BY <1>6, <2>1, <2>2 DEF VerifyFind
<1>7. ASSUME NEW w \in Workers, VerifyCreate(w) PROVE TypeOK'
  <2>1. Goto(w, "open") \/ Finish(w)
    BY <1>7 DEF VerifyCreate
  <2>2. SlotOK'
    BY <1>0, <2>1, GotoTypes
  <2> QED
    BY <1>0, <1>7, <2>2 DEF VerifyCreate, SlotOK
<1>8. ASSUME NEW w \in Workers, VerifyUpgrade(w) PROVE TypeOK'
  <2>1. Goto(w, "open") \/ Finish(w)
    BY <1>8 DEF VerifyUpgrade
  <2>2. SlotOK'
    BY <1>0, <2>1, GotoTypes
  <2>3. user' \in Rows
    BY <1>8, SavedUser DEF VerifyUpgrade
  <2> QED
    BY <1>0, <1>8, <2>2, <2>3 DEF VerifyUpgrade, SlotOK
<1>9. ASSUME NEW w \in Workers, NEW s \in Sessions, VerifyOpen(w, s) PROVE TypeOK'
  BY <1>9, <1>0 DEF VerifyOpen, Await, Finish
<1>10. ASSUME NEW w \in Workers, NEW s \in Sessions,
             NEW t \in 1 .. issued[s], RefreshRead(w, s, t)
      PROVE  TypeOK'
  BY <1>10, <1>0 DEF RefreshRead, Await
<1>11. ASSUME NEW w \in Workers, RefreshSave(w) PROVE TypeOK'
  BY <1>11, <1>0 DEF RefreshSave, Await, Finish
<1>12. ASSUME NEW w \in Workers, NEW s \in Sessions, Logout(w, s) PROVE TypeOK'
  BY <1>12, <1>0 DEF Logout
<1>13. ASSUME NEW w \in Workers, NEW u \in Rows, NEW f \in Patches, UpdateRead(w, u, f)
      PROVE TypeOK'
  BY <1>13, <1>0 DEF UpdateRead, Await
<1>14. ASSUME NEW w \in Workers, UpdateSave(w) PROVE TypeOK'
  <2>1. barred' \in BOOLEAN
    BY <1>14, <1>0, Zenon DEF UpdateSave
  <2>2. user' \in Rows
    BY <1>14, <1>0, SavedUser DEF UpdateSave
  <2> QED
    BY <1>14, <1>0, <2>1, <2>2 DEF UpdateSave, Await, Finish
<1>15. ASSUME NEW w \in Workers, Abort(w) PROVE TypeOK'
  BY <1>15, <1>0 DEF Abort, Await, Finish
<1>16. ASSUME ExpireCode PROVE TypeOK'
  BY <1>16, <1>0 DEF ExpireCode
<1>17. ASSUME ExpireCount PROVE TypeOK'
  <2>1. timed' \in BOOLEAN
    BY <1>17, <1>0 DEF ExpireCount
  <2> QED
    BY <1>17, <1>0, <2>1 DEF ExpireCount
<1>18. ASSUME NEW s \in Sessions, Lapse(s) PROVE TypeOK'
  BY <1>18, <1>0 DEF Lapse
<1>19. CASE UNCHANGED vars
  BY <1>19, <1>0 DEF vars
<1> QED
  BY <1>1, <1>2, <1>3, <1>4, <1>5, <1>6, <1>7, <1>8, <1>9, <1>10, <1>11, <1>12, <1>13,
     <1>14, <1>15, <1>16, <1>17, <1>18, <1>19
  DEF Next, Request, Progress

\* A request that only goes on with its code, or gives it up, disturbs nothing.
LEMMA UsedKept ==
  ASSUME UsedInv, UNCHANGED <<otp, sends, origin, token, issued, parent>>, NEW w \in Workers,
         \A v \in Workers : v # w => /\ pc'[v] = pc[v] /\ code'[v] = code[v]
                                    /\ ses'[v] = ses[v] /\ old'[v] = old[v],
         \/ pc'[w] \in {"idle", "expire", "send", "update"}
         \/ pc'[w] \in {"create", "upgrade", "open"} /\ code'[w] = code[w]
              /\ pc[w] \in {"find", "create", "upgrade"}
  PROVE  UsedInv'
BY DEF UsedInv

\* Every step keeps the codes and tokens that were used from being stored.
LEMMA StepUsed == ASSUME BaseInv, [Next]_vars PROVE UsedInv'
<1> USE IdentityAssumption
    DEF TypeOK, redis, tables, slot, history
<1>0. TypeOK /\ UsedInv
  BY DEF BaseInv
<1>1. ASSUME NEW w \in Workers, SendCount(w) PROVE UsedInv'
  <2>1. UNCHANGED <<otp, sends, origin, token, issued, parent>>
    BY <1>1 DEF SendCount
  <2>2. \A v \in Workers : v # w => /\ pc'[v] = pc[v] /\ code'[v] = code[v]
                                   /\ ses'[v] = ses[v] /\ old'[v] = old[v]
    BY <1>0, <1>1 DEF SendCount, Goto, Await, Finish
  <2>3. pc'[w] \in {"idle", "expire", "send", "update"}
    BY <1>0, <1>1 DEF SendCount, Goto, Await, Finish
  <2> QED
    BY <1>0, <2>1, <2>2, <2>3, UsedKept
<1>2. ASSUME NEW w \in Workers, SendExpire(w) PROVE UsedInv'
  BY <1>0, <1>2, UsedKept DEF SendExpire, Goto, Await
<1>3. ASSUME NEW w \in Workers, SendStore(w) PROVE UsedInv'
  BY <1>0, <1>3 DEF SendStore, Await, Finish, UsedInv
<1>4. ASSUME NEW w \in Workers, NEW c \in 1 .. sends, VerifyRead(w, c) PROVE UsedInv'
  BY <1>0, <1>4 DEF VerifyRead, Await, UsedInv
<1>5. ASSUME NEW w \in Workers, VerifyDelete(w) PROVE UsedInv'
  BY <1>0, <1>5 DEF VerifyDelete, Goto, Await, UsedInv
<1>6. ASSUME NEW w \in Workers, VerifyFind(w) PROVE UsedInv'
  <2>1. UNCHANGED <<otp, sends, origin, token, issued, parent>>
    BY <1>6 DEF VerifyFind
  <2>2. \A v \in Workers : v # w => /\ pc'[v] = pc[v] /\ code'[v] = code[v]
                                   /\ ses'[v] = ses[v] /\ old'[v] = old[v]
    BY <1>0, <1>6 DEF VerifyFind, Goto, Await, Finish
  <2>3. \/ pc'[w] \in {"idle", "expire", "send", "update"}
        \/ pc'[w] \in {"create", "upgrade", "open"} /\ code'[w] = code[w]
             /\ pc[w] \in {"find", "create", "upgrade"}
    BY <1>0, <1>6 DEF VerifyFind, Goto, Await, Finish
  <2> QED
    BY <1>0, <2>1, <2>2, <2>3, UsedKept
<1>7. ASSUME NEW w \in Workers, VerifyCreate(w) PROVE UsedInv'
  <2>1. UNCHANGED <<otp, sends, origin, token, issued, parent>>
    BY <1>7 DEF VerifyCreate
  <2>2. \A v \in Workers : v # w => /\ pc'[v] = pc[v] /\ code'[v] = code[v]
                                   /\ ses'[v] = ses[v] /\ old'[v] = old[v]
    BY <1>0, <1>7 DEF VerifyCreate, Goto, Await, Finish
  <2>3. \/ pc'[w] \in {"idle", "expire", "send", "update"}
        \/ pc'[w] \in {"create", "upgrade", "open"} /\ code'[w] = code[w]
             /\ pc[w] \in {"find", "create", "upgrade"}
    BY <1>0, <1>7 DEF VerifyCreate, Goto, Await, Finish
  <2> QED
    BY <1>0, <2>1, <2>2, <2>3, UsedKept
<1>8. ASSUME NEW w \in Workers, VerifyUpgrade(w) PROVE UsedInv'
  <2>1. UNCHANGED <<otp, sends, origin, token, issued, parent>>
    BY <1>8 DEF VerifyUpgrade
  <2>2. \A v \in Workers : v # w => /\ pc'[v] = pc[v] /\ code'[v] = code[v]
                                   /\ ses'[v] = ses[v] /\ old'[v] = old[v]
    BY <1>0, <1>8 DEF VerifyUpgrade, Goto, Await, Finish
  <2>3. \/ pc'[w] \in {"idle", "expire", "send", "update"}
        \/ pc'[w] \in {"create", "upgrade", "open"} /\ code'[w] = code[w]
             /\ pc[w] \in {"find", "create", "upgrade"}
    BY <1>0, <1>8 DEF VerifyUpgrade, Goto, Await, Finish
  <2> QED
    BY <1>0, <2>1, <2>2, <2>3, UsedKept
<1>9. ASSUME NEW w \in Workers, NEW s \in Sessions, VerifyOpen(w, s) PROVE UsedInv'
  <2>1. /\ UNCHANGED <<otp, sends, parent>> /\ token[s] = 0 /\ code[w] \in 1 .. sends /\ code[w] # otp
        /\ token' = [token EXCEPT ![s] = 1] /\ issued' = [issued EXCEPT ![s] = 1]
        /\ origin' = [origin EXCEPT ![s] = code[w]]
    BY <1>0, <1>9 DEF VerifyOpen, UsedInv
  <2>2. \A v \in Workers : IF v = w THEN pc'[v] = "idle"
                          ELSE /\ pc'[v] = pc[v] /\ code'[v] = code[v]
                               /\ ses'[v] = ses[v] /\ old'[v] = old[v]
    BY <1>0, <1>9 DEF VerifyOpen, Finish, Await
  <2>3. \A r \in Sessions : /\ token'[r] = issued'[r] /\ token[r] <= token'[r]
                            /\ token'[r] \in Nat /\ token[r] \in Nat
    BY <1>0, <2>1 DEF UsedInv
  <2>4. \A r \in Sessions : origin'[r] # 0 => origin'[r] <= sends' /\ origin'[r] # otp'
    BY <1>0, <2>1 DEF UsedInv
  <2>5. \A r \in Sessions : \A n \in 1 .. MaxTokens :
          parent'[r][n] # 0 => parent'[r][n] < n /\ n <= token'[r]
    <3>1. \A r \in Sessions : \A n \in 1 .. MaxTokens :
            parent[r][n] # 0 => parent[r][n] < n /\ n <= token[r]
      BY <1>0 DEF UsedInv
    <3> HIDE DEF TypeOK
    <3> QED
      BY <2>1, <2>3, <3>1
  <2>6. \A v \in Workers : pc'[v] = "rotate" =>
          ses'[v] \in Sessions /\ old'[v] \in 1 .. token'[ses'[v]]
    <3>1. \A v \in Workers : pc[v] = "rotate" =>
            ses[v] \in Sessions /\ old[v] \in 1 .. token[ses[v]]
      BY <1>0 DEF UsedInv
    <3> HIDE DEF TypeOK
    <3> QED
      BY <2>2, <2>3, <3>1
  <2>7. \A v \in Workers :
          pc'[v] \in {"delete", "find", "create", "upgrade", "open"} =>
            code'[v] \in 1 .. sends' /\ (pc'[v] # "delete" => code'[v] # otp')
    BY <1>0, <2>1, <2>2 DEF UsedInv
  <2>8. otp' <= sends'
    BY <1>0, <2>1 DEF UsedInv
  <2> HIDE DEF TypeOK
  <2> QED
    BY <2>3, <2>4, <2>5, <2>6, <2>7, <2>8 DEF UsedInv
<1>10. ASSUME NEW w \in Workers, NEW s \in Sessions,
             NEW t \in 1 .. issued[s], RefreshRead(w, s, t)
      PROVE  UsedInv'
  BY <1>0, <1>10 DEF RefreshRead, Await, UsedInv
<1>11. ASSUME NEW w \in Workers, RefreshSave(w) PROVE UsedInv'
  <2> DEFINE s == ses[w]
             n == issued[s] + 1
  <2>1. s \in Sessions /\ old[w] \in 1 .. token[s] /\ issued[s] < MaxTokens /\ token[s] = issued[s]
    BY <1>0, <1>11, RoomLeft DEF RefreshSave, UsedInv
  <2>2. issued[s] \in Nat /\ n \in 1 .. MaxTokens /\ old[w] \in Nat /\ old[w] < n
    BY <1>0, <2>1
  <2>3. /\ token' = [token EXCEPT ![s] = n] /\ issued' = [issued EXCEPT ![s] = n]
        /\ UNCHANGED <<otp, sends, origin>>
        /\ parent' = [parent EXCEPT ![s][n] = old[w]]
    BY <1>11 DEF RefreshSave
  <2>4. \A r \in Sessions : \A m \in 1 .. MaxTokens :
          parent'[r][m] = IF r = s /\ m = n THEN old[w] ELSE parent[r][m]
    <3>1. parent \in [Sessions -> [1 .. MaxTokens -> 0 .. MaxTokens]]
      BY <1>0
    <3> HIDE DEF TypeOK, s, n
    <3> QED
      BY <2>1, <2>2, <2>3, <3>1
  <2>5. \A r \in Sessions : /\ token'[r] = issued'[r] /\ token[r] <= token'[r]
                            /\ token'[s] = n /\ token'[r] \in Nat /\ token[r] \in Nat
    <3>1. token \in [Sessions -> Nat] /\ issued \in [Sessions -> Nat]
          /\ \A r \in Sessions : token[r] = issued[r]
      BY <1>0 DEF UsedInv
    <3> HIDE DEF TypeOK, n
    <3>2. \A r \in Sessions : /\ token'[r] = IF r = s THEN n ELSE token[r]
                              /\ issued'[r] = IF r = s THEN n ELSE issued[r]
      BY <2>3, <3>1
    <3> QED
      BY <2>1, <2>2, <3>1, <3>2 DEF n
  <2>6. \A v \in Workers : IF v = w THEN pc'[v] = "idle"
                          ELSE /\ pc'[v] = pc[v] /\ code'[v] = code[v]
                               /\ ses'[v] = ses[v] /\ old'[v] = old[v]
    BY <1>0, <1>11 DEF RefreshSave, Finish, Await
  <2>7. \A r \in Sessions : \A m \in 1 .. MaxTokens :
          parent[r][m] # 0 => parent[r][m] < m /\ m <= token[r]
    BY <1>0 DEF UsedInv
  <2>8. \A v \in Workers : pc[v] = "rotate" => ses[v] \in Sessions /\ old[v] \in 1 .. token[ses[v]]
    BY <1>0 DEF UsedInv
  <2> HIDE DEF TypeOK, s, n
  <2>9. \A r \in Sessions : \A m \in 1 .. MaxTokens :
          parent'[r][m] # 0 => parent'[r][m] < m /\ m <= token'[r]
    BY <2>1, <2>2, <2>4, <2>5, <2>7
  <2>10. \A v \in Workers : pc'[v] = "rotate" =>
           ses'[v] \in Sessions /\ old'[v] \in 1 .. token'[ses'[v]]
    BY <2>5, <2>6, <2>8
  <2> QED
    BY <1>0, <2>3, <2>5, <2>6, <2>9, <2>10 DEF UsedInv
<1>12. ASSUME NEW w \in Workers, NEW s \in Sessions, Logout(w, s) PROVE UsedInv'
  BY <1>0, <1>12 DEF Logout, UsedInv
<1>13. ASSUME NEW w \in Workers, NEW u \in Rows, NEW f \in Patches, UpdateRead(w, u, f)
      PROVE UsedInv'
  BY <1>0, <1>13 DEF UpdateRead, Await, UsedInv
<1>14. ASSUME NEW w \in Workers, UpdateSave(w) PROVE UsedInv'
  BY <1>0, <1>14, UsedKept DEF UpdateSave, Await, Finish
<1>15. ASSUME NEW w \in Workers, Abort(w) PROVE UsedInv'
  BY <1>0, <1>15, UsedKept DEF Abort, Await, Finish
<1>16. ASSUME ExpireCode PROVE UsedInv'
  BY <1>0, <1>16 DEF ExpireCode, UsedInv
<1>17. ASSUME ExpireCount PROVE UsedInv'
  BY <1>0, <1>17 DEF ExpireCount, UsedInv
<1>18. ASSUME NEW s \in Sessions, Lapse(s) PROVE UsedInv'
  BY <1>0, <1>18 DEF Lapse, UsedInv
<1>19. CASE UNCHANGED vars
  BY <1>0, <1>19 DEF vars, UsedInv
<1> QED
  BY <1>1, <1>2, <1>3, <1>4, <1>5, <1>6, <1>7, <1>8, <1>9, <1>10, <1>11, <1>12, <1>13,
     <1>14, <1>15, <1>16, <1>17, <1>18, <1>19
  DEF Next, Request, Progress

\* Every step keeps what is said of sessions when requests do not overlap.
LEMMA StepSession == ASSUME Serial, IInv, [Next]_vars PROVE SessionInv'
<1> USE IdentityAssumption
    DEF Serial, SessionInv, CodeOnce, LogoutIsFinal, IInv, BaseInv, UsedInv, TypeOK, redis, tables,
        slot, history
<1>1. ASSUME NEW w \in Workers, SendCount(w) PROVE SessionInv'
  BY <1>1 DEF SendCount, Goto, Await, Finish
<1>2. ASSUME NEW w \in Workers, SendExpire(w) PROVE SessionInv'
  BY <1>2 DEF SendExpire, Goto, Await
<1>3. ASSUME NEW w \in Workers, SendStore(w) PROVE SessionInv'
  BY <1>3 DEF SendStore, Await, Finish
<1>4. ASSUME NEW w \in Workers, NEW c \in 1 .. sends, VerifyRead(w, c) PROVE SessionInv'
  BY <1>4 DEF VerifyRead, Await
<1>5. ASSUME NEW w \in Workers, VerifyDelete(w) PROVE SessionInv'
  BY <1>5 DEF VerifyDelete, Goto, Await
<1>6. ASSUME NEW w \in Workers, VerifyFind(w) PROVE SessionInv'
  BY <1>6 DEF VerifyFind, Goto, Await, Finish
<1>7. ASSUME NEW w \in Workers, VerifyCreate(w) PROVE SessionInv'
  BY <1>7 DEF VerifyCreate, Goto, Await, Finish
<1>8. ASSUME NEW w \in Workers, VerifyUpgrade(w) PROVE SessionInv'
  BY <1>8, SavedUser DEF VerifyUpgrade, Goto, Await, Finish
<1>9. ASSUME NEW w \in Workers, NEW s \in Sessions, VerifyOpen(w, s) PROVE SessionInv'
  BY <1>9 DEF VerifyOpen, Await, Finish
<1>10. ASSUME NEW w \in Workers, NEW s \in Sessions,
             NEW t \in 1 .. issued[s], RefreshRead(w, s, t)
      PROVE  SessionInv'
  BY <1>10 DEF RefreshRead, Await
<1>11. ASSUME NEW w \in Workers, RefreshSave(w) PROVE SessionInv'
  <2> DEFINE s == ses[w]
             n == issued[s] + 1
  <2>1. /\ s \in Sessions /\ s \notin left /\ old[w] = issued[s]
        /\ issued[s] \in Nat /\ n \in 1 .. MaxTokens
    <3>1. issued[ses[w]] < MaxTokens
      <4> HIDE DEF Serial, SessionInv, IInv, BaseInv, UsedInv, TypeOK
      <4> QED
        BY <1>11, RoomLeft DEF IInv, RefreshSave
    <3>2. ses[w] \in Sessions /\ ses[w] \notin left /\ old[w] = token[ses[w]]
      BY <1>11 DEF RefreshSave
    <3>3. token[ses[w]] = issued[ses[w]] /\ issued[ses[w]] \in Nat
      BY <3>2
    <3> HIDE DEF Serial, SessionInv, IInv, BaseInv, UsedInv, TypeOK
    <3> QED
      BY <3>1, <3>2, <3>3
  <2>2. /\ parent' = [parent EXCEPT ![s][n] = old[w]] /\ token' = [token EXCEPT ![s] = n]
        /\ active' \in {active, active \cup {s}} /\ left' = left /\ origin' = origin
    BY <1>11 DEF RefreshSave
  <2>3. \A v \in Workers : pc'[v] = "idle"
    BY <1>11 DEF RefreshSave, Finish, Await
  <2>4. \A r \in Sessions : \A m \in 1 .. MaxTokens :
          parent'[r][m] = IF r = s /\ m = n THEN old[w] ELSE parent[r][m]
    <3>1. parent \in [Sessions -> [1 .. MaxTokens -> 0 .. MaxTokens]]
      OBVIOUS
    <3> HIDE DEF TypeOK, s, n, IInv, BaseInv, UsedInv, SessionInv
    <3> QED
      BY <2>1, <2>2, <3>1
  <2>5. \A r \in Sessions : \A m \in 1 .. MaxTokens : parent'[r][m] \in {0, m - 1}
    <3>1. \A r \in Sessions : \A m \in 1 .. MaxTokens : parent[r][m] \in {0, m - 1}
      OBVIOUS
    <3>2. old[w] = n - 1
      BY <2>1
    <3> HIDE DEF Serial, SessionInv, IInv, BaseInv, UsedInv, TypeOK, s, n
    <3> QED
      BY <2>4, <3>1, <3>2
  <2>6. \A r \in left' : token'[r] # 0
    BY <2>1, <2>2
  <2>7. LogoutIsFinal' /\ CodeOnce'
    BY <2>1, <2>2
  <2> QED
    BY <2>2, <2>3, <2>5, <2>6, <2>7
<1>12. ASSUME NEW w \in Workers, NEW s \in Sessions, Logout(w, s) PROVE SessionInv'
  BY <1>12 DEF Logout
<1>13. ASSUME NEW w \in Workers, NEW u \in Rows, NEW f \in Patches, UpdateRead(w, u, f)
      PROVE SessionInv'
  BY <1>13 DEF UpdateRead, Await
<1>14. ASSUME NEW w \in Workers, UpdateSave(w) PROVE SessionInv'
  BY <1>14, SavedUser DEF UpdateSave, Await, Finish
<1>15. ASSUME NEW w \in Workers, Abort(w) PROVE SessionInv'
  BY <1>15 DEF Abort, Await, Finish
<1>16. ASSUME ExpireCode PROVE SessionInv'
  BY <1>16 DEF ExpireCode
<1>17. ASSUME ExpireCount PROVE SessionInv'
  BY <1>17 DEF ExpireCount
<1>18. ASSUME NEW s \in Sessions, Lapse(s) PROVE SessionInv'
  BY <1>18 DEF Lapse
<1>19. CASE UNCHANGED vars
  BY <1>19 DEF vars
<1> QED
  BY <1>1, <1>2, <1>3, <1>4, <1>5, <1>6, <1>7, <1>8, <1>9, <1>10, <1>11, <1>12, <1>13,
     <1>14, <1>15, <1>16, <1>17, <1>18, <1>19
  DEF Next, Request, Progress

\* Every step keeps what is said of the user.
LEMMA StepUser == ASSUME Serial, IInv, [Next]_vars PROVE AccountInv'
<1> USE IdentityAssumption
    DEF Serial, AccountInv, UserInv, BlockIsKept, Rows, NoUser, IInv, BaseInv, TypeOK,
        redis, tables, slot, history
<1>1. ASSUME NEW w \in Workers, SendCount(w) PROVE AccountInv'
  BY <1>1 DEF SendCount, Goto, Await, Finish
<1>2. ASSUME NEW w \in Workers, SendExpire(w) PROVE AccountInv'
  BY <1>2 DEF SendExpire, Goto, Await
<1>3. ASSUME NEW w \in Workers, SendStore(w) PROVE AccountInv'
  BY <1>3 DEF SendStore, Await, Finish
<1>4. ASSUME NEW w \in Workers, NEW c \in 1 .. sends, VerifyRead(w, c) PROVE AccountInv'
  BY <1>4 DEF VerifyRead, Await
<1>5. ASSUME NEW w \in Workers, VerifyDelete(w) PROVE AccountInv'
  BY <1>5 DEF VerifyDelete, Goto, Await
<1>6. ASSUME NEW w \in Workers, VerifyFind(w) PROVE AccountInv'
  BY <1>6 DEF VerifyFind, Goto, Await, Finish
<1>7. ASSUME NEW w \in Workers, VerifyCreate(w) PROVE AccountInv'
  BY <1>7 DEF VerifyCreate, Goto, Await, Finish
<1>8. ASSUME NEW w \in Workers, VerifyUpgrade(w) PROVE AccountInv'
  BY <1>8, SavedUser DEF VerifyUpgrade, Goto, Await, Finish
<1>9. ASSUME NEW w \in Workers, NEW s \in Sessions, VerifyOpen(w, s) PROVE AccountInv'
  BY <1>9 DEF VerifyOpen, Await, Finish
<1>10. ASSUME NEW w \in Workers, NEW s \in Sessions,
             NEW t \in 1 .. issued[s], RefreshRead(w, s, t)
      PROVE  AccountInv'
  BY <1>10 DEF RefreshRead, Await
<1>11. ASSUME NEW w \in Workers, RefreshSave(w) PROVE AccountInv'
  BY <1>11 DEF RefreshSave, Await, Finish
<1>12. ASSUME NEW w \in Workers, NEW s \in Sessions, Logout(w, s) PROVE AccountInv'
  BY <1>12 DEF Logout
<1>13. ASSUME NEW w \in Workers, NEW u \in Rows, NEW f \in Patches, UpdateRead(w, u, f)
      PROVE AccountInv'
  BY <1>13 DEF UpdateRead, Await
<1>14. ASSUME NEW w \in Workers, UpdateSave(w) PROVE AccountInv'
  <2>1. UserInv'
    BY <1>14 DEF UpdateSave, Await, Finish
  <2>2. user'.status = mem[w].status \/ ("status" \notin set[w] /\ user'.status = user.status)
    BY <1>14, SavedUser DEF UpdateSave
  <2>3. CASE "status" \in set[w]
    <3>1. barred' => mem[w].status = "blocked"
      BY <1>14, <2>3 DEF UpdateSave
    <3> QED
      BY <2>1, <2>2, <2>3, <3>1
  <2>4. CASE "status" \notin set[w]
    <3>1. barred' => barred
      BY <1>14, <2>4 DEF UpdateSave
    <3>2. mem[w].status = user.status
      BY <1>14, <2>4 DEF UpdateSave
    <3> QED
      BY <2>1, <2>2, <3>1, <3>2
  <2> QED
    BY <2>3, <2>4
<1>15. ASSUME NEW w \in Workers, Abort(w) PROVE AccountInv'
  BY <1>15 DEF Abort, Await, Finish
<1>16. ASSUME ExpireCode PROVE AccountInv'
  BY <1>16 DEF ExpireCode
<1>17. ASSUME ExpireCount PROVE AccountInv'
  BY <1>17 DEF ExpireCount
<1>18. ASSUME NEW s \in Sessions, Lapse(s) PROVE AccountInv'
  BY <1>18 DEF Lapse
<1>19. CASE UNCHANGED vars
  BY <1>19 DEF vars
<1> QED
  BY <1>1, <1>2, <1>3, <1>4, <1>5, <1>6, <1>7, <1>8, <1>9, <1>10, <1>11, <1>12, <1>13,
     <1>14, <1>15, <1>16, <1>17, <1>18, <1>19
  DEF Next, Request, Progress

\* What holds whatever overlaps: every reachable state satisfies it.
LEMMA BaseInvariance == Spec => []BaseInv
<1>1. Init => BaseInv
  BY InitIInv DEF IInv
<1>2. BaseInv /\ [Next]_vars => BaseInv'
  BY StepType, StepRoom, StepUsed DEF BaseInv
<1> QED
  BY <1>1, <1>2, PTL DEF Spec

\* The inductive invariant of requests that do not overlap.
LEMMA Invariance == ASSUME Serial PROVE Spec => []IInv
<1>1. Init => IInv
  BY InitIInv
<1>2. IInv /\ [Next]_vars => IInv'
  <2> SUFFICES ASSUME IInv, [Next]_vars PROVE IInv'
    OBVIOUS
  <2>1. BaseInv'
    BY StepType, StepRoom, StepUsed DEF IInv, BaseInv
  <2>2. SessionInv'
    BY StepSession
  <2>3. AccountInv'
    BY StepUser
  <2> QED
    BY <2>1, <2>2, <2>3 DEF IInv
<1> QED
  BY <1>1, <1>2, PTL DEF Spec

\* Every variable keeps its type, however requests overlap.
THEOREM TypeCorrect == Spec => []TypeOK
<1>1. BaseInv => TypeOK
  BY DEF BaseInv
<1> QED
  BY <1>1, BaseInvariance, PTL

\* verifyOtp deletes the code before it opens a session, and rotateRefreshToken stores
\* the new token over the old: a code or a token that was used is refused ever after,
\* even if several requests used it at once.
THEOREM UsedIsOver == Spec => []UsedIsRefused
<1>1. BaseInv => UsedIsRefused
  BY IdentityAssumption DEF BaseInv, UsedInv, TypeOK, UsedIsRefused
<1> QED
  BY <1>1, BaseInvariance, PTL

\* verifyOtp deletes a code before it opens a session, so whatever fails in between,
\* no code opens two.
THEOREM CodesWorkOnce == ASSUME Serial PROVE Spec => []CodeOnce
<1>1. IInv => CodeOnce
  BY DEF IInv, SessionInv, AccountInv
<1> QED
  BY <1>1, Invariance, PTL

\* rotateRefreshToken stores the new token over the old one, so a token that was
\* exchanged is refused.
THEOREM TokensWorkOnce == ASSUME Serial PROVE Spec => []TokenOnce
<1>1. IInv => TokenOnce
  BY IdentityAssumption DEF IInv, SessionInv, TokenOnce
<1> QED
  BY <1>1, Invariance, PTL

\* rotateRefreshToken looks for active sessions only, so a session is over once it
\* was logged out.
THEOREM LogoutLasts == ASSUME Serial PROVE Spec => []LogoutIsFinal
<1>1. IInv => LogoutIsFinal
  BY DEF IInv, SessionInv, AccountInv
<1> QED
  BY <1>1, Invariance, PTL

\* Neither a sign-in nor an upgrade of the role touches the status, so only an
\* administrator lifts a block.
THEOREM BlockLasts == ASSUME Serial PROVE Spec => []BlockIsKept
<1>1. IInv => BlockIsKept
  BY DEF IInv, SessionInv, AccountInv
<1> QED
  BY <1>1, Invariance, PTL

\* verifyOtp refuses a user who is not active before it opens a session.
THEOREM OpensForActive == ASSUME Serial PROVE Spec => OpenedForActive
<1>1. ASSUME IInv, [Next]_vars, NEW s \in Sessions, token[s] = 0, token'[s] # 0
      PROVE  user.status = "active"
  <2> USE <1>1 DEF IInv, SessionInv, AccountInv, redis, tables
  <2>1. ASSUME NEW w \in Workers, NEW r \in Sessions, VerifyOpen(w, r)
        PROVE  user.status = "active"
    BY <2>1 DEF VerifyOpen, UserInv
  <2>2. ASSUME NEW w \in Workers, RefreshSave(w) PROVE user.status = "active"
    BY <2>2 DEF RefreshSave, BaseInv, UsedInv, TypeOK
  <2>3. CASE UNCHANGED token
    BY <2>3
  <2> QED
    BY <2>1, <2>2, <2>3
    DEF Next, Request, Progress, SendCount, SendExpire, SendStore, VerifyRead, VerifyDelete,
        VerifyFind, VerifyCreate, VerifyUpgrade, RefreshRead, Logout, UpdateRead, UpdateSave,
        Abort, ExpireCode, ExpireCount, Lapse, vars
<1>2. IInv /\ [Next]_vars =>
        [\A s \in Sessions : token[s] = 0 /\ token'[s] # 0 => user.status = "active"]_vars
  BY <1>1
<1> QED
  BY <1>2, Invariance, PTL DEF Spec, OpenedForActive

\* The sign-in handlers, taken alone, are an account: what a request read is still so when
\* it writes, and so each write is a step of the account or none.
THEOREM Refinement == ASSUME Serial PROVE Spec => ImplementsAccount
<1>1. Init => Life!Init
  BY DEF Init, Life!Init, NoUser
<1>2. ASSUME IInv, [Next]_vars PROVE [Life!Next]_(Life!vars)
  <2> USE <1>2 DEF redis, tables, slot, history, Life!vars
  <2>0. /\ user \in Rows
        /\ sends \in Nat
        /\ token \in [Sessions -> Nat] /\ issued \in [Sessions -> Nat]
        /\ AccountInv /\ SessionInv /\ UsedInv
    BY IdentityAssumption DEF IInv, BaseInv, TypeOK
  <2>1. ASSUME NEW w \in Workers, SendStore(w) PROVE Life!Next
    BY <2>1 DEF SendStore, Life!Next, Life!Send
  <2>2. ASSUME NEW w \in Workers, VerifyCreate(w) PROVE [Life!Next]_(Life!vars)
    BY <2>0, <2>2 DEF VerifyCreate, Life!Next, Life!Register
  <2>3. ASSUME NEW w \in Workers, VerifyUpgrade(w) PROVE UNCHANGED Life!vars
    BY <2>0, <2>3 DEF VerifyUpgrade, Saved, AccountInv, UserInv
  <2>4. ASSUME NEW w \in Workers, NEW s \in Sessions, VerifyOpen(w, s) PROVE Life!Next
    <3>1. /\ code[w] \in 1 .. sends
          /\ \A r \in Sessions : origin[r] # code[w]
          /\ user.status = "active"
      BY <2>0, <2>4 DEF VerifyOpen, UsedInv, SessionInv, AccountInv, UserInv
    <3>2. Life!Open(s, code[w])
      BY <2>4, <3>1 DEF VerifyOpen, Life!Open
    <3> QED
      BY <3>1, <3>2 DEF Life!Next
  <2>5. ASSUME NEW w \in Workers, RefreshSave(w) PROVE Life!Next
    <3>1. ses[w] \in Sessions /\ ses[w] \in active /\ token[ses[w]] = issued[ses[w]]
      BY <2>0, <2>5 DEF RefreshSave, UsedInv, SessionInv
    <3>2. Life!Exchange(ses[w])
      BY <2>0, <2>5, <3>1 DEF RefreshSave, Life!Exchange
    <3> QED
      BY <3>1, <3>2 DEF Life!Next
  <2>6. ASSUME NEW w \in Workers, NEW s \in Sessions, Logout(w, s) PROVE Life!Next
    <3>1. Life!Logout(s)
      BY <2>6 DEF Logout, Life!Logout
    <3> QED
      BY <3>1 DEF Life!Next
  <2>7. ASSUME NEW w \in Workers, UpdateSave(w) PROVE [Life!Next]_(Life!vars)
    <3>1. /\ user'.status \in {user.status, mem[w].status}
          /\ user.status # "none" /\ mem[w].status # "none"
          /\ mem[w].status \in {"none", "active", "blocked"}
      <4>1. mem[w] \in Rows
        BY <1>2 DEF IInv, BaseInv, TypeOK
      <4> QED
        BY <2>0, <2>7, <4>1 DEF UpdateSave, Saved, AccountInv, UserInv, Rows
    <3>2. UNCHANGED <<sends, origin, token, active>>
      BY <2>7 DEF UpdateSave
    <3> QED
      BY <3>1, <3>2 DEF Life!Next, Life!Administer
  <2>8. CASE UNCHANGED <<user, sends, origin, token, active>>
    BY <2>8
  <2> QED
    BY <2>1, <2>2, <2>3, <2>4, <2>5, <2>6, <2>7, <2>8
    DEF Next, Request, Progress, SendCount, SendExpire, VerifyRead, VerifyDelete, VerifyFind,
        RefreshRead, UpdateRead, Abort, ExpireCode, ExpireCount, Lapse, vars
<1> QED
  BY <1>1, <1>2, Invariance, PTL DEF Spec, ImplementsAccount, Life!Spec
=============================================================================
