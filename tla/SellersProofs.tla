--------------------------- MODULE SellersProofs ---------------------------
(***************************************************************************)
(* What module Sellers guarantees for every set of organisations, users,   *)
(* cases and workers.                                                      *)
(***************************************************************************)
EXTENDS Sellers, TLAPS

\* What a slot holds at each await.
SlotInv == \A w \in Workers :
  /\ pc[w] = "org" => copy[w] \in Profile /\ usr[w] \in Users
  /\ pc[w] \in {"owner", "compliance", "profile", "invite", "case", "casefile", "document"} =>
       org[w] \in Orgs /\ status[org[w]] # "none"
  /\ pc[w] = "owner" => usr[w] \in Users /\ usr[w] = creator[org[w]]
  /\ pc[w] \in {"compliance", "invite", "profile"} =>
       creator[org[w]] \in Users /\ member[org[w]][creator[org[w]]] = "active"
  /\ pc[w] = "invite" => usr[w] \in Users
  /\ pc[w] = "profile" => copy[w] \in Profile /\ (alone => copy[w].status = status[org[w]])
  /\ pc[w] \in {"case", "casefile"} =>
       \A d \in seen[w] : case[d] # NoCase /\ case[d].status # "pending"
  /\ pc[w] = "document" =>
       found[w] \in Cases /\ (alone => case[found[w]].status = "pending")
  /\ alone => \A v \in Workers : pc[v] # "idle" /\ pc[w] # "idle" => v = w

\* Only creators are active members, and an organisation that has members has its creator.
PeopleInv ==
  /\ \A o \in Orgs :
       /\ status[o] = "none" => creator[o] = Nothing /\ o \notin compliance
       /\ status[o] # "none" => slug[o] \in Slugs
       /\ o \in answered => creator[o] \in Users /\ member[o][creator[o]] = "active"
       /\ o \in answered \ moved => o \in compliance
       /\ o \in compliance \ moved => creator[o] \in Users /\ member[o][creator[o]] = "active"
       /\ \A u \in Users :
            /\ member[o][u] = "active" => u = creator[o]
            /\ member[o][u] # "none" => creator[o] \in Users /\ member[o][creator[o]] = "active"
  /\ \A o \in Orgs, u \in Users : <<o, u>> \in links => u = creator[o]

\* What a request saw when it inserted a case had been decided.
CaseInv == \A d \in Cases : \A c \in known[d] : case[c] # NoCase /\ case[c].status # "pending"

\* Without overlaps the status is the one that was given.
StatusInv == alone => status = ruled

IInv == TypeOK /\ SlotInv /\ PeopleInv /\ CaseInv /\ StatusInv /\ NothingUnseen

\* The initial states satisfy the inductive invariant.
LEMMA InitIInv == Init => IInv
<1> SUFFICES ASSUME Init PROVE IInv
  OBVIOUS
<1> USE SellersAssumption DEF Init
<1>1. TypeOK
  <2>1. alone \in BOOLEAN
    BY Zenon
  <2> QED
    BY <2>1 DEF TypeOK
<1>2. SlotInv /\ PeopleInv /\ CaseInv /\ StatusInv /\ NothingUnseen
  BY DEF SlotInv, PeopleInv, CaseInv, StatusInv, NothingUnseen
<1> QED
  BY <1>1, <1>2 DEF IInv

\* Every step keeps it.
LEMMA NextIInv == ASSUME IInv, [Next]_vars PROVE IInv'
<1> USE SellersAssumption
    DEF IInv, TypeOK, SlotInv, PeopleInv, CaseInv, StatusInv, NothingUnseen, NoCopy, NoCase, Case,
        Profile, ORG_STATUSES, profile, people, shop, files, slot
<1>1. ASSUME NEW w \in Workers, InsertOrg(w) PROVE IInv'
  <2>1. TypeOK'
    <3>1. copy[w].slug \in Slugs /\ copy[w].status \in ORG_STATUSES /\ usr[w] \in Users
      BY <1>1 DEF InsertOrg
    <3>2. NoCopy \in Profile \cup {NoCopy}
      OBVIOUS
    <3> HIDE DEF Profile, NoCopy, Case, NoCase, ORG_STATUSES, SlotInv, PeopleInv, CaseInv
    <3>3. CASE copy[w].slug \in {slug[o] : o \in Orgs}
      BY <1>1, <3>3 DEF InsertOrg, Await, Finish
    <3>4. CASE copy[w].slug \notin {slug[o] : o \in Orgs}
      <4>1. PICK o \in Orgs : /\ slug' = [slug EXCEPT ![o] = copy[w].slug]
                             /\ status' = [status EXCEPT ![o] = copy[w].status]
                             /\ ruled' = [ruled EXCEPT ![o] = copy[w].status]
                             /\ creator' = [creator EXCEPT ![o] = usr[w]]
                             /\ Await(w, "owner", o, usr[w])
                             /\ UNCHANGED <<copy, found, seen>>
        BY <1>1, <3>4 DEF InsertOrg, Stored
      <4>2. /\ slug' \in [Orgs -> Slugs \cup {Nothing}] /\ creator' \in [Orgs -> Users \cup {Nothing}]
            /\ status' \in [Orgs -> ORG_STATUSES \cup {"none"}]
            /\ ruled' \in [Orgs -> ORG_STATUSES \cup {"none"}]
        BY <3>1, <4>1
      <4> QED
        BY <1>1, <3>1, <4>1, <4>2 DEF InsertOrg, Await
    <3> QED
      BY <3>3, <3>4
  <2>2. SlotInv'
    BY <1>1 DEF InsertOrg, Stored, Await, Finish
  <2>3. PeopleInv'
    <3>1. copy[w].slug \in Slugs /\ copy[w].status # "none" /\ usr[w] \in Users
      BY <1>1 DEF InsertOrg
    <3> HIDE DEF Profile, NoCopy, Case, NoCase, ORG_STATUSES
    <3>2. CASE copy[w].slug \in {slug[o] : o \in Orgs}
      BY <1>1, <3>2 DEF InsertOrg
    <3>3. CASE copy[w].slug \notin {slug[o] : o \in Orgs}
      <4>1. PICK o \in Orgs \ Stored : /\ slug' = [slug EXCEPT ![o] = copy[w].slug]
                                      /\ status' = [status EXCEPT ![o] = copy[w].status]
                                      /\ creator' = [creator EXCEPT ![o] = usr[w]]
        BY <1>1, <3>3 DEF InsertOrg
      <4>2. /\ o \notin compliance /\ o \notin answered
            /\ \A u \in Users : member[o][u] = "none" /\ <<o, u>> \notin links
        BY <4>1 DEF Stored
      <4>3. UNCHANGED <<member, compliance, answered, moved, links>>
        BY <1>1 DEF InsertOrg
      <4>4. \A p \in Orgs \ {o} : /\ slug'[p] = slug[p] /\ status'[p] = status[p]
                                 /\ creator'[p] = creator[p]
        BY <4>1
      <4>5. slug'[o] \in Slugs /\ status'[o] # "none"
        BY <3>1, <4>1
      <4>6. \A p \in Orgs, u \in Users : <<p, u>> \in links => p # o /\ u = creator[p]
        BY <4>2
      <4>7. \A p \in Orgs, u \in Users : <<p, u>> \in links' => u = creator'[p]
        BY <4>3, <4>4, <4>6
      <4>8. ASSUME NEW p \in Orgs
            PROVE /\ status'[p] = "none" => creator'[p] = Nothing /\ p \notin compliance'
                  /\ status'[p] # "none" => slug'[p] \in Slugs
                  /\ p \in answered' =>
                       creator'[p] \in Users /\ member'[p][creator'[p]] = "active"
                  /\ p \in answered' \ moved' => p \in compliance'
                  /\ p \in compliance' \ moved' =>
                       creator'[p] \in Users /\ member'[p][creator'[p]] = "active"
                  /\ \A u \in Users :
                       /\ member'[p][u] = "active" => u = creator'[p]
                       /\ member'[p][u] # "none" =>
                            creator'[p] \in Users /\ member'[p][creator'[p]] = "active"
        <5>1. CASE p = o
          BY <4>2, <4>3, <4>5, <5>1
        <5>2. CASE p # o
          BY <4>3, <4>4, <5>2
        <5> QED
          BY <5>1, <5>2
      <4> HIDE DEF TypeOK, SlotInv, CaseInv
      <4> QED
        BY <4>7, <4>8
    <3> QED
      BY <3>2, <3>3
  <2>4. CaseInv'
    BY <1>1 DEF InsertOrg, Stored, Await, Finish
  <2>5. StatusInv'
    <3>1. StatusInv
      BY DEF IInv
    <3> HIDE DEF TypeOK, SlotInv, PeopleInv, CaseInv, Profile, NoCopy, Case, NoCase, ORG_STATUSES
    <3>2. alone' = alone
      BY <1>1 DEF InsertOrg
    <3>3. \/ UNCHANGED <<status, ruled>>
          \/ \E o \in Orgs : /\ status' = [status EXCEPT ![o] = copy[w].status]
                            /\ ruled' = [ruled EXCEPT ![o] = copy[w].status]
      BY <1>1 DEF InsertOrg
    <3> QED
      BY <3>1, <3>2, <3>3 DEF StatusInv
  <2>6. NothingUnseen'
    BY <1>1 DEF InsertOrg, Stored, Await, Finish
  <2> QED
    BY <2>1, <2>2, <2>3, <2>4, <2>5, <2>6
<1>2. ASSUME NEW w \in Workers, InsertOwner(w) PROVE IInv'
  BY <1>2 DEF InsertOwner, Await
<1>3. ASSUME NEW w \in Workers, InsertCompliance(w) PROVE IInv'
  BY <1>3 DEF InsertCompliance, Await, Finish
<1>4. ASSUME NEW w \in Workers, InviteInsert(w) PROVE IInv'
  BY <1>4 DEF InviteInsert, Team, Await, Finish
<1>5. ASSUME NEW w \in Workers, InsertCase(w) PROVE IInv'
  <2>1. TypeOK'
    <3>1. PICK c \in Cases : /\ case' = [case EXCEPT ![c] = [org |-> org[w], status |-> "pending"]]
                             /\ known' = [known EXCEPT ![c] = seen[w]]
                             /\ \/ Finish(w)
                                \/ /\ Await(w, "document", org[w], Nothing)
                                   /\ found' = [found EXCEPT ![w] = c] /\ UNCHANGED <<copy, seen>>
      BY <1>5 DEF InsertCase
    <3>2. [org |-> org[w], status |-> "pending"] \in Case
      BY <1>5 DEF InsertCase
    <3> HIDE DEF Profile, NoCopy, Case, NoCase, ORG_STATUSES, SlotInv, PeopleInv, CaseInv
    <3>3. case' \in [Cases -> Case \cup {NoCase}] /\ known' \in [Cases -> SUBSET Cases]
      BY <3>1, <3>2
    <3>4. CASE Finish(w)
      BY <1>5, <3>3, <3>4 DEF InsertCase, Await, Finish
    <3>5. CASE Await(w, "document", org[w], Nothing) /\ found' = [found EXCEPT ![w] = c]
               /\ UNCHANGED <<copy, seen>>
      BY <1>5, <3>3, <3>5 DEF InsertCase, Await
    <3> QED
      BY <3>1, <3>4, <3>5
  <2>2. SlotInv'
    <3>1. PICK c \in Cases : /\ case[c] = NoCase
                             /\ case' = [case EXCEPT ![c] = [org |-> org[w], status |-> "pending"]]
                             /\ \/ Finish(w)
                                \/ /\ Await(w, "document", org[w], Nothing)
                                   /\ found' = [found EXCEPT ![w] = c] /\ UNCHANGED <<copy, seen>>
      BY <1>5 DEF InsertCase
    <3>2. \A v \in Workers : c \notin seen[v] \/ pc[v] \notin {"case", "casefile"}
      BY <3>1
    <3> HIDE DEF Profile, NoCopy, Case, ORG_STATUSES, PeopleInv, CaseInv
    <3> QED
      BY <1>5, <3>1, <3>2 DEF InsertCase, Await, Finish
  <2>3. PeopleInv'
    BY <1>5 DEF InsertCase, Await, Finish
  <2>4. CaseInv'
    BY <1>5 DEF InsertCase, Await, Finish
  <2>5. StatusInv'
    BY <1>5 DEF InsertCase, Await, Finish
  <2>6. NothingUnseen'
    BY <1>5 DEF InsertCase, Await, Finish
  <2> QED
    BY <2>1, <2>2, <2>3, <2>4, <2>5, <2>6
<1>6. ASSUME NEW w \in Workers, InsertDocument(w) PROVE IInv'
  BY <1>6 DEF InsertDocument, Await, Finish
<1>7. ASSUME NEW w \in Workers, Abort(w) PROVE IInv'
  BY <1>7 DEF Abort, Await, Finish
<1>8. ASSUME NEW w \in Workers, NEW s \in Slugs, UpdateSave(w, s) PROVE IInv'
  <2>1. TypeOK'
    <3>1. copy[w] \in Profile /\ org[w] \in Orgs /\ copy[w].slug \in Slugs /\ copy[w].status \in ORG_STATUSES
      BY <1>8 DEF UpdateSave
    <3>2. status[org[w]] \in ORG_STATUSES
      BY <1>8 DEF UpdateSave
    <3>3. \/ UNCHANGED <<slug, status>>
          \/ /\ slug' = [slug EXCEPT ![org[w]] = s]
             /\ \E t \in ORG_STATUSES : status' = [status EXCEPT ![org[w]] = t]
      BY <1>8, <3>1, <3>2 DEF UpdateSave
    <3> HIDE DEF Profile, NoCopy, Case, NoCase, ORG_STATUSES, SlotInv, PeopleInv, CaseInv
    <3>4. slug' \in [Orgs -> Slugs \cup {Nothing}] /\ status' \in [Orgs -> ORG_STATUSES \cup {"none"}]
      <4>1. ASSUME NEW t \in ORG_STATUSES, status' = [status EXCEPT ![org[w]] = t]
            PROVE status' \in [Orgs -> ORG_STATUSES \cup {"none"}]
        BY <4>1
      <4>2. CASE slug' = [slug EXCEPT ![org[w]] = s]
        BY <4>1, <4>2, <3>3
      <4>3. CASE UNCHANGED <<slug, status>>
        BY <4>3
      <4> QED
        BY <4>2, <4>3, <3>3
    <3> QED
      BY <1>8, <3>4 DEF UpdateSave, Await, Finish
  <2>2. SlotInv'
    BY <1>8 DEF UpdateSave, Team, Await, Finish
  <2>3. PeopleInv'
    <3>1. copy[w] \in Profile /\ org[w] \in Orgs /\ copy[w].slug \in Slugs /\ copy[w].status \in ORG_STATUSES
      BY <1>8 DEF UpdateSave
    <3>2. status[org[w]] \in ORG_STATUSES
      BY <1>8 DEF UpdateSave
    <3>3. \/ UNCHANGED <<slug, status>>
          \/ /\ slug' = [slug EXCEPT ![org[w]] = s]
             /\ \E t \in ORG_STATUSES : status' = [status EXCEPT ![org[w]] = t]
      BY <1>8, <3>1, <3>2 DEF UpdateSave
    <3>4. "none" \notin ORG_STATUSES
      OBVIOUS
    <3> HIDE DEF Profile, NoCopy, Case, NoCase, ORG_STATUSES
    <3>5. \A o \in Orgs : status'[o] = "none" <=> status[o] = "none"
      BY <3>2, <3>3, <3>4
    <3>6. \A o \in Orgs : status'[o] # "none" => slug'[o] \in Slugs
      BY <3>3, <3>5
    <3>7. UNCHANGED <<member, compliance, creator, answered, moved, links>>
      BY <1>8 DEF UpdateSave
    <3> HIDE DEF TypeOK, SlotInv, CaseInv
    <3> QED
      BY <3>5, <3>6, <3>7
  <2>4. CaseInv'
    BY <1>8 DEF UpdateSave, Team, Await, Finish
  <2>5. StatusInv'
    BY <1>8 DEF UpdateSave, Team, Await, Finish
  <2>6. NothingUnseen'
    BY <1>8 DEF UpdateSave, Team, Await, Finish
  <2> QED
    BY <2>1, <2>2, <2>3, <2>4, <2>5, <2>6
<1>9. ASSUME NEW w \in Workers, NEW u \in Users, NEW s \in Slugs, CreateFind(w, u, s) PROVE IInv'
  BY <1>9 DEF CreateFind, Start, Free, Await
<1>10. ASSUME NEW w \in Workers, NEW o \in Orgs, UpdateRead(w, o) PROVE IInv'
  <2>1. TypeOK'
    <3>1. status[o] # "none" /\ slug[o] \in Slugs
      BY <1>10 DEF UpdateRead, Team
    <3>2. [slug |-> slug[o], status |-> status[o], members |-> Team(o)] \in Profile
      BY <3>1 DEF Team
    <3> HIDE DEF Profile, NoCopy, Case, NoCase, ORG_STATUSES, SlotInv, PeopleInv, CaseInv
    <3> QED
      BY <1>10, <3>2 DEF UpdateRead, Await
  <2>2. SlotInv'
    <3>1. /\ status[o] # "none" /\ slug[o] \in Slugs
          /\ creator[o] \in Users /\ member[o][creator[o]] = "active"
      BY <1>10 DEF UpdateRead, Team
    <3>2. [slug |-> slug[o], status |-> status[o], members |-> Team(o)] \in Profile
      BY <3>1 DEF Team
    <3> HIDE DEF Profile, NoCopy, Case, NoCase, ORG_STATUSES
    <3> QED
      BY <1>10, <3>1, <3>2 DEF UpdateRead, Start, Free, Await
  <2>3. PeopleInv'
    BY <1>10 DEF UpdateRead, Start, Free, Team, Await
  <2>4. CaseInv'
    BY <1>10 DEF UpdateRead, Start, Free, Team, Await
  <2>5. StatusInv'
    BY <1>10 DEF UpdateRead, Start, Free, Team, Await
  <2>6. NothingUnseen'
    BY <1>10 DEF UpdateRead, Start, Free, Team, Await
  <2> QED
    BY <2>1, <2>2, <2>3, <2>4, <2>5, <2>6
<1>11. ASSUME NEW w \in Workers, NEW o \in Orgs, SubmitCase(w, o) PROVE IInv'
  BY <1>11 DEF SubmitCase, Start, Free, Stored, CasesOf, Pending, Await
<1>12. ASSUME NEW w \in Workers, NEW o \in Orgs, AddDocument(w, o) PROVE IInv'
  <2>1. TypeOK'
    <3> HIDE DEF Profile, NoCopy, Case, NoCase, ORG_STATUSES, SlotInv, PeopleInv, CaseInv
    <3>1. CASE Pending(o) = {}
      <4>1. /\ found' = found /\ Await(w, "casefile", o, Nothing)
            /\ seen' = [seen EXCEPT ![w] = CasesOf(o)]
            /\ UNCHANGED <<profile, people, shop, files, copy, alone>>
        BY <1>12, <3>1 DEF AddDocument
      <4> QED
        BY <4>1 DEF CasesOf, Await
    <3>2. CASE Pending(o) # {}
      <4>1. PICK c \in Pending(o) : found' = [found EXCEPT ![w] = c]
        BY <1>12, <3>2 DEF AddDocument
      <4>2. /\ Await(w, "document", o, Nothing)
            /\ seen' = [seen EXCEPT ![w] = CasesOf(o)]
            /\ UNCHANGED <<profile, people, shop, files, copy, alone>>
        BY <1>12, <3>2 DEF AddDocument
      <4>3. c \in Cases
        BY DEF Pending, CasesOf
      <4> QED
        BY <4>1, <4>2, <4>3 DEF CasesOf, Await
    <3> QED
      BY <3>1, <3>2
  <2>2. SlotInv'
    BY <1>12 DEF AddDocument, Start, Free, Stored, CasesOf, Pending, Await
  <2>3. PeopleInv'
    BY <1>12 DEF AddDocument, Start, Free, Stored, CasesOf, Pending, Await
  <2>4. CaseInv'
    BY <1>12 DEF AddDocument, Start, Free, Stored, CasesOf, Pending, Await
  <2>5. StatusInv'
    BY <1>12 DEF AddDocument, Start, Free, Stored, CasesOf, Pending, Await
  <2>6. NothingUnseen'
    BY <1>12 DEF AddDocument, Start, Free, Stored, CasesOf, Pending, Await
  <2> QED
    BY <2>1, <2>2, <2>3, <2>4, <2>5, <2>6
<1>13. ASSUME NEW w \in Workers, NEW o \in Orgs, NEW u \in Users, InviteFind(w, o, u) PROVE IInv'
  BY <1>13 DEF InviteFind, Start, Free, Team, Await
<1>14. ASSUME NEW o \in Orgs \cup Others, UpdateCompliance(o) PROVE IInv'
  <2>1. PICK t \in (Stored \cup Others) \ compliance, F \in {{f} : f \in compliance} \cup {{}} :
          /\ compliance' = (compliance \ F) \cup {t}
          /\ moved' = IF t = o /\ F = {} THEN moved ELSE moved \cup (Orgs \cap (F \cup {t}))
    BY <1>14 DEF UpdateCompliance
  <2>2. /\ UNCHANGED <<profile, member, creator, answered, shop, files, slot, alone>>
        /\ o \in Orgs => Team(o) # {}
    BY <1>14 DEF UpdateCompliance
  <2>3. TypeOK'
    BY <2>1, <2>2 DEF Stored
  <2>4. ASSUME NEW p \in Orgs
        PROVE  /\ status[p] = "none" => p \notin compliance'
               /\ p \in answered \ moved' => p \in compliance'
               /\ p \in compliance' \ moved' =>
                    creator[p] \in Users /\ member[p][creator[p]] = "active"
    BY <2>1, <2>2, <2>4 DEF Stored, Team
  <2>5. PeopleInv'
    BY <2>2, <2>4
  <2>6. SlotInv' /\ CaseInv' /\ StatusInv' /\ NothingUnseen'
    BY <2>2
  <2> QED
    BY <2>3, <2>5, <2>6
<1>15. ASSUME NEW o \in Orgs, CreateProduct(o) PROVE IInv'
  BY <1>15 DEF CreateProduct, Free, Stored
<1>16. ASSUME NEW o \in Orgs, NEW u \in Users, CreateLink(o, u) PROVE IInv'
  BY <1>16 DEF CreateLink, Free
<1>17. ASSUME NEW S \in SUBSET Orgs, NEW s \in Rulings, SetStatus(S, s) PROVE IInv'
  BY <1>17 DEF SetStatus, Free, Stored
<1>18. ASSUME NEW c \in Cases, NEW s \in {"approved", "rejected"}, Decide(c, s) PROVE IInv'
  <2>1. TypeOK'
    <3>0. case[c] \in Case
      BY <1>18 DEF Decide
    <3>1. [case[c] EXCEPT !.status = s] \in Case
      BY <3>0
    <3>2. case' = [case EXCEPT ![c] = [case[c] EXCEPT !.status = s]]
      BY <1>18 DEF Decide
    <3> HIDE DEF Profile, NoCopy, Case, NoCase, ORG_STATUSES, SlotInv, PeopleInv, CaseInv
    <3> QED
      BY <1>18, <3>1, <3>2 DEF Decide
  <2>2. SlotInv'
    BY <1>18 DEF Decide, Free
  <2>3. PeopleInv'
    BY <1>18 DEF Decide, Free
  <2>4. CaseInv'
    BY <1>18 DEF Decide, Free
  <2>5. StatusInv'
    BY <1>18 DEF Decide, Free
  <2>6. NothingUnseen'
    BY <1>18 DEF Decide, Free
  <2> QED
    BY <2>1, <2>2, <2>3, <2>4, <2>5, <2>6
<1>19. CASE UNCHANGED vars
  BY <1>19 DEF vars
<1> QED
  <2> HIDE DEF IInv
  <2> QED
    BY <1>1, <1>2, <1>3, <1>4, <1>5, <1>6, <1>7, <1>8, <1>9, <1>10, <1>11, <1>12, <1>13, <1>14, <1>15, <1>16, <1>17, <1>18, <1>19 DEF Next, SellerRequest, Progress

\* The inductive invariant holds of every behaviour.
THEOREM Invariance == Spec => []IInv
<1>1. Init => IInv
  BY InitIInv
<1>2. IInv /\ [Next]_vars => IInv'
  BY NextIInv
<1> QED
  BY <1>1, <1>2, PTL DEF Spec

\* Every variable of the sellers' side keeps its type.
THEOREM TypeCorrect == Spec => []TypeOK
<1>1. IInv => TypeOK
  BY DEF IInv
<1> QED
  BY <1>1, Invariance, PTL

\* create inserts the organisation, the owner and the compliance record in that order: an
\* answer means that the owner is there, whatever failed.  Unless updateCompliance wrote
\* a record's id or orgId, it means the record too, and no record is without an owner.
THEOREM CreatedWhole == Spec => []WholeOrg
<1>1. IInv => WholeOrg
  BY DEF IInv, PeopleInv, WholeOrg
<1> QED
  BY <1>1, Invariance, PTL

\* addMember never makes a membership active, and a checkout link needs an active one.
THEOREM LinksAreOwned == Spec => []LinkByOwner
<1>1. IInv => LinkByOwner
  <2> SUFFICES ASSUME IInv, NEW l \in links PROVE l[2] = creator[l[1]]
    BY DEF LinkByOwner
  <2>1. PICK o \in Orgs, u \in Users : l = <<o, u>>
    BY DEF IInv, TypeOK
  <2> QED
    BY <2>1 DEF IInv, PeopleInv
<1> QED
  BY <1>1, Invariance, PTL

\* The requests that insert a case have looked for a pending one, and a decided case is
\* never pending again.
THEOREM CasesOverlapOnly == Spec => []CasesOverlap
<1>1. IInv => CasesOverlap
  BY DEF IInv, CaseInv, CasesOverlap
<1> QED
  BY <1>1, Invariance, PTL

\* Without overlapping requests a profile is saved with the status it was read with.
THEOREM StatusKept == Spec => []StatusIsKept
<1>1. IInv => StatusIsKept
  BY DEF IInv, StatusInv, StatusIsKept
<1> QED
  BY <1>1, Invariance, PTL

\* Without overlapping requests the case that addDocument found is still pending when
\* the document is inserted.
THEOREM DocumentsAreSeen == Spec => []NothingUnseen
<1>1. IInv => NothingUnseen
  BY DEF IInv
<1> QED
  BY <1>1, Invariance, PTL
=============================================================================
