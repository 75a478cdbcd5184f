------------------------------ MODULE Sellers ------------------------------
(***************************************************************************)
(* The sellers' side: organisations and their members (orgs/orgs.service.  *)
(* ts), their verification cases (verification/verification.service.ts),   *)
(* what administrators decide of both, products (catalog) and checkout     *)
(* links (checkout).  Each await of a request is a step of its own.        *)
(***************************************************************************)
EXTENDS Naturals, FiniteSets

CONSTANTS
  Orgs,     \* the rows the orgs table may still get
  Others,   \* organisations there are already, of which only the compliance records matter
  Slugs,    \* the slugs that are asked for
  Users,    \* the users that call the API
  Cases,    \* the rows the verification_cases table may hold
  Workers,  \* the slots of concurrent requests
  Rulings,  \* bound: the statuses administrators give to organisations
  Nothing   \* no organisation, slug, user or case

VARIABLES
  slug, status,  \* organisation -> two columns of its row
  member,        \* organisation -> user -> the status of the membership
  compliance,    \* the organisations with a compliance record
  stocked,       \* the organisations with a product
  links,         \* the checkout sessions, as <<organisation, user who asked>>
  case,          \* id -> its verification_cases row
  documented,    \* the cases with documents
  pc, org, usr,  \* worker -> the next await to return, its organisation and user
  copy,          \* worker -> the profile it read: slug, status and members
  found,         \* worker -> the case it found
  creator,       \* history: organisation -> who created it
  answered,      \* history: the organisations whose creation was answered
  moved,         \* history: those whose compliance record an update took or brought
  ruled,         \* history: organisation -> the status it last got on purpose
  known,         \* history: case -> the cases there were when its request looked
  seen,          \* history: worker -> the cases there were when it looked
  late,          \* history: the cases that got a document after their decision
  alone          \* no two requests overlap

profile == <<slug, status, ruled>>
people  == <<member, compliance, creator, answered, moved>>
shop    == <<stocked, links>>
files   == <<case, documented, known, late>>
slot    == <<pc, org, usr, copy, found, seen>>
vars    == <<profile, people, shop, files, slot, alone>>

ORG_STATUSES == {"pending_verification", "active", "suspended", "closed"}

ASSUME SellersAssumption ==
  /\ Nothing \notin Orgs \cup Slugs \cup Users \cup Cases /\ Orgs \cap Others = {}
  /\ Rulings \subseteq ORG_STATUSES

Profile == [slug : Slugs, status : ORG_STATUSES, members : SUBSET Users]
NoCopy  == [slug |-> Nothing, status |-> "none", members |-> {}]
\* under_review is a status that nothing sets.
Case    == [org : Orgs, status : {"pending", "approved", "rejected"}]
NoCase  == [org |-> Nothing, status |-> "none"]

TypeOK ==
  /\ slug \in [Orgs -> Slugs \cup {Nothing}]
  /\ status \in [Orgs -> ORG_STATUSES \cup {"none"}]
  /\ ruled \in [Orgs -> ORG_STATUSES \cup {"none"}]
  /\ member \in [Orgs -> [Users -> {"none", "invited", "active"}]]
  /\ compliance \subseteq Orgs \cup Others /\ stocked \subseteq Orgs /\ answered \subseteq Orgs
  /\ moved \subseteq Orgs
  /\ links \subseteq Orgs \X Users
  /\ creator \in [Orgs -> Users \cup {Nothing}]
  /\ case \in [Cases -> Case \cup {NoCase}]
  /\ known \in [Cases -> SUBSET Cases]
  /\ documented \subseteq Cases /\ late \subseteq documented
  /\ pc \in [Workers -> {"idle", "org", "owner", "compliance", "profile", "invite",
                         "case", "casefile", "document"}]
  /\ org \in [Workers -> Orgs \cup {Nothing}] /\ usr \in [Workers -> Users \cup {Nothing}]
  /\ copy \in [Workers -> Profile \cup {NoCopy}]
  /\ found \in [Workers -> Cases \cup {Nothing}]
  /\ seen \in [Workers -> SUBSET Cases]
  /\ alone \in BOOLEAN

Init ==
  /\ slug = [o \in Orgs |-> Nothing]
  /\ status = [o \in Orgs |-> "none"] /\ ruled = [o \in Orgs |-> "none"]
  /\ member = [o \in Orgs |-> [u \in Users |-> "none"]]
  /\ compliance \in SUBSET Others /\ stocked = {} /\ links = {} /\ answered = {}
  /\ moved = {}
  /\ creator = [o \in Orgs |-> Nothing]
  /\ case = [c \in Cases |-> NoCase] /\ known = [c \in Cases |-> {}]
  /\ documented = {} /\ late = {}
  /\ pc = [w \in Workers |-> "idle"]
  /\ org = [w \in Workers |-> Nothing] /\ usr = [w \in Workers |-> Nothing]
  /\ copy = [w \in Workers |-> NoCopy] /\ found = [w \in Workers |-> Nothing]
  /\ seen = [w \in Workers |-> {}]
  /\ alone \in BOOLEAN

Stored      == {o \in Orgs : status[o] # "none"}
Team(o)     == {u \in Users : member[o][u] # "none"}
CasesOf(o)  == {c \in Cases : case[c].org = o}
Pending(o)  == {c \in CasesOf(o) : case[c].status = "pending"}
Free        == alone => \A w \in Workers : pc[w] = "idle"
Start(w)    == pc[w] = "idle" /\ Free

Await(w, at, o, u) ==
  /\ pc' = [pc EXCEPT ![w] = at]
  /\ org' = [org EXCEPT ![w] = o]
  /\ usr' = [usr EXCEPT ![w] = u]

Finish(w) ==
  /\ Await(w, "idle", Nothing, Nothing)
  /\ copy' = [copy EXCEPT ![w] = NoCopy]
  /\ found' = [found EXCEPT ![w] = Nothing]
  /\ seen' = [seen EXCEPT ![w] = {}]

-----------------------------------------------------------------------------
\* OrgsService.create: no organisation has the slug ...
CreateFind(w, u, s) ==
  /\ Start(w)
  /\ s \notin {slug[o] : o \in Orgs}
  /\ Await(w, "org", Nothing, u)
  /\ copy' = [copy EXCEPT ![w] = [slug |-> s, status |-> "pending_verification", members |-> {}]]
  /\ UNCHANGED <<profile, people, shop, files, found, seen, alone>>

\* ... so one is inserted, unless another request was faster: slug is unique ...
InsertOrg(w) ==
  /\ pc[w] = "org"
  /\ IF copy[w].slug \notin {slug[o] : o \in Orgs}
     THEN \E o \in Orgs \ Stored :
            /\ slug' = [slug EXCEPT ![o] = copy[w].slug]
            /\ status' = [status EXCEPT ![o] = copy[w].status]
            /\ ruled' = [ruled EXCEPT ![o] = copy[w].status]
            /\ creator' = [creator EXCEPT ![o] = usr[w]]
            /\ Await(w, "owner", o, usr[w])
            /\ UNCHANGED <<copy, found, seen>>
     ELSE UNCHANGED <<profile, creator>> /\ Finish(w)
  /\ UNCHANGED <<member, compliance, answered, moved, shop, files, alone>>

\* Mutant: the compliance record is inserted before the owner.
ComplianceFirst(w) ==
  /\ pc[w] = "owner"
  /\ compliance' = compliance \cup {org[w]}
  /\ Await(w, "compliance", org[w], usr[w])
  /\ UNCHANGED <<profile, member, creator, answered, moved, shop, files,
                 copy, found, seen, alone>>

\* ... then the owner's membership ...
InsertOwner(w) ==
  /\ pc[w] = "owner"
  /\ member' = [member EXCEPT ![org[w]][usr[w]] = "active"]
  /\ Await(w, "compliance", org[w], usr[w])
  /\ UNCHANGED <<profile, compliance, creator, answered, moved, shop, files,
                 copy, found, seen, alone>>

\* ... then the compliance record; its org_id is unique.
InsertCompliance(w) ==
  /\ pc[w] = "compliance"
  /\ IF org[w] \notin compliance
     THEN compliance' = compliance \cup {org[w]} /\ answered' = answered \cup {org[w]}
     ELSE UNCHANGED <<compliance, answered>>
  /\ Finish(w)
  /\ UNCHANGED <<profile, member, creator, moved, shop, files, alone>>

\* OrgsService.update: anyone with a membership passes; the row is read with its members ...
UpdateRead(w, o) ==
  /\ Start(w)
  /\ Team(o) # {}
  /\ copy' = [copy EXCEPT ![w] = [slug |-> slug[o], status |-> status[o], members |-> Team(o)]]
  /\ Await(w, "profile", o, Nothing)
  /\ UNCHANGED <<profile, people, shop, files, found, seen, alone>>

\* Mutant: saving a profile sends the organisation back to verification.
UpdateReverify(w, s) ==
  /\ pc[w] = "profile"
  /\ status' = [status EXCEPT ![org[w]] = "pending_verification"]
  /\ Finish(w)
  /\ UNCHANGED <<slug, ruled, people, shop, files, alone>>

\* ... and what differs from the row now is saved: the new slug or the one read, and the
\* status read unless it changed as the ORM compared.  To drop a member who joined since,
\* the ORM would clear a column that is not nullable: nothing is saved then.
UpdateSave(w, s) ==
  /\ pc[w] = "profile"
  /\ \/ /\ Team(org[w]) = copy[w].members
        /\ s \in {copy[w].slug, slug[org[w]]} \cup (Slugs \ {slug[o] : o \in Orgs})
        /\ \A o \in Orgs \ {org[w]} : slug[o] # s
        /\ slug' = [slug EXCEPT ![org[w]] = s]
        /\ \E t \in {copy[w].status, status[org[w]]} : status' = [status EXCEPT ![org[w]] = t]
     \/ Team(org[w]) # copy[w].members /\ s = slug[org[w]] /\ UNCHANGED <<slug, status>>
  /\ Finish(w)
  /\ UNCHANGED <<ruled, people, shop, files, alone>>

\* OrgsService.updateCompliance, by anyone with a membership: the record found, or a new
\* one, is overwritten with whatever the body holds, its id and orgId too, and saved.  So
\* a record may be made for t or leave f for it, if t is an organisation that has none.
UpdateCompliance(o) ==
  /\ Free
  /\ o \in Orgs => Team(o) # {}
  /\ \E t \in (Stored \cup Others) \ compliance, F \in {{f} : f \in compliance} \cup {{}} :
       /\ compliance' = (compliance \ F) \cup {t}
       /\ moved' = IF t = o /\ F = {} THEN moved ELSE moved \cup (Orgs \cap (F \cup {t}))
  /\ UNCHANGED <<profile, member, creator, answered, shop, files, slot, alone>>

\* OrgsService.addMember, by anyone with a membership: the user has none ...
InviteFind(w, o, u) ==
  /\ Start(w)
  /\ Team(o) # {} /\ u \notin Team(o)
  /\ Await(w, "invite", o, u)
  /\ UNCHANGED <<profile, people, shop, files, copy, found, seen, alone>>

\* Mutant: the membership gets a status of the documents.
InvitePending(w) ==
  /\ pc[w] = "invite"
  /\ member' = IF usr[w] \in Team(org[w]) THEN member
               ELSE [member EXCEPT ![org[w]][usr[w]] = "pending"]
  /\ Finish(w)
  /\ UNCHANGED <<profile, compliance, creator, answered, moved, shop, files, alone>>

\* ... so one is inserted, unless another request was faster.  No request activates it.
InviteInsert(w) ==
  /\ pc[w] = "invite"
  /\ member' = IF usr[w] \in Team(org[w]) THEN member
               ELSE [member EXCEPT ![org[w]][usr[w]] = "invited"]
  /\ Finish(w)
  /\ UNCHANGED <<profile, compliance, creator, answered, moved, shop, files, alone>>

\* AdminService.updateOrgStatus and bulkUpdateOrgStatus.
SetStatus(S, s) ==
  /\ Free /\ S # {} /\ S \subseteq Stored
  /\ status' = [o \in Orgs |-> IF o \in S THEN s ELSE status[o]]
  /\ ruled' = [o \in Orgs |-> IF o \in S THEN s ELSE ruled[o]]
  /\ UNCHANGED <<slug, people, shop, files, slot, alone>>

-----------------------------------------------------------------------------
\* CatalogService.create checks no membership.  Products are never changed: PATCH and
\* DELETE api/products/:id carry no organisation, so update finds that it differs.
CreateProduct(o) ==
  /\ Free /\ o \in Stored
  /\ stocked' = stocked \cup {o}
  /\ UNCHANGED <<profile, people, links, files, slot, alone>>

\* Mutant: the status of the membership is not asked for.
CreateLinkAny(o, u) ==
  /\ Free /\ o \in stocked /\ member[o][u] # "none"
  /\ links' = links \cup {<<o, u>>}
  /\ UNCHANGED <<profile, people, stocked, files, slot, alone>>

\* CheckoutService.create: a product, and an active membership of its organisation.
CreateLink(o, u) ==
  /\ Free /\ o \in stocked /\ member[o][u] = "active"
  /\ links' = links \cup {<<o, u>>}
  /\ UNCHANGED <<profile, people, stocked, files, slot, alone>>

-----------------------------------------------------------------------------
\* Mutants: every submission inserts a case; a document goes to any case of the organisation.
SubmitAlways(w, o) ==
  /\ Start(w) /\ o \in Stored
  /\ Await(w, "case", o, Nothing)
  /\ seen' = [seen EXCEPT ![w] = CasesOf(o)]
  /\ UNCHANGED <<profile, people, shop, files, copy, found, alone>>

AddDocumentAny(w, o) ==
  /\ Start(w) /\ o \in Stored
  /\ IF CasesOf(o) # {}
     THEN \E c \in CasesOf(o) : found' = [found EXCEPT ![w] = c] /\ Await(w, "document", o, Nothing)
     ELSE found' = found /\ Await(w, "casefile", o, Nothing)
  /\ seen' = [seen EXCEPT ![w] = CasesOf(o)]
  /\ UNCHANGED <<profile, people, shop, files, copy, alone>>

\* VerificationService.submitCase finds no pending case ...
SubmitCase(w, o) ==
  /\ Start(w) /\ o \in Stored
  /\ Pending(o) = {}
  /\ Await(w, "case", o, Nothing)
  /\ seen' = [seen EXCEPT ![w] = CasesOf(o)]
  /\ UNCHANGED <<profile, people, shop, files, copy, found, alone>>

\* VerificationService.addDocument finds a pending case or none ...
AddDocument(w, o) ==
  /\ Start(w) /\ o \in Stored
  /\ IF Pending(o) # {}
     THEN \E c \in Pending(o) : found' = [found EXCEPT ![w] = c] /\ Await(w, "document", o, Nothing)
     ELSE found' = found /\ Await(w, "casefile", o, Nothing)
  /\ seen' = [seen EXCEPT ![w] = CasesOf(o)]
  /\ UNCHANGED <<profile, people, shop, files, copy, alone>>

\* ... and each inserts one, whatever another request has inserted since ...
InsertCase(w) ==
  /\ pc[w] \in {"case", "casefile"}
  /\ \E c \in Cases :
       /\ case[c] = NoCase
       /\ case' = [case EXCEPT ![c] = [org |-> org[w], status |-> "pending"]]
       /\ known' = [known EXCEPT ![c] = seen[w]]
       /\ IF pc[w] = "case" THEN Finish(w)
          ELSE /\ Await(w, "document", org[w], Nothing)
               /\ found' = [found EXCEPT ![w] = c]
               /\ UNCHANGED <<copy, seen>>
  /\ UNCHANGED <<profile, people, shop, documented, late, alone>>

\* ... and the document is inserted, whatever was decided since.
InsertDocument(w) ==
  /\ pc[w] = "document"
  /\ documented' = documented \cup {found[w]}
  /\ late' = IF case[found[w]].status = "pending" THEN late ELSE late \cup {found[w]}
  /\ Finish(w)
  /\ UNCHANGED <<profile, people, shop, case, known, alone>>

\* approveCase and rejectCase, whatever the case's status; the organisation keeps its own.
Decide(c, s) ==
  /\ Free /\ case[c] # NoCase
  /\ case' = [case EXCEPT ![c].status = s]
  /\ UNCHANGED <<profile, people, shop, documented, known, late, slot, alone>>

-----------------------------------------------------------------------------
\* The awaited call fails, or the server restarts.
Abort(w) ==
  /\ pc[w] # "idle"
  /\ Finish(w)
  /\ UNCHANGED <<profile, people, shop, files, alone>>

Progress(w) ==
  \/ InsertOrg(w) \/ InsertOwner(w) \/ InsertCompliance(w) \/ InviteInsert(w)
  \/ InsertCase(w) \/ InsertDocument(w)
  \/ \E s \in Slugs : UpdateSave(w, s)

SellerRequest(w) ==
  \/ \E u \in Users, s \in Slugs : CreateFind(w, u, s)
  \/ \E o \in Orgs : UpdateRead(w, o) \/ SubmitCase(w, o) \/ AddDocument(w, o)
  \/ \E o \in Orgs, u \in Users : InviteFind(w, o, u)

Next ==
  \/ \E w \in Workers : SellerRequest(w) \/ Progress(w) \/ Abort(w)
  \/ \E o \in Orgs \cup Others : UpdateCompliance(o)
  \/ \E o \in Orgs : CreateProduct(o)
  \/ \E o \in Orgs, u \in Users : CreateLink(o, u)
  \/ \E S \in SUBSET Orgs, s \in Rulings : SetStatus(S, s)
  \/ \E c \in Cases, s \in {"approved", "rejected"} : Decide(c, s)

Spec == Init /\ [][Next]_vars

-----------------------------------------------------------------------------
\* An organisation whose creation was answered has its owner, however many of the three
\* inserts of others were lost.  Unless an update moved its compliance record, it has one,
\* and none that has a record is without its owner.
WholeOrg == \A o \in Orgs :
  /\ o \in answered => creator[o] \in Users /\ member[o][creator[o]] = "active"
  /\ o \in answered \ moved => o \in compliance
  /\ o \in compliance \ moved => creator[o] \in Users /\ member[o][creator[o]] = "active"

\* A checkout link was asked for by the creator of the product's organisation: to be
\* invited, by however many requests at once, never gives an active membership.
LinkByOwner == \A l \in links : l[2] = creator[l[1]]

\* Two cases of an organisation are pending at once only when neither's request could
\* have found the other: nothing but an overlap makes a second one.
CasesOverlap == \A c, d \in Cases :
  c # d /\ case[c] # NoCase /\ case[c].org = case[d].org
  /\ case[c].status = "pending" /\ case[d].status = "pending" => c \notin known[d]

\* When requests do not overlap, an organisation has the status an administrator gave
\* it last, whatever profile saves, verifications and failures came after ...
StatusIsKept == alone => status = ruled

\* ... and no document is added to a case after it was decided.
NothingUnseen == alone => late = {}
=============================================================================
