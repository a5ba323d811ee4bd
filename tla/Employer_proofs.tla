--------------------------- MODULE Employer_proofs ---------------------------
(***************************************************************************)
(* What holds of Employer for every set of requests, companies, addresses   *)
(* and candidates: a workspace keeps its owner, a company writes about its  *)
(* own candidates only, a campaign says what its queue says, and the        *)
(* history of stages is a chain.                                            *)
(***************************************************************************)
EXTENDS Employer, Lists_proofs, FiniteSetTheorems, TLAPS

---------------------------------------------------------------------------
(* Requests *)

(* A request is a record with its fields. *)
CallFields == {"op", "pc", "company", "what", "todo", "cands", "row", "cur", "items"}
IsCall(c) == c = [f \in CallFields |-> c[f]]

ReqInv ==
  /\ req = [q \in Request |-> req[q]]
  /\ \A q \in Request : IsCall(req[q])

---------------------------------------------------------------------------
(* The team *)

IsMember(m) ==
  m = [company |-> m.company, user |-> m.user, invited |-> m.invited,
       role |-> m.role, status |-> m.status]

(* The row an owner got with the company, which has the company's name. *)
HasFounder(k) == members[k] # NoRow /\ members[k].company = k /\ members[k].role = "owner"

(* The steps of a registration that has not written its team row, nor its   *)
(* company, yet.                                                            *)
Unlisted   == {"waiting", "pickSlug", "createCompany", "createUser", "addOwner"}
Unfounded  == {"waiting", "pickSlug", "createCompany"}
TeamPc     == Unlisted \cup {"findMember", "writeMember"}

(* What a request knows of the team when its record is c. *)
TeamKnows(q, c) ==
  /\ c.pc \in Unlisted => members[q] = NoRow
  /\ c.pc \in Unfounded => companies[q] = Nil
  /\ c.pc \in Unlisted \ {"waiting"} => c.what \in Email
  /\ c.pc = "createCompany" => c.items \in Slug
  /\ c.pc \in {"createUser", "addOwner"} => companies[q] # Nil
  /\ c.pc = "writeMember" =>
       /\ c.row \in Row /\ members[c.row] # NoRow
       /\ members[c.row].company = c.row => c.what \in {"owner", Nil}

(* The inductive invariant of the team.  What is needed besides             *)
(* WorkspaceKept is which row keeps the role of an owner: the one that was  *)
(* written with the company, of which every update knows, whenever it read  *)
(* the role, that it may not take it away.                                  *)
TeamInv ==
  /\ companies = [k \in Row |-> companies[k]]
  /\ users = [e \in Email |-> users[e]]
  /\ members = [m \in Row |-> members[m]]
  /\ stops \in Nat
  /\ \A e \in Email : users[e] \in Row \cup {Nil}
  /\ \A m \in Row : members[m] # NoRow =>
       IsMember(members[m]) /\ \E k \in Row : members[m].company = k /\ HasFounder(k)
  /\ \A s \in sessions : \E k \in Row : s.company = k /\ HasFounder(k)
  /\ \A q \in Request : TeamKnows(q, req[q])
  /\ RegisteredHasWorkspace

---------------------------------------------------------------------------
(* The talent side *)

IsCampaign(m) == m = [company |-> m.company, cands |-> m.cands,
                      status |-> m.status, summary |-> m.summary]

(* Candidate c is company k's own, the company's job, its campaign.  None   *)
(* of the three ever changes.                                               *)
Owns(k, c) == k \in Row /\ c \in Candidate /\ candidates[c] = k
OwnJob(k, j) == j \in Request /\ jobs[j] # NoRow /\ jobs[j].company = k
OwnRow(k, m) == m \in Request /\ OwnCampaign(k, m)

NoJobYet      == {"waiting", "ensure", "addCandidate", "findJob", "addPool"}
NoCampaignYet == {"waiting", "ensure", "addCandidate", "insertCampaign"}
Ensuring      == {"ensure", "addCandidate"}
Staging       == {"findJob", "addPool", "readStage", "writeStage"}
Queueing      == {"replaceQueue", "listQueue", "writeItem", "writeCampaign"}
TalentPc      == Ensuring \cup Staging \cup Queueing \cup {"insertCampaign", "mark", "note"}

(* What a request knows of the talent side when its record is c: which      *)
(* candidates it has made sure of, its job and its campaign.                *)
TalentKnows(q, c) ==
  /\ c.pc \in NoJobYet => jobs[q] = NoRow
  /\ c.pc \in NoCampaignYet => campaigns[q] = NoRow
  /\ c.pc \in TalentPc => c.company \in Row /\ c.cands \subseteq Candidate
  /\ c.pc \in Ensuring =>
       /\ c.op \in {"stage", "createCampaign", "prepareQueue", "bulkTag", "bulkNote"}
       /\ c.cands # {} /\ c.todo \subseteq c.cands
       /\ \A d \in c.cands \ c.todo : Owns(c.company, d)
       /\ c.op = "prepareQueue" => \A d \in Candidate : c.what[d] # Nil => d \in c.cands
  /\ c.pc = "addCandidate" => c.cur \in c.todo
  /\ c.pc \in Staging => c.op = "stage" /\ c.cands # {} /\ \A d \in c.cands : Owns(c.company, d)
  /\ c.pc \in {"readStage", "writeStage"} => OwnJob(c.company, c.row)
  /\ c.pc = "insertCampaign" => c.todo = c.cands
  /\ c.pc \in {"insertCampaign", "mark", "note"} => \A d \in c.todo : Owns(c.company, d)
  /\ c.pc = "note" => Owns(c.company, c.cur)
  /\ c.pc \in Queueing \/ (c.pc \in Ensuring /\ c.op = "prepareQueue") => OwnRow(c.company, c.row)
  /\ c.pc \in Queueing \/ (c.pc \in Ensuring /\ c.op = "prepareQueue") => c.op \in QueueOp
  /\ c.pc = "replaceQueue" \/ (c.pc \in Ensuring /\ c.op = "prepareQueue") => c.what \in Items
  /\ c.pc = "replaceQueue" => \A d \in Candidate : c.what[d] # Nil => Owns(c.company, d)
  /\ c.pc = "writeItem" => c.cur \in Candidate
  /\ c.pc = "writeCampaign" => \A d \in Candidate : c.items[d] # Nil => Owns(c.company, d)

(* The rows say of candidates, jobs and campaigns what the requests knew. *)
RowsInv ==
  /\ \A t \in tags : Owns(t[1], t[2])
  /\ \A n \in notes : Owns(n[1], n[2])
  /\ \A i \in 1 .. Len(history) : /\ Owns(history[i].company, history[i].cand)
                                  /\ OwnJob(history[i].company, history[i].job)
  /\ \A m \in Request, c \in Candidate :
       queue[m][c] # Nil => campaigns[m] # NoRow /\ Owns(campaigns[m].company, c)

TalentShape ==
  /\ candidates = [c \in Candidate |-> candidates[c]]
  /\ jobs = [j \in Request |-> jobs[j]]
  /\ \A j \in Request : jobs[j] # NoRow => jobs[j].id \in Nat
  /\ campaigns = [m \in Request |-> campaigns[m]]
  /\ \A m \in Request : campaigns[m] = NoRow \/ IsCampaign(campaigns[m])
  /\ queue = [m \in Request |-> queue[m]]
  /\ \A m \in Request : queue[m] = [c \in Candidate |-> queue[m][c]]
  /\ Len(history) \in Nat
  /\ history = [i \in 1 .. Len(history) |-> history[i]]

(* Nothing is taken back, and only request r's own rows are new. *)
Grow(r) ==
  /\ \A c \in Candidate : candidates[c] \in Row => candidates'[c] = candidates[c]
  /\ \A j \in Request : j # r \/ jobs[j] # NoRow => jobs'[j] = jobs[j]
  /\ \A m \in Request : campaigns[m] # NoRow =>
       campaigns'[m] # NoRow /\ campaigns'[m].company = campaigns[m].company
  /\ \A m \in Request \ {r} : campaigns[m] = NoRow => campaigns'[m] = NoRow

(* The inductive invariant of the talent side. *)
TalentInv ==
  /\ TalentShape
  /\ RowsInv
  /\ \A q \in Request : TalentKnows(q, req[q])

---------------------------------------------------------------------------
(* Campaigns and queues *)

(* A request that runs and has to do with the queue of campaign m. *)
OnIt(c, m) == c.pc \notin Ended \cup {"waiting"} /\ c.op \in QueueOp /\ c.row = m
OnQueue(q, m) == OnIt(req[q], m)

Agrees(m) ==
  campaigns[m] # NoRow /\ campaigns[m].summary # Nil =>
    LET blocked == Blocked(queue[m])
    IN  /\ campaigns[m].status = IF blocked THEN "draft" ELSE "queued"
        /\ campaigns[m].summary = IF blocked THEN "blocked" ELSE "ready_for_review"

(* A campaign whose queue requests never overlapped has at most one of them, *)
(* and disagrees with its queue only between two steps of that one.          *)
QueueInv ==
  \A m \in Request \ mixed :
    /\ \A p, q \in Request : OnQueue(p, m) /\ OnQueue(q, m) => p = q
    /\ \A q \in Request : OnQueue(q, m) /\ At(q, "writeCampaign") => req[q].items = queue[m]
    /\ \/ Agrees(m)
       \/ \E q \in Request : OnQueue(q, m) /\ req[q].pc \in {"listQueue", "writeCampaign"}

EmployerInv == ReqInv /\ TeamInv /\ TalentInv /\ QueueInv

---------------------------------------------------------------------------
(* What a step leaves of the requests *)

LEMMA BecomeReq ==
  ASSUME ReqInv, NEW r \in Request, NEW call, IsCall(call), Become(r, call)
  PROVE  /\ ReqInv'
         /\ req'[r].op = call.op /\ req'[r].pc = call.pc
         /\ call.pc \notin Ended => req'[r] = call
         /\ \A q \in Request \ {r} : req'[q] = req[q]
<1>1. IsCall(Outcome(call)) /\ Outcome(call).op = call.op /\ Outcome(call).pc = call.pc
  BY DEF Outcome, Call, IsCall, CallFields
<1>2. call.pc \notin Ended => Outcome(call) = call BY DEF Outcome
<1>3. req' = [req EXCEPT ![r] = Outcome(call)] BY DEF Become
<1>4. req = [q \in Request |-> req[q]] /\ \A q \in Request : IsCall(req[q]) BY DEF ReqInv
<1>5. req'[r] = Outcome(call) /\ \A q \in Request \ {r} : req'[q] = req[q] BY <1>3, <1>4
<1>6. req' = [q \in Request |-> req'[q]] BY <1>3, <1>4
<1>7. ASSUME NEW q \in Request PROVE IsCall(req'[q]) BY <1>1, <1>4, <1>5
<1>8. ReqInv' BY <1>6, <1>7 DEF ReqInv
<1> QED BY <1>1, <1>2, <1>5, <1>8

LEMMA CallFacts ==
  ASSUME NEW op, NEW pc, NEW k, NEW what, NEW todo, NEW row
  PROVE  LET c == Call(op, pc, k, what, todo, row) IN
         /\ IsCall(c) /\ c.op = op /\ c.pc = pc /\ c.company = k /\ c.what = what
         /\ c.todo = todo /\ c.cands = todo /\ c.row = row
BY DEF Call, IsCall, CallFields

LEMMA MovedFacts ==
  ASSUME NEW old, IsCall(old), NEW pc
  PROVE  LET c == [old EXCEPT !.pc = pc] IN
         /\ IsCall(c) /\ c.op = old.op /\ c.pc = pc /\ c.company = old.company
         /\ c.what = old.what /\ c.todo = old.todo /\ c.cands = old.cands
         /\ c.row = old.row /\ c.cur = old.cur /\ c.items = old.items
BY DEF IsCall, CallFields

---------------------------------------------------------------------------
(* The team *)

LEMMA NoRowIsNoMember == ~IsMember(NoRow)
<1> SUFFICES ASSUME IsMember(NoRow) PROVE FALSE OBVIOUS
<1>1. "company" \in DOMAIN NoRow BY DEF IsMember
<1>2. DOMAIN NoRow = {"none"} BY DEF NoRow
<1> QED BY <1>1, <1>2

LEMMA MemberFacts ==
  ASSUME NEW k, NEW e, NEW role, NEW status
  PROVE  LET m == Member(k, e, role, status) IN
         /\ IsMember(m) /\ m # NoRow
         /\ m.company = k /\ m.user = e /\ m.role = role /\ m.status = status
BY NoRowIsNoMember DEF Member, IsMember

(* There are as many slugs for an address as there may be companies, and    *)
(* the request that asks has none yet: the loop finds one.                  *)
LEMMA SlugFound ==
  ASSUME NEW r \in Request, companies[r] = Nil, NEW e \in Email
  PROVE  UniqueCompanySlug(e) \in Slug
<1> DEFINE N == Cardinality(Row)
           D == Domain[e]
<1>1. IsFiniteSet(Row) /\ r \in Row BY EmployerRequests DEF Row
<1>2. N \in Nat BY <1>1, FS_CardinalityType
<1>3. \A n \in 1 .. N : <<D, n>> \in Slug BY DEF Slug
<1>4. \E n \in 1 .. N : ~SlugTaken(<<D, n>>)
  <2> SUFFICES ASSUME \A n \in 1 .. N : SlugTaken(<<D, n>>) PROVE FALSE OBVIOUS
  <2> DEFINE f == [n \in 1 .. N |-> CHOOSE k \in Row : companies[k] = <<D, n>>]
  <2>1. ASSUME NEW n \in 1 .. N PROVE f[n] \in Row /\ companies[f[n]] = <<D, n>>
    <3>1. \E k \in Row : companies[k] = <<D, n>> BY DEF SlugTaken
    <3> QED BY <3>1
  <2>2. ASSUME NEW n \in 1 .. N PROVE f[n] \in Row \ {r}
    <3>1. <<D, n>> # Nil BY <1>3, EmployerNil
    <3> QED BY <2>1, <3>1
  <2>3. f \in [1 .. N -> Row \ {r}] BY <2>2
  <2>4. IsFiniteSet(Row \ {r}) /\ Cardinality(Row \ {r}) = N - 1
    BY <1>1, FS_RemoveElement
  <2>5. IsFiniteSet(1 .. N) /\ Cardinality(1 .. N) = N
    <3>1. IsFiniteSet(1 .. N) /\ Cardinality(1 .. N) = IF 1 > N THEN 0 ELSE N - 1 + 1
      BY <1>2, FS_Interval
    <3> QED BY <3>1, <1>2
  <2> DEFINE P == 1 .. N
             H == Row \ {r}
  <2>6. Cardinality(H) < Cardinality(P) BY <1>2, <2>4, <2>5
  <2> HIDE DEF f
  <2>10. IsFiniteSet(P) /\ IsFiniteSet(H) /\ f \in [P -> H] BY <2>3, <2>4, <2>5
  <2> HIDE DEF P, H
  <2>7. \E x, y \in P : x # y /\ f[x] = f[y] BY <2>6, <2>10, FS_PigeonHole, Zenon
  <2>8. PICK x \in P, y \in P : x # y /\ f[x] = f[y] BY <2>7
  <2>9. x \in 1 .. N /\ y \in 1 .. N BY DEF P
  <2> QED BY <2>1, <2>8, <2>9
<1> DEFINE T == {n \in 1 .. N : ~SlugTaken(<<D, n>>)}
<1>5. T \in SUBSET Nat /\ T # {} BY <1>2, <1>4
<1>6. PICK n \in T : \A i \in T : n <= i BY <1>5, LeastOf
<1>7. \A i \in 1 .. n - 1 : SlugTaken(<<D, i>>) BY <1>2, <1>6
<1> DEFINE s == <<D, n>>
<1>8. s \in Slug /\ s[1] = Domain[e] /\ ~SlugTaken(s)
      /\ \A i \in 1 .. s[2] - 1 : SlugTaken(<<s[1], i>>)
  BY <1>3, <1>7
<1> QED BY <1>8 DEF UniqueCompanySlug

(* A step that leaves the rows of the team as they are, but for the role    *)
(* and the status of members and for the rows of its own request, keeps     *)
(* the invariant when the request then knows what it has to.                *)
LEMMA TeamKept ==
  ASSUME ReqInv, TeamInv, NEW r \in Request, NEW call, IsCall(call), Become(r, call),
         companies' = [k \in Row |-> companies'[k]],
         users' = [e \in Email |-> users'[e]],
         members' = [m \in Row |-> members'[m]],
         stops' = stops,
         \A k \in Row : k # r \/ companies[k] # Nil => companies'[k] = companies[k],
         \A m \in Row : members[m] # NoRow =>
           /\ IsMember(members'[m])
           /\ members'[m].company = members[m].company /\ members'[m].user = members[m].user
           /\ HasFounder(m) => members'[m].role = "owner",
         \A m \in Row : m # r /\ members[m] = NoRow => members'[m] = NoRow,
         members[r] = NoRow /\ members'[r] # NoRow =>
           /\ IsMember(members'[r])
           /\ \E k \in Row : /\ members'[r].company = k
                             /\ HasFounder(k) \/ (k = r /\ members'[r].role = "owner"),
         \A s \in sessions' : s \in sessions \/ (\E k \in Row : s.company = k /\ HasFounder(k)'),
         \A e \in Email : users'[e] # users[e] => users'[e] = r,
         \A e \in Email : users'[e] = r /\ stops = 0 =>
           /\ companies'[r] # Nil
           /\ \/ call.pc = "addOwner" /\ call.what = e
              \/ members'[r] # NoRow /\ members'[r].company = r /\ members'[r].user = e,
         TeamKnows(r, call)'
  PROVE  TeamInv'
<1>1. /\ req'[r].pc = call.pc
      /\ call.pc \notin Ended => req'[r] = call
      /\ \A q \in Request \ {r} : req'[q] = req[q]
  BY BecomeReq
<1>2. r \in Row /\ \A q \in Request : q \in Row BY DEF Row
<1>3. ASSUME NEW k \in Row, HasFounder(k) PROVE HasFounder(k)'
  BY <1>3, NoRowIsNoMember DEF HasFounder
<1>4. ASSUME NEW m \in Row, members'[m] # NoRow
      PROVE  IsMember(members'[m]) /\ \E k \in Row : members'[m].company = k /\ HasFounder(k)'
  <2>1. CASE members[m] # NoRow
    <3>1. \E k \in Row : members[m].company = k /\ HasFounder(k) BY <2>1 DEF TeamInv
    <3> QED BY <2>1, <3>1, <1>3
  <2>2. CASE members[m] = NoRow
    <3>1. m = r BY <1>4, <2>2
    <3>2. PICK k \in Row : /\ members'[r].company = k
                           /\ HasFounder(k) \/ (k = r /\ members'[r].role = "owner")
      BY <1>4, <2>2, <3>1
    <3>3. CASE HasFounder(k) BY <1>3, <1>4, <2>2, <3>1, <3>2, <3>3
    <3>4. CASE k = r /\ members'[r].role = "owner"
      <4>1. HasFounder(r)' BY <1>4, <3>1, <3>2, <3>4 DEF HasFounder
      <4> QED BY <1>2, <1>4, <2>2, <3>1, <3>2, <3>4, <4>1
    <3> QED BY <3>2, <3>3, <3>4
  <2> QED BY <2>1, <2>2
<1>5. ASSUME NEW s \in sessions' PROVE \E k \in Row : s.company = k /\ HasFounder(k)'
  BY <1>3 DEF TeamInv
<1>6. ASSUME NEW q \in Request PROVE TeamKnows(q, req[q])'
  <2>1. CASE q = r
    <3>1. CASE call.pc \in Ended
      BY <1>1, <2>1, <3>1
      DEF TeamKnows, Ended, Unlisted, Unfounded
    <3>2. CASE call.pc \notin Ended
      BY <1>1, <2>1, <3>2 DEF TeamKnows
    <3> QED BY <3>1, <3>2
  <2>2. CASE q # r
    <3>1. req'[q] = req[q] BY <1>1, <2>2
    <3>2. TeamKnows(q, req[q]) BY DEF TeamInv
    <3>3. /\ members[q] = NoRow => members'[q] = NoRow
          /\ companies'[q] = companies[q]
      BY <1>2, <2>2
    <3>4. ASSUME NEW m \in Row, members[m] # NoRow
          PROVE  members'[m] # NoRow /\ members'[m].company = members[m].company
      BY <3>4, NoRowIsNoMember
    <3> QED BY <3>1, <3>2, <3>3, <3>4 DEF TeamKnows
  <2> QED BY <2>1, <2>2
<1>7. RegisteredHasWorkspace'
  <2> SUFFICES ASSUME NEW e \in Email, users'[e] # Nil, stops = 0
               PROVE  LET k == users'[e] IN
                      /\ companies'[k] # Nil
                      /\ \/ k \in Request /\ req'[k].pc = "addOwner" /\ req'[k].what = e
                         \/ members'[k] # NoRow /\ members'[k].company = k /\ members'[k].user = e
    BY DEF RegisteredHasWorkspace, At
  <2>1. CASE users'[e] = r
    BY <1>1, <2>1 DEF Ended
  <2>2. CASE users'[e] # r
    <3>1. PICK k \in Row : k = users[e] /\ users'[e] = k /\ k # r BY <2>2 DEF TeamInv
    <3>2. /\ companies[k] # Nil
          /\ \/ k \in Request /\ req[k].pc = "addOwner" /\ req[k].what = e
             \/ members[k] # NoRow /\ members[k].company = k /\ members[k].user = e
      <4>1. RegisteredHasWorkspace /\ users[e] # Nil BY <3>1, EmployerNil DEF TeamInv
      <4> QED BY <3>1, <4>1 DEF RegisteredHasWorkspace, At
    <3>3. companies'[k] # Nil BY <3>1, <3>2
    <3>4. CASE members[k] # NoRow /\ members[k].company = k /\ members[k].user = e
      BY <3>1, <3>3, <3>4, NoRowIsNoMember
    <3>5. CASE k \in Request /\ req[k].pc = "addOwner" /\ req[k].what = e
      BY <1>1, <3>1, <3>3, <3>5
    <3> QED BY <3>2, <3>4, <3>5
  <2> QED BY <2>1, <2>2
<1>8. \A e \in Email : users'[e] \in Row \cup {Nil} BY <1>2 DEF TeamInv
<1>9. stops' \in Nat BY DEF TeamInv
<1> QED BY <1>4, <1>5, <1>6, <1>7, <1>8, <1>9 DEF TeamInv

(* A step that leaves the team alone. *)
LEMMA TeamRests ==
  ASSUME ReqInv, TeamInv, NEW r \in Request, NEW call, IsCall(call), Become(r, call),
         UNCHANGED <<companies, users, members, sessions, stops>>,
         req[r].pc # "addOwner", TeamKnows(r, call)
  PROVE  TeamInv'
<1>1. \A m \in Row : members[m] # NoRow => IsMember(members[m]) BY DEF TeamInv
<1>2. \A s \in sessions' : s \in sessions OBVIOUS
<1>3. \A k : HasFounder(k)' <=> HasFounder(k) BY DEF HasFounder
<1>4. TeamKnows(r, call)' BY DEF TeamKnows
<1>5. ASSUME NEW e \in Email, users[e] = r, stops = 0
      PROVE  /\ companies[r] # Nil
             /\ members[r] # NoRow /\ members[r].company = r /\ members[r].user = e
  <2>1. r # Nil BY EmployerNil DEF Row
  <2> QED BY <1>5, <2>1 DEF TeamInv, RegisteredHasWorkspace, At
<1>6. /\ companies = [k \in Row |-> companies[k]] /\ users = [e \in Email |-> users[e]]
      /\ members = [m \in Row |-> members[m]]
  BY DEF TeamInv
<1>7. \A m \in Row : HasFounder(m) => members[m].role = "owner" BY DEF HasFounder
<1> QED BY <1>1, <1>2, <1>3, <1>4, <1>5, <1>6, <1>7, TeamKept

LEMMA TeamFacts ==
  ASSUME ReqInv, TeamInv, NEW r \in Request
  PROVE  /\ companies = [k \in Row |-> companies[k]] /\ users = [e \in Email |-> users[e]]
         /\ members = [m \in Row |-> members[m]]
         /\ r \in Row /\ r # Nil /\ IsCall(req[r]) /\ TeamKnows(r, req[r])
         /\ \A m \in Row : members[m] # NoRow => IsMember(members[m])
         /\ \A m \in Row : HasFounder(m) => members[m].role = "owner"
         /\ \A e \in Email : users[e] = r /\ stops = 0 =>
              /\ companies[r] # Nil
              /\ \/ At(r, "addOwner") /\ req[r].what = e
                 \/ members[r] # NoRow /\ members[r].company = r /\ members[r].user = e
<1>1. r \in Row /\ r # Nil BY EmployerNil DEF Row
<1>2. RegisteredHasWorkspace BY DEF TeamInv
<1>3. ASSUME NEW e \in Email, users[e] = r, stops = 0
      PROVE  /\ companies[r] # Nil
             /\ \/ At(r, "addOwner") /\ req[r].what = e
                \/ members[r] # NoRow /\ members[r].company = r /\ members[r].user = e
  BY <1>1, <1>2, <1>3 DEF RegisteredHasWorkspace
<1> QED BY <1>1, <1>3 DEF TeamInv, ReqInv, HasFounder

LEMMA RegisterKeeps ==
  ASSUME ReqInv, TeamInv, NEW r \in Request, Register(r)
  PROVE  TeamInv'
<1>1. PICK e \in Email : Begin(r, Call("register", IF users[e] = Nil THEN "pickSlug" ELSE "refused",
                                      r, e, {}, Nil))
  BY DEF Register
<1> PICK c : c = Call("register", IF users[e] = Nil THEN "pickSlug" ELSE "refused", r, e, {}, Nil)
  OBVIOUS
<1>2. IsCall(c) /\ c.pc \in {"pickSlug", "refused"} /\ c.what = e BY <1>1, CallFacts
<1>3. Become(r, c) /\ req[r].pc = "waiting" BY <1>1 DEF Begin, At
<1>4. TeamKnows(r, c)
  BY <1>2, <1>3, TeamFacts DEF TeamKnows, Unlisted, Unfounded
<1>5. UNCHANGED <<companies, users, members, sessions, stops>> BY DEF Register, teamTables
<1> QED BY <1>2, <1>3, <1>4, <1>5, TeamRests

LEMMA PickSlugKeeps ==
  ASSUME ReqInv, TeamInv, NEW r \in Request, PickSlug(r)
  PROVE  TeamInv'
<1> PICK slug : slug = UniqueCompanySlug(req[r].what) OBVIOUS
<1>1. PICK c : c = [req[r] EXCEPT !.items = slug, !.pc = "createCompany"] OBVIOUS
<1>2. IsCall(c) /\ c.pc = "createCompany" /\ c.what = req[r].what /\ c.items = slug
  <2>1. IsCall(req[r]) BY TeamFacts
  <2> QED BY <1>1, <2>1 DEF IsCall, CallFields
<1>3. Become(r, c) /\ req[r].pc = "pickSlug" BY <1>1 DEF PickSlug, At
<1>4. members[r] = NoRow /\ companies[r] = Nil /\ req[r].what \in Email
  BY <1>3, TeamFacts DEF TeamKnows, Unlisted, Unfounded
<1>5. TeamKnows(r, c)
  BY <1>2, <1>4, SlugFound DEF TeamKnows, Unlisted, Unfounded
<1>6. UNCHANGED <<companies, users, members, sessions, stops>> BY DEF PickSlug, teamTables
<1> QED BY <1>2, <1>3, <1>5, <1>6, TeamRests

(* A step of the team that ends a request and does nothing else.            *)
LEMMA TeamEnds ==
  ASSUME ReqInv, TeamInv, NEW r \in Request, NEW pc, Go(r, pc), pc \notin TeamPc,
         UNCHANGED <<companies, users, members, sessions, stops>>, req[r].pc # "addOwner"
  PROVE  TeamInv'
<1>1. PICK c : c = [req[r] EXCEPT !.pc = pc] OBVIOUS
<1>2. IsCall(c) /\ c.pc = pc BY <1>1, MovedFacts, TeamFacts
<1>3. Become(r, c) BY <1>1 DEF Go
<1>4. TeamKnows(r, c) BY <1>2 DEF TeamKnows, TeamPc, Unlisted, Unfounded
<1> QED BY <1>2, <1>3, <1>4, TeamRests

LEMMA CreateCompanyKeeps ==
  ASSUME ReqInv, TeamInv, NEW r \in Request, CreateCompany(r)
  PROVE  TeamInv'
<1>1. req[r].pc = "createCompany" BY DEF CreateCompany, At
<1>2. members[r] = NoRow /\ companies[r] = Nil /\ req[r].what \in Email /\ req[r].items \in Slug
  BY <1>1, TeamFacts DEF TeamKnows, Unlisted, Unfounded
<1>3. CASE Go(r, "refused") /\ UNCHANGED companies
  BY <1>1, <1>3, TeamEnds DEF CreateCompany, TeamPc, Unlisted
<1>4. CASE Go(r, "createUser") /\ companies' = [companies EXCEPT ![r] = req[r].items]
  <2>1. PICK c : c = [req[r] EXCEPT !.pc = "createUser"] OBVIOUS
  <2>2. IsCall(c) /\ c.pc = "createUser" /\ c.what = req[r].what BY <2>1, MovedFacts, TeamFacts
  <2>3. Become(r, c) BY <1>4, <2>1 DEF Go
  <2>4. UNCHANGED <<users, members, sessions, stops>> BY DEF CreateCompany
  <2>5. /\ companies' = [k \in Row |-> companies'[k]]
        /\ companies'[r] = req[r].items /\ companies'[r] # Nil
        /\ \A k \in Row : k # r \/ companies[k] # Nil => companies'[k] = companies[k]
    BY <1>2, <1>4, TeamFacts, EmployerNil
  <2>6. TeamKnows(r, c)'
    BY <1>2, <2>2, <2>4, <2>5 DEF TeamKnows, Unlisted, Unfounded
  <2> QED BY <1>2, <2>2, <2>3, <2>4, <2>5, <2>6, TeamFacts, TeamKept
<1> QED BY <1>3, <1>4 DEF CreateCompany

LEMMA CreateUserKeeps ==
  ASSUME ReqInv, TeamInv, NEW r \in Request, CreateUser(r)
  PROVE  TeamInv'
<1>1. req[r].pc = "createUser" BY DEF CreateUser, At
<1>2. members[r] = NoRow /\ companies[r] # Nil /\ req[r].what \in Email
  BY <1>1, TeamFacts DEF TeamKnows, Unlisted, Unfounded
<1>3. CASE Go(r, "refused") /\ UNCHANGED users
  BY <1>1, <1>3, TeamEnds DEF CreateUser, TeamPc, Unlisted
<1>4. CASE Go(r, "addOwner") /\ users' = [users EXCEPT ![req[r].what] = r]
  <2>1. PICK c : c = [req[r] EXCEPT !.pc = "addOwner"] OBVIOUS
  <2>2. IsCall(c) /\ c.pc = "addOwner" /\ c.what = req[r].what BY <2>1, MovedFacts, TeamFacts
  <2>3. Become(r, c) BY <1>4, <2>1 DEF Go
  <2>4. UNCHANGED <<companies, members, sessions, stops>> BY DEF CreateUser
  <2>5. /\ users' = [e \in Email |-> users'[e]]
        /\ \A e \in Email : users'[e] # users[e] => users'[e] = r
        /\ \A e \in Email : users'[e] = r => users[e] = r \/ req[r].what = e
    BY <1>4, TeamFacts
  <2>6. TeamKnows(r, c)'
    BY <1>2, <2>2, <2>4 DEF TeamKnows, Unlisted, Unfounded
  <2>7. \A e \in Email : users'[e] = r /\ stops = 0 => companies'[r] # Nil /\ c.what = e
    BY <1>1, <1>2, <2>2, <2>4, <2>5, TeamFacts DEF At
  <2> QED BY <1>2, <2>2, <2>3, <2>4, <2>5, <2>6, <2>7, TeamFacts, TeamKept
<1> QED BY <1>3, <1>4 DEF CreateUser

LEMMA AddOwnerKeeps ==
  ASSUME ReqInv, TeamInv, NEW r \in Request, AddOwner(r)
  PROVE  TeamInv'
<1>1. req[r].pc = "addOwner" BY DEF AddOwner, At
<1>2. members[r] = NoRow /\ companies[r] # Nil /\ req[r].what \in Email
  BY <1>1, TeamFacts DEF TeamKnows, Unlisted, Unfounded
<1>3. PICK c : c = [req[r] EXCEPT !.pc = "done"] OBVIOUS
<1>4. IsCall(c) /\ c.pc = "done" BY <1>3, MovedFacts, TeamFacts
<1>5. Become(r, c) BY <1>3 DEF AddOwner, Go
<1>6. UNCHANGED <<companies, users, stops>> BY DEF AddOwner
<1>7. PICK m : m = Member(r, req[r].what, "owner", "active") OBVIOUS
<1>8. IsMember(m) /\ m # NoRow /\ m.company = r /\ m.user = req[r].what /\ m.role = "owner"
  BY <1>7, MemberFacts
<1>9. /\ members' = [k \in Row |-> members'[k]] /\ members'[r] = m
      /\ \A k \in Row \ {r} : members'[k] = members[k]
  BY <1>7, TeamFacts DEF AddOwner
<1>10. HasFounder(r)' BY <1>8, <1>9 DEF HasFounder
<1>11. \A s \in sessions' : s \in sessions \/ s.company = r BY DEF AddOwner
<1>12. TeamKnows(r, c)' BY <1>4 DEF TeamKnows, Unlisted, Unfounded
<1>13. \A e \in Email : users'[e] = r /\ stops = 0 => companies'[r] # Nil /\ m.user = e
  BY <1>2, <1>6, <1>8, TeamFacts
<1>14. \A k \in Row : members[k] # NoRow =>
         /\ IsMember(members'[k]) /\ members'[k] = members[k]
         /\ HasFounder(k) => members'[k].role = "owner"
  BY <1>2, <1>9, TeamFacts
<1> QED BY <1>2, <1>4, <1>5, <1>6, <1>8, <1>9, <1>10, <1>11, <1>12, <1>13, <1>14, TeamFacts, TeamKept

LEMMA LoginKeeps ==
  ASSUME ReqInv, TeamInv, NEW r \in Request, Login(r)
  PROVE  TeamInv'
<1>1. PICK e \in Email : Begin(r, Call("login", IF users[e] = Nil THEN "refused" ELSE "findMember",
                                      Nil, e, {}, Nil))
  BY DEF Login
<1> PICK c : c = Call("login", IF users[e] = Nil THEN "refused" ELSE "findMember", Nil, e, {}, Nil)
  OBVIOUS
<1>2. IsCall(c) /\ c.pc \in {"findMember", "refused"} BY <1>1, CallFacts
<1>3. Become(r, c) /\ req[r].pc = "waiting" BY <1>1 DEF Begin, At
<1>4. TeamKnows(r, c) BY <1>2 DEF TeamKnows, Unlisted, Unfounded
<1>5. UNCHANGED <<companies, users, members, sessions, stops>> BY DEF Login, teamTables
<1> QED BY <1>2, <1>3, <1>4, <1>5, TeamRests

LEMMA FindMemberKeeps ==
  ASSUME ReqInv, TeamInv, NEW r \in Request, FindMember(r)
  PROVE  TeamInv'
<1>1. req[r].pc = "findMember" BY DEF FindMember, At
<1>2. CASE Go(r, "refused") /\ UNCHANGED sessions
  BY <1>1, <1>2, TeamEnds DEF FindMember, TeamPc, Unlisted
<1>3. ASSUME NEW m \in Row, members[m] # NoRow, Go(r, "done"), NEW e,
             sessions' = sessions \cup {[company |-> members[m].company, user |-> e,
                                         role |-> members[m].role]}
      PROVE  TeamInv'
  <2>1. PICK c : c = [req[r] EXCEPT !.pc = "done"] OBVIOUS
  <2>2. IsCall(c) /\ c.pc = "done" BY <2>1, MovedFacts, TeamFacts
  <2>3. Become(r, c) BY <1>3, <2>1 DEF Go
  <2>4. UNCHANGED <<companies, users, members, stops>> BY DEF FindMember
  <2>5. PICK k \in Row : members[m].company = k /\ HasFounder(k) BY <1>3 DEF TeamInv
  <2>6. HasFounder(k)' BY <2>4, <2>5 DEF HasFounder
  <2>7. \A s \in sessions' : s \in sessions \/ s.company = k BY <1>3, <2>5
  <2>8. TeamKnows(r, c)' BY <2>2 DEF TeamKnows, Unlisted, Unfounded
  <2>9. \A e1 \in Email : users'[e1] = r /\ stops = 0 =>
          companies'[r] # Nil /\ members'[r] # NoRow /\ members'[r].company = r
          /\ members'[r].user = e1
    BY <1>1, <2>4, TeamFacts DEF At
  <2> QED BY <2>2, <2>3, <2>4, <2>6, <2>7, <2>8, <2>9, TeamFacts, TeamKept
<1>4. ASSUME NEW m \in MembershipsOf(req[r].what) PROVE m \in Row /\ members[m] # NoRow
  BY DEF MembershipsOf
<1> QED BY <1>2, <1>3, <1>4 DEF FindMember

LEMMA InviteKeeps ==
  ASSUME ReqInv, TeamInv, NEW r \in Request, InviteMember(r)
  PROVE  TeamInv'
<1> DEFINE Invited(s, e) == \E m \in Row : /\ members[m] # NoRow /\ members[m].company = s.company
                                           /\ members[m].invited = e
           Invitation(s, e, role) == [company |-> s.company, user |-> Nil, invited |-> e,
                                      role |-> role, status |-> "invited"]
<1>1. PICK s \in sessions, e \in Email, role \in Role :
        /\ Begin(r, Call("invite", IF Invited(s, e) THEN "raised" ELSE "done",
                         s.company, Nil, {}, Nil))
        /\ members' = IF Invited(s, e) THEN members
                      ELSE [members EXCEPT ![r] = Invitation(s, e, role)]
  BY DEF InviteMember
<1>2. PICK c : c = Call("invite", IF Invited(s, e) THEN "raised" ELSE "done",
                        s.company, Nil, {}, Nil) OBVIOUS
<1>3. IsCall(c) /\ c.pc \in {"raised", "done"} BY <1>2, CallFacts
<1>4. Become(r, c) /\ req[r].pc = "waiting" BY <1>1, <1>2 DEF Begin, At
<1>5. UNCHANGED <<companies, users, sessions, stops>> BY DEF InviteMember
<1>6. TeamKnows(r, c) BY <1>3 DEF TeamKnows, Unlisted, Unfounded
<1>7. members[r] = NoRow BY <1>4, TeamFacts DEF TeamKnows, Unlisted
<1>8. CASE members' = members BY <1>3, <1>4, <1>5, <1>6, <1>8, TeamRests
<1>9. CASE members' = [members EXCEPT ![r] = Invitation(s, e, role)]
  <2>1. PICK m : m = Invitation(s, e, role) OBVIOUS
  <2>2. PICK k \in Row : s.company = k /\ HasFounder(k) BY DEF TeamInv
  <2>3. IsMember(m) /\ m.company = k BY <2>1, <2>2 DEF IsMember
  <2>4. /\ members' = [j \in Row |-> members'[j]] /\ members'[r] = m
        /\ \A j \in Row \ {r} : members'[j] = members[j]
    BY <1>9, <2>1, TeamFacts
  <2>5. \A j \in Row : members[j] # NoRow =>
          /\ IsMember(members'[j]) /\ members'[j] = members[j]
          /\ HasFounder(j) => members'[j].role = "owner"
    BY <1>7, <2>4, TeamFacts
  <2>6. TeamKnows(r, c)' BY <1>3 DEF TeamKnows, Unlisted, Unfounded
  <2>7. \A e1 \in Email : ~(users[e1] = r /\ stops = 0)
    BY <1>4, <1>7, TeamFacts DEF At
  <2> QED BY <1>3, <1>4, <1>5, <1>7, <2>2, <2>3, <2>4, <2>5, <2>6, <2>7, TeamFacts, TeamKept
<1> QED BY <1>1, <1>8, <1>9

LEMMA UpdateMemberKeeps ==
  ASSUME ReqInv, TeamInv, NEW r \in Request, UpdateMember(r)
  PROVE  TeamInv'
<1>1. PICK s \in sessions, m \in Row, role \in Role \cup {Nil}, status \in Status \cup {Nil} :
        /\ members[m] # NoRow
        /\ Begin(r, [Call("updateMember", IF RoleAccepted(m, role) THEN "writeMember" ELSE "refused",
                         s.company, role, {}, m) EXCEPT !.items = status])
  BY DEF UpdateMember
<1>2. PICK a : a = Call("updateMember", IF RoleAccepted(m, role) THEN "writeMember" ELSE "refused",
                        s.company, role, {}, m) OBVIOUS
<1>3. IsCall(a) /\ a.pc = (IF RoleAccepted(m, role) THEN "writeMember" ELSE "refused")
      /\ a.what = role /\ a.row = m
  BY <1>2, CallFacts
<1>4. PICK c : c = [a EXCEPT !.items = status] OBVIOUS
<1>5. IsCall(c) /\ c.pc = a.pc /\ c.what = role /\ c.row = m
  BY <1>3, <1>4 DEF IsCall, CallFields
<1>6. Become(r, c) /\ req[r].pc = "waiting" BY <1>1, <1>2, <1>4 DEF Begin, At
<1>7. members[m].company = m => members[m].role = "owner"
  <2>1. PICK k \in Row : members[m].company = k /\ HasFounder(k) BY <1>1 DEF TeamInv
  <2> QED BY <2>1 DEF HasFounder
<1>8. TeamKnows(r, c)
  BY <1>1, <1>3, <1>5, <1>7 DEF TeamKnows, Unlisted, Unfounded, RoleAccepted
<1>9. UNCHANGED <<companies, users, members, sessions, stops>> BY DEF UpdateMember, teamTables
<1> QED BY <1>5, <1>6, <1>8, <1>9, TeamRests

LEMMA WriteMemberKeeps ==
  ASSUME ReqInv, TeamInv, NEW r \in Request, WriteMember(r)
  PROVE  TeamInv'
<1> DEFINE Given(new, was) == IF new = Nil THEN was ELSE new
<1>1. req[r].pc = "writeMember" BY DEF WriteMember, At
<1>2. PICK m \in Row : m = req[r].row /\ members[m] # NoRow
        /\ (members[m].company = m => req[r].what \in {"owner", Nil})
  BY <1>1, TeamFacts DEF TeamKnows
<1>3. PICK old : old = members[m] OBVIOUS
<1>4. PICK new : new = [old EXCEPT !.role = Given(req[r].what, old.role),
                                   !.status = Given(req[r].items, old.status)] OBVIOUS
<1>5. IsMember(old) BY <1>2, <1>3, TeamFacts
<1>6. /\ IsMember(new) /\ new.company = old.company /\ new.user = old.user
      /\ new.role = Given(req[r].what, old.role)
  BY <1>4, <1>5 DEF IsMember
<1>7. members' = [members EXCEPT ![m] = new] BY <1>2, <1>3, <1>4 DEF WriteMember
<1>8. UNCHANGED <<companies, users, sessions, stops>> BY DEF WriteMember
<1>9. PICK c : c = [req[r] EXCEPT !.pc = "done"] OBVIOUS
<1>10. IsCall(c) /\ c.pc = "done" BY <1>9, MovedFacts, TeamFacts
<1>11. Become(r, c) BY <1>9 DEF WriteMember, Go
<1>12. HasFounder(m) => new.role = "owner" BY <1>2, <1>3, <1>6 DEF HasFounder
<1>13. /\ members' = [j \in Row |-> members'[j]] /\ members'[m] = new
       /\ \A j \in Row \ {m} : members'[j] = members[j]
  BY <1>7, TeamFacts
<1>14. \A j \in Row : members[j] # NoRow =>
         /\ IsMember(members'[j])
         /\ members'[j].company = members[j].company /\ members'[j].user = members[j].user
         /\ HasFounder(j) => members'[j].role = "owner"
  BY <1>3, <1>6, <1>12, <1>13, TeamFacts
<1>15. \A j \in Row : members[j] = NoRow => members'[j] = NoRow BY <1>2, <1>13
<1>16. TeamKnows(r, c)' BY <1>10 DEF TeamKnows, Unlisted, Unfounded
<1>17. \A e \in Email : users'[e] = r /\ stops = 0 =>
         /\ companies'[r] # Nil
         /\ members'[r] # NoRow /\ members'[r].company = r /\ members'[r].user = e
  BY <1>1, <1>8, <1>14, TeamFacts, NoRowIsNoMember DEF At
<1>18. \A s \in sessions' : s \in sessions BY <1>8
<1> QED BY <1>8, <1>10, <1>11, <1>13, <1>14, <1>15, <1>16, <1>17, <1>18, TeamFacts, TeamKept, NoRowIsNoMember

LEMMA TeamStepKeeps ==
  ASSUME ReqInv, TeamInv, NEW r \in Request, TeamStep(r)
  PROVE  TeamInv'
BY RegisterKeeps, PickSlugKeeps, CreateCompanyKeeps, CreateUserKeeps, AddOwnerKeeps, LoginKeeps,
   FindMemberKeeps, InviteKeeps, UpdateMemberKeeps, WriteMemberKeeps DEF TeamStep

LEMMA TeamStarts == TeamInit => ReqInv /\ TeamInv
<1> SUFFICES ASSUME TeamInit PROVE ReqInv /\ TeamInv OBVIOUS
<1>1. ASSUME NEW q \in Request
      PROVE  IsCall(req[q]) /\ req[q].pc = "waiting" /\ q \in Row /\ q \notin OldCompany
  <2>1. req[q] = Call(Nil, "waiting", Nil, Nil, {}, Nil) BY DEF TeamInit
  <2> QED BY <2>1, CallFacts, EmployerRequests DEF Row
<1>2. ReqInv BY <1>1 DEF ReqInv, TeamInit
<1>3. ASSUME NEW k \in OldCompany
      PROVE  /\ k \in Row /\ IsMember(members[k]) /\ HasFounder(k)
             /\ members[k].user = Founder[k] /\ members[k].company = k
             /\ companies[k] # Nil
  <2>1. k \in Row BY DEF Row
  <2>2. members[k] = Member(k, Founder[k], "owner", "active") BY <2>1 DEF TeamInit
  <2>3. companies[k] = <<Domain[Founder[k]], 1>> BY <2>1 DEF TeamInit
  <2>4. 1 \in 1 .. Cardinality(Row)
    <3>1. IsFiniteSet(Row) BY EmployerRequests DEF Row
    <3>2. Cardinality(Row) \in Nat /\ Cardinality(Row) # 0
      BY <2>1, <3>1, FS_CardinalityType, FS_EmptySet
    <3> QED BY <3>2
  <2>5. Founder[k] \in Email BY RoleAssumption
  <2>6. companies[k] \in Slug BY <2>3, <2>4, <2>5 DEF Slug
  <2>7. companies[k] # Nil BY <2>6, EmployerNil
  <2> QED BY <2>1, <2>2, <2>7, MemberFacts DEF HasFounder
<1>4. ASSUME NEW m \in Row, members[m] # NoRow
      PROVE  IsMember(members[m]) /\ \E k \in Row : members[m].company = k /\ HasFounder(k)
  <2>1. m \in OldCompany BY <1>4 DEF TeamInit
  <2> QED BY <2>1, <1>3
<1>5. ASSUME NEW s \in sessions PROVE \E k \in Row : s.company = k /\ HasFounder(k)
  <2>1. PICK k \in OldCompany : s = [company |-> k, user |-> Founder[k], role |-> "owner"]
    BY DEF TeamInit
  <2> QED BY <2>1, <1>3
<1>6. ASSUME NEW q \in Request PROVE TeamKnows(q, req[q])
  <2>1. members[q] = NoRow /\ companies[q] = Nil BY <1>1 DEF TeamInit
  <2> QED BY <1>1, <2>1 DEF TeamKnows, Unlisted, Unfounded
<1>7. ASSUME NEW e \in Email
      PROVE  users[e] = Nil \/ (users[e] \in OldCompany /\ Founder[users[e]] = e)
  <2>1. users[e] = IF \E k \in OldCompany : Founder[k] = e
                   THEN CHOOSE k \in OldCompany : Founder[k] = e ELSE Nil
    BY DEF TeamInit
  <2> QED BY <2>1
<1>8. RegisteredHasWorkspace
  <2> SUFFICES ASSUME NEW e \in Email, users[e] # Nil
               PROVE  LET k == users[e] IN companies[k] # Nil
                      /\ members[k] # NoRow /\ members[k].company = k /\ members[k].user = e
    BY DEF RegisteredHasWorkspace
  <2> QED BY <1>3, <1>7 DEF HasFounder
<1>9. /\ companies = [k \in Row |-> companies[k]] /\ users = [e \in Email |-> users[e]]
      /\ members = [m \in Row |-> members[m]] /\ stops \in Nat
  BY DEF TeamInit
<1>10. \A e \in Email : users[e] \in Row \cup {Nil} BY <1>7 DEF Row
<1> QED BY <1>2, <1>4, <1>5, <1>6, <1>8, <1>9, <1>10 DEF TeamInv

LEMMA StopReq ==
  ASSUME ReqInv, StopServer
  PROVE  /\ ReqInv'
         /\ \A q \in Request : \/ req'[q].pc = "stopped" /\ q \in InFlight
                               \/ req'[q] = req[q] /\ q \notin InFlight
<1>1. ASSUME NEW q \in Request
      PROVE  /\ IsCall(req'[q])
             /\ \/ req'[q].pc = "stopped" /\ q \in InFlight
                \/ req'[q] = req[q] /\ q \notin InFlight
  <2>1. CASE q \notin InFlight BY <2>1 DEF StopServer, ReqInv
  <2>2. CASE q \in InFlight
    <3>1. PICK c : c = [req[q] EXCEPT !.pc = "stopped"] OBVIOUS
    <3>2. IsCall(c) /\ c.pc = "stopped"
      <4>1. IsCall(req[q]) BY DEF ReqInv
      <4> QED BY <3>1, <4>1 DEF IsCall, CallFields
    <3>3. req'[q] = Outcome(c) BY <2>2, <3>1 DEF StopServer
    <3>4. req'[q] = Call(c.op, "stopped", Nil, Nil, {}, Nil) BY <3>2, <3>3 DEF Outcome, Ended
    <3> QED BY <2>2, <3>4, CallFacts
  <2> QED BY <2>1, <2>2
<1>2. req' = [q \in Request |-> req'[q]] BY DEF StopServer
<1> QED BY <1>1, <1>2 DEF ReqInv

LEMMA StopKeepsTeam ==
  ASSUME ReqInv, TeamInv, StopServer
  PROVE  TeamInv'
<1>1. UNCHANGED <<companies, users, members, sessions>> BY DEF StopServer, teamTables
<1>2. stops' \in Nat /\ stops' # 0 BY DEF StopServer, TeamInv
<1>3. ASSUME NEW q \in Request PROVE TeamKnows(q, req[q])'
  <2>1. CASE req'[q].pc = "stopped" BY <2>1 DEF TeamKnows, Unlisted, Unfounded
  <2>2. CASE req'[q] = req[q] BY <1>1, <2>2 DEF TeamInv, TeamKnows
  <2> QED BY <2>1, <2>2, StopReq
<1>4. RegisteredHasWorkspace' BY <1>2 DEF RegisteredHasWorkspace
<1>5. \A k : HasFounder(k)' <=> HasFounder(k) BY <1>1 DEF HasFounder
<1> QED BY <1>1, <1>2, <1>3, <1>4, <1>5 DEF TeamInv

(* The members of a company and its founder's row: WorkspaceKept.           *)
LEMMA TeamSafe == TeamInv => WorkspaceKept
<1> SUFFICES ASSUME TeamInv PROVE WorkspaceKept OBVIOUS
<1>1. RegisteredHasWorkspace BY DEF TeamInv
<1>2. \A m \in Row : members[m] # NoRow => \E k \in Row : members[m].company = k /\ HasFounder(k)
  BY DEF TeamInv
<1>3. WorkspaceKeepsOwner BY <1>2 DEF WorkspaceKeepsOwner, HasFounder
<1> QED BY <1>1, <1>3 DEF WorkspaceKept

---------------------------------------------------------------------------
(* The talent side *)

LEMMA Monotone ==
  ASSUME TalentShape, NEW r \in Request, Grow(r), NEW k
  PROVE  /\ \A c : Owns(k, c) => Owns(k, c)'
         /\ \A j : OwnJob(k, j) => OwnJob(k, j)'
         /\ \A m : OwnRow(k, m) => OwnRow(k, m)'
BY DEF Grow, Owns, OwnJob, OwnRow, OwnCampaign

(* What a request knew, it still knows. *)
LEMMA StillKnows ==
  ASSUME TalentShape, NEW r \in Request, Grow(r), NEW q \in Request, NEW c, TalentKnows(q, c),
         c.pc \in NoJobYet => jobs'[q] = NoRow,
         c.pc \in NoCampaignYet => campaigns'[q] = NoRow
  PROVE  TalentKnows(q, c)'
<1>1. PICK k : k = c.company OBVIOUS
<1>2. /\ \A d : Owns(k, d) => Owns(k, d)'
      /\ \A j : OwnJob(k, j) => OwnJob(k, j)'
      /\ \A m : OwnRow(k, m) => OwnRow(k, m)'
  BY Monotone
<1> QED BY <1>1, <1>2 DEF TalentKnows

LEMMA SequenceShape ==
  ASSUME NEW S, NEW T \in Seq(S)
  PROVE  T = [i \in 1 .. Len(T) |-> T[i]]
OBVIOUS

LEMMA AppendShape ==
  ASSUME TalentShape, NEW h, history' = Append(history, h)
  PROVE  /\ Len(history') \in Nat /\ history' = [i \in 1 .. Len(history') |-> history'[i]]
         /\ \A i \in 1 .. Len(history') :
              history'[i] = h \/ (i \in 1 .. Len(history) /\ history'[i] = history[i])
<1> DEFINE S == {history[i] : i \in 1 .. Len(history)} \cup {h}
<1>1. history \in Seq(S) BY DEF TalentShape
<1>2. history' \in Seq(S) /\ Len(history') = Len(history) + 1 BY <1>1
<1>3. \A i \in 1 .. Len(history') :
        history'[i] = h \/ (i \in 1 .. Len(history) /\ history'[i] = history[i])
  BY <1>1, <1>2
<1>4. Len(history') \in Nat BY <1>2
<1>5. history' = [i \in 1 .. Len(history') |-> history'[i]] BY <1>2, SequenceShape
<1> QED BY <1>3, <1>4, <1>5

(* A step on the talent side keeps all but QueueInv when what it writes is  *)
(* about its company's own candidates and the request knows what it has to. *)
LEMMA TalentMoves ==
  ASSUME ReqInv, TeamInv, TalentInv, NEW r \in Request, NEW call, IsCall(call), Become(r, call),
         UNCHANGED <<companies, users, members, sessions, stops>>,
         call.pc \notin TeamPc, req[r].pc # "addOwner",
         TalentShape', Grow(r),
         \A t \in tags' : t \in tags \/ Owns(t[1], t[2]),
         \A n \in notes' : n \in notes \/ Owns(n[1], n[2]),
         \/ history' = history
         \/ \E h : /\ history' = Append(history, h)
                   /\ Owns(h.company, h.cand) /\ OwnJob(h.company, h.job),
         \A m \in Request, c \in Candidate : queue'[m][c] # Nil =>
           \/ queue[m][c] # Nil
           \/ campaigns[m] # NoRow /\ Owns(campaigns[m].company, c),
         TalentKnows(r, call)'
  PROVE  ReqInv' /\ TeamInv' /\ TalentInv'
<1>1. /\ ReqInv'
      /\ req'[r].pc = call.pc
      /\ call.pc \notin Ended => req'[r] = call
      /\ \A q \in Request \ {r} : req'[q] = req[q]
  BY BecomeReq
<1>2. TeamKnows(r, call) BY DEF TeamKnows, TeamPc, Unlisted, Unfounded
<1>3. TeamInv' BY <1>2, TeamRests
<1>4. TalentShape /\ RowsInv BY DEF TalentInv
<1>5. ASSUME NEW k, NEW c, Owns(k, c) PROVE Owns(k, c)' BY <1>4, <1>5, Monotone
<1>6. ASSUME NEW k, NEW j, OwnJob(k, j) PROVE OwnJob(k, j)' BY <1>4, <1>6, Monotone
<1>7. ASSUME NEW q \in Request PROVE TalentKnows(q, req[q])'
  <2>1. CASE q = r
    <3>1. CASE call.pc \in Ended
      BY <1>1, <2>1, <3>1 DEF TalentKnows, Ended, TalentPc, NoJobYet, NoCampaignYet, Ensuring,
                              Staging, Queueing
    <3>2. CASE call.pc \notin Ended BY <1>1, <2>1, <3>2 DEF TalentKnows
    <3> QED BY <3>1, <3>2
  <2>2. CASE q # r
    <3>1. req'[q] = req[q] BY <1>1, <2>2
    <3>2. PICK c : c = req[q] OBVIOUS
    <3>3. TalentKnows(q, c) BY <3>2 DEF TalentInv
    <3>4. /\ c.pc \in NoJobYet => jobs'[q] = NoRow
          /\ c.pc \in NoCampaignYet => campaigns'[q] = NoRow
      BY <2>2, <3>3 DEF Grow, TalentKnows
    <3>5. TalentKnows(q, c)' BY <1>4, <3>3, <3>4, StillKnows
    <3> QED BY <3>1, <3>2, <3>5 DEF TalentKnows
  <2> QED BY <2>1, <2>2
<1>8. ASSUME NEW t \in tags' PROVE Owns(t[1], t[2])'
  BY <1>4, <1>5 DEF RowsInv
<1>9. ASSUME NEW n \in notes' PROVE Owns(n[1], n[2])'
  BY <1>4, <1>5 DEF RowsInv
<1>10. ASSUME NEW i \in 1 .. Len(history')
       PROVE  \E k, d, j : /\ history'[i].company = k /\ history'[i].cand = d
                           /\ history'[i].job = j /\ Owns(k, d)' /\ OwnJob(k, j)'
  <2>1. CASE i \in 1 .. Len(history) /\ history'[i] = history[i]
    BY <1>4, <1>5, <1>6, <2>1 DEF RowsInv
  <2>2. CASE \E h : history'[i] = h /\ Owns(h.company, h.cand) /\ OwnJob(h.company, h.job)
    BY <1>5, <1>6, <2>2
  <2> QED BY <1>4, <2>1, <2>2, AppendShape
<1>11. ASSUME NEW m \in Request, NEW c \in Candidate, queue'[m][c] # Nil
       PROVE  \E k : campaigns'[m] # NoRow /\ campaigns'[m].company = k /\ Owns(k, c)'
  <2>1. campaigns[m] # NoRow /\ Owns(campaigns[m].company, c) BY <1>4, <1>11 DEF RowsInv
  <2>2. campaigns'[m] # NoRow /\ campaigns'[m].company = campaigns[m].company BY <2>1 DEF Grow
  <2> QED BY <1>5, <2>1, <2>2
<1>12. RowsInv'
  <2>1. \A i \in 1 .. Len(history') :
          Owns(history[i].company, history[i].cand)' /\ OwnJob(history[i].company, history[i].job)'
    BY <1>10 DEF Owns, OwnJob
  <2>2. \A m \in Request, c \in Candidate :
          queue'[m][c] # Nil => campaigns'[m] # NoRow /\ Owns(campaigns[m].company, c)'
    BY <1>11 DEF Owns
  <2> QED BY <1>8, <1>9, <2>1, <2>2 DEF RowsInv
<1> QED BY <1>1, <1>3, <1>7, <1>12 DEF TalentInv

(* A step that writes no row of the talent side. *)
LEMMA TalentReads ==
  ASSUME ReqInv, TeamInv, TalentInv, NEW r \in Request, NEW call, IsCall(call), Become(r, call),
         UNCHANGED <<companies, users, members, sessions, stops>>,
         UNCHANGED talent,
         call.pc \notin TeamPc, req[r].pc # "addOwner", TalentKnows(r, call)
  PROVE  ReqInv' /\ TeamInv' /\ TalentInv'
<1>1. /\ candidates' = candidates /\ jobs' = jobs /\ history' = history /\ tags' = tags
      /\ notes' = notes /\ campaigns' = campaigns /\ queue' = queue
  BY DEF talent
<1>2. Grow(r) BY <1>1 DEF Grow
<1>3. TalentShape' BY <1>1 DEF TalentShape, TalentInv
<1>4. TalentKnows(r, call)'
  BY <1>1 DEF TalentKnows, Owns, OwnJob, OwnRow, OwnCampaign
<1> QED BY <1>1, <1>2, <1>3, <1>4, TalentMoves

---------------------------------------------------------------------------
(* Campaigns and queues *)

(* A step of request r, for the campaigns two requests of which never       *)
(* overlapped.                                                              *)
LEMMA QueueKept ==
  ASSUME ReqInv, QueueInv, NEW r \in Request, NEW call, IsCall(call), Become(r, call),
         mixed \subseteq mixed',
         \A m \in Request \ mixed' :
           /\ OnIt(call, m) => OnQueue(r, m) \/ \A q \in Request : ~OnQueue(q, m)
           /\ OnIt(call, m) /\ call.pc = "writeCampaign" => call.items = queue'[m]
           /\ queue'[m] = queue[m] \/ OnQueue(r, m)
           /\ \/ OnIt(call, m) /\ call.pc \in {"listQueue", "writeCampaign"}
              \/ Agrees(m)'
              \/ /\ Agrees(m) => Agrees(m)'
                 /\ ~(OnQueue(r, m) /\ req[r].pc \in {"listQueue", "writeCampaign"})
  PROVE  QueueInv'
<1>1. /\ req'[r].pc = call.pc
      /\ call.pc \notin Ended => req'[r] = call
      /\ \A q \in Request \ {r} : req'[q] = req[q]
  BY BecomeReq
<1> SUFFICES ASSUME NEW m \in Request \ mixed'
             PROVE  /\ \A p, q \in Request : OnQueue(p, m)' /\ OnQueue(q, m)' => p = q
                    /\ \A q \in Request : OnQueue(q, m)' /\ req'[q].pc = "writeCampaign" =>
                         req'[q].items = queue'[m]
                    /\ \/ Agrees(m)'
                       \/ \E q \in Request : OnQueue(q, m)' /\ req'[q].pc \in {"listQueue", "writeCampaign"}
  BY DEF QueueInv, At
<1>2. /\ \A p, q \in Request : OnQueue(p, m) /\ OnQueue(q, m) => p = q
      /\ \A q \in Request : OnQueue(q, m) /\ req[q].pc = "writeCampaign" => req[q].items = queue[m]
      /\ \/ Agrees(m)
         \/ \E q \in Request : OnQueue(q, m) /\ req[q].pc \in {"listQueue", "writeCampaign"}
  BY DEF QueueInv, At
<1>3. ASSUME NEW q \in Request \ {r} PROVE OnQueue(q, m)' <=> OnQueue(q, m)
  BY <1>1 DEF OnQueue, OnIt
<1>4. OnQueue(r, m)' <=> OnIt(call, m)
  BY <1>1 DEF OnQueue, OnIt
<1>5. OnIt(call, m) => req'[r] = call BY <1>1 DEF OnIt
<1>6. \A p, q \in Request : OnQueue(p, m)' /\ OnQueue(q, m)' => p = q
  BY <1>2, <1>3, <1>4
<1>7. ASSUME NEW q \in Request, OnQueue(q, m)', req'[q].pc = "writeCampaign"
      PROVE  req'[q].items = queue'[m]
  <2>1. CASE q = r BY <1>4, <1>5, <1>7, <2>1
  <2>2. CASE q # r
    <3>1. OnQueue(q, m) /\ req'[q] = req[q] BY <1>1, <1>3, <1>7, <2>2
    <3>2. ~OnQueue(r, m) BY <1>2, <2>2, <3>1
    <3> QED BY <1>2, <1>7, <3>1, <3>2
  <2> QED BY <2>1, <2>2
<1>8. \/ Agrees(m)'
      \/ \E q \in Request : OnQueue(q, m)' /\ req'[q].pc \in {"listQueue", "writeCampaign"}
  <2>1. CASE OnIt(call, m) /\ call.pc \in {"listQueue", "writeCampaign"}
    BY <1>4, <1>5, <2>1
  <2>2. CASE /\ Agrees(m) => Agrees(m)'
             /\ ~(OnQueue(r, m) /\ req[r].pc \in {"listQueue", "writeCampaign"})
    <3>1. CASE Agrees(m) BY <2>2, <3>1
    <3>2. CASE ~Agrees(m)
      <4>1. PICK q \in Request : OnQueue(q, m) /\ req[q].pc \in {"listQueue", "writeCampaign"}
        BY <1>2, <3>2
      <4>2. q # r BY <2>2, <4>1
      <4> QED BY <1>1, <1>3, <4>1, <4>2
    <3> QED BY <3>1, <3>2
  <2> QED BY <2>1, <2>2
<1> QED BY <1>6, <1>7, <1>8

(* A step that has nothing to do with a queue, or only ends. *)
LEMMA QueueRests ==
  ASSUME ReqInv, QueueInv, NEW r \in Request, NEW call, IsCall(call), Become(r, call),
         mixed \subseteq mixed', campaigns' = campaigns, queue' = queue,
         call.pc # "writeCampaign", req[r].pc \notin {"listQueue", "writeCampaign"},
         \/ call.op \notin QueueOp
         \/ req[r].pc \notin Ended \cup {"waiting"} /\ call.op = req[r].op /\ call.row = req[r].row
  PROVE  QueueInv'
<1>1. \A m \in Request : Agrees(m) <=> Agrees(m)' BY DEF Agrees, Blocked
<1>2. \A m \in Request : OnIt(call, m) => OnQueue(r, m) BY DEF OnIt, OnQueue
<1> QED BY <1>1, <1>2, QueueKept

(* A request that starts alone with a campaign, or has the campaign counted *)
(* among the mixed.                                                         *)
LEMMA StartsAlone ==
  ASSUME ReqInv, QueueInv, NEW r \in Request, NEW call, IsCall(call), Start(r, call),
         campaigns' = campaigns, queue' = queue,
         call.pc \notin {"listQueue", "writeCampaign"}
  PROVE  QueueInv'
<1>1. Become(r, call) /\ req[r].pc = "waiting" BY DEF Start, Begin, At
<1>2. mixed' = mixed \cup (Concerns(call) \cap UNION {Concerns(req[q]) : q \in InFlight})
  BY DEF Start
<1>3. \A m \in Request : Agrees(m) <=> Agrees(m)' BY DEF Agrees, Blocked
<1>4. ASSUME NEW m \in Request \ mixed', OnIt(call, m), NEW q \in Request, OnQueue(q, m)
      PROVE  FALSE
  <2>1. m \in Concerns(call) BY <1>4 DEF OnIt, Concerns
  <2>2. q \in InFlight /\ m \in Concerns(req[q]) BY <1>4 DEF OnQueue, OnIt, Concerns, InFlight, At
  <2> QED BY <1>2, <2>1, <2>2
<1>5. mixed \subseteq mixed' BY <1>2
<1> QED BY <1>1, <1>3, <1>4, <1>5, QueueKept

---------------------------------------------------------------------------
(* The steps of the talent side *)

LEMMA TalentFacts ==
  ASSUME EmployerInv, NEW r \in Request
  PROVE  /\ ReqInv /\ TeamInv /\ TalentInv /\ QueueInv /\ TalentShape /\ RowsInv
         /\ IsCall(req[r]) /\ TalentKnows(r, req[r])
         /\ r # Nil /\ r \in Nat
BY EmployerNil, EmployerRequests DEF EmployerInv, TalentInv, ReqInv, Row

LEMMA StartReads ==
  ASSUME EmployerInv, NEW r \in Request, NEW op \in {"bulkTag", "bulkNote", "stage", "createCampaign"},
         NEW k \in Row, NEW what, NEW cs \in (SUBSET Candidate) \ {{}}, NEW row,
         Start(r, Call(op, "ensure", k, what, cs, row)), UNCHANGED <<team, talent, stops>>
  PROVE  EmployerInv'
<1>1. PICK c : c = Call(op, "ensure", k, what, cs, row) OBVIOUS
<1>2. /\ IsCall(c) /\ c.op = op /\ c.pc = "ensure" /\ c.company = k
      /\ c.todo = cs /\ c.cands = cs
  BY <1>1, CallFacts
<1>3. Start(r, c) /\ Become(r, c) /\ req[r].pc = "waiting" BY <1>1 DEF Start, Begin, At
<1>4. TalentKnows(r, req[r]) BY TalentFacts
<1>5. TalentKnows(r, c)
  BY <1>2, <1>3, <1>4 DEF TalentKnows, NoJobYet, NoCampaignYet, TalentPc, Ensuring, Staging, Queueing
<1>6. c.pc \notin TeamPc BY <1>2 DEF TeamPc, Unlisted
<1>7. /\ UNCHANGED <<companies, users, members, sessions, stops>> /\ UNCHANGED talent
      /\ campaigns' = campaigns /\ queue' = queue
  BY DEF team, talent
<1>8. ReqInv' /\ TeamInv' /\ TalentInv'
  BY <1>2, <1>3, <1>5, <1>6, <1>7, TalentFacts, TalentReads
<1>9. QueueInv' BY <1>2, <1>3, <1>7, TalentFacts, StartsAlone
<1> QED BY <1>8, <1>9 DEF EmployerInv

LEMMA BulkTagKeeps ==
  ASSUME EmployerInv, NEW r \in Request, BulkTag(r)
  PROVE  EmployerInv'
BY StartReads DEF BulkTag

LEMMA BulkNoteKeeps ==
  ASSUME EmployerInv, NEW r \in Request, BulkNote(r)
  PROVE  EmployerInv'
BY StartReads DEF BulkNote

LEMMA UpdateStageKeeps ==
  ASSUME EmployerInv, NEW r \in Request, UpdateCandidateStage(r)
  PROVE  EmployerInv'
<1>1. PICK k \in Row, c \in Candidate, s \in Stage,
           j \in {i \in Request : jobs[i] # NoRow} \cup {Nil} :
        Start(r, Call("stage", "ensure", k, s, {c}, j))
  BY DEF UpdateCandidateStage
<1>2. {c} \in (SUBSET Candidate) \ {{}} OBVIOUS
<1>3. UNCHANGED <<team, talent, stops>> BY DEF UpdateCandidateStage
<1> QED BY <1>1, <1>2, <1>3, StartReads

LEMMA CreateCampaignKeeps ==
  ASSUME EmployerInv, NEW r \in Request, CreateOutreachCampaign(r)
  PROVE  EmployerInv'
BY StartReads DEF CreateOutreachCampaign

LEMMA DeleteTagKeeps ==
  ASSUME EmployerInv, NEW r \in Request, DeleteTag(r)
  PROVE  EmployerInv'
<1>1. PICK k \in Row : Start(r, Call("deleteTag", "done", k, Nil, {}, Nil)) BY DEF DeleteTag
<1>2. PICK c : c = Call("deleteTag", "done", k, Nil, {}, Nil) OBVIOUS
<1>3. IsCall(c) /\ c.op = "deleteTag" /\ c.pc = "done" BY <1>2, CallFacts
<1>4. Start(r, c) /\ Become(r, c) /\ req[r].pc = "waiting" BY <1>1, <1>2 DEF Start, Begin, At
<1>5. /\ UNCHANGED <<companies, users, members, sessions, stops>>
      /\ UNCHANGED <<candidates, jobs, history, notes, campaigns, queue>>
      /\ tags' \subseteq tags
  BY DEF DeleteTag, team
<1>6. TalentShape' BY <1>5, TalentFacts DEF TalentShape
<1>7. Grow(r) BY <1>5 DEF Grow
<1>8. TalentKnows(r, c)' /\ c.pc \notin TeamPc
  BY <1>3 DEF TalentKnows, NoJobYet, NoCampaignYet, TalentPc, Ensuring, Staging, Queueing,
              TeamPc, Unlisted
<1>9. ReqInv' /\ TeamInv' /\ TalentInv'
  BY <1>3, <1>4, <1>5, <1>6, <1>7, <1>8, TalentFacts, TalentMoves
<1>10. QueueInv' BY <1>3, <1>4, <1>5, TalentFacts, StartsAlone
<1> QED BY <1>9, <1>10 DEF EmployerInv

(* A new job is a row with a number. *)
LEMMA NextNumber == Cardinality({j \in Request : jobs[j] # NoRow}) + 1 \in Nat
<1>1. PICK S : S = {j \in Request : jobs[j] # NoRow} OBVIOUS
<1>2. IsFiniteSet(S) BY <1>1, EmployerRequests, FS_Subset
<1>3. Cardinality(S) \in Nat BY <1>2, FS_CardinalityType
<1> QED BY <1>1, <1>3

LEMMA RowIsSome == ASSUME NEW job, "company" \in DOMAIN job PROVE job # NoRow
<1>1. DOMAIN NoRow = {"none"} BY DEF NoRow
<1> QED BY <1>1

LEMMA CreateJobKeeps ==
  ASSUME EmployerInv, NEW r \in Request, CreateJob(r)
  PROVE  EmployerInv'
<1>1. PICK k \in Row, pool \in BOOLEAN :
        /\ Start(r, Call("createJob", "done", k, Nil, {}, Nil))
        /\ jobs' = [jobs EXCEPT ![r] = NewJob(k, pool, FALSE)]
  BY DEF CreateJob
<1>18. PICK i : i = Cardinality({j \in Request : jobs[j] # NoRow}) + 1 OBVIOUS
<1>19. PICK job : job = [company |-> k, pool |-> pool, made |-> FALSE, id |-> i] OBVIOUS
<1>20. "company" \in DOMAIN job /\ i \in Nat BY <1>18, <1>19, NextNumber
<1>21. job # NoRow /\ job.id \in Nat /\ job.company = k /\ ~job.made BY <1>19, <1>20, RowIsSome
<1>22. jobs' = [jobs EXCEPT ![r] = job] BY <1>1, <1>18, <1>19 DEF NewJob
<1>2. PICK c : c = Call("createJob", "done", k, Nil, {}, Nil) OBVIOUS
<1>3. IsCall(c) /\ c.op = "createJob" /\ c.pc = "done" BY <1>2, CallFacts
<1>4. Start(r, c) /\ Become(r, c) /\ req[r].pc = "waiting" BY <1>1, <1>2 DEF Start, Begin, At
<1>5. /\ UNCHANGED <<companies, users, members, sessions, stops>>
      /\ UNCHANGED <<candidates, history, notes, tags, campaigns, queue>>
  BY DEF CreateJob, team
<1>6. jobs[r] = NoRow BY <1>4, TalentFacts DEF TalentKnows, NoJobYet
<1>7. TalentShape' BY <1>5, <1>21, <1>22, TalentFacts DEF TalentShape
<1>8. Grow(r) BY <1>5, <1>6, <1>22, TalentFacts DEF Grow, TalentShape
<1>9. TalentKnows(r, c)' /\ c.pc \notin TeamPc
  BY <1>3 DEF TalentKnows, NoJobYet, NoCampaignYet, TalentPc, Ensuring, Staging, Queueing,
              TeamPc, Unlisted
<1>10. ReqInv' /\ TeamInv' /\ TalentInv'
  BY <1>3, <1>4, <1>5, <1>7, <1>8, <1>9, TalentFacts, TalentMoves
<1>11. QueueInv' BY <1>3, <1>4, <1>5, TalentFacts, StartsAlone
<1> QED BY <1>10, <1>11 DEF EmployerInv

LEMMA PrepareKeeps ==
  ASSUME EmployerInv, NEW r \in Request, PrepareSendQueue(r)
  PROVE  EmployerInv'
<1> DEFINE Kept(items) == {c \in Candidate : items[c] # Nil}
           First(items) == IF Kept(items) = {} THEN "replaceQueue" ELSE "ensure"
<1>1. PICK k \in Row, m \in Request, items \in Items :
        /\ OwnCampaign(k, m)
        /\ Start(r, [Call("prepareQueue", First(items), k, items, Kept(items), m)
                       EXCEPT !.items = items])
  BY DEF PrepareSendQueue
<1>2. PICK a : a = Call("prepareQueue", First(items), k, items, Kept(items), m) OBVIOUS
<1>3. PICK c : c = [a EXCEPT !.items = items] OBVIOUS
<1>4. /\ IsCall(a) /\ a.op = "prepareQueue" /\ a.pc = First(items) /\ a.company = k
      /\ a.what = items /\ a.todo = Kept(items) /\ a.cands = Kept(items) /\ a.row = m
  BY <1>2, CallFacts
<1>5. /\ IsCall(c) /\ c.op = "prepareQueue" /\ c.pc = First(items) /\ c.company = k
      /\ c.what = items /\ c.todo = Kept(items) /\ c.cands = Kept(items) /\ c.row = m
  BY <1>3, <1>4 DEF IsCall, CallFields
<1>6. Start(r, c) /\ Become(r, c) /\ req[r].pc = "waiting"
  BY <1>1, <1>2, <1>3 DEF Start, Begin, At
<1>7. jobs[r] = NoRow /\ campaigns[r] = NoRow
  BY <1>6, TalentFacts DEF TalentKnows, NoJobYet, NoCampaignYet
<1>8. \/ c.pc = "replaceQueue" /\ \A d \in Candidate : items[d] = Nil
      \/ c.pc = "ensure" /\ c.cands # {}
  BY <1>5
<1>9. TalentKnows(r, c)
  BY <1>1, <1>5, <1>7, <1>8
  DEF TalentKnows, NoJobYet, NoCampaignYet, TalentPc, Ensuring, Staging, Queueing, OwnRow, QueueOp
<1>10. c.pc \notin TeamPc BY <1>8 DEF TeamPc, Unlisted
<1>11. /\ UNCHANGED <<companies, users, members, sessions, stops>> /\ UNCHANGED talent
       /\ campaigns' = campaigns /\ queue' = queue
  BY DEF PrepareSendQueue, team, talent
<1>12. ReqInv' /\ TeamInv' /\ TalentInv'
  BY <1>5, <1>6, <1>9, <1>10, <1>11, TalentFacts, TalentReads
<1>13. QueueInv' BY <1>5, <1>6, <1>8, <1>11, TalentFacts, StartsAlone
<1> QED BY <1>12, <1>13 DEF EmployerInv

LEMMA UpdateItemKeeps ==
  ASSUME EmployerInv, NEW r \in Request, UpdateQueueItem(r)
  PROVE  EmployerInv'
<1> DEFINE First(m, d) == IF queue[m][d] = Nil THEN "refused" ELSE "writeItem"
<1>1. PICK k \in Row, m \in Request, d \in Candidate, s \in ItemStatus :
        /\ OwnCampaign(k, m)
        /\ Start(r, [Call("updateItem", First(m, d), k, s, {}, m) EXCEPT !.cur = d])
  BY DEF UpdateQueueItem
<1>2. PICK a : a = Call("updateItem", First(m, d), k, s, {}, m) OBVIOUS
<1>3. PICK c : c = [a EXCEPT !.cur = d] OBVIOUS
<1>4. /\ IsCall(a) /\ a.op = "updateItem" /\ a.pc = First(m, d) /\ a.company = k
      /\ a.cands = {} /\ a.row = m
  BY <1>2, CallFacts
<1>5. /\ IsCall(c) /\ c.op = "updateItem" /\ c.pc \in {"refused", "writeItem"} /\ c.company = k
      /\ c.cands = {} /\ c.row = m /\ c.cur = d
  BY <1>3, <1>4 DEF IsCall, CallFields
<1>6. Start(r, c) /\ Become(r, c) /\ req[r].pc = "waiting"
  BY <1>1, <1>2, <1>3 DEF Start, Begin, At
<1>7. TalentKnows(r, c)
  BY <1>1, <1>5
  DEF TalentKnows, NoJobYet, NoCampaignYet, TalentPc, Ensuring, Staging, Queueing, OwnRow, QueueOp
<1>8. c.pc \notin TeamPc BY <1>5 DEF TeamPc, Unlisted
<1>9. /\ UNCHANGED <<companies, users, members, sessions, stops>> /\ UNCHANGED talent
      /\ campaigns' = campaigns /\ queue' = queue
  BY DEF UpdateQueueItem, team, talent
<1>10. ReqInv' /\ TeamInv' /\ TalentInv'
  BY <1>5, <1>6, <1>7, <1>8, <1>9, TalentFacts, TalentReads
<1>11. QueueInv' BY <1>5, <1>6, <1>9, TalentFacts, StartsAlone
<1> QED BY <1>10, <1>11 DEF EmployerInv

(* After a candidate is there, or was: the next one, or what comes after.   *)
LEMMA EnsureNextFacts ==
  ASSUME TalentShape, NEW r \in Request, Grow(r), jobs' = jobs, campaigns' = campaigns,
         NEW old, IsCall(old), TalentKnows(r, old), old.pc \in Ensuring,
         NEW d \in old.todo, Owns(old.company, d)', NEW c, c = EnsureNext(old, d)
  PROVE  /\ IsCall(c) /\ c.op = old.op /\ c.row = old.row
         /\ c.pc \notin TeamPc /\ c.pc # "writeCampaign"
         /\ TalentKnows(r, c)'
<1>1. PICK a : a = [old EXCEPT !.todo = old.todo \ {d}, !.cur = Nil, !.pc = "ensure"] OBVIOUS
<1>2. /\ IsCall(a) /\ a.op = old.op /\ a.pc = "ensure" /\ a.company = old.company
      /\ a.what = old.what /\ a.todo = old.todo \ {d} /\ a.cands = old.cands /\ a.row = old.row
  BY <1>1 DEF IsCall, CallFields
<1>3. PICK k : k = old.company OBVIOUS
<1>4. \A e : Owns(k, e) => Owns(k, e)' BY Monotone
<1>5. \A m : OwnRow(k, m) => OwnRow(k, m)' BY Monotone
<1>6. /\ old.op \in {"stage", "createCampaign", "prepareQueue", "bulkTag", "bulkNote"}
      /\ k \in Row /\ old.cands \subseteq Candidate /\ old.cands # {}
      /\ old.todo \subseteq old.cands
      /\ \A e \in old.cands \ old.todo : Owns(k, e)
      /\ jobs[r] = NoRow /\ campaigns[r] = NoRow
      /\ old.op = "prepareQueue" =>
           /\ \A e \in Candidate : old.what[e] # Nil => e \in old.cands
           /\ OwnRow(k, old.row) /\ old.what \in Items
  BY <1>3 DEF TalentKnows, Ensuring, TalentPc, NoJobYet, NoCampaignYet
<1>7. \A e \in old.cands \ a.todo : Owns(k, e)' BY <1>2, <1>3, <1>4, <1>6
<1>8. CASE a.todo # {}
  <2>1. c = a BY <1>1, <1>8 DEF EnsureNext
  <2>2. TalentKnows(r, c)'
    BY <1>2, <1>3, <1>5, <1>6, <1>7, <1>8, <2>1
    DEF TalentKnows, Ensuring, TalentPc, NoJobYet, NoCampaignYet, Staging, Queueing, QueueOp
  <2> QED BY <1>2, <2>1, <2>2 DEF TeamPc, Unlisted
<1>9. CASE a.todo = {}
  <2>1. c = Ensured(a) BY <1>1, <1>9 DEF EnsureNext
  <2>2. PICK pc : pc = CASE a.op = "stage" -> "findJob"
                         [] a.op = "createCampaign" -> "insertCampaign"
                         [] a.op = "prepareQueue" -> "replaceQueue"
                         [] a.op \in {"bulkTag", "bulkNote"} -> "mark"
    OBVIOUS
  <2>3. c = [a EXCEPT !.todo = a.cands, !.pc = pc] BY <2>1, <2>2 DEF Ensured
  <2>4. /\ IsCall(c) /\ c.op = old.op /\ c.pc = pc /\ c.company = k
        /\ c.what = old.what /\ c.todo = old.cands /\ c.cands = old.cands /\ c.row = old.row
    BY <1>2, <1>3, <2>3 DEF IsCall, CallFields
  <2>5. \A e \in old.cands : Owns(k, e)' BY <1>7, <1>9
  <2>6. \/ old.op = "stage" /\ pc = "findJob"
        \/ old.op = "createCampaign" /\ pc = "insertCampaign"
        \/ old.op = "prepareQueue" /\ pc = "replaceQueue"
        \/ old.op \in {"bulkTag", "bulkNote"} /\ pc = "mark"
    BY <1>2, <1>6, <2>2
  <2>7. TalentKnows(r, c)'
    BY <1>5, <1>6, <2>4, <2>5, <2>6
    DEF TalentKnows, Ensuring, TalentPc, NoJobYet, NoCampaignYet, Staging, Queueing, QueueOp
  <2> QED BY <2>4, <2>6, <2>7 DEF TeamPc, Unlisted
<1> QED BY <1>8, <1>9

LEMMA FindCandidateKeeps ==
  ASSUME EmployerInv, NEW r \in Request, FindCandidate(r)
  PROVE  EmployerInv'
<1>1. req[r].pc = "ensure" BY DEF FindCandidate, At
<1>2. PICK old : old = req[r] OBVIOUS
<1>3. PICK d \in old.todo :
        Become(r, IF HasCandidate(old.company, d) THEN EnsureNext(old, d)
                  ELSE [old EXCEPT !.cur = d, !.pc = "addCandidate"])
  BY <1>2 DEF FindCandidate
<1>4. /\ UNCHANGED <<companies, users, members, sessions, stops>> /\ UNCHANGED talent
      /\ campaigns' = campaigns /\ queue' = queue /\ jobs' = jobs /\ candidates' = candidates
      /\ mixed' = mixed
  BY DEF FindCandidate, ReadsOnly, team, talent
<1>5. IsCall(old) /\ TalentKnows(r, old) BY <1>2, TalentFacts
<1>6. Grow(r) /\ TalentShape /\ TalentShape' BY <1>4, TalentFacts DEF Grow, TalentShape, talent
<1>7. d \in Candidate /\ old.company \in Row
  BY <1>1, <1>2, <1>5 DEF TalentKnows, Ensuring, TalentPc
<1>8. CASE HasCandidate(old.company, d)
  <2>1. PICK c : c = EnsureNext(old, d) OBVIOUS
  <2>2. Become(r, c) BY <1>3, <1>8, <2>1
  <2>3. Owns(old.company, d)' BY <1>4, <1>7, <1>8 DEF Owns, HasCandidate
  <2>4. /\ IsCall(c) /\ c.op = old.op /\ c.row = old.row
        /\ c.pc \notin TeamPc /\ c.pc # "writeCampaign" /\ TalentKnows(r, c)'
    BY <1>1, <1>2, <1>4, <1>5, <1>6, <2>1, <2>3, EnsureNextFacts DEF Ensuring
  <2>5. ReqInv' /\ TeamInv' /\ TalentInv'
    BY <1>1, <1>4, <1>6, <2>2, <2>4, TalentFacts, TalentMoves DEF talent
  <2>6. QueueInv'
    BY <1>1, <1>2, <1>4, <2>2, <2>4, TalentFacts, QueueRests DEF Ended
  <2> QED BY <2>5, <2>6 DEF EmployerInv
<1>9. CASE ~HasCandidate(old.company, d)
  <2>1. PICK c : c = [old EXCEPT !.cur = d, !.pc = "addCandidate"] OBVIOUS
  <2>2. Become(r, c) BY <1>3, <1>9, <2>1
  <2>3. /\ IsCall(c) /\ c.op = old.op /\ c.pc = "addCandidate" /\ c.company = old.company
        /\ c.what = old.what /\ c.todo = old.todo /\ c.cands = old.cands
        /\ c.row = old.row /\ c.cur = d
    BY <1>5, <2>1 DEF IsCall, CallFields
  <2>4. TalentKnows(r, c) /\ c.pc \notin TeamPc
    BY <1>1, <1>2, <1>5, <2>3
    DEF TalentKnows, Ensuring, TalentPc, NoJobYet, NoCampaignYet, Staging, Queueing, QueueOp,
        TeamPc, Unlisted
  <2>5. ReqInv' /\ TeamInv' /\ TalentInv'
    BY <1>1, <1>4, <2>2, <2>3, <2>4, TalentFacts, TalentReads
  <2>6. QueueInv'
    BY <1>1, <1>2, <1>4, <2>2, <2>3, TalentFacts, QueueRests DEF Ended
  <2> QED BY <2>5, <2>6 DEF EmployerInv
<1> QED BY <1>8, <1>9

(* A step that ends a request and writes nothing. *)
LEMMA TalentEnds ==
  ASSUME EmployerInv, NEW r \in Request, NEW pc \in Ended, Go(r, pc),
         UNCHANGED <<team, talent, mixed, stops>>,
         req[r].pc \notin {"waiting", "addOwner", "listQueue", "writeCampaign"} \cup Ended
  PROVE  EmployerInv'
<1>1. PICK c : c = [req[r] EXCEPT !.pc = pc] OBVIOUS
<1>2. IsCall(c) /\ c.op = req[r].op /\ c.pc = pc /\ c.row = req[r].row
  BY <1>1, MovedFacts, TalentFacts
<1>3. Become(r, c) BY <1>1 DEF Go
<1>4. /\ TalentKnows(r, c) /\ c.pc \notin TeamPc /\ c.pc # "writeCampaign"
  BY <1>2 DEF TalentKnows, Ensuring, TalentPc, NoJobYet, NoCampaignYet, Staging, Queueing,
      TeamPc, Unlisted, Ended
<1>5. /\ UNCHANGED <<companies, users, members, sessions, stops>> /\ UNCHANGED talent
      /\ campaigns' = campaigns /\ queue' = queue /\ mixed' = mixed
  BY DEF team, talent
<1>6. ReqInv' /\ TeamInv' /\ TalentInv'
  BY <1>2, <1>3, <1>4, <1>5, TalentFacts, TalentReads
<1>7. QueueInv' BY <1>2, <1>3, <1>4, <1>5, TalentFacts, QueueRests
<1> QED BY <1>6, <1>7 DEF EmployerInv

LEMMA AddCandidateKeeps ==
  ASSUME EmployerInv, NEW r \in Request, AddCandidate(r)
  PROVE  EmployerInv'
<1>1. req[r].pc = "addCandidate" BY DEF AddCandidate, At
<1>2. PICK old : old = req[r] OBVIOUS
<1>3. PICK d : d = old.cur OBVIOUS
<1>4. /\ UNCHANGED <<companies, users, members, sessions, stops>>
      /\ UNCHANGED <<jobs, stages, history, tags, notes, campaigns, queue, mixed>>
  BY DEF AddCandidate, team
<1>5. IsCall(old) /\ TalentKnows(r, old) BY <1>2, TalentFacts
<1>6. d \in old.todo /\ d \in Candidate /\ old.company \in Row
  BY <1>1, <1>2, <1>3, <1>5 DEF TalentKnows, Ensuring, TalentPc
<1>7. CASE Go(r, "raised") /\ UNCHANGED candidates
  BY <1>1, <1>4, <1>7, TalentEnds DEF AddCandidate, talent, team, Ended
<1>8. CASE /\ candidates[d] = Nil
           /\ candidates' = [candidates EXCEPT ![d] = old.company]
           /\ Become(r, EnsureNext(old, d))
  <2>1. PICK c : c = EnsureNext(old, d) OBVIOUS
  <2>2. Become(r, c) BY <1>8, <2>1
  <2>3. Grow(r) BY <1>4, <1>6, <1>8, TalentFacts, EmployerNil DEF Grow, TalentShape
  <2>4. TalentShape /\ TalentShape' BY <1>4, <1>8, TalentFacts DEF TalentShape
  <2>5. Owns(old.company, d)' BY <1>6, <1>8, <2>4 DEF Owns, TalentShape
  <2>6. /\ IsCall(c) /\ c.op = old.op /\ c.row = old.row
        /\ c.pc \notin TeamPc /\ c.pc # "writeCampaign" /\ TalentKnows(r, c)'
    BY <1>1, <1>2, <1>4, <1>5, <1>6, <2>1, <2>3, <2>4, <2>5, EnsureNextFacts DEF Ensuring
  <2>7. ReqInv' /\ TeamInv' /\ TalentInv'
    BY <1>1, <1>4, <2>2, <2>3, <2>4, <2>6, TalentFacts, TalentMoves
  <2>8. QueueInv'
    BY <1>1, <1>2, <1>4, <2>2, <2>6, TalentFacts, QueueRests DEF Ended
  <2> QED BY <2>7, <2>8 DEF EmployerInv
<1> QED BY <1>2, <1>3, <1>7, <1>8 DEF AddCandidate

(* A request goes on to its next candidate, or ends. *)
LEMMA AdvanceFacts ==
  ASSUME EmployerInv, NEW r \in Request, req[r].pc \in {"mark", "note"}, NEW d, Advance(r, d)
  PROVE  \E c : /\ IsCall(c) /\ Become(r, c) /\ c.op = req[r].op /\ c.row = req[r].row
               /\ c.pc \in {"mark", "done"} /\ TalentKnows(r, c)
<1>1. PICK old : old = req[r] OBVIOUS
<1>2. IsCall(old) /\ TalentKnows(r, old) BY <1>1, TalentFacts
<1>3. PICK a : a = [old EXCEPT !.todo = old.todo \ {d}, !.cur = Nil] OBVIOUS
<1>4. PICK pc : pc = IF a.todo = {} THEN "done" ELSE "mark" OBVIOUS
<1>5. PICK c : c = [a EXCEPT !.pc = pc] OBVIOUS
<1>6. /\ IsCall(c) /\ c.op = old.op /\ c.row = old.row /\ c.pc = pc
      /\ c.company = old.company /\ c.cands = old.cands /\ c.todo = old.todo \ {d}
  BY <1>2, <1>3, <1>5 DEF IsCall, CallFields
<1>7. Become(r, c) BY <1>1, <1>3, <1>4, <1>5 DEF Advance
<1>8. TalentKnows(r, c)
  BY <1>1, <1>2, <1>4, <1>6
  DEF TalentKnows, Ensuring, TalentPc, NoJobYet, NoCampaignYet, Staging, Queueing
<1> QED BY <1>1, <1>4, <1>6, <1>7, <1>8

LEMMA MarkTagKeeps ==
  ASSUME EmployerInv, NEW r \in Request, MarkTag(r)
  PROVE  EmployerInv'
<1>1. req[r].pc = "mark" BY DEF MarkTag, At
<1>2. PICK old : old = req[r] OBVIOUS
<1>3. PICK d \in old.todo :
        /\ tags' = tags \cup ({old.company} \X {d} \X Tagged(old, d))
        /\ IF old.op = "bulkTag" THEN Advance(r, d)
           ELSE Become(r, [old EXCEPT !.cur = d, !.pc = "note"])
  BY <1>2 DEF MarkTag
<1>4. IsCall(old) /\ TalentKnows(r, old) BY <1>2, TalentFacts
<1>5. Owns(old.company, d) BY <1>1, <1>2, <1>4 DEF TalentKnows
<1>6. \E c : /\ IsCall(c) /\ Become(r, c) /\ c.op = req[r].op /\ c.row = req[r].row
             /\ c.pc \in {"mark", "done", "note"} /\ TalentKnows(r, c)
  <2>1. CASE old.op = "bulkTag"
    BY <1>1, <1>3, <2>1, AdvanceFacts
  <2>2. CASE old.op # "bulkTag"
    <3>1. PICK c : c = [old EXCEPT !.cur = d, !.pc = "note"] OBVIOUS
    <3>2. /\ IsCall(c) /\ c.op = old.op /\ c.pc = "note" /\ c.company = old.company
          /\ c.todo = old.todo /\ c.cands = old.cands /\ c.row = old.row /\ c.cur = d
      BY <1>4, <3>1 DEF IsCall, CallFields
    <3>3. TalentKnows(r, c)
      BY <1>1, <1>2, <1>4, <1>5, <3>2
      DEF TalentKnows, Ensuring, TalentPc, NoJobYet, NoCampaignYet, Staging, Queueing
    <3> QED BY <1>2, <1>3, <2>2, <3>1, <3>2, <3>3
  <2> QED BY <2>1, <2>2
<1>7. PICK c : /\ IsCall(c) /\ Become(r, c) /\ c.op = req[r].op /\ c.row = req[r].row
              /\ c.pc \in {"mark", "done", "note"} /\ TalentKnows(r, c)
  BY <1>6
<1>8. /\ UNCHANGED <<companies, users, members, sessions, stops>>
      /\ UNCHANGED <<candidates, jobs, stages, history, notes, campaigns, queue, mixed>>
  BY DEF MarkTag, team
<1>9. Grow(r) /\ TalentShape' BY <1>8, TalentFacts DEF Grow, TalentShape
<1>10. \A t \in tags' : t \in tags \/ Owns(t[1], t[2]) BY <1>3, <1>5
<1>11. TalentKnows(r, c)'
  BY <1>7, <1>8 DEF TalentKnows, Owns, OwnJob, OwnRow, OwnCampaign
<1>12. c.pc \notin TeamPc BY <1>7 DEF TeamPc, Unlisted
<1>13. ReqInv' /\ TeamInv' /\ TalentInv'
  BY <1>1, <1>7, <1>8, <1>9, <1>10, <1>11, <1>12, TalentFacts, TalentMoves
<1>14. QueueInv' BY <1>1, <1>7, <1>8, TalentFacts, QueueRests DEF Ended
<1> QED BY <1>13, <1>14 DEF EmployerInv

LEMMA MarkNoteKeeps ==
  ASSUME EmployerInv, NEW r \in Request, MarkNote(r)
  PROVE  EmployerInv'
<1>1. req[r].pc = "note" BY DEF MarkNote, At
<1>2. Owns(req[r].company, req[r].cur) BY <1>1, TalentFacts DEF TalentKnows
<1>3. PICK d : d = req[r].cur /\ Advance(r, d) BY DEF MarkNote
<1>4. PICK c : /\ IsCall(c) /\ Become(r, c) /\ c.op = req[r].op /\ c.row = req[r].row
              /\ c.pc \in {"mark", "done"} /\ TalentKnows(r, c)
  BY <1>1, <1>3, AdvanceFacts
<1>5. /\ UNCHANGED <<companies, users, members, sessions, stops>>
      /\ UNCHANGED <<candidates, jobs, stages, history, tags, campaigns, queue, mixed>>
  BY DEF MarkNote, team
<1>6. Grow(r) /\ TalentShape' BY <1>5, TalentFacts DEF Grow, TalentShape
<1>7. \A n \in notes' : n \in notes \/ Owns(n[1], n[2]) BY <1>2 DEF MarkNote
<1>8. TalentKnows(r, c)'
  BY <1>4, <1>5 DEF TalentKnows, Owns, OwnJob, OwnRow, OwnCampaign
<1>9. c.pc \notin TeamPc BY <1>4 DEF TeamPc, Unlisted
<1>10. ReqInv' /\ TeamInv' /\ TalentInv'
  BY <1>1, <1>4, <1>5, <1>6, <1>7, <1>8, <1>9, TalentFacts, TalentMoves
<1>11. QueueInv' BY <1>1, <1>4, <1>5, TalentFacts, QueueRests DEF Ended
<1> QED BY <1>10, <1>11 DEF EmployerInv

(* The oldest of some jobs is one of them. *)
LEMMA OldestIsOne ==
  ASSUME NEW S, S # {}, \A j \in S : jobs[j].id \in Nat
  PROVE  Oldest(S) \in S
<1>1. PICK T : T = {jobs[j].id : j \in S} OBVIOUS
<1>2. T \in SUBSET Nat /\ T # {} BY <1>1
<1>3. PICK n \in T : \A i \in T : n <= i BY <1>2, LeastOf
<1>4. PICK j \in S : n = jobs[j].id BY <1>1, <1>3
<1>5. \A i \in S : jobs[j].id <= jobs[i].id BY <1>1, <1>3, <1>4
<1> QED BY <1>5 DEF Oldest

LEMMA FindJobKeeps ==
  ASSUME EmployerInv, NEW r \in Request, FindJob(r)
  PROVE  EmployerInv'
<1>1. req[r].pc = "findJob" BY DEF FindJob, At
<1>2. PICK old : old = req[r] OBVIOUS
<1>3. IsCall(old) /\ TalentKnows(r, old) BY <1>2, TalentFacts
<1>4. /\ UNCHANGED <<companies, users, members, sessions, stops>> /\ UNCHANGED talent
      /\ campaigns' = campaigns /\ queue' = queue /\ mixed' = mixed
  BY DEF FindJob, ReadsOnly, team, talent
<1>5. ASSUME NEW j \in Jobs(old.company),
             Become(r, [old EXCEPT !.row = j, !.pc = "readStage"])
      PROVE  EmployerInv'
  <2>1. PICK c : c = [old EXCEPT !.row = j, !.pc = "readStage"] OBVIOUS
  <2>2. /\ IsCall(c) /\ c.op = old.op /\ c.pc = "readStage" /\ c.company = old.company
        /\ c.cands = old.cands /\ c.row = j
    BY <1>3, <2>1 DEF IsCall, CallFields
  <2>3. OwnJob(old.company, j) BY DEF OwnJob, Jobs
  <2>4. TalentKnows(r, c) /\ c.pc \notin TeamPc /\ c.op \notin QueueOp
    BY <1>1, <1>2, <1>3, <2>2, <2>3
    DEF TalentKnows, Ensuring, TalentPc, NoJobYet, NoCampaignYet, Staging, Queueing,
        TeamPc, Unlisted, QueueOp
  <2>5. ReqInv' /\ TeamInv' /\ TalentInv'
    BY <1>1, <1>4, <1>5, <2>1, <2>2, <2>4, TalentFacts, TalentReads
  <2>6. QueueInv' BY <1>1, <1>4, <1>5, <2>1, <2>2, <2>4, TalentFacts, QueueRests
  <2> QED BY <2>5, <2>6 DEF EmployerInv
<1>6. CASE Go(r, "addPool")
  <2>1. PICK c : c = [old EXCEPT !.pc = "addPool"] OBVIOUS
  <2>2. /\ IsCall(c) /\ c.op = old.op /\ c.pc = "addPool" /\ c.company = old.company
        /\ c.cands = old.cands /\ c.row = old.row
    BY <1>3, <2>1 DEF IsCall, CallFields
  <2>3. Become(r, c) BY <1>2, <1>6, <2>1 DEF Go
  <2>4. TalentKnows(r, c) /\ c.pc \notin TeamPc /\ c.op \notin QueueOp
    BY <1>1, <1>2, <1>3, <2>2
    DEF TalentKnows, Ensuring, TalentPc, NoJobYet, NoCampaignYet, Staging, Queueing,
        TeamPc, Unlisted, QueueOp
  <2>5. ReqInv' /\ TeamInv' /\ TalentInv'
    BY <1>1, <1>4, <2>2, <2>3, <2>4, TalentFacts, TalentReads
  <2>6. QueueInv' BY <1>1, <1>4, <2>2, <2>3, <2>4, TalentFacts, QueueRests
  <2> QED BY <2>5, <2>6 DEF EmployerInv
<1>7. Pools(old.company) # {} => Oldest(Pools(old.company)) \in Jobs(old.company)
  <2>1. PICK S : S = Pools(old.company) OBVIOUS
  <2>2. S \subseteq Jobs(old.company) /\ \A j \in S : jobs[j].id \in Nat
    BY <2>1, TalentFacts DEF Pools, Jobs, TalentShape
  <2>3. S # {} => Oldest(S) \in S BY <2>2, OldestIsOne
  <2> QED BY <2>1, <2>2, <2>3
<1> QED BY <1>2, <1>5, <1>6, <1>7 DEF FindJob

LEMMA AddPoolKeeps ==
  ASSUME EmployerInv, NEW r \in Request, AddPool(r)
  PROVE  EmployerInv'
<1>1. req[r].pc = "addPool" BY DEF AddPool, At
<1>2. PICK old : old = req[r] OBVIOUS
<1>3. IsCall(old) /\ TalentKnows(r, old) BY <1>2, TalentFacts
<1>4. PICK c : c = [old EXCEPT !.row = r, !.pc = "readStage"] OBVIOUS
<1>5. /\ IsCall(c) /\ c.op = old.op /\ c.pc = "readStage" /\ c.company = old.company
      /\ c.cands = old.cands /\ c.row = r
  BY <1>3, <1>4 DEF IsCall, CallFields
<1>18. PICK i : i = Cardinality({j \in Request : jobs[j] # NoRow}) + 1 OBVIOUS
<1>19. PICK job : job = [company |-> old.company, pool |-> TRUE, made |-> TRUE, id |-> i] OBVIOUS
<1>20. "company" \in DOMAIN job /\ i \in Nat BY <1>18, <1>19, NextNumber
<1>21. job # NoRow /\ job.id \in Nat /\ job.company = old.company BY <1>19, <1>20, RowIsSome
<1>6. Become(r, c) /\ jobs' = [jobs EXCEPT ![r] = job]
  BY <1>2, <1>4, <1>18, <1>19 DEF AddPool, NewJob
<1>7. /\ UNCHANGED <<companies, users, members, sessions, stops>>
      /\ UNCHANGED <<candidates, stages, history, tags, notes, campaigns, queue, mixed>>
  BY DEF AddPool, team
<1>8. jobs[r] = NoRow BY <1>1, <1>2, <1>3 DEF TalentKnows, NoJobYet
<1>9. TalentShape /\ TalentShape' BY <1>6, <1>7, <1>21, TalentFacts DEF TalentShape
<1>10. Grow(r) BY <1>6, <1>7, <1>8, <1>9 DEF Grow, TalentShape
<1>11. OwnJob(c.company, r)' BY <1>5, <1>6, <1>9, <1>21 DEF OwnJob, TalentShape
<1>12. TalentKnows(r, c)' /\ c.pc \notin TeamPc /\ c.op \notin QueueOp
  BY <1>1, <1>2, <1>3, <1>5, <1>7, <1>11
  DEF TalentKnows, Ensuring, TalentPc, NoJobYet, NoCampaignYet, Staging, Queueing,
      TeamPc, Unlisted, QueueOp, Owns
<1>13. ReqInv' /\ TeamInv' /\ TalentInv'
  BY <1>1, <1>5, <1>6, <1>7, <1>9, <1>10, <1>12, TalentFacts, TalentMoves
<1>14. QueueInv' BY <1>1, <1>5, <1>6, <1>7, <1>12, TalentFacts, QueueRests
<1> QED BY <1>13, <1>14 DEF EmployerInv

LEMMA ReadStageKeeps ==
  ASSUME EmployerInv, NEW r \in Request, ReadStage(r)
  PROVE  EmployerInv'
<1>1. req[r].pc = "readStage" BY DEF ReadStage, At
<1>2. PICK old : old = req[r] OBVIOUS
<1>3. IsCall(old) /\ TalentKnows(r, old) BY <1>2, TalentFacts
<1>4. PICK stage : stage = stages[<<old.row, StageCandidate(r)>>] OBVIOUS
<1>5. PICK c : c = [old EXCEPT !.items = stage, !.pc = "writeStage"] OBVIOUS
<1>6. /\ IsCall(c) /\ c.op = old.op /\ c.pc = "writeStage" /\ c.company = old.company
      /\ c.cands = old.cands /\ c.row = old.row
  BY <1>3, <1>5 DEF IsCall, CallFields
<1>7. Become(r, c) BY <1>2, <1>4, <1>5 DEF ReadStage
<1>8. /\ UNCHANGED <<companies, users, members, sessions, stops>> /\ UNCHANGED talent
      /\ campaigns' = campaigns /\ queue' = queue /\ mixed' = mixed
  BY DEF ReadStage, ReadsOnly, team, talent
<1>9. TalentKnows(r, c) /\ c.pc \notin TeamPc /\ c.op \notin QueueOp
  BY <1>1, <1>2, <1>3, <1>6
  DEF TalentKnows, Ensuring, TalentPc, NoJobYet, NoCampaignYet, Staging, Queueing,
      TeamPc, Unlisted, QueueOp
<1>10. ReqInv' /\ TeamInv' /\ TalentInv'
  BY <1>1, <1>6, <1>7, <1>8, <1>9, TalentFacts, TalentReads
<1>11. QueueInv' BY <1>1, <1>6, <1>7, <1>8, <1>9, TalentFacts, QueueRests
<1> QED BY <1>10, <1>11 DEF EmployerInv

LEMMA WriteStageKeeps ==
  ASSUME EmployerInv, NEW r \in Request, WriteStage(r)
  PROVE  EmployerInv'
<1>1. req[r].pc = "writeStage" BY DEF WriteStage, At
<1>2. PICK old : old = req[r] OBVIOUS
<1>3. IsCall(old) /\ TalentKnows(r, old) BY <1>2, TalentFacts
<1>4. PICK d : d = StageCandidate(r) OBVIOUS
<1>5. d \in old.cands /\ Owns(old.company, d) /\ OwnJob(old.company, old.row)
  BY <1>1, <1>2, <1>3, <1>4 DEF TalentKnows, Staging, StageCandidate
<1>6. PICK h : h = [company |-> old.company, cand |-> d, job |-> old.row,
                    from |-> old.items, to |-> old.what] OBVIOUS
<1>7. history' = Append(history, h) BY <1>2, <1>4, <1>6 DEF WriteStage
<1>8. Owns(h.company, h.cand) /\ OwnJob(h.company, h.job) BY <1>5, <1>6
<1>9. PICK c : c = [old EXCEPT !.pc = "done"] OBVIOUS
<1>10. IsCall(c) /\ c.op = old.op /\ c.pc = "done" /\ c.row = old.row
  BY <1>3, <1>9 DEF IsCall, CallFields
<1>11. Become(r, c) BY <1>2, <1>9 DEF WriteStage, Go
<1>12. /\ UNCHANGED <<companies, users, members, sessions, stops>>
       /\ UNCHANGED <<candidates, jobs, tags, notes, campaigns, queue, mixed>>
  BY DEF WriteStage, team
<1>13. TalentShape' BY <1>7, <1>12, TalentFacts, AppendShape DEF TalentShape
<1>14. Grow(r) BY <1>12 DEF Grow
<1>15. TalentKnows(r, c)' /\ c.pc \notin TeamPc
  BY <1>10
  DEF TalentKnows, Ensuring, TalentPc, NoJobYet, NoCampaignYet, Staging, Queueing, TeamPc, Unlisted
<1>16. ReqInv' /\ TeamInv' /\ TalentInv'
  BY <1>1, <1>7, <1>8, <1>10, <1>11, <1>12, <1>13, <1>14, <1>15, TalentFacts, TalentMoves
<1>17. QueueInv' BY <1>1, <1>2, <1>10, <1>11, <1>12, TalentFacts, QueueRests DEF Ended
<1> QED BY <1>16, <1>17 DEF EmployerInv

LEMMA CampaignFacts ==
  ASSUME NEW k, NEW cs, NEW status, NEW summary
  PROVE  LET m == [company |-> k, cands |-> cs, status |-> status, summary |-> summary] IN
         IsCampaign(m) /\ m # NoRow /\ m.company = k /\ m.status = status /\ m.summary = summary
<1> PICK m : m = [company |-> k, cands |-> cs, status |-> status, summary |-> summary] OBVIOUS
<1>1. "company" \in DOMAIN m OBVIOUS
<1>2. DOMAIN NoRow = {"none"} BY DEF NoRow
<1>3. m # NoRow BY <1>1, <1>2
<1> QED BY <1>3 DEF IsCampaign

LEMMA InsertCampaignKeeps ==
  ASSUME EmployerInv, NEW r \in Request, InsertCampaign(r)
  PROVE  EmployerInv'
<1>1. req[r].pc = "insertCampaign" BY DEF InsertCampaign, At
<1>2. PICK old : old = req[r] OBVIOUS
<1>3. IsCall(old) /\ TalentKnows(r, old) BY <1>2, TalentFacts
<1>4. PICK c : c = [old EXCEPT !.pc = "mark"] OBVIOUS
<1>5. /\ IsCall(c) /\ c.op = old.op /\ c.pc = "mark" /\ c.company = old.company
      /\ c.todo = old.todo /\ c.cands = old.cands /\ c.row = old.row
  BY <1>3, <1>4 DEF IsCall, CallFields
<1>6. Become(r, c) BY <1>2, <1>4 DEF InsertCampaign, Go
<1>7. PICK new : new = [company |-> old.company, cands |-> old.cands,
                        status |-> "draft", summary |-> Nil] OBVIOUS
<1>8. IsCampaign(new) /\ new # NoRow /\ new.summary = Nil BY <1>7, CampaignFacts
<1>9. campaigns' = [campaigns EXCEPT ![r] = new] BY <1>2, <1>7 DEF InsertCampaign
<1>10. /\ UNCHANGED <<companies, users, members, sessions, stops>>
       /\ UNCHANGED <<candidates, jobs, stages, history, tags, notes, queue, mixed>>
  BY DEF InsertCampaign, team
<1>11. campaigns[r] = NoRow BY <1>1, <1>2, <1>3 DEF TalentKnows, NoCampaignYet
<1>12. TalentShape /\ TalentShape' BY <1>8, <1>9, <1>10, TalentFacts DEF TalentShape
<1>13. Grow(r) BY <1>9, <1>10, <1>11, <1>12 DEF Grow, TalentShape
<1>14. TalentKnows(r, c)' /\ c.pc \notin TeamPc
  BY <1>1, <1>2, <1>3, <1>5, <1>10
  DEF TalentKnows, Ensuring, TalentPc, NoJobYet, NoCampaignYet, Staging, Queueing,
      TeamPc, Unlisted, Owns
<1>15. ReqInv' /\ TeamInv' /\ TalentInv'
  BY <1>1, <1>5, <1>6, <1>10, <1>12, <1>13, <1>14, TalentFacts, TalentMoves
<1>16. ASSUME NEW m \in Request
       PROVE  /\ OnIt(c, m) => OnQueue(r, m)
              /\ Agrees(m) => Agrees(m)'
  <2>1. OnIt(c, m) => OnQueue(r, m) BY <1>1, <1>2, <1>5 DEF OnIt, OnQueue, Ended
  <2>2. CASE m = r BY <1>8, <1>9, <1>12, <2>1, <2>2 DEF Agrees, TalentShape
  <2>3. CASE m # r BY <1>9, <1>10, <1>12, <2>1, <2>3 DEF Agrees, TalentShape, Blocked
  <2> QED BY <2>2, <2>3
<1>17. QueueInv' BY <1>1, <1>5, <1>6, <1>10, <1>16, TalentFacts, QueueKept
<1> QED BY <1>15, <1>17 DEF EmployerInv

LEMMA ReplaceQueueKeeps ==
  ASSUME EmployerInv, NEW r \in Request, ReplaceQueue(r)
  PROVE  EmployerInv'
<1>1. req[r].pc = "replaceQueue" BY DEF ReplaceQueue, At
<1>2. PICK old : old = req[r] OBVIOUS
<1>3. IsCall(old) /\ TalentKnows(r, old) BY <1>2, TalentFacts
<1>4. PICK c : c = [old EXCEPT !.pc = "listQueue"] OBVIOUS
<1>5. /\ IsCall(c) /\ c.op = old.op /\ c.pc = "listQueue" /\ c.company = old.company
      /\ c.cands = old.cands /\ c.row = old.row
  BY <1>3, <1>4 DEF IsCall, CallFields
<1>6. Become(r, c) BY <1>2, <1>4 DEF ReplaceQueue, Go
<1>7. /\ OwnRow(old.company, old.row) /\ old.op \in QueueOp /\ old.what \in Items
      /\ \A d \in Candidate : old.what[d] # Nil => Owns(old.company, d)
  BY <1>1, <1>2, <1>3 DEF TalentKnows, Queueing
<1>8. queue' = [queue EXCEPT ![old.row] = old.what] BY <1>2 DEF ReplaceQueue
<1>9. /\ UNCHANGED <<companies, users, members, sessions, stops>>
      /\ UNCHANGED <<candidates, jobs, stages, history, tags, notes, campaigns, mixed>>
  BY DEF ReplaceQueue, team
<1>10. old.row \in Request /\ campaigns[old.row] # NoRow /\ campaigns[old.row].company = old.company
  BY <1>7 DEF OwnRow, OwnCampaign
<1>11. TalentShape /\ TalentShape' BY <1>7, <1>8, <1>9, <1>10, TalentFacts DEF TalentShape, Items
<1>12. Grow(r) BY <1>9 DEF Grow
<1>13. ASSUME NEW m \in Request, NEW d \in Candidate, queue'[m][d] # Nil
       PROVE  queue[m][d] # Nil \/ (campaigns[m] # NoRow /\ Owns(campaigns[m].company, d))
  BY <1>7, <1>8, <1>10, <1>11, <1>13 DEF TalentShape
<1>14. TalentKnows(r, c)' /\ c.pc \notin TeamPc
  BY <1>1, <1>2, <1>3, <1>5, <1>7, <1>9
  DEF TalentKnows, Ensuring, TalentPc, NoJobYet, NoCampaignYet, Staging, Queueing,
      TeamPc, Unlisted, OwnRow, OwnCampaign
<1>15. ReqInv' /\ TeamInv' /\ TalentInv'
  BY <1>1, <1>5, <1>6, <1>9, <1>11, <1>12, <1>13, <1>14, TalentFacts, TalentMoves
<1>16. OnQueue(r, old.row) /\ OnIt(c, old.row)
  BY <1>1, <1>2, <1>5, <1>7 DEF OnQueue, OnIt, Ended
<1>17. ASSUME NEW m \in Request, m # old.row
       PROVE  ~OnIt(c, m) /\ queue'[m] = queue[m] /\ (Agrees(m) => Agrees(m)') /\ ~OnQueue(r, m)
  BY <1>2, <1>5, <1>8, <1>9, <1>11, <1>17 DEF OnIt, OnQueue, Agrees, Blocked, TalentShape
<1>18. QueueInv' BY <1>5, <1>6, <1>9, <1>16, <1>17, TalentFacts, QueueKept
<1> QED BY <1>15, <1>18 DEF EmployerInv

LEMMA WriteItemKeeps ==
  ASSUME EmployerInv, NEW r \in Request, WriteItem(r)
  PROVE  EmployerInv'
<1>1. req[r].pc = "writeItem" BY DEF WriteItem, At
<1>2. PICK old : old = req[r] OBVIOUS
<1>3. IsCall(old) /\ TalentKnows(r, old) BY <1>2, TalentFacts
<1>4. OwnRow(old.company, old.row) /\ old.op \in QueueOp /\ old.cur \in Candidate
  BY <1>1, <1>2, <1>3 DEF TalentKnows, Queueing
<1>5. /\ UNCHANGED <<companies, users, members, sessions, stops>>
      /\ UNCHANGED <<candidates, jobs, stages, history, tags, notes, campaigns, mixed>>
  BY DEF WriteItem, team
<1>6. CASE queue[old.row][old.cur] = Nil
  <2>1. queue' = queue /\ Go(r, "refused") BY <1>2, <1>6 DEF WriteItem
  <2> QED BY <1>1, <1>5, <2>1, TalentEnds DEF WriteItem, talent, team, Ended
<1>7. CASE queue[old.row][old.cur] # Nil
  <2>1. PICK m \in Request : m = old.row BY <1>4 DEF OwnRow
  <2>2. PICK new : new = [queue[m] EXCEPT ![old.cur] = old.what] OBVIOUS
  <2>3. queue' = [queue EXCEPT ![m] = new] /\ Go(r, "listQueue")
    BY <1>2, <1>7, <2>1, <2>2 DEF WriteItem
  <2>4. PICK c : c = [old EXCEPT !.pc = "listQueue"] OBVIOUS
  <2>5. /\ IsCall(c) /\ c.op = old.op /\ c.pc = "listQueue" /\ c.company = old.company
        /\ c.cands = old.cands /\ c.row = old.row
    BY <1>3, <2>4 DEF IsCall, CallFields
  <2>6. Become(r, c) BY <1>2, <2>3, <2>4 DEF Go
  <2>7. queue[m] = [d \in Candidate |-> queue[m][d]] BY TalentFacts DEF TalentShape
  <2>8. new = [d \in Candidate |-> new[d]] /\ \A d \in Candidate : new[d] # Nil => queue[m][d] # Nil
    BY <1>7, <2>1, <2>2, <2>7
  <2>9. TalentShape /\ TalentShape' BY <1>5, <2>3, <2>8, TalentFacts DEF TalentShape
  <2>10. Grow(r) BY <1>5 DEF Grow
  <2>11. \A n \in Request, d \in Candidate : queue'[n][d] # Nil => queue[n][d] # Nil
    BY <2>3, <2>8, <2>9 DEF TalentShape
  <2>12. TalentKnows(r, c)' /\ c.pc \notin TeamPc
    BY <1>1, <1>2, <1>3, <1>4, <1>5, <2>5
    DEF TalentKnows, Ensuring, TalentPc, NoJobYet, NoCampaignYet, Staging, Queueing,
        TeamPc, Unlisted, OwnRow, OwnCampaign
  <2>13. ReqInv' /\ TeamInv' /\ TalentInv'
    BY <1>1, <1>5, <2>5, <2>6, <2>9, <2>10, <2>11, <2>12, TalentFacts, TalentMoves
  <2>14. OnQueue(r, m) /\ OnIt(c, m)
    BY <1>1, <1>2, <1>4, <2>1, <2>5 DEF OnQueue, OnIt, Ended
  <2>15. ASSUME NEW n \in Request, n # m
         PROVE  ~OnIt(c, n) /\ queue'[n] = queue[n] /\ (Agrees(n) => Agrees(n)') /\ ~OnQueue(r, n)
    BY <1>2, <1>5, <2>1, <2>3, <2>5, <2>9, <2>15 DEF OnIt, OnQueue, Agrees, Blocked, TalentShape
  <2>16. QueueInv' BY <1>5, <2>5, <2>6, <2>14, <2>15, TalentFacts, QueueKept
  <2> QED BY <2>13, <2>16 DEF EmployerInv
<1> QED BY <1>6, <1>7

LEMMA ListQueueKeeps ==
  ASSUME EmployerInv, NEW r \in Request, ListQueue(r)
  PROVE  EmployerInv'
<1>1. req[r].pc = "listQueue" BY DEF ListQueue, At
<1>2. PICK old : old = req[r] OBVIOUS
<1>3. IsCall(old) /\ TalentKnows(r, old) BY <1>2, TalentFacts
<1>4. OwnRow(old.company, old.row) /\ old.op \in QueueOp BY <1>1, <1>2, <1>3 DEF TalentKnows, Queueing
<1>5. PICK items : items = queue[old.row] OBVIOUS
<1>6. PICK c : c = [old EXCEPT !.items = items, !.pc = "writeCampaign"] OBVIOUS
<1>7. /\ IsCall(c) /\ c.op = old.op /\ c.pc = "writeCampaign" /\ c.company = old.company
      /\ c.cands = old.cands /\ c.row = old.row /\ c.items = items
  BY <1>3, <1>6 DEF IsCall, CallFields
<1>8. Become(r, c) BY <1>2, <1>5, <1>6 DEF ListQueue
<1>9. /\ UNCHANGED <<companies, users, members, sessions, stops>> /\ UNCHANGED talent
      /\ campaigns' = campaigns /\ queue' = queue /\ mixed' = mixed
  BY DEF ListQueue, ReadsOnly, team, talent
<1>10. \A d \in Candidate : items[d] # Nil => Owns(old.company, d)
  BY <1>4, <1>5, TalentFacts DEF RowsInv, OwnRow, OwnCampaign
<1>11. TalentKnows(r, c) /\ c.pc \notin TeamPc
  BY <1>1, <1>2, <1>3, <1>4, <1>7, <1>10
  DEF TalentKnows, Ensuring, TalentPc, NoJobYet, NoCampaignYet, Staging, Queueing, TeamPc, Unlisted
<1>12. ReqInv' /\ TeamInv' /\ TalentInv'
  BY <1>1, <1>7, <1>8, <1>9, <1>11, TalentFacts, TalentReads
<1>13. OnQueue(r, old.row) /\ OnIt(c, old.row)
  BY <1>1, <1>2, <1>4, <1>7 DEF OnQueue, OnIt, Ended
<1>14. ASSUME NEW m \in Request, m # old.row
       PROVE  ~OnIt(c, m) /\ (Agrees(m) => Agrees(m)') /\ ~OnQueue(r, m)
  BY <1>2, <1>7, <1>9, <1>14 DEF OnIt, OnQueue, Agrees, Blocked
<1>15. QueueInv' BY <1>5, <1>7, <1>8, <1>9, <1>13, <1>14, TalentFacts, QueueKept
<1> QED BY <1>12, <1>15 DEF EmployerInv

LEMMA WriteCampaignKeeps ==
  ASSUME EmployerInv, NEW r \in Request, WriteCampaign(r)
  PROVE  EmployerInv'
<1>1. req[r].pc = "writeCampaign" BY DEF WriteCampaign, At
<1>2. PICK old : old = req[r] OBVIOUS
<1>3. IsCall(old) /\ TalentKnows(r, old) BY <1>2, TalentFacts
<1>4. /\ OwnRow(old.company, old.row) /\ old.op \in QueueOp
      /\ \A d \in Candidate : old.items[d] # Nil => Owns(old.company, d)
  BY <1>1, <1>2, <1>3 DEF TalentKnows, Queueing
<1>5. PICK m \in Request : /\ m = old.row /\ campaigns[m] # NoRow
                           /\ campaigns[m].company = old.company
  BY <1>4 DEF OwnRow, OwnCampaign
<1>6. PICK listed : listed = {d \in Candidate : old.items[d] # Nil} OBVIOUS
<1>7. PICK was : was = campaigns[m] OBVIOUS
<1>8. PICK new : new = [was EXCEPT
             !.status = IF Blocked(old.items) THEN "draft" ELSE "queued",
             !.summary = IF Blocked(old.items) THEN "blocked" ELSE "ready_for_review"] OBVIOUS
<1>9. campaigns' = [campaigns EXCEPT ![m] = new] BY <1>2, <1>5, <1>7, <1>8 DEF WriteCampaign
<1>10. IsCampaign(was) BY <1>5, <1>7, TalentFacts DEF TalentShape
<1>11. /\ IsCampaign(new) /\ new.company = old.company
       /\ new.status = IF Blocked(old.items) THEN "draft" ELSE "queued"
       /\ new.summary = IF Blocked(old.items) THEN "blocked" ELSE "ready_for_review"
  BY <1>5, <1>7, <1>8, <1>10 DEF IsCampaign
<1>12. new # NoRow BY <1>11, CampaignFacts DEF IsCampaign
<1>13. /\ UNCHANGED <<companies, users, members, sessions, stops>>
       /\ UNCHANGED <<candidates, jobs, stages, history, tags, notes, queue, mixed>>
  BY DEF WriteCampaign, team
<1>14. \E c : /\ IsCall(c) /\ Become(r, c) /\ c.op = old.op /\ c.row = old.row
              /\ c.pc \in {"mark", "done"} /\ TalentKnows(r, c)'
  <2>1. CASE old.op = "prepareQueue" /\ listed # {}
    <3>1. PICK c : c = [old EXCEPT !.todo = listed, !.pc = "mark"] OBVIOUS
    <3>2. /\ IsCall(c) /\ c.op = old.op /\ c.pc = "mark" /\ c.company = old.company
          /\ c.todo = listed /\ c.cands = old.cands /\ c.row = old.row
      BY <1>3, <3>1 DEF IsCall, CallFields
    <3>3. Become(r, c) BY <1>2, <1>6, <2>1, <3>1 DEF WriteCampaign
    <3>4. \A d \in listed : Owns(old.company, d)' BY <1>4, <1>6, <1>13 DEF Owns
    <3>5. TalentKnows(r, c)'
      BY <1>1, <1>2, <1>3, <3>2, <3>4
      DEF TalentKnows, Ensuring, TalentPc, NoJobYet, NoCampaignYet, Staging, Queueing
    <3> QED BY <3>2, <3>3, <3>5
  <2>2. CASE ~(old.op = "prepareQueue" /\ listed # {})
    <3>1. PICK c : c = [old EXCEPT !.pc = "done"] OBVIOUS
    <3>2. IsCall(c) /\ c.op = old.op /\ c.pc = "done" /\ c.row = old.row
      BY <1>3, <3>1 DEF IsCall, CallFields
    <3>3. Become(r, c) BY <1>2, <1>6, <2>2, <3>1 DEF WriteCampaign, Go
    <3>4. TalentKnows(r, c)'
      BY <3>2 DEF TalentKnows, Ensuring, TalentPc, NoJobYet, NoCampaignYet, Staging, Queueing
    <3> QED BY <3>2, <3>3, <3>4
  <2> QED BY <2>1, <2>2
<1>15. PICK c : /\ IsCall(c) /\ Become(r, c) /\ c.op = old.op /\ c.row = old.row
               /\ c.pc \in {"mark", "done"} /\ TalentKnows(r, c)'
  BY <1>14
<1>16. TalentShape /\ TalentShape' BY <1>9, <1>11, <1>13, TalentFacts DEF TalentShape
<1>17. Grow(r) BY <1>5, <1>9, <1>11, <1>12, <1>13, <1>16 DEF Grow, TalentShape
<1>18. c.pc \notin TeamPc BY <1>15 DEF TeamPc, Unlisted
<1>19. ReqInv' /\ TeamInv' /\ TalentInv'
  BY <1>1, <1>13, <1>15, <1>16, <1>17, <1>18, TalentFacts, TalentMoves
<1>20. OnQueue(r, m) /\ \A n \in Request : OnIt(c, n) => OnQueue(r, n)
  BY <1>1, <1>2, <1>4, <1>5, <1>15 DEF OnQueue, OnIt, Ended
<1>21. ASSUME m \notin mixed PROVE Agrees(m)'
  <2>1. old.items = queue[m] BY <1>1, <1>2, <1>20, <1>21, TalentFacts DEF QueueInv, At
  <2>2. campaigns'[m] = new BY <1>9, <1>16 DEF TalentShape
  <2>3. Blocked(queue'[m]) <=> Blocked(old.items) BY <1>13, <2>1
  <2> QED BY <1>11, <2>2, <2>3 DEF Agrees
<1>22. ASSUME NEW n \in Request, n # m
       PROVE  (Agrees(n) => Agrees(n)') /\ ~OnQueue(r, n)
  BY <1>2, <1>5, <1>9, <1>13, <1>16, <1>22 DEF OnQueue, OnIt, Agrees, Blocked, TalentShape
<1>23. QueueInv' BY <1>13, <1>15, <1>20, <1>21, <1>22, TalentFacts, QueueKept
<1> QED BY <1>19, <1>23 DEF EmployerInv

LEMMA TalentStepKeeps ==
  ASSUME EmployerInv, NEW r \in Request, TalentStep(r)
  PROVE  EmployerInv'
BY BulkTagKeeps, BulkNoteKeeps, DeleteTagKeeps, FindCandidateKeeps, AddCandidateKeeps,
   MarkTagKeeps, MarkNoteKeeps, CreateJobKeeps, UpdateStageKeeps, FindJobKeeps, AddPoolKeeps,
   ReadStageKeeps, WriteStageKeeps, CreateCampaignKeeps, InsertCampaignKeeps, PrepareKeeps,
   ReplaceQueueKeeps, UpdateItemKeeps, WriteItemKeeps, ListQueueKeeps, WriteCampaignKeeps
DEF TalentStep

---------------------------------------------------------------------------
(* The team's steps, and a stop of the server *)

(* A step of the team starts a request or moves one on among its own steps. *)
MovesTeam(r, c) ==
  /\ IsCall(c) /\ Become(r, c)
  /\ c.pc \in TeamPc \cup Ended /\ c.pc # "waiting" /\ req[r].pc \in TeamPc
  /\ \/ c.op \notin QueueOp \cup {"stage"}
     \/ /\ req[r].pc # "waiting" /\ c.op = req[r].op /\ c.row = req[r].row
        /\ c.company = req[r].company

LEMMA StartsTeam ==
  ASSUME NEW r \in Request, NEW c, IsCall(c), Begin(r, c), c.op \notin QueueOp \cup {"stage"},
         c.pc \in {"pickSlug", "findMember", "writeMember"} \cup Ended
  PROVE  MovesTeam(r, c)
BY DEF MovesTeam, Begin, At, TeamPc, Unlisted, Ended

LEMMA GoesTeam ==
  ASSUME ReqInv, NEW r \in Request, NEW pc \in {"createUser", "addOwner"} \cup Ended, Go(r, pc),
         req[r].pc \in TeamPc \ {"waiting"}
  PROVE  \E c : MovesTeam(r, c)
<1>1. PICK c : c = [req[r] EXCEPT !.pc = pc] OBVIOUS
<1>2. IsCall(req[r]) BY DEF ReqInv
<1>3. /\ IsCall(c) /\ c.pc = pc /\ c.op = req[r].op /\ c.row = req[r].row
      /\ c.company = req[r].company
  BY <1>1, <1>2, MovedFacts
<1>4. Become(r, c) BY <1>1 DEF Go
<1>5. pc \in TeamPc \cup Ended /\ pc # "waiting" BY DEF TeamPc, Unlisted, Ended
<1>6. MovesTeam(r, c) BY <1>3, <1>4, <1>5 DEF MovesTeam
<1> QED BY <1>6

LEMMA TeamStepMoves ==
  ASSUME ReqInv, NEW r \in Request, TeamStep(r)
  PROVE  \E c : MovesTeam(r, c)
<1>1. CASE Register(r)
  <2>1. PICK e \in Email : Begin(r, Call("register", IF users[e] = Nil THEN "pickSlug" ELSE "refused",
                                        r, e, {}, Nil))
    BY <1>1 DEF Register
  <2>2. PICK c : c = Call("register", IF users[e] = Nil THEN "pickSlug" ELSE "refused", r, e, {}, Nil)
    OBVIOUS
  <2>3. IsCall(c) /\ c.op = "register" /\ c.pc \in {"pickSlug", "refused"} BY <2>2, CallFacts
  <2> QED BY <2>1, <2>2, <2>3, StartsTeam DEF QueueOp, Ended
<1>2. CASE PickSlug(r)
  <2>1. PICK slug : slug = UniqueCompanySlug(req[r].what) OBVIOUS
  <2>2. PICK c : c = [req[r] EXCEPT !.items = slug, !.pc = "createCompany"] OBVIOUS
  <2>3. Become(r, c) /\ req[r].pc = "pickSlug" BY <1>2, <2>1, <2>2 DEF PickSlug, At
  <2>4. IsCall(req[r]) BY DEF ReqInv
  <2>5. /\ IsCall(c) /\ c.pc = "createCompany" /\ c.op = req[r].op /\ c.row = req[r].row
        /\ c.company = req[r].company
    BY <2>2, <2>4 DEF IsCall, CallFields
  <2>6. MovesTeam(r, c) BY <2>3, <2>5 DEF MovesTeam, TeamPc, Unlisted
  <2> QED BY <2>6
<1>3. CASE CreateCompany(r)
  <2>1. req[r].pc = "createCompany" BY <1>3 DEF CreateCompany, At
  <2>2. Go(r, "refused") \/ Go(r, "createUser") BY <1>3 DEF CreateCompany
  <2> QED BY <2>1, <2>2, GoesTeam DEF TeamPc, Unlisted, Ended
<1>4. CASE CreateUser(r)
  <2>1. req[r].pc = "createUser" BY <1>4 DEF CreateUser, At
  <2>2. Go(r, "refused") \/ Go(r, "addOwner") BY <1>4 DEF CreateUser
  <2> QED BY <2>1, <2>2, GoesTeam DEF TeamPc, Unlisted, Ended
<1>5. CASE AddOwner(r)
  BY <1>5, GoesTeam DEF AddOwner, At, TeamPc, Unlisted, Ended
<1>6. CASE Login(r)
  <2>1. PICK e \in Email : Begin(r, Call("login", IF users[e] = Nil THEN "refused" ELSE "findMember",
                                        Nil, e, {}, Nil))
    BY <1>6 DEF Login
  <2>2. PICK c : c = Call("login", IF users[e] = Nil THEN "refused" ELSE "findMember", Nil, e, {}, Nil)
    OBVIOUS
  <2>3. IsCall(c) /\ c.op = "login" /\ c.pc \in {"findMember", "refused"} BY <2>2, CallFacts
  <2> QED BY <2>1, <2>2, <2>3, StartsTeam DEF QueueOp, Ended
<1>7. CASE FindMember(r)
  <2>1. req[r].pc = "findMember" BY <1>7 DEF FindMember, At
  <2>2. Go(r, "refused") \/ Go(r, "done") BY <1>7 DEF FindMember
  <2> QED BY <2>1, <2>2, GoesTeam DEF TeamPc, Ended
<1>8. CASE InviteMember(r)
  <2>1. \E k, pc : pc \in {"raised", "done"} /\ Begin(r, Call("invite", pc, k, Nil, {}, Nil))
    BY <1>8 DEF InviteMember
  <2>2. PICK k, pc : pc \in {"raised", "done"} /\ Begin(r, Call("invite", pc, k, Nil, {}, Nil))
    BY <2>1
  <2>3. PICK c : c = Call("invite", pc, k, Nil, {}, Nil) OBVIOUS
  <2>4. IsCall(c) /\ c.op = "invite" /\ c.pc = pc BY <2>3, CallFacts
  <2> QED BY <2>2, <2>3, <2>4, StartsTeam DEF QueueOp, Ended
<1>9. CASE UpdateMember(r)
  <2> DEFINE First(m, role) == IF RoleAccepted(m, role) THEN "writeMember" ELSE "refused"
  <2>1. PICK s \in sessions, m \in Row, role \in Role \cup {Nil}, status \in Status \cup {Nil} :
          Begin(r, [Call("updateMember", First(m, role), s.company, role, {}, m)
                     EXCEPT !.items = status])
    BY <1>9 DEF UpdateMember
  <2>2. PICK a : a = Call("updateMember", First(m, role), s.company, role, {}, m) OBVIOUS
  <2>3. PICK c : c = [a EXCEPT !.items = status] OBVIOUS
  <2>4. IsCall(a) /\ a.op = "updateMember" /\ a.pc \in {"writeMember", "refused"}
    BY <2>2, CallFacts
  <2>5. IsCall(c) /\ c.op = "updateMember" /\ c.pc = a.pc BY <2>3, <2>4 DEF IsCall, CallFields
  <2> QED BY <2>1, <2>2, <2>3, <2>4, <2>5, StartsTeam DEF QueueOp, Ended
<1>10. CASE WriteMember(r)
  BY <1>10, GoesTeam DEF WriteMember, At, TeamPc, Ended
<1> QED BY <1>1, <1>2, <1>3, <1>4, <1>5, <1>6, <1>7, <1>8, <1>9, <1>10 DEF TeamStep

LEMMA TeamMoveKeeps ==
  ASSUME EmployerInv, NEW r \in Request, TeamStep(r), UNCHANGED <<talent, mixed>>
  PROVE  EmployerInv'
<1>1. PICK c : MovesTeam(r, c) BY TeamStepMoves DEF EmployerInv
<1>2. /\ ReqInv' /\ req'[r].pc = c.pc
      /\ c.pc \notin Ended => req'[r] = c
      /\ \A q \in Request \ {r} : req'[q] = req[q]
  BY <1>1, BecomeReq DEF EmployerInv, MovesTeam
<1>3. TeamInv' BY TeamStepKeeps DEF EmployerInv
<1>4. /\ candidates' = candidates /\ jobs' = jobs /\ history' = history /\ tags' = tags
      /\ notes' = notes /\ campaigns' = campaigns /\ queue' = queue /\ mixed' = mixed
  BY DEF talent
<1>5. TalentShape' /\ RowsInv'
  BY <1>4, TalentFacts DEF TalentShape, RowsInv, Owns, OwnJob
<1>6. ASSUME NEW q \in Request PROVE TalentKnows(q, req[q])'
  <2>1. CASE q = r
    <3>1. req'[r].pc \notin NoJobYet \cup NoCampaignYet \cup TalentPc
      BY <1>1, <1>2 DEF MovesTeam, TeamPc, Unlisted, Ended, NoJobYet, NoCampaignYet, TalentPc,
                        Ensuring, Staging, Queueing
    <3> QED BY <2>1, <3>1 DEF TalentKnows, NoJobYet, NoCampaignYet, TalentPc, Ensuring, Staging,
                              Queueing
  <2>2. CASE q # r
    <3>1. req'[q] = req[q] /\ TalentKnows(q, req[q]) BY <1>2, <2>2, TalentFacts
    <3> QED BY <1>4, <3>1 DEF TalentKnows, Owns, OwnJob, OwnRow, OwnCampaign
  <2> QED BY <2>1, <2>2
<1>7. QueueInv'
  <2>1. c.pc # "writeCampaign" /\ req[r].pc \notin {"listQueue", "writeCampaign"} \cup Ended
    BY <1>1 DEF MovesTeam, TeamPc, Unlisted, Ended
  <2> QED BY <1>1, <1>4, <2>1, TalentFacts, QueueRests DEF MovesTeam
<1> QED BY <1>2, <1>3, <1>5, <1>6, <1>7 DEF EmployerInv, TalentInv

LEMMA StopKeeps ==
  ASSUME EmployerInv, StopServer, UNCHANGED talent,
         mixed' = mixed \cup UNION {Concerns(req[q]) : q \in InFlight}
  PROVE  EmployerInv'
<1>1. ReqInv' /\ TeamInv' BY StopReq, StopKeepsTeam DEF EmployerInv
<1>2. ASSUME NEW q \in Request
      PROVE  \/ req'[q].pc = "stopped" /\ q \in InFlight
             \/ req'[q] = req[q] /\ q \notin InFlight
  BY StopReq DEF EmployerInv
<1>3. /\ candidates' = candidates /\ jobs' = jobs /\ history' = history /\ tags' = tags
      /\ notes' = notes /\ campaigns' = campaigns /\ queue' = queue
  BY DEF talent
<1>4. TalentInv'
  <2>1. TalentShape' /\ RowsInv'
    <3>1. TalentShape /\ RowsInv BY DEF EmployerInv, TalentInv
    <3> QED BY <1>3, <3>1 DEF TalentShape, RowsInv, Owns, OwnJob
  <2>2. ASSUME NEW q \in Request PROVE TalentKnows(q, req[q])'
    <3>1. CASE req'[q].pc = "stopped"
      BY <3>1 DEF TalentKnows, NoJobYet, NoCampaignYet, TalentPc, Ensuring, Staging, Queueing
    <3>2. CASE req'[q] = req[q]
      <4>1. TalentKnows(q, req[q]) BY TalentFacts
      <4> QED BY <1>3, <3>2, <4>1 DEF TalentKnows, Owns, OwnJob, OwnRow, OwnCampaign
    <3> QED BY <1>2, <3>1, <3>2
  <2> QED BY <2>1, <2>2 DEF TalentInv
<1>5. QueueInv'
  <2> SUFFICES ASSUME NEW m \in Request \ mixed'
               PROVE  (\A q \in Request : ~OnQueue(q, m)') /\ Agrees(m)'
    BY DEF QueueInv
  <2>1. ASSUME NEW q \in Request PROVE ~OnQueue(q, m)
    <3> SUFFICES ASSUME OnQueue(q, m) PROVE FALSE OBVIOUS
    <3>1. q \in InFlight /\ m \in Concerns(req[q]) BY DEF OnQueue, OnIt, InFlight, At, Concerns
    <3> QED BY <3>1
  <2>2. ASSUME NEW q \in Request PROVE ~OnQueue(q, m)'
    <3>1. CASE req'[q].pc = "stopped" BY <3>1 DEF OnQueue, OnIt, Ended
    <3>2. CASE req'[q] = req[q] BY <2>1, <3>2 DEF OnQueue, OnIt
    <3> QED BY <1>2, <3>1, <3>2
  <2>3. Agrees(m)
    <3>1. QueueInv BY DEF EmployerInv
    <3> QED BY <2>1, <3>1 DEF QueueInv
  <2>4. Agrees(m)' BY <1>3, <2>3 DEF Agrees, Blocked
  <2> QED BY <2>2, <2>4
<1> QED BY <1>1, <1>4, <1>5 DEF EmployerInv

LEMMA EmployerStarts == EmployerInit => EmployerInv
<1> SUFFICES ASSUME EmployerInit PROVE EmployerInv OBVIOUS
<1>1. ReqInv /\ TeamInv BY TeamStarts DEF EmployerInit
<1>2. ASSUME NEW q \in Request PROVE req[q].pc = "waiting"
  <2>1. req[q] = Call(Nil, "waiting", Nil, Nil, {}, Nil) BY DEF EmployerInit, TeamInit
  <2> QED BY <2>1, CallFacts
<1>3. /\ history = <<>> /\ tags = {} /\ notes = {}
      /\ candidates = [c \in Candidate |-> Nil] /\ jobs = [j \in Request |-> NoRow]
      /\ campaigns = [m \in Request |-> NoRow] /\ queue = [m \in Request |-> NoItems]
  BY DEF EmployerInit
<1>4. TalentShape /\ RowsInv BY <1>3 DEF TalentShape, RowsInv, NoItems
<1>5. ASSUME NEW q \in Request PROVE TalentKnows(q, req[q])
  BY <1>2, <1>3 DEF TalentKnows, TalentPc, Ensuring, Staging, Queueing
<1>6. QueueInv BY <1>2, <1>3 DEF QueueInv, OnQueue, OnIt, Agrees, At
<1> QED BY <1>1, <1>4, <1>5, <1>6 DEF EmployerInv, TalentInv

LEMMA EmployerNextKeeps == EmployerInv /\ [EmployerNext]_employerVars => EmployerInv'
<1> SUFFICES ASSUME EmployerInv, [EmployerNext]_employerVars PROVE EmployerInv' OBVIOUS
<1>1. CASE \E r \in Request : TalentStep(r) BY <1>1, TalentStepKeeps
<1>2. CASE \E r \in Request : TeamStep(r) /\ UNCHANGED <<talent, mixed>> BY <1>2, TeamMoveKeeps
<1>3. CASE /\ StopServer
           /\ mixed' = mixed \cup UNION {Concerns(req[q]) : q \in InFlight}
           /\ UNCHANGED talent
  BY <1>3, StopKeeps
<1>4. CASE UNCHANGED employerVars
  <2>1. /\ companies' = companies /\ users' = users /\ members' = members
        /\ sessions' = sessions /\ req' = req /\ stops' = stops /\ mixed' = mixed
        /\ candidates' = candidates /\ jobs' = jobs /\ history' = history /\ tags' = tags
        /\ notes' = notes /\ campaigns' = campaigns /\ queue' = queue
    BY <1>4 DEF employerVars, team, talent
  <2>2. ReqInv' BY <2>1 DEF EmployerInv, ReqInv
  <2>3. TeamInv'
    <3>1. TeamInv BY DEF EmployerInv
    <3> QED BY <2>1, <3>1 DEF TeamInv, TeamKnows, HasFounder, RegisteredHasWorkspace, At
  <2>4. TalentInv'
    <3>1. TalentShape /\ RowsInv /\ \A q \in Request : TalentKnows(q, req[q])
      BY DEF EmployerInv, TalentInv
    <3>2. TalentShape' /\ RowsInv' BY <2>1, <3>1 DEF TalentShape, RowsInv, Owns, OwnJob
    <3>3. ASSUME NEW q \in Request PROVE TalentKnows(q, req[q])'
      BY <2>1, <3>1 DEF TalentKnows, Owns, OwnJob, OwnRow, OwnCampaign
    <3> QED BY <3>2, <3>3 DEF TalentInv
  <2>5. QueueInv'
    <3>1. QueueInv BY DEF EmployerInv
    <3> QED BY <2>1, <3>1 DEF QueueInv, OnQueue, OnIt, Agrees, Blocked, At
  <2> QED BY <2>2, <2>3, <2>4, <2>5 DEF EmployerInv
<1> QED BY <1>1, <1>2, <1>3, <1>4 DEF EmployerNext

(* In every reachable state of Employer, with any number of requests, old   *)
(* companies, addresses and candidates, the invariant holds.                *)
THEOREM EmployerInvariant == EmployerSpec => []EmployerInv
<1> QED BY EmployerStarts, EmployerNextKeeps, PTL DEF EmployerSpec

(* Registrations and team updates, in steps that overlap and stop half way, *)
(* leave each company with its workspace and an owner: the row that         *)
(* create_team_member wrote with the company is the one that stays.         *)
THEOREM WorkspaceTheorem == EmployerSpec => []WorkspaceKept
<1>1. EmployerInv => WorkspaceKept BY TeamSafe DEF EmployerInv
<1> QED BY <1>1, EmployerInvariant, PTL

(* What a company writes about a candidate is about its own candidate,      *)
(* whichever company takes the number first.                                *)
THEOREM SeparateTheorem == EmployerSpec => []CompaniesSeparate
<1>1. EmployerInv => CompaniesSeparate
  <2> SUFFICES ASSUME EmployerInv PROVE CompaniesSeparate OBVIOUS
  <2>1. TalentShape /\ RowsInv BY DEF EmployerInv, TalentInv
  <2>2. DOMAIN history = 1 .. Len(history) BY <2>1 DEF TalentShape
  <2>3. /\ \A t \in tags : candidates[t[2]] = t[1]
        /\ \A n \in notes : candidates[n[2]] = n[1]
    BY <2>1 DEF RowsInv, Owns
  <2>4. \A i \in DOMAIN history : /\ candidates[history[i].cand] = history[i].company
                                  /\ jobs[history[i].job].company = history[i].company
    BY <2>1, <2>2 DEF RowsInv, Owns, OwnJob
  <2>5. \A m \in Request, c \in Candidate :
          queue[m][c] # Nil => candidates[c] = campaigns[m].company
    BY <2>1 DEF RowsInv, Owns
  <2> QED BY <2>3, <2>4, <2>5 DEF CompaniesSeparate
<1> QED BY <1>1, EmployerInvariant, PTL

(* A campaign two of whose queue updates never overlapped, and none of      *)
(* which the server cut off, says what its queue says once they have ended. *)
THEOREM CampaignTheorem == EmployerSpec => []CampaignAgreesWithQueue
<1>1. EmployerInv => CampaignAgreesWithQueue
  <2> SUFFICES ASSUME EmployerInv, NEW m \in Request \ mixed,
                      campaigns[m] # NoRow, campaigns[m].summary # Nil,
                      \A r \in InFlight : m \notin Concerns(req[r])
               PROVE  Agrees(m)
    BY DEF CampaignAgreesWithQueue, Agrees
  <2>1. QueueInv BY DEF EmployerInv
  <2>2. ASSUME NEW q \in Request, OnQueue(q, m) PROVE FALSE
    <3>1. q \in InFlight /\ m \in Concerns(req[q])
      BY <2>2 DEF OnQueue, OnIt, InFlight, At, Concerns
    <3> QED BY <3>1
  <2> QED BY <2>1, <2>2 DEF QueueInv
<1> QED BY <1>1, EmployerInvariant, PTL

---------------------------------------------------------------------------
(* Stages and their history *)

(* A request that runs and has to do with the stages of company k. *)
StagesOf(c, k) == c.pc \notin Ended \cup {"waiting"} /\ c.op = "stage" /\ c.company = k
ItsStage(c) == stages[<<c.row, CHOOSE d \in c.cands : TRUE>>]

(* A company whose stage updates never overlapped has at most one of them:  *)
(* what it has read of the pools and of the stage is still so.              *)
StageInv(k) ==
  /\ \A p, q \in Request : StagesOf(req[p], k) /\ StagesOf(req[q], k) => p = q
  /\ \A i, j \in Made(k) : i = j
  /\ \A q \in Request : StagesOf(req[q], k) /\ At(q, "addPool") => Made(k) = {}
  /\ \A q \in Request : StagesOf(req[q], k) /\ At(q, "writeStage") => req[q].items = ItsStage(req[q])
  /\ \A j \in Jobs(k) : \A c \in Candidate : Chained(j, c)

HistoryInv ==
  /\ stages = [jc \in Request \X Candidate |-> stages[jc]]
  /\ \A j \in Request : jobs[j] = NoRow => \A c \in Candidate : stages[<<j, c>>] = Nil
  /\ \A k \in Row \ mixed : StageInv(k)

(* A job that is not there yet has no history.                              *)
LEMMA NoHistoryYet ==
  ASSUME EmployerInv, HistoryInv, NEW j \in Request, jobs[j] = NoRow, NEW c \in Candidate
  PROVE  Chained(j, c)
<1>1. DOMAIN history = 1 .. Len(history) BY DEF EmployerInv, TalentInv, TalentShape
<1>2. \A i \in 1 .. Len(history) : jobs[history[i].job] # NoRow
  BY DEF EmployerInv, TalentInv, RowsInv, OwnJob
<1>3. Entries(j, c) = {} BY <1>1, <1>2 DEF Entries
<1>4. stages[<<j, c>>] = Nil BY DEF HistoryInv
<1> QED BY <1>3, <1>4 DEF Chained, StageAfter

(* A step of request r that writes neither a stage nor its history.         *)
LEMMA StagesKept ==
  ASSUME EmployerInv, HistoryInv, NEW r \in Request, NEW call, IsCall(call), Become(r, call),
         mixed \subseteq mixed', stages' = stages, history' = history,
         \A j \in Request \ {r} : jobs'[j] = jobs[j],
         jobs'[r] = jobs[r] \/ jobs[r] = NoRow,
         \A k \in Row \ mixed' :
           /\ StagesOf(call, k) =>
                /\ StagesOf(req[r], k) \/ \A q \in Request : ~StagesOf(req[q], k)
                /\ call.pc = "addPool" => Made(k)' = {}
                /\ call.pc = "writeStage" => call.items = ItsStage(call)
           /\ \A i, j \in Made(k)' : i = j
           /\ Made(k)' \subseteq Made(k) \/ StagesOf(req[r], k)
  PROVE  HistoryInv'
<1>1. /\ req'[r].pc = call.pc
      /\ call.pc \notin Ended => req'[r] = call
      /\ \A q \in Request \ {r} : req'[q] = req[q]
  BY BecomeReq DEF EmployerInv
<1>2. ASSUME NEW j \in Request, NEW c \in Candidate, Chained(j, c) PROVE Chained(j, c)'
  <2>1. Entries(j, c)' = Entries(j, c) BY DEF Entries
  <2>2. \A S : StageAfter(S)' = StageAfter(S) BY DEF StageAfter
  <2> QED BY <1>2, <2>1, <2>2 DEF Chained
<1>3. \A j \in Request : jobs'[j] = NoRow => \A c \in Candidate : stages'[<<j, c>>] = Nil
  BY DEF HistoryInv
<1>4. ASSUME NEW k \in Row \ mixed' PROVE StageInv(k)'
  <2>1. StageInv(k) BY DEF HistoryInv
  <2>2. \A q \in Request \ {r} : StagesOf(req'[q], k) <=> StagesOf(req[q], k) BY <1>1
  <2>3. StagesOf(req'[r], k) => StagesOf(call, k) /\ req'[r] = call BY <1>1 DEF StagesOf
  <2>4. \A p, q \in Request : StagesOf(req'[p], k) /\ StagesOf(req'[q], k) => p = q
    BY <1>4, <2>1, <2>2, <2>3 DEF StageInv
  <2>5. ASSUME NEW q \in Request, StagesOf(req'[q], k), req'[q].pc = "addPool" PROVE Made(k)' = {}
    <3>1. CASE q = r BY <1>4, <2>3, <2>5, <3>1
    <3>2. CASE q # r
      <4>1. req'[q] = req[q] /\ StagesOf(req[q], k) BY <1>1, <2>2, <2>5, <3>2
      <4>2. Made(k) = {} /\ ~StagesOf(req[r], k) BY <2>1, <2>5, <3>2, <4>1 DEF StageInv, At
      <4> QED BY <1>4, <4>2
    <3> QED BY <3>1, <3>2
  <2>6. ASSUME NEW q \in Request, StagesOf(req'[q], k), req'[q].pc = "writeStage"
        PROVE  req'[q].items = ItsStage(req'[q])
    <3>1. CASE q = r BY <1>4, <2>3, <2>6, <3>1
    <3>2. CASE q # r BY <1>1, <2>1, <2>2, <2>6, <3>2 DEF StageInv, At
    <3> QED BY <3>1, <3>2
  <2>8. ASSUME NEW j \in Jobs(k)', NEW c \in Candidate PROVE Chained(j, c)'
    <3>1. j \in Request /\ (jobs[j] = NoRow \/ j \in Jobs(k)) BY DEF Jobs
    <3>2. CASE j \in Jobs(k) BY <1>2, <2>1, <3>1, <3>2 DEF StageInv
    <3>3. CASE jobs[j] = NoRow BY <1>2, <3>1, <3>3, NoHistoryYet
    <3> QED BY <3>1, <3>2, <3>3
  <2>9. \A q \in Request : ItsStage(req[q])' = ItsStage(req'[q]) BY DEF ItsStage
  <2>10. \A i, j \in Made(k)' : i = j BY <1>4
  <2> QED BY <2>4, <2>5, <2>6, <2>8, <2>9, <2>10 DEF StageInv, StagesOf, At
<1>5. \A k \in Row \ mixed' : StageInv(k)' BY <1>4
<1>6. stages' = [jc \in Request \X Candidate |-> stages'[jc]] BY DEF HistoryInv
<1> QED BY <1>3, <1>5, <1>6 DEF HistoryInv

(* A step of a request that is about the same as before and has not found   *)
(* a pool missing, nor read a stage.                                        *)
MovesOn(r, c) ==
  /\ IsCall(c) /\ Become(r, c) /\ c.op = req[r].op /\ c.company = req[r].company
  /\ req[r].pc \notin Ended \cup {"waiting"} /\ c.pc \notin {"addPool", "writeStage"}

LEMMA MovesKeepStages ==
  ASSUME EmployerInv, HistoryInv, NEW r \in Request, \E c : MovesOn(r, c),
         mixed' = mixed, stages' = stages, history' = history, jobs' = jobs
  PROVE  HistoryInv'
<1>1. PICK c : MovesOn(r, c) OBVIOUS
<1>2. \A k : StagesOf(c, k) => StagesOf(req[r], k) BY <1>1 DEF MovesOn, StagesOf
<1>3. \A k : Made(k)' = Made(k) BY DEF Made, Pools, Jobs
<1>4. \A k \in Row \ mixed : \A i, j \in Made(k) : i = j BY DEF HistoryInv, StageInv
<1> QED BY <1>1, <1>2, <1>3, <1>4, StagesKept DEF MovesOn

(* A request that starts, with no other stage update of its company, or     *)
(* with its company among the mixed.                                        *)
LEMMA StartsKeepStages ==
  ASSUME EmployerInv, HistoryInv, NEW r \in Request, NEW call, IsCall(call), Start(r, call),
         call.pc \notin {"addPool", "writeStage"},
         stages' = stages, history' = history,
         \A j \in Request \ {r} : jobs'[j] = jobs[j],
         jobs'[r] = jobs[r] \/ (jobs[r] = NoRow /\ ~jobs'[r].made)
  PROVE  HistoryInv'
<1>1. Become(r, call) BY DEF Start, Begin
<1>2. mixed' = mixed \cup (Concerns(call) \cap UNION {Concerns(req[q]) : q \in InFlight})
  BY DEF Start
<1>3. ASSUME NEW k \in Row \ mixed', StagesOf(call, k), NEW q \in Request, StagesOf(req[q], k)
      PROVE  FALSE
  <2>1. k \in Concerns(call) BY <1>3 DEF StagesOf, Concerns, QueueOp
  <2>2. q \in InFlight /\ k \in Concerns(req[q])
    BY <1>3 DEF StagesOf, Concerns, InFlight, At, QueueOp
  <2> QED BY <1>2, <1>3, <2>1, <2>2
<1>4. \A k : Made(k)' \subseteq Made(k) BY DEF Made, Pools, Jobs
<1>5. \A k \in Row \ mixed' : \A i, j \in Made(k) : i = j BY <1>2 DEF HistoryInv, StageInv
<1>6. mixed \subseteq mixed' /\ (jobs'[r] = jobs[r] \/ jobs[r] = NoRow) BY <1>2
<1> QED BY <1>1, <1>3, <1>4, <1>5, <1>6, StagesKept

(* One lemma for each step of the talent side.                              *)

LEMMA StartsTalent ==
  ASSUME EmployerInv, HistoryInv, NEW r \in Request,
         BulkTag(r) \/ BulkNote(r) \/ UpdateCandidateStage(r) \/ CreateOutreachCampaign(r)
  PROVE  HistoryInv'
<1>1. \E op, k, what, cs, row : Start(r, Call(op, "ensure", k, what, cs, row))
  BY DEF BulkTag, BulkNote, UpdateCandidateStage, CreateOutreachCampaign
<1>2. PICK op, k, what, cs, row : Start(r, Call(op, "ensure", k, what, cs, row)) BY <1>1
<1>3. PICK c : c = Call(op, "ensure", k, what, cs, row) OBVIOUS
<1>4. IsCall(c) /\ c.pc = "ensure" BY <1>3, CallFacts
<1>5. jobs' = jobs /\ stages' = stages /\ history' = history
  BY DEF BulkTag, BulkNote, UpdateCandidateStage, CreateOutreachCampaign, talent
<1> QED BY <1>2, <1>3, <1>4, <1>5, StartsKeepStages

LEMMA DeleteTagStages ==
  ASSUME EmployerInv, HistoryInv, NEW r \in Request, DeleteTag(r)
  PROVE  HistoryInv'
<1>1. PICK k \in Row : Start(r, Call("deleteTag", "done", k, Nil, {}, Nil)) BY DEF DeleteTag
<1>2. PICK c : c = Call("deleteTag", "done", k, Nil, {}, Nil) OBVIOUS
<1>3. IsCall(c) /\ c.pc = "done" BY <1>2, CallFacts
<1>4. jobs' = jobs /\ stages' = stages /\ history' = history BY DEF DeleteTag
<1> QED BY <1>1, <1>2, <1>3, <1>4, StartsKeepStages

LEMMA CreateJobStages ==
  ASSUME EmployerInv, HistoryInv, NEW r \in Request, CreateJob(r)
  PROVE  HistoryInv'
<1>1. PICK k \in Row, pool \in BOOLEAN :
        /\ Start(r, Call("createJob", "done", k, Nil, {}, Nil))
        /\ jobs' = [jobs EXCEPT ![r] = NewJob(k, pool, FALSE)]
  BY DEF CreateJob
<1>18. PICK i : i = Cardinality({j \in Request : jobs[j] # NoRow}) + 1 OBVIOUS
<1>19. PICK job : job = [company |-> k, pool |-> pool, made |-> FALSE, id |-> i] OBVIOUS
<1>20. "company" \in DOMAIN job /\ i \in Nat BY <1>18, <1>19, NextNumber
<1>21. job # NoRow /\ job.id \in Nat /\ job.company = k /\ ~job.made BY <1>19, <1>20, RowIsSome
<1>22. jobs' = [jobs EXCEPT ![r] = job] BY <1>1, <1>18, <1>19 DEF NewJob
<1>2. PICK c : c = Call("createJob", "done", k, Nil, {}, Nil) OBVIOUS
<1>3. IsCall(c) /\ c.pc = "done" BY <1>2, CallFacts
<1>4. req[r].pc = "waiting" BY <1>1 DEF Start, Begin, At
<1>5. jobs[r] = NoRow BY <1>4, TalentFacts DEF TalentKnows, NoJobYet
<1>6. jobs = [j \in Request |-> jobs[j]] BY TalentFacts DEF TalentShape
<1>7. ~jobs'[r].made /\ \A j \in Request \ {r} : jobs'[j] = jobs[j] BY <1>6, <1>21, <1>22
<1>8. stages' = stages /\ history' = history BY DEF CreateJob
<1> QED BY <1>1, <1>2, <1>3, <1>5, <1>7, <1>8, StartsKeepStages

LEMMA PrepareStages ==
  ASSUME EmployerInv, HistoryInv, NEW r \in Request, PrepareSendQueue(r)
  PROVE  HistoryInv'
<1> DEFINE Kept(items) == {c \in Candidate : items[c] # Nil}
           First(items) == IF Kept(items) = {} THEN "replaceQueue" ELSE "ensure"
<1>1. PICK k \in Row, m \in Request, items \in Items :
        Start(r, [Call("prepareQueue", First(items), k, items, Kept(items), m) EXCEPT !.items = items])
  BY DEF PrepareSendQueue
<1>2. PICK a : a = Call("prepareQueue", First(items), k, items, Kept(items), m) OBVIOUS
<1>3. PICK c : c = [a EXCEPT !.items = items] OBVIOUS
<1>4. IsCall(a) /\ a.pc = First(items) BY <1>2, CallFacts
<1>5. IsCall(c) /\ c.pc \in {"replaceQueue", "ensure"} BY <1>3, <1>4 DEF IsCall, CallFields
<1>6. jobs' = jobs /\ stages' = stages /\ history' = history BY DEF PrepareSendQueue, talent
<1> QED BY <1>1, <1>2, <1>3, <1>5, <1>6, StartsKeepStages

LEMMA UpdateItemStages ==
  ASSUME EmployerInv, HistoryInv, NEW r \in Request, UpdateQueueItem(r)
  PROVE  HistoryInv'
<1> DEFINE First(m, d) == IF queue[m][d] = Nil THEN "refused" ELSE "writeItem"
<1>1. PICK k \in Row, m \in Request, d \in Candidate, s \in ItemStatus :
        Start(r, [Call("updateItem", First(m, d), k, s, {}, m) EXCEPT !.cur = d])
  BY DEF UpdateQueueItem
<1>2. PICK a : a = Call("updateItem", First(m, d), k, s, {}, m) OBVIOUS
<1>3. PICK c : c = [a EXCEPT !.cur = d] OBVIOUS
<1>4. IsCall(a) /\ a.pc = First(m, d) BY <1>2, CallFacts
<1>5. IsCall(c) /\ c.pc \in {"refused", "writeItem"} BY <1>3, <1>4 DEF IsCall, CallFields
<1>6. jobs' = jobs /\ stages' = stages /\ history' = history BY DEF UpdateQueueItem, talent
<1> QED BY <1>1, <1>2, <1>3, <1>5, <1>6, StartsKeepStages

(* A request that goes on with its next step, or ends.                      *)
LEMMA GoesOn ==
  ASSUME EmployerInv, NEW r \in Request, NEW pc, Go(r, pc),
         req[r].pc \notin Ended \cup {"waiting"}, pc \notin {"addPool", "writeStage"}
  PROVE  \E c : MovesOn(r, c)
<1>1. PICK c : c = [req[r] EXCEPT !.pc = pc] OBVIOUS
<1>2. IsCall(c) /\ c.op = req[r].op /\ c.pc = pc /\ c.company = req[r].company
  BY <1>1, MovedFacts, TalentFacts
<1>3. Become(r, c) BY <1>1 DEF Go
<1>4. MovesOn(r, c) BY <1>2, <1>3 DEF MovesOn
<1> QED BY <1>4

LEMMA EnsuresOn ==
  ASSUME EmployerInv, NEW r \in Request, req[r].pc \in Ensuring, NEW d,
         Become(r, EnsureNext(req[r], d))
  PROVE  \E c : MovesOn(r, c)
<1>1. PICK old : old = req[r] OBVIOUS
<1>2. /\ IsCall(old) /\ old.pc \in Ensuring
      /\ old.op \in {"stage", "createCampaign", "prepareQueue", "bulkTag", "bulkNote"}
  BY <1>1, TalentFacts DEF TalentKnows
<1>3. PICK a : a = [old EXCEPT !.todo = old.todo \ {d}, !.cur = Nil, !.pc = "ensure"] OBVIOUS
<1>4. IsCall(a) /\ a.op = old.op /\ a.pc = "ensure" /\ a.company = old.company
  BY <1>2, <1>3 DEF IsCall, CallFields
<1>5. PICK c : c = EnsureNext(old, d) OBVIOUS
<1>6. IsCall(c) /\ c.op = old.op /\ c.company = old.company /\ c.pc \notin {"addPool", "writeStage"}
  <2>1. CASE a.todo # {} BY <1>3, <1>4, <1>5, <2>1 DEF EnsureNext
  <2>2. CASE a.todo = {}
    <3>1. c = Ensured(a) BY <1>3, <1>5, <2>2 DEF EnsureNext
    <3>2. PICK pc : pc = CASE a.op = "stage" -> "findJob"
                         [] a.op = "createCampaign" -> "insertCampaign"
                         [] a.op = "prepareQueue" -> "replaceQueue"
                         [] a.op \in {"bulkTag", "bulkNote"} -> "mark"
      OBVIOUS
    <3>3. pc \in {"findJob", "insertCampaign", "replaceQueue", "mark"} BY <1>2, <1>4, <3>2
    <3>4. c = [a EXCEPT !.todo = a.cands, !.pc = pc] BY <3>1, <3>2 DEF Ensured
    <3> QED BY <1>4, <3>3, <3>4 DEF IsCall, CallFields
  <2> QED BY <2>1, <2>2
<1>7. MovesOn(r, c) BY <1>1, <1>2, <1>5, <1>6 DEF MovesOn, Ensuring, Ended
<1> QED BY <1>7

LEMMA CandidateStages ==
  ASSUME EmployerInv, HistoryInv, NEW r \in Request, FindCandidate(r) \/ AddCandidate(r)
  PROVE  HistoryInv'
<1>1. req[r].pc \in Ensuring BY DEF FindCandidate, AddCandidate, At, Ensuring
<1>2. req[r].pc \notin Ended \cup {"waiting"} BY <1>1 DEF Ensuring, Ended
<1>3. mixed' = mixed /\ jobs' = jobs /\ stages' = stages /\ history' = history
  BY DEF FindCandidate, AddCandidate, ReadsOnly, talent
<1>4. ASSUME NEW d, Become(r, [req[r] EXCEPT !.cur = d, !.pc = "addCandidate"])
      PROVE  \E c : MovesOn(r, c)
  <2>1. PICK c : c = [req[r] EXCEPT !.cur = d, !.pc = "addCandidate"] OBVIOUS
  <2>2. IsCall(c) /\ c.op = req[r].op /\ c.company = req[r].company /\ c.pc = "addCandidate"
    BY <2>1, TalentFacts DEF IsCall, CallFields
  <2>3. MovesOn(r, c) BY <1>2, <1>4, <2>1, <2>2 DEF MovesOn
  <2> QED BY <2>3
<1>5. \/ Go(r, "raised")
      \/ \E d : Become(r, EnsureNext(req[r], d))
      \/ \E d : Become(r, [req[r] EXCEPT !.cur = d, !.pc = "addCandidate"])
  BY DEF FindCandidate, AddCandidate
<1>6. \E c : MovesOn(r, c) BY <1>1, <1>2, <1>4, <1>5, GoesOn, EnsuresOn
<1> QED BY <1>3, <1>6, MovesKeepStages

LEMMA MarkStages ==
  ASSUME EmployerInv, HistoryInv, NEW r \in Request, MarkTag(r) \/ MarkNote(r)
  PROVE  HistoryInv'
<1>1. req[r].pc \in {"mark", "note"} BY DEF MarkTag, MarkNote, At
<1>2. IsCall(req[r]) BY TalentFacts
<1>3. mixed' = mixed /\ jobs' = jobs /\ stages' = stages /\ history' = history
  BY DEF MarkTag, MarkNote
<1>4. ASSUME NEW d, Advance(r, d) PROVE \E c : MovesOn(r, c)
  <2>1. PICK a : a = [req[r] EXCEPT !.todo = req[r].todo \ {d}, !.cur = Nil] OBVIOUS
  <2>2. PICK pc : pc = IF a.todo = {} THEN "done" ELSE "mark" OBVIOUS
  <2>3. PICK c : c = [a EXCEPT !.pc = pc] OBVIOUS
  <2>4. IsCall(c) /\ c.op = req[r].op /\ c.company = req[r].company /\ c.pc = pc
    BY <1>2, <2>1, <2>3 DEF IsCall, CallFields
  <2>5. Become(r, c) BY <1>4, <2>1, <2>2, <2>3 DEF Advance
  <2>6. MovesOn(r, c) BY <1>1, <2>2, <2>4, <2>5 DEF MovesOn, Ended
  <2> QED BY <2>6
<1>5. ASSUME NEW d, Become(r, [req[r] EXCEPT !.cur = d, !.pc = "note"]) PROVE \E c : MovesOn(r, c)
  <2>1. PICK c : c = [req[r] EXCEPT !.cur = d, !.pc = "note"] OBVIOUS
  <2>2. IsCall(c) /\ c.op = req[r].op /\ c.company = req[r].company /\ c.pc = "note"
    BY <1>2, <2>1 DEF IsCall, CallFields
  <2>3. MovesOn(r, c) BY <1>1, <1>5, <2>1, <2>2 DEF MovesOn, Ended
  <2> QED BY <2>3
<1>6. \/ \E d : Advance(r, d)
      \/ \E d : Become(r, [req[r] EXCEPT !.cur = d, !.pc = "note"])
  BY DEF MarkTag, MarkNote
<1>7. \E c : MovesOn(r, c) BY <1>4, <1>5, <1>6
<1> QED BY <1>3, <1>7, MovesKeepStages

LEMMA QueueStages ==
  ASSUME EmployerInv, HistoryInv, NEW r \in Request,
         InsertCampaign(r) \/ ReplaceQueue(r) \/ WriteItem(r) \/ ListQueue(r) \/ WriteCampaign(r)
  PROVE  HistoryInv'
<1>1. req[r].pc \in {"insertCampaign", "replaceQueue", "writeItem", "listQueue", "writeCampaign"}
  BY DEF InsertCampaign, ReplaceQueue, WriteItem, ListQueue, WriteCampaign, At
<1>2. IsCall(req[r]) /\ req[r].pc \notin Ended \cup {"waiting"} BY <1>1, TalentFacts DEF Ended
<1>3. mixed' = mixed /\ jobs' = jobs /\ stages' = stages /\ history' = history
  BY DEF InsertCampaign, ReplaceQueue, WriteItem, ListQueue, WriteCampaign, ReadsOnly, talent
<1>4. ASSUME NEW items, Become(r, [req[r] EXCEPT !.items = items, !.pc = "writeCampaign"])
      PROVE  \E c : MovesOn(r, c)
  <2>1. PICK c : c = [req[r] EXCEPT !.items = items, !.pc = "writeCampaign"] OBVIOUS
  <2>2. IsCall(c) /\ c.op = req[r].op /\ c.company = req[r].company /\ c.pc = "writeCampaign"
    BY <1>2, <2>1 DEF IsCall, CallFields
  <2>3. MovesOn(r, c) BY <1>2, <1>4, <2>1, <2>2 DEF MovesOn
  <2> QED BY <2>3
<1>5. ASSUME NEW todo, Become(r, [req[r] EXCEPT !.todo = todo, !.pc = "mark"])
      PROVE  \E c : MovesOn(r, c)
  <2>1. PICK c : c = [req[r] EXCEPT !.todo = todo, !.pc = "mark"] OBVIOUS
  <2>2. IsCall(c) /\ c.op = req[r].op /\ c.company = req[r].company /\ c.pc = "mark"
    BY <1>2, <2>1 DEF IsCall, CallFields
  <2>3. MovesOn(r, c) BY <1>2, <1>5, <2>1, <2>2 DEF MovesOn
  <2> QED BY <2>3
<1>6. \/ \E pc \in {"mark", "listQueue", "refused", "done"} : Go(r, pc)
      \/ \E items : Become(r, [req[r] EXCEPT !.items = items, !.pc = "writeCampaign"])
      \/ \E todo : Become(r, [req[r] EXCEPT !.todo = todo, !.pc = "mark"])
  <2>1. CASE InsertCampaign(r) BY <2>1 DEF InsertCampaign
  <2>2. CASE ReplaceQueue(r) BY <2>2 DEF ReplaceQueue
  <2>3. CASE WriteItem(r)
    <3>1. PICK gone : gone = (queue[req[r].row][req[r].cur] = Nil) OBVIOUS
    <3>2. Go(r, IF gone THEN "refused" ELSE "listQueue") BY <2>3, <3>1 DEF WriteItem
    <3> QED BY <3>2
  <2>4. CASE ListQueue(r) BY <2>4 DEF ListQueue
  <2>5. CASE WriteCampaign(r)
    <3>1. PICK listed : listed = {c \in Candidate : req[r].items[c] # Nil} OBVIOUS
    <3>2. IF req[r].op = "prepareQueue" /\ listed # {}
          THEN Become(r, [req[r] EXCEPT !.todo = listed, !.pc = "mark"]) ELSE Go(r, "done")
      BY <2>5, <3>1 DEF WriteCampaign
    <3> QED BY <3>2
  <2> QED BY <2>1, <2>2, <2>3, <2>4, <2>5
<1>7. \E c : MovesOn(r, c) BY <1>2, <1>4, <1>5, <1>6, GoesOn
<1> QED BY <1>3, <1>7, MovesKeepStages

LEMMA FindJobStages ==
  ASSUME EmployerInv, HistoryInv, NEW r \in Request, FindJob(r)
  PROVE  HistoryInv'
<1>1. req[r].pc = "findJob" BY DEF FindJob, At
<1>2. IsCall(req[r]) /\ req[r].pc \notin Ended \cup {"waiting"} BY <1>1, TalentFacts DEF Ended
<1>3. mixed' = mixed /\ jobs' = jobs /\ stages' = stages /\ history' = history
  BY DEF FindJob, ReadsOnly, talent
<1>4. CASE \E j : Become(r, [req[r] EXCEPT !.row = j, !.pc = "readStage"])
  <2>1. PICK j : Become(r, [req[r] EXCEPT !.row = j, !.pc = "readStage"]) BY <1>4
  <2>2. PICK c : c = [req[r] EXCEPT !.row = j, !.pc = "readStage"] OBVIOUS
  <2>3. IsCall(c) /\ c.op = req[r].op /\ c.company = req[r].company /\ c.pc = "readStage"
    BY <1>2, <2>2 DEF IsCall, CallFields
  <2>4. MovesOn(r, c) BY <1>2, <2>1, <2>2, <2>3 DEF MovesOn
  <2> QED BY <1>3, <2>4, MovesKeepStages
<1>5. CASE Go(r, "addPool") /\ Pools(req[r].company) = {}
  <2>1. PICK c : c = [req[r] EXCEPT !.pc = "addPool"] OBVIOUS
  <2>2. IsCall(c) /\ c.op = req[r].op /\ c.company = req[r].company /\ c.pc = "addPool"
    BY <1>2, <2>1, MovedFacts
  <2>3. Become(r, c) BY <1>5, <2>1 DEF Go
  <2>4. \A k : StagesOf(c, k) => StagesOf(req[r], k) /\ Made(k) = {}
    <3>1. \A k : StagesOf(c, k) => StagesOf(req[r], k) /\ Pools(k) = {}
      BY <1>2, <1>5, <2>2 DEF StagesOf
    <3>2. \A k : \A j \in Made(k) : j \in Pools(k) BY DEF Made
    <3> QED BY <3>1, <3>2
  <2>5. \A k : Made(k)' = Made(k) BY <1>3 DEF Made, Pools, Jobs
  <2>6. \A k \in Row \ mixed : \A i, j \in Made(k) : i = j BY DEF HistoryInv, StageInv
  <2> QED BY <1>3, <2>2, <2>3, <2>4, <2>5, <2>6, StagesKept
<1> QED BY <1>4, <1>5 DEF FindJob

LEMMA AddPoolStages ==
  ASSUME EmployerInv, HistoryInv, NEW r \in Request, AddPool(r)
  PROVE  HistoryInv'
<1>1. req[r].pc = "addPool" BY DEF AddPool, At
<1>2. PICK old : old = req[r] OBVIOUS
<1>3. IsCall(old) /\ TalentKnows(r, old) BY <1>2, TalentFacts
<1>4. old.op = "stage" /\ StagesOf(old, old.company) /\ jobs[r] = NoRow
  BY <1>1, <1>2, <1>3 DEF TalentKnows, Staging, StagesOf, Ended, NoJobYet
<1>5. PICK c : c = [old EXCEPT !.row = r, !.pc = "readStage"] OBVIOUS
<1>6. /\ IsCall(c) /\ c.op = old.op /\ c.pc = "readStage" /\ c.company = old.company
  BY <1>3, <1>5 DEF IsCall, CallFields
<1>18. PICK num : num = Cardinality({j \in Request : jobs[j] # NoRow}) + 1 OBVIOUS
<1>19. PICK job : job = [company |-> old.company, pool |-> TRUE, made |-> TRUE, id |-> num] OBVIOUS
<1>21. job.company = old.company BY <1>19
<1>7. /\ Become(r, c) /\ jobs' = [jobs EXCEPT ![r] = job]
      /\ mixed' = mixed /\ stages' = stages /\ history' = history
  BY <1>2, <1>5, <1>18, <1>19 DEF AddPool, NewJob
<1>8. jobs = [j \in Request |-> jobs[j]] BY TalentFacts DEF TalentShape
<1>9. \A j \in Request \ {r} : jobs'[j] = jobs[j] BY <1>7, <1>8
<1>10. ASSUME NEW k \in Row \ mixed
       PROVE  /\ \A i, j \in Made(k)' : i = j
              /\ Made(k)' \subseteq Made(k) \/ StagesOf(req[r], k)
  <2>1. StageInv(k) BY DEF HistoryInv
  <2>2. Made(k)' \subseteq Made(k) \cup {r} BY <1>9 DEF Made, Pools, Jobs
  <2>3. CASE k = old.company
    <3>1. StagesOf(req[r], k) BY <1>2, <1>4, <2>3
    <3>2. Made(k) = {} BY <1>1, <2>1, <3>1 DEF StageInv, At
    <3> QED BY <2>2, <3>1, <3>2
  <2>4. CASE k # old.company
    <3>1. jobs'[r].company = old.company BY <1>7, <1>8, <1>21
    <3>2. Made(k)' \subseteq Made(k) BY <2>2, <2>4, <3>1 DEF Made, Pools, Jobs
    <3> QED BY <2>1, <3>2 DEF StageInv
  <2> QED BY <2>3, <2>4
<1>11. \A k : StagesOf(c, k) => StagesOf(req[r], k) BY <1>1, <1>2, <1>6 DEF StagesOf, Ended
<1> QED BY <1>4, <1>6, <1>7, <1>9, <1>10, <1>11, StagesKept

LEMMA ReadStageStages ==
  ASSUME EmployerInv, HistoryInv, NEW r \in Request, ReadStage(r)
  PROVE  HistoryInv'
<1>1. req[r].pc = "readStage" BY DEF ReadStage, At
<1>2. PICK old : old = req[r] OBVIOUS
<1>3. IsCall(old) BY <1>2, TalentFacts
<1>4. PICK stage : stage = stages[<<old.row, StageCandidate(r)>>] OBVIOUS
<1>5. PICK c : c = [old EXCEPT !.items = stage, !.pc = "writeStage"] OBVIOUS
<1>6. /\ IsCall(c) /\ c.op = old.op /\ c.pc = "writeStage" /\ c.company = old.company
      /\ c.cands = old.cands /\ c.row = old.row /\ c.items = stage
  BY <1>3, <1>5 DEF IsCall, CallFields
<1>7. Become(r, c) BY <1>2, <1>4, <1>5 DEF ReadStage
<1>8. mixed' = mixed /\ jobs' = jobs /\ stages' = stages /\ history' = history
  BY DEF ReadStage, ReadsOnly, talent
<1>9. c.items = ItsStage(c) BY <1>2, <1>4, <1>6 DEF ItsStage, StageCandidate
<1>10. \A k : StagesOf(c, k) => StagesOf(req[r], k) BY <1>1, <1>2, <1>6 DEF StagesOf, Ended
<1>11. \A k : Made(k)' = Made(k) BY <1>8 DEF Made, Pools, Jobs
<1>12. \A k \in Row \ mixed : \A i, j \in Made(k) : i = j BY DEF HistoryInv, StageInv
<1> QED BY <1>6, <1>7, <1>8, <1>9, <1>10, <1>11, <1>12, StagesKept

(* The step that writes a stage and its entry: the entry is the last, and   *)
(* says of the stage before what the request read.                          *)
LEMMA WriteStageStages ==
  ASSUME EmployerInv, HistoryInv, NEW r \in Request, WriteStage(r)
  PROVE  HistoryInv'
<1>1. req[r].pc = "writeStage" BY DEF WriteStage, At
<1>2. PICK old : old = req[r] OBVIOUS
<1>3. IsCall(old) /\ TalentKnows(r, old) BY <1>2, TalentFacts
<1>4. PICK d : d = StageCandidate(r) OBVIOUS
<1>5. PICK k0 : k0 = old.company OBVIOUS
<1>6. PICK j0 : j0 = old.row OBVIOUS
<1>7. d \in Candidate /\ j0 \in Request /\ jobs[j0] # NoRow /\ jobs[j0].company = k0 /\ k0 \in Row
  BY <1>1, <1>2, <1>3, <1>4, <1>5, <1>6
  DEF TalentKnows, Staging, StageCandidate, Owns, OwnJob
<1>8. PICK h : h = [company |-> k0, cand |-> d, job |-> j0, from |-> old.items, to |-> old.what]
  OBVIOUS
<1>9. h.cand = d /\ h.job = j0 /\ h.from = old.items /\ h.to = old.what BY <1>8
<1>10. /\ history' = Append(history, h) /\ stages' = [stages EXCEPT ![<<j0, d>>] = old.what]
       /\ jobs' = jobs /\ mixed' = mixed
  BY <1>2, <1>4, <1>5, <1>6, <1>8 DEF WriteStage
<1>11. PICK n \in Nat : /\ n = Len(history) /\ DOMAIN history = 1 .. n
                        /\ DOMAIN history' = 1 .. (n + 1) /\ history'[n + 1] = h
                        /\ \A i \in 1 .. n : history'[i] = history[i]
  <2>1. Len(history) \in Nat /\ history = [i \in 1 .. Len(history) |-> history[i]]
    BY TalentFacts DEF TalentShape
  <2> DEFINE S == {history[i] : i \in 1 .. Len(history)} \cup {h}
  <2>2. history \in Seq(S) BY <2>1
  <2> QED BY <1>10, <2>1, <2>2
<1>12. StagesOf(old, k0) BY <1>1, <1>2, <1>3, <1>5 DEF TalentKnows, Staging, StagesOf, Ended
<1>13. /\ \A q \in Request \ {r} : req'[q] = req[q]
       /\ req'[r].pc = "done"
  <2>1. PICK c : c = [old EXCEPT !.pc = "done"] OBVIOUS
  <2>2. IsCall(c) /\ c.pc = "done" BY <1>3, <2>1, MovedFacts
  <2>3. Become(r, c) BY <1>2, <2>1 DEF WriteStage, Go
  <2> QED BY <2>2, <2>3, TalentFacts, BecomeReq
<1>14. \A S \in SUBSET (1 .. n) : StageAfter(S)' = StageAfter(S)
  <2> SUFFICES ASSUME NEW S \in SUBSET (1 .. n) PROVE StageAfter(S)' = StageAfter(S) OBVIOUS
  <2>1. CASE S = {} BY <2>1 DEF StageAfter
  <2>2. CASE S # {}
    <3>1. PICK i : i = CHOOSE m \in S : \A b \in S : b <= m OBVIOUS
    <3>2. i \in S
      <4>1. n \in Nat /\ \A m \in S : m \in Nat /\ m <= n BY <1>11
      <4>2. \E m \in S : \A b \in S : b <= m BY <4>1, <2>2, GreatestOf
      <4> QED BY <3>1, <4>2
    <3>3. history'[i] = history[i] BY <1>11, <3>2
    <3> QED BY <2>2, <3>1, <3>3 DEF StageAfter
  <2> QED BY <2>1, <2>2
<1>15. \A j \in Request : \A c \in Candidate :
         Entries(j, c)' = IF j = j0 /\ c = d THEN Entries(j, c) \cup {n + 1} ELSE Entries(j, c)
  <2> SUFFICES ASSUME NEW j \in Request, NEW c \in Candidate
               PROVE  Entries(j, c)' = IF j = j0 /\ c = d THEN Entries(j, c) \cup {n + 1} ELSE Entries(j, c)
    OBVIOUS
  <2>1. Entries(j, c) = {i \in 1 .. n : history[i].job = j /\ history[i].cand = c}
    BY <1>11 DEF Entries
  <2>2. Entries(j, c)' = {i \in 1 .. (n + 1) : history'[i].job = j /\ history'[i].cand = c}
    BY <1>11 DEF Entries
  <2>3. ASSUME NEW i \in 1 .. n
        PROVE  i \in Entries(j, c)' <=> i \in Entries(j, c)
    BY <1>11, <2>1, <2>2
  <2>4. n + 1 \in Entries(j, c)' <=> j = j0 /\ c = d
    <3>1. history'[n + 1].job = j0 /\ history'[n + 1].cand = d BY <1>9, <1>11
    <3>2. n + 1 \in 1 .. (n + 1) BY <1>11
    <3> QED BY <2>2, <3>1, <3>2
  <2>5. \A i \in 1 .. (n + 1) : i \in 1 .. n \/ i = n + 1 BY <1>11
  <2>6. n + 1 \notin 1 .. n BY <1>11
  <2>7. Entries(j, c) \subseteq 1 .. n /\ Entries(j, c)' \subseteq 1 .. (n + 1) BY <2>1, <2>2
  <2>8. CASE j = j0 /\ c = d BY <2>3, <2>4, <2>5, <2>7, <2>8
  <2>9. CASE ~(j = j0 /\ c = d) BY <2>3, <2>4, <2>5, <2>6, <2>7, <2>9
  <2> QED BY <2>8, <2>9
<1>16. \A j \in Request : \A c \in Candidate : Entries(j, c) \in SUBSET (1 .. n)
  BY <1>11 DEF Entries
<1>17. /\ stages' = [jc \in Request \X Candidate |-> stages'[jc]]
       /\ stages'[<<j0, d>>] = old.what
       /\ \A j \in Request : \A c \in Candidate : j # j0 \/ c # d => stages'[<<j, c>>] = stages[<<j, c>>]
  BY <1>7, <1>10 DEF HistoryInv
<1>18. ASSUME NEW k \in Row \ mixed PROVE StageInv(k)'
  <2>1. StageInv(k) BY DEF HistoryInv
  <2>2. \A q \in Request : StagesOf(req'[q], k) => q # r /\ StagesOf(req[q], k)
    BY <1>13 DEF StagesOf, Ended
  <2>3. Made(k)' = Made(k) /\ Jobs(k)' = Jobs(k) BY <1>10 DEF Made, Pools, Jobs
  <2>4. \A p, q \in Request : StagesOf(req'[p], k) /\ StagesOf(req'[q], k) => p = q
    BY <2>1, <2>2 DEF StageInv
  <2>5. \A q \in Request : StagesOf(req'[q], k) /\ req'[q].pc = "addPool" => Made(k) = {}
    BY <1>13, <2>1, <2>2 DEF StageInv, At
  <2>6. ASSUME NEW q \in Request, StagesOf(req'[q], k), req'[q].pc = "writeStage"
        PROVE  req'[q].items = ItsStage(req[q])'
    <3>1. q # r /\ req'[q] = req[q] /\ StagesOf(req[q], k) BY <1>13, <2>2, <2>6
    <3>2. k # k0 BY <1>2, <1>12, <2>1, <3>1 DEF StageInv
    <3>3. req[q].items = ItsStage(req[q]) BY <2>1, <2>6, <3>1 DEF StageInv, At
    <3>4. TalentKnows(q, req[q]) /\ req[q].company = k BY <3>1, TalentFacts DEF StagesOf
    <3>5. PICK c : c = CHOOSE e \in req[q].cands : TRUE OBVIOUS
    <3>6. c \in Candidate /\ OwnJob(k, req[q].row)
      BY <2>6, <3>1, <3>4, <3>5 DEF TalentKnows, Staging, Owns
    <3>7. req[q].row # j0 /\ req[q].row \in Request BY <1>7, <3>2, <3>6 DEF OwnJob
    <3>8. stages'[<<req[q].row, c>>] = stages[<<req[q].row, c>>] BY <1>17, <3>6, <3>7
    <3> QED BY <3>1, <3>3, <3>5, <3>8 DEF ItsStage
  <2>7. ASSUME NEW j \in Jobs(k), NEW c \in Candidate PROVE Chained(j, c)'
    <3>1. Chained(j, c) /\ j \in Request /\ jobs[j].company = k BY <2>1 DEF StageInv, Jobs
    <3>2. PICK E : E = Entries(j, c) /\ E \in SUBSET (1 .. n) BY <1>16, <3>1
    <3>3. \A i \in E : history'[i].from = StageAfter({b \in E : b < i})'
      <4> SUFFICES ASSUME NEW i \in E PROVE history'[i].from = StageAfter({b \in E : b < i})' OBVIOUS
      <4>1. PICK B : B = {b \in E : b < i} OBVIOUS
      <4>2. B \in SUBSET (1 .. n) BY <3>2, <4>1
      <4>3. StageAfter(B)' = StageAfter(B) BY <1>14, <4>2
      <4>4. history'[i] = history[i] BY <1>11, <3>2
      <4>5. history[i].from = StageAfter(B) BY <3>1, <3>2, <4>1 DEF Chained
      <4> QED BY <4>1, <4>3, <4>4, <4>5
    <3>4. StageAfter(E)' = StageAfter(E) /\ stages[<<j, c>>] = StageAfter(E)
      BY <1>14, <3>1, <3>2 DEF Chained
    <3>5. CASE j # j0 \/ c # d
      <4>1. Entries(j, c)' = E BY <1>15, <3>1, <3>2, <3>5
      <4>2. stages'[<<j, c>>] = StageAfter(E)' BY <1>17, <3>1, <3>4, <3>5
      <4> QED BY <3>3, <4>1, <4>2 DEF Chained
    <3>6. CASE j = j0 /\ c = d
      <4>1. PICK F : F = E \cup {n + 1} OBVIOUS
      <4>2. Entries(j, c)' = F BY <1>15, <3>1, <3>2, <3>6, <4>1
      <4>3. \A i \in E : {b \in F : b < i} = {b \in E : b < i} BY <3>2, <4>1
      <4>4. {b \in F : b < n + 1} = E BY <3>2, <4>1
      <4>5. old.items = stages[<<j, c>>]
        <5>1. k = k0 BY <1>7, <3>1, <3>6
        <5>2. req[r].items = ItsStage(req[r])
          BY <1>1, <1>2, <1>12, <2>1, <5>1 DEF StageInv, At
        <5> QED BY <1>2, <1>4, <1>6, <3>6, <5>2 DEF ItsStage, StageCandidate
      <4>6. history'[n + 1].from = StageAfter({b \in F : b < n + 1})'
        BY <1>9, <1>11, <3>4, <4>4, <4>5
      <4>7. \A i \in F : history'[i].from = StageAfter({b \in F : b < i})'
        <5> SUFFICES ASSUME NEW i \in F PROVE history'[i].from = StageAfter({b \in F : b < i})' OBVIOUS
        <5>1. CASE i \in E BY <3>3, <4>3, <5>1
        <5>2. CASE i = n + 1 BY <4>6, <5>2
        <5> QED BY <4>1, <5>1, <5>2
      <4>8. StageAfter(F)' = history'[n + 1].to
        <5>1. n + 1 \in F /\ \A b \in F : b <= n + 1 BY <1>11, <3>2, <4>1
        <5>2. \A i \in F : (\A b \in F : b <= i) => i = n + 1 BY <1>11, <3>2, <4>1
        <5>3. (CHOOSE i \in F : \A b \in F : b <= i) = n + 1 BY <5>1, <5>2
        <5> QED BY <5>1, <5>3 DEF StageAfter
      <4>9. stages'[<<j, c>>] = StageAfter(F)' BY <1>9, <1>11, <1>17, <3>6, <4>8
      <4> QED BY <4>2, <4>7, <4>9 DEF Chained
    <3> QED BY <3>5, <3>6
  <2> QED BY <2>1, <2>3, <2>4, <2>5, <2>6, <2>7 DEF StageInv, At
<1>19. \A j \in Request : jobs'[j] = NoRow => \A c \in Candidate : stages'[<<j, c>>] = Nil
  <2> SUFFICES ASSUME NEW j \in Request, jobs'[j] = NoRow, NEW c \in Candidate
               PROVE  stages'[<<j, c>>] = Nil
    OBVIOUS
  <2>1. jobs[j] = NoRow /\ j # j0 BY <1>7, <1>10
  <2>2. stages[<<j, c>>] = Nil BY <2>1 DEF HistoryInv
  <2> QED BY <1>17, <2>1, <2>2
<1> QED BY <1>10, <1>17, <1>18, <1>19 DEF HistoryInv

LEMMA TalentStepStages ==
  ASSUME EmployerInv, HistoryInv, NEW r \in Request, TalentStep(r)
  PROVE  HistoryInv'
BY StartsTalent, DeleteTagStages, CandidateStages, MarkStages, CreateJobStages, FindJobStages,
   AddPoolStages, ReadStageStages, WriteStageStages, PrepareStages, UpdateItemStages, QueueStages
DEF TalentStep

LEMMA TeamStages ==
  ASSUME EmployerInv, HistoryInv, NEW r \in Request, TeamStep(r), UNCHANGED <<talent, mixed>>
  PROVE  HistoryInv'
<1>1. PICK c : MovesTeam(r, c) BY TeamStepMoves DEF EmployerInv
<1>2. mixed' = mixed /\ jobs' = jobs /\ stages' = stages /\ history' = history BY DEF talent
<1>3. c.pc \notin {"addPool", "writeStage"} BY <1>1 DEF MovesTeam, TeamPc, Unlisted, Ended
<1>4. \A k : StagesOf(c, k) => StagesOf(req[r], k)
  BY <1>1 DEF MovesTeam, StagesOf, TeamPc, Unlisted, Ended
<1>5. \A k : Made(k)' = Made(k) BY <1>2 DEF Made, Pools, Jobs
<1>6. \A k \in Row \ mixed : \A i, j \in Made(k) : i = j BY DEF HistoryInv, StageInv
<1> QED BY <1>1, <1>2, <1>3, <1>4, <1>5, <1>6, StagesKept DEF MovesTeam

(* No history is written when the server stops, and the companies whose     *)
(* stage updates it cuts off are among the mixed.                           *)
LEMMA StopStages ==
  ASSUME EmployerInv, HistoryInv, StopServer, UNCHANGED talent,
         mixed' = mixed \cup UNION {Concerns(req[q]) : q \in InFlight}
  PROVE  HistoryInv'
<1>1. jobs' = jobs /\ stages' = stages /\ history' = history BY DEF talent
<1>2. ASSUME NEW k \in Row \ mixed', NEW q \in Request PROVE ~StagesOf(req'[q], k)
  <2>1. \/ req'[q].pc = "stopped" /\ q \in InFlight
        \/ req'[q] = req[q] /\ q \notin InFlight
    BY StopReq DEF EmployerInv
  <2>2. StagesOf(req[q], k) => q \in InFlight BY DEF StagesOf, InFlight, At
  <2>3. req'[q].pc = "stopped" => ~StagesOf(req'[q], k) BY DEF StagesOf, Ended
  <2> QED BY <2>1, <2>2, <2>3
<1>3. ASSUME NEW j, NEW c, Chained(j, c) PROVE Chained(j, c)'
  <2>1. Entries(j, c)' = Entries(j, c) BY <1>1 DEF Entries
  <2>2. \A S : StageAfter(S)' = StageAfter(S) BY <1>1 DEF StageAfter
  <2> QED BY <1>1, <1>3, <2>1, <2>2 DEF Chained
<1>4. ASSUME NEW k \in Row \ mixed' PROVE StageInv(k)'
  <2>1. StageInv(k) BY DEF HistoryInv
  <2>2. Jobs(k)' = Jobs(k) /\ Made(k)' = Made(k) BY <1>1 DEF Made, Pools, Jobs
  <2>3. \A j \in Jobs(k) : \A c \in Candidate : Chained(j, c)' BY <1>3, <2>1 DEF StageInv
  <2>4. \A i, j \in Made(k) : i = j BY <2>1 DEF StageInv
  <2> QED BY <1>2, <2>2, <2>3, <2>4 DEF StageInv, StagesOf
<1>5. \A j \in Request : jobs'[j] = NoRow => \A c \in Candidate : stages'[<<j, c>>] = Nil
  BY <1>1 DEF HistoryInv
<1>6. stages' = [jc \in Request \X Candidate |-> stages'[jc]] BY <1>1 DEF HistoryInv
<1>7. \A k \in Row \ mixed' : StageInv(k)' BY <1>4
<1> QED BY <1>5, <1>6, <1>7 DEF HistoryInv

LEMMA StagesStart == EmployerInit => HistoryInv
<1> SUFFICES ASSUME EmployerInit PROVE HistoryInv OBVIOUS
<1>1. ASSUME NEW q \in Request PROVE req[q].pc = "waiting"
  <2>1. req[q] = Call(Nil, "waiting", Nil, Nil, {}, Nil) BY DEF EmployerInit, TeamInit
  <2> QED BY <2>1, CallFacts
<1>2. /\ history = <<>> /\ jobs = [j \in Request |-> NoRow]
      /\ stages = [jc \in Request \X Candidate |-> Nil]
  BY DEF EmployerInit
<1>3. \A k : Jobs(k) = {} /\ Made(k) = {} BY <1>2 DEF Made, Pools, Jobs
<1>4. \A k : \A q \in Request : ~StagesOf(req[q], k) BY <1>1 DEF StagesOf
<1>5. \A k : StageInv(k) BY <1>3, <1>4 DEF StageInv
<1> QED BY <1>2, <1>5 DEF HistoryInv

LEMMA StagesNext ==
  EmployerInv /\ HistoryInv /\ [EmployerNext]_employerVars => HistoryInv'
<1> SUFFICES ASSUME EmployerInv, HistoryInv, [EmployerNext]_employerVars PROVE HistoryInv' OBVIOUS
<1>1. CASE \E r \in Request : TalentStep(r) BY <1>1, TalentStepStages
<1>2. CASE \E r \in Request : TeamStep(r) /\ UNCHANGED <<talent, mixed>> BY <1>2, TeamStages
<1>3. CASE /\ StopServer
           /\ mixed' = mixed \cup UNION {Concerns(req[q]) : q \in InFlight}
           /\ UNCHANGED talent
  BY <1>3, StopStages
<1>4. CASE UNCHANGED employerVars
  <2>1. /\ req' = req /\ mixed' = mixed /\ jobs' = jobs /\ stages' = stages /\ history' = history
    BY <1>4 DEF employerVars, team, talent
  <2>2. ASSUME NEW k \in Row \ mixed PROVE StageInv(k)'
    <3>1. StageInv(k) BY DEF HistoryInv
    <3>2. Jobs(k)' = Jobs(k) /\ Made(k)' = Made(k) BY <2>1 DEF Made, Pools, Jobs
    <3>3. \A S : StageAfter(S)' = StageAfter(S) BY <2>1 DEF StageAfter
    <3>4. \A j, c : Entries(j, c)' = Entries(j, c) BY <2>1 DEF Entries
    <3>5. \A j \in Jobs(k) : \A c \in Candidate : Chained(j, c)'
      BY <2>1, <3>1, <3>3, <3>4 DEF StageInv, Chained
    <3>6. \A q \in Request : ItsStage(req[q])' = ItsStage(req[q]) BY <2>1 DEF ItsStage
    <3> QED BY <2>1, <3>1, <3>2, <3>5, <3>6 DEF StageInv, StagesOf, At
  <2> QED BY <2>1, <2>2 DEF HistoryInv
<1> QED BY <1>1, <1>2, <1>3, <1>4 DEF EmployerNext

(* The stage history of a candidate and a job is a chain that ends at the   *)
(* stage it has now, and the stage updates of a company have made it one    *)
(* talent pool at most, unless two of them overlapped or a stop cut one off.*)
THEOREM HistoryTheorem == EmployerSpec => []HistoryChains
<1>1. HistoryInv => HistoryChains
  <2> SUFFICES ASSUME HistoryInv, NEW k \in Row \ mixed
               PROVE  /\ Cardinality(Made(k)) <= 1
                      /\ \A j \in Jobs(k), c \in Candidate : Chained(j, c)
    BY DEF HistoryChains
  <2>1. StageInv(k) BY DEF HistoryInv
  <2>2. CASE Made(k) = {} BY <2>1, <2>2, FS_EmptySet DEF StageInv
  <2>3. CASE Made(k) # {}
    <3>1. PICK i : i \in Made(k) BY <2>3
    <3>2. Made(k) = {i} BY <2>1, <3>1 DEF StageInv
    <3>3. Cardinality(Made(k)) = 1 BY <3>2, FS_Singleton
    <3> QED BY <2>1, <3>3 DEF StageInv
  <2> QED BY <2>2, <2>3
<1>2. EmployerInv /\ HistoryInv /\ [EmployerNext]_employerVars => HistoryInv' BY StagesNext
<1>3. EmployerSpec => []HistoryInv
  BY EmployerInvariant, StagesStart, <1>2, PTL DEF EmployerSpec
<1> QED BY <1>1, <1>3, PTL
====
