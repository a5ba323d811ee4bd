----------------------------- MODULE EmployerTeam -----------------------------
(***************************************************************************)
(* Employer workspaces: registration, sign-in and the team                  *)
(* (api/routers/employer_auth.py and employer_team.py over                  *)
(* db/employer_repository.py).  Every request has its own connection; a     *)
(* SELECT is a step, and each repository method that writes is a           *)
(* transaction and a step of its own, so that a registration is three of    *)
(* them.  A row is named by the request that inserted it.                   *)
(***************************************************************************)
EXTENDS Naturals, FiniteSets

CONSTANTS Request,      \* requests a behaviour may contain
          OldCompany,   \* companies there from the start
          Email,
          Role,         \* role keys
          Founder,      \* the address of the owner of each old company
          Domain,       \* what an address gives for a slug
          EmployerMenus, \* bound: the kinds of requests that follow each other
          MaxInFlight,  \* bound: requests running at the same time
          MaxFailures,  \* bound: stops of the server
          Nil

EmployerOp == {"register", "login", "invite", "updateMember", "createJob", "bulkTag",
               "bulkNote", "deleteTag", "stage", "createCampaign", "prepareQueue",
               "updateItem"}

ASSUME EmployerRequests == /\ Request \subseteq Nat \ {0} /\ Request \cap OldCompany = {}
                           /\ IsFiniteSet(OldCompany \cup Request)
ASSUME RoleAssumption == "owner" \in Role /\ Founder \in [OldCompany -> Email]
ASSUME EmployerBounds == EmployerMenus \subseteq [Request -> SUBSET EmployerOp]

VARIABLES
  companies,  \* employer_companies: the slug
  users,      \* employer_users, by their unique address: the registration that made it
  members,    \* employer_team_members
  sessions,   \* signed session tokens somebody holds
  req,        \* where each request is
  stops       \* stops of the server so far

teamTables == <<companies, users, members, sessions>>
teamVars == <<teamTables, req, stops>>

Row    == OldCompany \cup Request
Status == {"active", "invited", "disabled"}
Slug   == {<<Domain[e], n>> : e \in Email, n \in 1 .. Cardinality(Row)}
NoRow  == [none |-> Nil]

ASSUME EmployerNil == Nil \notin Row /\ Nil \notin Slug

Ended == {"done", "refused", "raised", "stopped"}

(* A request carries what it was asked and what it has read: `what' and      *)
(* `items' are data of the operation, `todo' the candidates still to handle, *)
(* `cur' the one at hand, `row' a row it refers to.                          *)
Call(op, pc, k, what, todo, row) ==
  [op |-> op, pc |-> pc, company |-> k, what |-> what, todo |-> todo,
   cands |-> todo, row |-> row, cur |-> Nil, items |-> Nil]

Member(k, e, role, status) ==
  [company |-> k, user |-> e, invited |-> Nil, role |-> role, status |-> status]

TeamInit ==
  /\ companies = [k \in Row |-> IF k \in OldCompany THEN <<Domain[Founder[k]], 1>> ELSE Nil]
  /\ users = [e \in Email |-> IF \E k \in OldCompany : Founder[k] = e
                              THEN CHOOSE k \in OldCompany : Founder[k] = e ELSE Nil]
  /\ members = [m \in Row |-> IF m \in OldCompany THEN Member(m, Founder[m], "owner", "active")
                              ELSE NoRow]
  /\ sessions = {[company |-> k, user |-> Founder[k], role |-> "owner"] : k \in OldCompany}
  /\ req = [r \in Request |-> Call(Nil, "waiting", Nil, Nil, {}, Nil)]
  /\ stops = 0

---------------------------------------------------------------------------
(* Requests *)

At(r, pc) == req[r].pc = pc
InFlight  == {r \in Request : ~At(r, "waiting") /\ req[r].pc \notin Ended}
Outcome(call) == IF call.pc \in Ended THEN Call(call.op, call.pc, Nil, Nil, {}, Nil) ELSE call
Become(r, call) == req' = [req EXCEPT ![r] = Outcome(call)]
Go(r, pc) == Become(r, [req[r] EXCEPT !.pc = pc])

Begin(r, call) ==
  /\ At(r, "waiting")
  /\ \E menu \in EmployerMenus :
       call.op \in menu[r] /\ \A q \in Request : q < r => req[q].op \in menu[q]
  /\ \A q \in Request : q < r => ~At(q, "waiting")
  /\ Cardinality(InFlight) < MaxInFlight
  /\ Become(r, call)

(* The signed token is all that is asked of a caller: the company and the    *)
(* role in it are those of the sign-in.                                      *)
Manager(s) == s.role \in {"owner", "admin"}

---------------------------------------------------------------------------
(* Registration *)

Register(r) ==
  /\ \E e \in Email :
       Begin(r, Call("register", IF users[e] = Nil THEN "pickSlug" ELSE "refused",
                     r, e, {}, Nil))
  /\ UNCHANGED <<teamTables, stops>>

SlugTaken(slug) == \E k \in Row : companies[k] = slug

(* The loop asks for one slug after the other; slugs are never given up, so  *)
(* that its last look decides.                                               *)
UniqueCompanySlug(e) ==
  CHOOSE s \in Slug : /\ s[1] = Domain[e] /\ ~SlugTaken(s)
                      /\ \A n \in 1 .. s[2] - 1 : SlugTaken(<<s[1], n>>)

PickSlug(r) ==
  /\ At(r, "pickSlug")
  /\ Become(r, [req[r] EXCEPT !.items = UniqueCompanySlug(req[r].what), !.pc = "createCompany"])
  /\ UNCHANGED <<teamTables, stops>>

(* The company, its roles and its pipeline, in one transaction.              *)
CreateCompany(r) ==
  /\ At(r, "createCompany")
  /\ \/ SlugTaken(req[r].items) /\ Go(r, "refused") /\ UNCHANGED companies
     \/ /\ ~SlugTaken(req[r].items)
        /\ companies' = [companies EXCEPT ![r] = req[r].items]
        /\ Go(r, "createUser")
  /\ UNCHANGED <<users, members, sessions, stops>>

(* The loser of a race for an address leaves its company behind.             *)
CreateUser(r) ==
  /\ At(r, "createUser")
  /\ LET e == req[r].what
     IN  \/ users[e] # Nil /\ Go(r, "refused") /\ UNCHANGED users
         \/ users[e] = Nil /\ users' = [users EXCEPT ![e] = r] /\ Go(r, "addOwner")
  /\ UNCHANGED <<companies, members, sessions, stops>>

AddOwner(r) ==
  /\ At(r, "addOwner")
  /\ members' = [members EXCEPT ![r] = Member(r, req[r].what, "owner", "active")]
  /\ sessions' = sessions \cup {[company |-> r, user |-> req[r].what, role |-> "owner"]}
  /\ Go(r, "done")
  /\ UNCHANGED <<companies, users, stops>>

---------------------------------------------------------------------------
(* Sign-in *)

(* A wrong password is not told from an unknown address. *)
Login(r) ==
  /\ \E e \in Email :
       Begin(r, Call("login", IF users[e] = Nil THEN "refused" ELSE "findMember",
                     Nil, e, {}, Nil))
  /\ UNCHANGED <<teamTables, stops>>

(* get_primary_team_member_for_user: an active membership, an owner's first. *)
MembershipsOf(e) == {m \in Row : /\ members[m] # NoRow /\ members[m].user = e
                                 /\ members[m].status = "active"}

FindMember(r) ==
  /\ At(r, "findMember")
  /\ LET e == req[r].what
     IN  \/ MembershipsOf(e) = {} /\ Go(r, "refused") /\ UNCHANGED sessions
         \/ \E m \in MembershipsOf(e) :
              /\ sessions' = sessions \cup {[company |-> members[m].company, user |-> e,
                                             role |-> members[m].role]}
              /\ Go(r, "done")
  /\ UNCHANGED <<companies, users, members, stops>>

---------------------------------------------------------------------------
(* The team *)

(* Nothing turns an invitation into a member with a user: the row stays.     *)
InviteMember(r) ==
  /\ \E s \in sessions, e \in Email, role \in Role :
       LET invited == \E m \in Row : /\ members[m] # NoRow /\ members[m].company = s.company
                                     /\ members[m].invited = e
       IN  /\ Manager(s)
           /\ Begin(r, Call("invite", IF invited THEN "raised" ELSE "done",
                            s.company, Nil, {}, Nil))
           /\ members' = IF invited THEN members ELSE
                [members EXCEPT ![r] = [company |-> s.company, user |-> Nil, invited |-> e,
                                        role |-> role, status |-> "invited"]]
  /\ UNCHANGED <<companies, users, sessions, stops>>

(* Mutant: an owner may be given another role. *)
RoleAcceptedAnyway(m, role) == TRUE

RoleAccepted(m, role) == members[m].role = "owner" => role \in {"owner", Nil}

UpdateMember(r) ==
  /\ \E s \in sessions, m \in Row, role \in Role \cup {Nil}, status \in Status \cup {Nil} :
       /\ Manager(s)
       /\ members[m] # NoRow /\ members[m].company = s.company
       /\ Begin(r, [Call("updateMember", IF RoleAccepted(m, role) THEN "writeMember" ELSE "refused",
                         s.company, role, {}, m) EXCEPT !.items = status])
  /\ UNCHANGED <<teamTables, stops>>

(* By the id of the row, whatever has become of it since it was read.        *)
WriteMember(r) ==
  /\ At(r, "writeMember")
  /\ LET call == req[r]
         old == members[call.row]
         Given(new, was) == IF new = Nil THEN was ELSE new
     IN  members' = [members EXCEPT ![call.row] =
           [old EXCEPT !.role = Given(call.what, old.role),
                       !.status = Given(call.items, old.status)]]
  /\ Go(r, "done")
  /\ UNCHANGED <<companies, users, sessions, stops>>

---------------------------------------------------------------------------
TeamStep(r) ==
  \/ Register(r) \/ PickSlug(r) \/ CreateCompany(r) \/ CreateUser(r) \/ AddOwner(r)
  \/ Login(r) \/ FindMember(r)
  \/ InviteMember(r) \/ UpdateMember(r) \/ WriteMember(r)

(* The server stops, and every request with it. *)
StopServer ==
  /\ stops < MaxFailures
  /\ InFlight # {}
  /\ stops' = stops + 1
  /\ req' = [r \in Request |-> IF r \in InFlight
                               THEN Outcome([req[r] EXCEPT !.pc = "stopped"]) ELSE req[r]]
  /\ UNCHANGED teamTables

---------------------------------------------------------------------------
(* Properties *)

(* An address that can sign in has the workspace its registration made, with *)
(* itself in the team, unless the server stopped between the transactions of *)
(* a registration: the address then can neither sign in nor register again   *)
(* (employer_register writes the company, the user and the member apart, and *)
(* two registrations may race for an address or a slug).                     *)
RegisteredHasWorkspace ==
  \A e \in Email : users[e] # Nil /\ stops = 0 =>
    LET k == users[e]
    IN  /\ companies[k] # Nil
        /\ \/ k \in Request /\ At(k, "addOwner") /\ req[k].what = e
           \/ members[k] # NoRow /\ members[k].company = k /\ members[k].user = e

(* However updates of the team overlap, a company that ever had a member     *)
(* keeps one in the role of owner (update_team_member reads the role, answers *)
(* owner_role_cannot_be_downgraded, and writes by id in a later step).        *)
WorkspaceKeepsOwner ==
  \A k \in Row : (\E m \in Row : members[m] # NoRow /\ members[m].company = k) =>
    \E m \in Row : members[m] # NoRow /\ members[m].company = k /\ members[m].role = "owner"

(* Registrations and team updates, in steps that overlap and stop half way,  *)
(* leave each company with its workspace and an owner.                       *)
WorkspaceKept == RegisteredHasWorkspace /\ WorkspaceKeepsOwner
===============================================================================
