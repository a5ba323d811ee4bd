------------------------------ MODULE Accounts ------------------------------
(***************************************************************************)
(* Accounts of subscribers: sign-up, sign-in by password, link or Google,  *)
(* password reset, change of address, TOTP, sessions and deletion          *)
(* (api/routers/public_auth.py, user_auth.py, user_security.py,            *)
(* oauth_auth.py).  Every request has its own connection: a SELECT is a    *)
(* step, a write transaction is a step, and nothing is locked in between.  *)
(*                                                                         *)
(* Requests are numbered in the order in which they start.  A row inserted *)
(* by request r has r for its key, and r for its time stamp.  A password   *)
(* stands for its hash.                                                    *)
(***************************************************************************)
EXTENDS Naturals, FiniteSets

CONSTANTS Request,      \* requests a behaviour may contain
          Email, Password, Device,
          GoogleUser,   \* Google identities
          GoogleMail,   \* the verified address of each
          Menu,         \* bound: what each request may be
          MaxInFlight,  \* bound: requests running at the same time
          MaxFailures,  \* bound: stops of the server
          Nil

Op == {"signup", "confirmSignup", "legacySignup", "requestLink", "useLink", "login",
       "requestReset", "confirmReset", "changePassword", "requestEmail",
       "confirmEmail", "setupTotp", "verifyTotp", "disableTotp", "endSession",
       "endOthers", "deleteAccount", "googleStart", "googleCallback", "setActive",
       "fillProfile"}

ASSUME RequestAssumption == Request \subseteq Nat \ {0}
ASSUME NilAssumption == Nil \notin Email \cup Password \cup Request \cup {0}
ASSUME GoogleAssumption == GoogleMail \in [GoogleUser -> Email]
ASSUME MenuAssumption == Menu \in [Request -> SUBSET Op]
ASSUME AccountBounds == MaxInFlight \in Nat /\ MaxFailures \in Nat

VARIABLES
  accounts,    \* subscribers: e-mail, password, is_active and whether they are kept
  tokens,      \* sign-in links, reset links and e-mail change requests
  signups,     \* subscriber_signup_verifications, one row per address
  sessions,    \* subscriber_sessions
  totp,        \* subscriber_totp_secrets, one row per subscriber
  states,      \* subscriber_oauth_states
  googleLink,  \* subscriber_oauth_providers: the account of a Google identity
  cookies,     \* accounts somebody holds a signed cookie for
  req,         \* where each request is
  stops,       \* stops of the server so far
  changed      \* history: requests that have changed a password or an address

tables == <<accounts, tokens, signups, sessions, totp, states, googleLink>>
accountVars == <<tables, cookies, req, stops, changed>>

Account == Request \cup {0}   \* 0 is there from the start
LinkKind == {"signin", "reset"}

Address    == Email \cup {Nil}
Hash       == Password \cup {Nil}
AccountRow == [email : Address, password : Hash, active : BOOLEAN, kept : BOOLEAN]
TokenRow   == [kind : LinkKind \cup {"address"}, account : Account,
               email : Address, spentAt : Request \cup {Nil}, expired : BOOLEAN]
SignupRow  == [code : Request, password : Hash, spent : BOOLEAN, expired : BOOLEAN]

TotpRow    == [secret : Request, verified : BOOLEAN]
NoRow      == [none |-> Nil]

PC == {"waiting", "storeCode", "findActive", "findRow", "writeRow", "reload", "spendCode",
       "insertToken", "findOwner", "spendLink", "rehash", "setPassword", "spendReset",
       "checkFree", "spendAddress", "setEmail", "storeSecret", "markVerified", "endOthers",
       "erase", "storeProfile", "dropState", "findGoogle", "findLinked", "linkGoogle", "openSession",
       "history", "historyFailed", "done", "refused", "raised"}
Ended == {"done", "refused", "raised"}

Call(op, pc, a, e, p, ref) ==
  [op |-> op, pc |-> pc, account |-> a, email |-> e, password |-> p, ref |-> ref,
   seen |-> NoRow]
RequestRecord ==
  [op : Op \cup {Nil}, pc : PC, account : Account, email : Address, password : Hash,
   ref : Account, seen : AccountRow \cup {NoRow}]

(* One subscriber is signed in, with or without a password. *)
AccountsInit ==
  /\ \E e \in Email, p \in Password \cup {Nil} :
       accounts = [a \in Account |->
         IF a = 0 THEN [email |-> e, password |-> p, active |-> TRUE, kept |-> FALSE]
         ELSE NoRow]
  /\ tokens = [t \in Request |-> NoRow]
  /\ signups = [e \in Email |-> NoRow]
  /\ sessions = [s \in Request |-> NoRow]
  /\ totp = [a \in Account |-> NoRow]
  /\ states = {}
  /\ googleLink = [g \in GoogleUser |-> Nil]
  /\ cookies = {0}
  /\ req = [r \in Request |-> Call(Nil, "waiting", 0, Nil, Nil, 0)]
  /\ stops = 0
  /\ changed = {}

---------------------------------------------------------------------------
(* Rows *)

Exists(a)  == accounts[a] # NoRow
Owners(e)  == {a \in Account : Exists(a) /\ accounts[a].email = e}
Active(a)  == Exists(a) /\ accounts[a].active
Knows(p, a) == Exists(a) /\ accounts[a].password # Nil /\ accounts[a].password = p

(* create_subscriber_magic_link, create_subscriber_password_reset_token,    *)
(* create_email_change_request *)
NewToken(kind, a, e) ==
  [kind |-> kind, account |-> a, email |-> e, spentAt |-> Nil, expired |-> FALSE]

(* The unspent e-mail change requests of an account, the latest of which    *)
(* get_latest_email_change_request answers.                                 *)
Pending(a) == {t \in Request : /\ tokens[t] # NoRow
                               /\ tokens[t].kind = "address" /\ tokens[t].account = a
                               /\ tokens[t].spentAt = Nil}

(* Sign-in and reset links stay for good, and refer to the subscriber       *)
(* without ON DELETE CASCADE.                                               *)
Keeping(a) == {t \in Request : /\ tokens[t] # NoRow
                               /\ tokens[t].kind \in LinkKind /\ tokens[t].account = a}

(* The same is true of the profile and its entries, the CV uploads, parse   *)
(* runs and audits, the copilot's conversations and messages, the AI audit  *)
(* log and the retrieval sources: the first row of any of them is kept.     *)
Refused(a) == Keeping(a) # {} \/ (Exists(a) /\ accounts[a].kept)

---------------------------------------------------------------------------
(* Requests *)

At(r, pc) == req[r].pc = pc
InFlight  == {r \in Request : ~At(r, "waiting") /\ req[r].pc \notin Ended}
(* Of a request that has ended only the outcome is kept. *)
Outcome(call) == IF call.pc \in Ended THEN Call(call.op, call.pc, 0, Nil, Nil, 0) ELSE call
Become(r, call) == req' = [req EXCEPT ![r] = Outcome(call)]
Go(r, pc) == Become(r, [req[r] EXCEPT !.pc = pc])
GoIf(r, ok, pc) == Go(r, IF ok THEN pc ELSE "refused")

(* A request starts with its first SELECT. *)
Begin(r, call) ==
  /\ At(r, "waiting")
  /\ call.op \in Menu[r]
  /\ \A q \in Request : q < r => ~At(q, "waiting")
  /\ Cardinality(InFlight) < MaxInFlight
  /\ Become(r, call)

ReadsOnly == UNCHANGED <<tables, cookies, stops, changed>>

(* The response carries a signed cookie, which nothing in the tables can    *)
(* take back.                                                               *)
GrantCookie(r) == cookies' = cookies \cup {req[r].account}

---------------------------------------------------------------------------
(* Sign-up *)

(* A new account is only offered to addresses without an active one.        *)
RequestSignup(r) ==
  /\ \E e \in Email, p \in Password :
       Begin(r, Call("signup", IF \E a \in Owners(e) : Active(a) THEN "refused"
                               ELSE "storeCode", 0, e, p, 0))
  /\ ReadsOnly

(* One row per address: a new request replaces the code, the password and   *)
(* the fact that the row was used.                                          *)
StoreSignupCode(r) ==
  /\ At(r, "storeCode")
  /\ signups' = [signups EXCEPT ![req[r].email] =
       [code |-> r, password |-> req[r].password, spent |-> FALSE, expired |-> FALSE]]
  /\ Go(r, "done")
  /\ UNCHANGED <<accounts, tokens, sessions, totp, states, googleLink, cookies, stops, changed>>

ConfirmSignup(r) ==
  /\ \E e \in Email, code \in Request :
       /\ signups[e] # NoRow
       /\ Begin(r, Call("confirmSignup",
            IF signups[e].code = code /\ ~signups[e].spent /\ ~signups[e].expired
            THEN "findActive" ELSE "refused",
            0, e, signups[e].password, code))
  /\ ReadsOnly

FindActive(r) ==
  /\ At(r, "findActive")
  /\ GoIf(r, \A a \in Owners(req[r].email) : ~Active(a), "findRow")
  /\ ReadsOnly

(* The old sign-up form, without a password or a code. *)
LegacySignup(r) ==
  /\ \E e \in Email : Begin(r, Call("legacySignup", "findRow", 0, e, Nil, 0))
  /\ ReadsOnly

(* upsert_subscriber: the SELECT by address, ... *)
FindRow(r) ==
  /\ At(r, "findRow")
  /\ \/ Owners(req[r].email) = {} /\ Go(r, "writeRow")
     \/ \E a \in Owners(req[r].email) :
          Become(r, [req[r] EXCEPT !.pc = "writeRow", !.seen = accounts[a]])
  /\ ReadsOnly

(* ... the INSERT, which UNIQUE(email) may refuse, or the UPDATE by address,*)
(* which writes the password read above unless it has one of its own, ...   *)
WriteRow(r) ==
  LET seen == req[r].seen
      new(p, kept) == [email |-> req[r].email, password |-> p, active |-> TRUE, kept |-> kept]
  IN
  /\ At(r, "writeRow")
  /\ IF seen = NoRow
     THEN IF Owners(req[r].email) = {}
          THEN accounts' = [accounts EXCEPT ![r] = new(req[r].password, FALSE)] /\ Go(r, "reload")
          ELSE UNCHANGED accounts /\ Go(r, "raised")
     ELSE /\ accounts' = [a \in Account |->
               IF a \in Owners(req[r].email)
               THEN new(IF req[r].password = Nil THEN seen.password ELSE req[r].password,
                        accounts[a].kept)
               ELSE accounts[a]]
          /\ Go(r, "reload")
  /\ UNCHANGED <<tokens, signups, sessions, totp, states, googleLink, cookies, stops, changed>>

(* ... and the SELECT of the result. *)
Reload(r) ==
  /\ At(r, "reload")
  /\ IF Owners(req[r].email) = {} THEN Go(r, "raised")
     ELSE \E a \in Owners(req[r].email) :
            Become(r, [req[r] EXCEPT !.account = a, !.seen = NoRow, !.pc =
              CASE req[r].op = "confirmSignup" -> "spendCode"
                [] req[r].op = "legacySignup" -> "done"
                [] OTHER -> "linkGoogle"])
  /\ ReadsOnly

(* Whether the code could still be used up is not asked. *)
SpendSignupCode(r) ==
  /\ At(r, "spendCode")
  /\ signups' = [signups EXCEPT ![req[r].email].spent = TRUE]
  /\ GrantCookie(r)
  /\ Go(r, "done")
  /\ UNCHANGED <<accounts, tokens, sessions, totp, states, googleLink, stops, changed>>

---------------------------------------------------------------------------
(* Links by mail: the answer is the same whether the address is known.      *)

AskForLink(r, op) ==
  /\ \E e \in Email :
       \/ /\ \A a \in Owners(e) : ~Active(a)
          /\ Begin(r, Call(op, "done", 0, e, Nil, 0))
       \/ \E a \in Owners(e) : Active(a) /\ Begin(r, Call(op, "insertToken", a, e, Nil, 0))
  /\ ReadsOnly

RequestMagicLink(r)     == AskForLink(r, "requestLink")
RequestPasswordReset(r) == AskForLink(r, "requestReset")

(* The INSERT of a link or of an e-mail change request; the account may be  *)
(* gone by now.                                                             *)
InsertToken(r) ==
  /\ At(r, "insertToken")
  /\ IF Exists(req[r].account)
     THEN /\ tokens' = [tokens EXCEPT ![r] =
               CASE req[r].op = "requestLink"  -> NewToken("signin", req[r].account, Nil)
                 [] req[r].op = "requestReset" -> NewToken("reset", req[r].account, Nil)
                 [] OTHER -> NewToken("address", req[r].account, req[r].email)]
          /\ Go(r, "done")
     ELSE UNCHANGED tokens /\ Go(r, "raised")
  /\ UNCHANGED <<accounts, signups, sessions, totp, states, googleLink, cookies, stops, changed>>

PresentLink(r, op, kind, p) ==
  /\ \E t \in Request :
       /\ tokens[t] # NoRow /\ tokens[t].kind = kind
       /\ Begin(r, Call(op, IF tokens[t].spentAt = Nil /\ ~tokens[t].expired
                            THEN "findOwner" ELSE "refused", tokens[t].account, Nil, p, t))
  /\ ReadsOnly

ConsumeMagicLink(r)     == PresentLink(r, "useLink", "signin", Nil)
ConfirmPasswordReset(r) ==
  \E p \in Password : PresentLink(r, "confirmReset", "reset", p)

(* Mutant: the reset link is used up first. *)
SpendFirst(r) ==
  /\ At(r, "findOwner")
  /\ IF Active(req[r].account)
     THEN Become(r, [req[r] EXCEPT !.email = accounts[req[r].account].email, !.pc =
            IF req[r].op = "useLink" THEN "spendLink" ELSE "spendReset"])
     ELSE Go(r, "refused")
  /\ ReadsOnly

FindOwner(r) ==
  /\ At(r, "findOwner")
  /\ IF Active(req[r].account)
     THEN Become(r, [req[r] EXCEPT !.email = accounts[req[r].account].email, !.pc =
            IF req[r].op = "useLink" THEN "spendLink" ELSE "setPassword"])
     ELSE Go(r, "refused")
  /\ ReadsOnly

(* Mutant: no "consumed_at IS NULL" in the WHERE clause. *)
SpendTokenAgain(r, next) ==
  /\ tokens' = [tokens EXCEPT ![req[r].ref].spentAt = r]
  /\ Go(r, next)
  /\ UNCHANGED <<accounts, signups, sessions, totp, states, googleLink, cookies, stops, changed>>

(* UPDATE ... WHERE id = ? AND consumed_at IS NULL, and its rowcount. *)
SpendToken(r, next) ==
  /\ IF tokens[req[r].ref].spentAt = Nil
     THEN tokens' = [tokens EXCEPT ![req[r].ref].spentAt = r] /\ Go(r, next)
     ELSE UNCHANGED tokens /\ Go(r, "refused")
  /\ UNCHANGED <<accounts, signups, sessions, totp, states, googleLink, cookies, stops, changed>>

SpendMagicLink(r) == At(r, "spendLink") /\ SpendToken(r, "openSession")

(* A reset link is used up after the password has been set. *)
SpendResetLink(r) == At(r, "spendReset") /\ SpendToken(r, "done")

(* set_subscriber_password, by id.  The reset fails when the row is gone,   *)
(* the change of a signed-in user does not notice.                          *)
SetPassword(r) ==
  LET a == req[r].account IN
  /\ At(r, "setPassword")
  /\ accounts' = IF Exists(a) THEN [accounts EXCEPT ![a].password = req[r].password]
                 ELSE accounts
  /\ Go(r, IF req[r].op = "changePassword" THEN "history"
           ELSE IF Exists(a) THEN "spendReset" ELSE "raised")
  /\ changed' = IF Exists(a) THEN changed \cup {r} ELSE changed
  /\ UNCHANGED <<tokens, signups, sessions, totp, states, googleLink, cookies, stops>>

---------------------------------------------------------------------------
(* Sign-in *)

(* A hash made with fewer iterations than today is written anew. *)
LoginPassword(r) ==
  /\ \E e \in Email, p \in Password :
       \/ /\ Owners(e) = {}
          /\ Begin(r, Call("login", "refused", 0, e, p, 0))
       \/ \E a \in Owners(e) :
            IF Active(a) /\ Knows(p, a)
            THEN \E next \in {"rehash", "openSession"} : Begin(r, Call("login", next, a, e, p, 0))
            ELSE Begin(r, Call("login", "historyFailed", a, e, p, 0))
  /\ ReadsOnly

Rehash(r) ==
  LET a == req[r].account IN
  /\ At(r, "rehash")
  /\ accounts' = IF Exists(a) THEN [accounts EXCEPT ![a].password = req[r].password]
                 ELSE accounts
  /\ Go(r, "openSession")
  /\ UNCHANGED <<tokens, signups, sessions, totp, states, googleLink, cookies, stops, changed>>

(* Mutant: a sign-in leaves the old session of the device active. *)
OpenAnotherSession(r) ==
  /\ At(r, "openSession")
  /\ Exists(req[r].account)
  /\ \E d \in Device :
       sessions' = [sessions EXCEPT ![r] = [account |-> req[r].account, email |-> req[r].email,
                                            device |-> d, active |-> TRUE]]
  /\ Go(r, "history")
  /\ UNCHANGED <<accounts, tokens, signups, totp, states, googleLink, cookies, stops, changed>>

(* create_session: the active rows of the device end and a new one starts,  *)
(* in one transaction.  The token holds the account, the address and the    *)
(* second, so that UNIQUE refuses a second sign-in within one second.       *)
OpenSession(r) ==
  LET a == req[r].account
      twin == \E s \in Request : /\ sessions[s] # NoRow /\ sessions[s].account = a
                                 /\ sessions[s].email = req[r].email
  IN
  /\ At(r, "openSession")
  /\ \/ /\ Exists(a)
        /\ \E d \in Device :
             sessions' = [s \in Request |->
               IF s = r THEN [account |-> a, email |-> req[r].email, device |-> d, active |-> TRUE]
               ELSE IF /\ sessions[s] # NoRow
                       /\ sessions[s].account = a /\ sessions[s].device = d
                    THEN [sessions[s] EXCEPT !.active = FALSE]
                    ELSE sessions[s]]
        /\ Go(r, "history")
     \/ /\ ~Exists(a) \/ twin
        /\ UNCHANGED sessions /\ Go(r, "raised")
  /\ UNCHANGED <<accounts, tokens, signups, totp, states, googleLink, cookies, stops, changed>>

(* add_login_history refers to the subscriber. *)
AddHistory(r) ==
  /\ At(r, "history")
  /\ IF Exists(req[r].account)
     THEN /\ Go(r, "done")
          /\ IF req[r].op = "changePassword" THEN UNCHANGED cookies ELSE GrantCookie(r)
     ELSE Go(r, "raised") /\ UNCHANGED cookies
  /\ UNCHANGED <<tables, stops, changed>>

AddFailedHistory(r) ==
  /\ At(r, "historyFailed")
  /\ Go(r, IF Exists(req[r].account) THEN "refused" ELSE "raised")
  /\ ReadsOnly

---------------------------------------------------------------------------
(* Sign-in with Google *)

GoogleInitiate(r) ==
  /\ Begin(r, Call("googleStart", "done", 0, Nil, Nil, 0))
  /\ states' = states \cup {r}
  /\ UNCHANGED <<accounts, tokens, signups, sessions, totp, googleLink, cookies, stops, changed>>

(* get_and_delete_oauth_state: a SELECT, ... *)
GoogleCallback(r) ==
  /\ \E g \in GoogleUser, s \in Request :
       Begin(r, Call("googleCallback", IF s \in states THEN "dropState" ELSE "refused",
                     0, GoogleMail[g], Nil, s))
  /\ ReadsOnly

(* ... and a DELETE whose rowcount nobody looks at.  The state may have     *)
(* expired and Google may turn the code down.                               *)
DropState(r) ==
  /\ At(r, "dropState")
  /\ states' = states \ {req[r].ref}
  /\ Go(r, "findGoogle") \/ Go(r, "refused")
  /\ UNCHANGED <<accounts, tokens, signups, sessions, totp, googleLink, cookies, stops, changed>>

Identities(r) == {g \in GoogleUser : GoogleMail[g] = req[r].email}

FindGoogle(r) ==
  /\ At(r, "findGoogle")
  /\ \E g \in Identities(r) :
       IF googleLink[g] = Nil THEN Go(r, "findRow")
       ELSE Become(r, [req[r] EXCEPT !.account = googleLink[g], !.pc = "findLinked"])
  /\ ReadsOnly

FindLinked(r) ==
  LET a == req[r].account IN
  /\ At(r, "findLinked")
  /\ IF Active(a)
     THEN Become(r, [req[r] EXCEPT !.email = accounts[a].email, !.pc = "openSession"])
     ELSE Go(r, "refused")
  /\ ReadsOnly

(* An IntegrityError - linked already, or no such subscriber any more - is  *)
(* ignored.                                                                 *)
LinkGoogle(r) ==
  /\ At(r, "linkGoogle")
  /\ \E g \in Identities(r) :
       googleLink' = IF googleLink[g] = Nil /\ Exists(req[r].account)
                     THEN [googleLink EXCEPT ![g] = req[r].account] ELSE googleLink
  /\ Go(r, "openSession")
  /\ UNCHANGED <<accounts, tokens, signups, sessions, totp, states, cookies, stops, changed>>

---------------------------------------------------------------------------
(* Settings of a signed-in user.  A cookie outlives its account.            *)

ChangePassword(r) ==
  /\ \E a \in cookies, old, new \in Password :
       Begin(r, Call("changePassword", IF Knows(old, a) THEN "setPassword" ELSE "refused",
                     a, Nil, new, 0))
  /\ ReadsOnly

RequestEmailChange(r) ==
  /\ \E a \in cookies, p \in Password, e \in Email :
       Begin(r, Call("requestEmail",
         IF Knows(p, a) /\ accounts[a].email # e THEN "checkFree" ELSE "refused", a, e, Nil, 0))
  /\ ReadsOnly

CheckFree(r) ==
  /\ At(r, "checkFree")
  /\ GoIf(r, Owners(req[r].email) = {}, "insertToken")
  /\ ReadsOnly

(* The code of request t is compared with the latest request only. *)
ConfirmEmailChange(r) ==
  /\ \E a \in cookies, t \in Request :
       /\ tokens[t] # NoRow /\ tokens[t].kind = "address" /\ tokens[t].account = a
       /\ Begin(r, Call("confirmEmail",
            IF t \in Pending(a) /\ (\A u \in Pending(a) : u <= t) /\ ~tokens[t].expired
            THEN "spendAddress" ELSE "refused", a, tokens[t].email, Nil, t))
  /\ ReadsOnly

(* The code is used up first, and whether it was is not asked. *)
SpendAddressCode(r) ==
  LET t == req[r].ref IN
  /\ At(r, "spendAddress")
  /\ tokens' = IF tokens[t] # NoRow /\ tokens[t].spentAt = Nil
               THEN [tokens EXCEPT ![t].spentAt = r] ELSE tokens
  /\ Go(r, "setEmail")
  /\ UNCHANGED <<accounts, signups, sessions, totp, states, googleLink, cookies, stops, changed>>

(* update_subscriber_email meets UNIQUE(email). *)
SetEmail(r) ==
  LET a == req[r].account IN
  /\ At(r, "setEmail")
  /\ IF Owners(req[r].email) \subseteq {a}
     THEN /\ accounts' = IF Exists(a) THEN [accounts EXCEPT ![a].email = req[r].email]
                         ELSE accounts
          /\ changed' = IF Exists(a) THEN changed \cup {r} ELSE changed
          /\ Go(r, "history")
     ELSE UNCHANGED <<accounts, changed>> /\ Go(r, "raised")
  /\ UNCHANGED <<tokens, signups, sessions, totp, states, googleLink, cookies, stops>>

SetupTotp(r) ==
  /\ \E a \in cookies : Begin(r, Call("setupTotp", "storeSecret", a, Nil, Nil, 0))
  /\ ReadsOnly

StoreSecret(r) ==
  /\ At(r, "storeSecret")
  /\ IF Exists(req[r].account)
     THEN /\ totp' = [totp EXCEPT ![req[r].account] = [secret |-> r, verified |-> FALSE]]
          /\ Go(r, "done")
     ELSE UNCHANGED totp /\ Go(r, "raised")
  /\ UNCHANGED <<accounts, tokens, signups, sessions, states, googleLink, cookies, stops, changed>>

(* The code comes from an authenticator that holds some secret s. *)
VerifyTotp(r) ==
  /\ \E a \in cookies, s \in Request :
       /\ totp[a] # NoRow
       /\ Begin(r, Call("verifyTotp", IF totp[a].secret = s THEN "markVerified" ELSE "refused",
                        a, Nil, Nil, s))
  /\ ReadsOnly

(* UPDATE ... WHERE subscriber_id = ?: whatever secret is there now. *)
MarkVerified(r) ==
  LET a == req[r].account IN
  /\ At(r, "markVerified")
  /\ totp' = IF totp[a] # NoRow THEN [totp EXCEPT ![a].verified = TRUE] ELSE totp
  /\ Go(r, "done")
  /\ UNCHANGED <<accounts, tokens, signups, sessions, states, googleLink, cookies, stops, changed>>

DisableTotp(r) ==
  /\ \E a \in cookies : /\ Begin(r, Call("disableTotp", "done", a, Nil, Nil, 0))
                        /\ totp' = [totp EXCEPT ![a] = NoRow]
  /\ UNCHANGED <<accounts, tokens, signups, sessions, states, googleLink, cookies, stops, changed>>

EndSession(r) ==
  /\ \E a \in cookies, s \in Request :
       LET mine == sessions[s] # NoRow /\ sessions[s].account = a /\ sessions[s].active IN
       /\ Begin(r, Call("endSession", IF mine THEN "done" ELSE "refused", a, Nil, Nil, s))
       /\ sessions' = IF mine THEN [sessions EXCEPT ![s].active = FALSE] ELSE sessions
  /\ UNCHANGED <<accounts, tokens, signups, totp, states, googleLink, cookies, stops, changed>>

(* The row of the cookie is looked up; a cookie given after a sign-up or a  *)
(* change of address has none (0), and then every row ends.                 *)
FindOwnSession(r) ==
  /\ \E a \in cookies :
       \E s \in {0} \cup {t \in Request : sessions[t] # NoRow /\ sessions[t].account = a} :
         Begin(r, Call("endOthers", "endOthers", a, Nil, Nil, s))
  /\ ReadsOnly

EndAllOthers(r) ==
  /\ At(r, "endOthers")
  /\ sessions' = [s \in Request |->
       IF /\ sessions[s] # NoRow
          /\ sessions[s].account = req[r].account /\ s # req[r].ref
       THEN [sessions[s] EXCEPT !.active = FALSE] ELSE sessions[s]]
  /\ Go(r, "done")
  /\ UNCHANGED <<accounts, tokens, signups, totp, states, googleLink, cookies, stops, changed>>

DeleteAccount(r) ==
  /\ \E a \in cookies, p \in Password :
       Begin(r, Call("deleteAccount", IF Knows(p, a) THEN "erase" ELSE "refused",
                     a, Nil, p, 0))
  /\ ReadsOnly

(* delete_subscriber_account, one transaction.  It does not delete the      *)
(* links and the rows of the profile, which refer to the subscriber: with   *)
(* any of them it is rolled back.  A Google identity goes with the account  *)
(* (ON DELETE CASCADE).                                                     *)
EraseAccount(r) ==
  LET a == req[r].account IN
  /\ At(r, "erase")
  /\ IF Refused(a)
     THEN UNCHANGED <<accounts, tokens, sessions, totp, googleLink>> /\ Go(r, "raised")
     ELSE /\ accounts' = [accounts EXCEPT ![a] = NoRow]
          /\ tokens' = [t \in Request |->
               IF tokens[t] # NoRow /\ tokens[t].account = a THEN NoRow ELSE tokens[t]]
          /\ sessions' = [s \in Request |->
               IF sessions[s] # NoRow /\ sessions[s].account = a THEN NoRow ELSE sessions[s]]
          /\ totp' = [totp EXCEPT ![a] = NoRow]
          /\ googleLink' = [g \in GoogleUser |->
               IF googleLink[g] = a THEN Nil ELSE googleLink[g]]
          /\ Go(r, IF Exists(a) THEN "done" ELSE "raised")
  /\ UNCHANGED <<signups, states, cookies, stops, changed>>

(* The profile is saved, after a look whether there is such a subscriber.   *)
FillProfile(r) ==
  /\ \E a \in cookies :
       Begin(r, Call("fillProfile", IF Exists(a) THEN "storeProfile" ELSE "refused",
                     a, Nil, Nil, 0))
  /\ ReadsOnly

(* upsert_subscriber_profile refers to the subscriber. *)
StoreProfile(r) ==
  LET a == req[r].account IN
  /\ At(r, "storeProfile")
  /\ IF Exists(a) THEN accounts' = [accounts EXCEPT ![a].kept = TRUE] /\ Go(r, "done")
                  ELSE UNCHANGED accounts /\ Go(r, "raised")
  /\ UNCHANGED <<tokens, signups, sessions, totp, states, googleLink, cookies, stops, changed>>

(* The commands subscriber-activate and subscriber-deactivate. *)
SetActive(r) ==
  /\ \E e \in Email, active \in BOOLEAN :
       /\ Begin(r, Call("setActive", "done", 0, e, Nil, 0))
       /\ accounts' = [a \in Account |->
            IF a \in Owners(e) THEN [accounts[a] EXCEPT !.active = active] ELSE accounts[a]]
  /\ UNCHANGED <<tokens, signups, sessions, totp, states, googleLink, cookies, stops, changed>>

---------------------------------------------------------------------------
(* Time and failure *)

(* A link or a code gets too old. *)
ExpireToken(t) ==
  /\ tokens[t] # NoRow /\ ~tokens[t].expired
  /\ tokens' = [tokens EXCEPT ![t].expired = TRUE]
  /\ UNCHANGED <<accounts, signups, sessions, totp, states, googleLink, cookies, req, stops, changed>>

ExpireSignup(e) ==
  /\ signups[e] # NoRow /\ ~signups[e].expired
  /\ signups' = [signups EXCEPT ![e].expired = TRUE]
  /\ UNCHANGED <<accounts, tokens, sessions, totp, states, googleLink, cookies, req, stops, changed>>

(* The server stops, and with it every request it was serving. *)
StopServer ==
  /\ stops < MaxFailures /\ InFlight # {}
  /\ stops' = stops + 1
  /\ req' = [r \in Request |->
       IF r \in InFlight THEN Outcome([req[r] EXCEPT !.pc = "raised"]) ELSE req[r]]
  /\ UNCHANGED <<tables, cookies, changed>>

Endpoint(r) ==
  \/ RequestSignup(r) \/ ConfirmSignup(r) \/ LegacySignup(r)
  \/ RequestMagicLink(r) \/ ConsumeMagicLink(r)
  \/ RequestPasswordReset(r) \/ ConfirmPasswordReset(r)
  \/ LoginPassword(r) \/ GoogleInitiate(r) \/ GoogleCallback(r)
  \/ ChangePassword(r) \/ RequestEmailChange(r) \/ ConfirmEmailChange(r)
  \/ SetupTotp(r) \/ VerifyTotp(r) \/ DisableTotp(r)
  \/ EndSession(r) \/ FindOwnSession(r) \/ DeleteAccount(r) \/ SetActive(r)
  \/ FillProfile(r)

Continue(r) ==
  \/ StoreSignupCode(r) \/ FindActive(r) \/ FindRow(r) \/ WriteRow(r) \/ Reload(r)
  \/ SpendSignupCode(r) \/ InsertToken(r) \/ FindOwner(r) \/ SpendMagicLink(r)
  \/ SetPassword(r) \/ SpendResetLink(r) \/ Rehash(r) \/ OpenSession(r)
  \/ AddHistory(r) \/ AddFailedHistory(r) \/ DropState(r) \/ FindGoogle(r)
  \/ FindLinked(r) \/ LinkGoogle(r) \/ CheckFree(r) \/ SpendAddressCode(r)
  \/ SetEmail(r) \/ StoreSecret(r) \/ MarkVerified(r) \/ EndAllOthers(r)
  \/ EraseAccount(r) \/ StoreProfile(r)

AccountsNext ==
  \/ \E r \in Request : Endpoint(r) \/ Continue(r)
  \/ \E t \in Request : ExpireToken(t)
  \/ \E e \in Email : ExpireSignup(e)
  \/ StopServer

AccountsSpec == AccountsInit /\ [][AccountsNext]_accountVars
---------------------------------------------------------------------------
(* Properties *)

(* A link signs in at most one request, however often it is clicked and     *)
(* whatever fails: who has come past the link is the request that spent it  *)
(* (the UPDATE with consumed_at IS NULL in consume_subscriber_magic_link).  *)
LinkSignsInOnce ==
  \A r \in Request :
    req[r].op = "useLink" /\ req[r].pc \in {"openSession", "history"}
      => tokens[req[r].ref].spentAt = r

IsLink(t) == tokens[t] # NoRow /\ tokens[t].kind \in LinkKind
OneTime == INSTANCE OneTimeLink WITH
  Link <- Request, User <- Request, NoUser <- Nil,
  issued <- {t \in Request : IsLink(t)},
  spentBy <- [t \in Request |-> IF IsLink(t) THEN tokens[t].spentAt ELSE Nil]

(* Sign-in and reset links behave as links that are spent once and for all, *)
(* although the look at a link and the spending of it are separate steps.   *)
LinksImplemented == OneTime!LinkSpec

(* A reset link is not used up before the password it was asked for has     *)
(* been set: a request that stops in between can be sent again.             *)
UsedResetTookEffect ==
  \A t \in Request :
    tokens[t] # NoRow => (tokens[t].kind = "reset" /\ tokens[t].spentAt # Nil
                            => tokens[t].spentAt \in changed)

SameDevice(s, t) == /\ sessions[s].account = sessions[t].account
                    /\ sessions[s].device = sessions[t].device

(* The list of sessions shows a device once, also when sign-ins overlap.    *)
OneSessionPerDevice ==
  \A s, t \in {u \in Request : sessions[u] # NoRow /\ sessions[u].active} :
    SameDevice(s, t) => s = t

(* The page says of the deletion: "All data, profile and matches will be    *)
(* permanently deleted".  Who gives the right password gets it done, unless *)
(* the server stops or the account is gone already.                         *)
DeletionSucceeds ==
  [][\A r \in Request : At(r, "erase") /\ stops' = stops /\ Exists(req[r].account)
                          => req'[r].pc \in {"erase", "done"}]_accountVars
=============================================================================
