--------------------------- MODULE Accounts_proofs ---------------------------
(***************************************************************************)
(* What holds of Accounts for every set of requests, addresses and         *)
(* passwords: a sign-in link signs in one request, a reset link is used up *)
(* only after the password has been set, and both implement OneTimeLink.   *)
(* Then what holds of CvEntries, the reader of a CV, for every document and*)
(* every reading of its lines: the CV is read whole.                       *)
(***************************************************************************)
EXTENDS Accounts, CvEntries, Lists_proofs, FiniteSetTheorems, SequenceTheorems, TLAPS

(* A request, and a row of a token, is a record with its fields. *)
CallFields == {"op", "pc", "account", "email", "password", "ref", "seen"}
IsCall(c) == c = [f \in CallFields |-> c[f]]
IsToken(t) ==
  /\ t = [kind |-> t.kind, account |-> t.account, email |-> t.email,
          spentAt |-> t.spentAt, expired |-> t.expired]
  /\ t.kind \in {"signin", "reset", "address"}

(* The steps of a request that has not inserted its row yet. *)
Fresh == {"waiting", "checkFree", "insertToken"}

(* What request q knows of the link it was sent, when its record is c, in   *)
(* the state of the tokens and of the history.                              *)
Holds(q, c, rows, done, calls) ==
  /\ c.pc \in Fresh => rows[q] = NoRow
  /\ c.op = "useLink" =>
       c.pc \in {"waiting", "findOwner", "spendLink", "openSession", "history"} \cup Ended
  /\ c.op = "confirmReset" =>
       c.pc \in {"waiting", "findOwner", "setPassword", "spendReset"} \cup Ended
  /\ c.pc = "findOwner" => c.op \in {"useLink", "confirmReset"}
  /\ c.pc = "spendLink" => c.op = "useLink"
  /\ c.pc = "setPassword" => c.op \in {"confirmReset", "changePassword"}
  /\ c.pc = "spendReset" => c.op = "confirmReset" /\ q \in done
  /\ c.op = "useLink" /\ c.pc \in {"findOwner", "spendLink", "openSession", "history"} =>
       c.ref \in Request /\ IsToken(rows[c.ref]) /\ rows[c.ref].kind = "signin"
  /\ c.op = "useLink" /\ c.pc \in {"openSession", "history"} => rows[c.ref].spentAt = q
  /\ c.op = "confirmReset" /\ c.pc \in {"findOwner", "setPassword", "spendReset"} =>
       c.ref \in Request /\ IsToken(rows[c.ref]) /\ rows[c.ref].kind = "reset"
  /\ c.pc = "spendAddress" =>
       /\ c.ref \in Request /\ calls[c.ref].pc \notin Fresh
       /\ IsToken(rows[c.ref]) => rows[c.ref].kind = "address"

(* The inductive invariant.  LinkSignsInOnce is a conjunct of Holds; what   *)
(* is needed besides is which link a request holds between its look at the  *)
(* link and its use, and that no row comes back after it was deleted.       *)
LinkInv ==
  /\ req = [q \in Request |-> req[q]]
  /\ \A q \in Request : IsCall(req[q])
  /\ tokens = [t \in Request |-> tokens[t]]
  /\ \A t \in Request : tokens[t] = NoRow \/ IsToken(tokens[t])
  /\ \A q \in Request : Holds(q, req[q], tokens, changed, req)
  /\ UsedResetTookEffect

LEMMA NoRowIsNoToken == ~IsToken(NoRow)
<1> SUFFICES ASSUME IsToken(NoRow) PROVE FALSE OBVIOUS
<1>1. "kind" \in DOMAIN NoRow BY DEF IsToken
<1>2. DOMAIN NoRow = {"none"} BY DEF NoRow
<1> QED BY <1>1, <1>2

(* What a step leaves of a request that it moves. *)
LEMMA BecomeLemma ==
  ASSUME LinkInv, NEW r \in Request, NEW call, IsCall(call), Become(r, call)
  PROVE  /\ req' = [q \in Request |-> req'[q]]
         /\ IsCall(req'[r]) /\ req'[r] = Outcome(call)
         /\ req'[r].op = call.op /\ req'[r].pc = call.pc
         /\ call.pc \notin Ended => req'[r] = call
         /\ \A q \in Request \ {r} : req'[q] = req[q]
<1>1. IsCall(Outcome(call)) /\ Outcome(call).op = call.op /\ Outcome(call).pc = call.pc
  BY DEF Outcome, Call, IsCall, CallFields
<1>2. call.pc \notin Ended => Outcome(call) = call
  BY DEF Outcome
<1>3. req = [q \in Request |-> req[q]] BY DEF LinkInv
<1>4. req' = [req EXCEPT ![r] = Outcome(call)] BY DEF Become
<1> QED BY <1>1, <1>2, <1>3, <1>4

LEMMA BeginCall ==
  ASSUME NEW op, NEW pc, NEW a, NEW e, NEW p, NEW ref
  PROVE  LET c == Call(op, pc, a, e, p, ref) IN
         /\ IsCall(c) /\ c.op = op /\ c.pc = pc /\ c.ref = ref
BY DEF Call, IsCall, CallFields

LEMMA MovedCall ==
  ASSUME LinkInv, NEW r \in Request, NEW pc
  PROVE  LET c == [req[r] EXCEPT !.pc = pc] IN
         /\ IsCall(c) /\ c.op = req[r].op /\ c.pc = pc /\ c.ref = req[r].ref
BY DEF IsCall, CallFields, LinkInv

(* A step that leaves the tokens alone, after which the request knows what  *)
(* it has to know, keeps the invariant.                                     *)
LEMMA KeepTokens ==
  ASSUME LinkInv, NEW r \in Request, NEW call, IsCall(call), Become(r, call),
         tokens' = tokens, changed \subseteq changed',
         call.pc \in Fresh => req[r].pc \in Fresh,
         Holds(r, req'[r], tokens, changed', req)
  PROVE  LinkInv'
<1>1. /\ req' = [q \in Request |-> req'[q]]
      /\ IsCall(req'[r]) /\ req'[r].pc = call.pc
      /\ \A q \in Request \ {r} : req'[q] = req[q]
  BY BecomeLemma
<1>2. \A q \in Request : IsCall(req'[q]) BY <1>1 DEF LinkInv
<1>3. ASSUME NEW q \in Request PROVE Holds(q, req'[q], tokens', changed', req')
  <2>1. Holds(q, req'[q], tokens, changed', req)
    <3>1. CASE q = r BY <3>1
    <3>2. CASE q # r
      <4>1. Holds(q, req[q], tokens, changed, req) BY DEF LinkInv
      <4>2. req'[q] = req[q] BY <3>2, <1>1
      <4> QED BY <4>1, <4>2 DEF Holds
    <3> QED BY <3>1, <3>2
  <2>2. \A s \in Request : req[s].pc \notin Fresh => req'[s].pc \notin Fresh
    BY <1>1
  <2> QED BY <2>1, <2>2 DEF Holds
<1>4. UsedResetTookEffect'
  BY DEF LinkInv, UsedResetTookEffect
<1>5. /\ (tokens = [t \in Request |-> tokens[t]])'
      /\ (\A t \in Request : tokens[t] = NoRow \/ IsToken(tokens[t]))'
  BY DEF LinkInv
<1> QED BY <1>1, <1>2, <1>3, <1>4, <1>5 DEF LinkInv

(* A request without a link may do anything that is not a step with a link. *)
LEMMA PlainCall ==
  ASSUME LinkInv, NEW r \in Request, NEW call, IsCall(call), Become(r, call),
         tokens' = tokens, changed' = changed,
         call.pc \notin {"waiting", "findOwner", "spendLink", "spendReset", "spendAddress"},
         call.pc \in Fresh => req[r].pc \in Fresh,
         call.pc = "setPassword" => call.op = "changePassword",
         \/ call.pc \in Ended
         \/ call.op \notin {"useLink", "confirmReset"}
  PROVE  LinkInv'
<1>1. req'[r].op = call.op /\ req'[r].pc = call.pc BY BecomeLemma
<1>2. call.pc \in Fresh => tokens[r] = NoRow BY DEF LinkInv, Holds
<1>3. Holds(r, req'[r], tokens, changed', req)
  BY <1>1, <1>2 DEF Holds, Ended, Fresh
<1> QED BY <1>3, KeepTokens

LEMMA PlainGo ==
  ASSUME LinkInv, NEW r \in Request, NEW pc, Go(r, pc),
         tokens' = tokens, changed' = changed,
         pc \notin Fresh \cup {"findOwner", "setPassword", "spendLink", "spendReset", "spendAddress"},
         pc \in Ended \/ req[r].op \notin {"useLink", "confirmReset"}
  PROVE  LinkInv'
<1> DEFINE c == [req[r] EXCEPT !.pc = pc]
<1>1. IsCall(c) /\ c.op = req[r].op /\ c.pc = pc BY MovedCall
<1>2. Become(r, c) BY DEF Go
<1> HIDE DEF c
<1> QED BY <1>1, <1>2, PlainCall DEF Fresh

LEMMA PlainBegin ==
  ASSUME LinkInv, NEW r \in Request, NEW op, NEW pc, NEW a, NEW e, NEW p, NEW ref,
         Begin(r, Call(op, pc, a, e, p, ref)),
         tokens' = tokens, changed' = changed,
         pc \notin {"waiting", "findOwner", "spendLink", "spendReset", "spendAddress"},
         pc = "setPassword" => op = "changePassword",
         pc \in Ended \/ op \notin {"useLink", "confirmReset"}
  PROVE  LinkInv'
<1> DEFINE c == Call(op, pc, a, e, p, ref)
<1>1. IsCall(c) /\ c.op = op /\ c.pc = pc BY BeginCall
<1>2. Become(r, c) /\ req[r].pc \in Fresh BY DEF Begin, At, Fresh
<1> HIDE DEF c
<1> QED BY <1>1, <1>2, PlainCall

LEMMA EndpointKeeps ==
  ASSUME LinkInv, NEW r \in Request, Endpoint(r)
  PROVE  LinkInv'
<1>1. CASE RequestSignup(r)
  BY <1>1, PlainBegin DEF RequestSignup, ReadsOnly, tables, Ended
<1>2. CASE ConfirmSignup(r)
  BY <1>2, PlainBegin DEF ConfirmSignup, ReadsOnly, tables, Ended
<1>3. CASE LegacySignup(r)
  BY <1>3, PlainBegin DEF LegacySignup, ReadsOnly, tables, Ended
<1>4. CASE LoginPassword(r)
  BY <1>4, PlainBegin DEF LoginPassword, ReadsOnly, tables, Ended
<1>5. CASE GoogleInitiate(r)
  BY <1>5, PlainBegin DEF GoogleInitiate, ReadsOnly, tables, Ended
<1>6. CASE GoogleCallback(r)
  BY <1>6, PlainBegin DEF GoogleCallback, ReadsOnly, tables, Ended
<1>7. CASE ChangePassword(r)
  BY <1>7, PlainBegin DEF ChangePassword, ReadsOnly, tables, Ended
<1>8. CASE RequestEmailChange(r)
  BY <1>8, PlainBegin DEF RequestEmailChange, ReadsOnly, tables, Ended
<1>9. CASE SetupTotp(r)
  BY <1>9, PlainBegin DEF SetupTotp, ReadsOnly, tables, Ended
<1>10. CASE VerifyTotp(r)
  BY <1>10, PlainBegin DEF VerifyTotp, ReadsOnly, tables, Ended
<1>11. CASE DisableTotp(r)
  BY <1>11, PlainBegin DEF DisableTotp, ReadsOnly, tables, Ended
<1>12. CASE EndSession(r)
  BY <1>12, PlainBegin DEF EndSession, ReadsOnly, tables, Ended
<1>13. CASE FindOwnSession(r)
  BY <1>13, PlainBegin DEF FindOwnSession, ReadsOnly, tables, Ended
<1>14. CASE DeleteAccount(r)
  BY <1>14, PlainBegin DEF DeleteAccount, ReadsOnly, tables, Ended
<1>15. CASE SetActive(r)
  BY <1>15, PlainBegin DEF SetActive, ReadsOnly, tables, Ended
<1>16. CASE RequestMagicLink(r)
  BY <1>16, PlainBegin DEF RequestMagicLink, AskForLink, ReadsOnly, tables, Ended
<1>17. CASE RequestPasswordReset(r)
  BY <1>17, PlainBegin DEF RequestPasswordReset, AskForLink, ReadsOnly, tables, Ended
<1>18. ASSUME NEW op \in {"useLink", "confirmReset"}, NEW p, NEW kind,
               kind = IF op = "useLink" THEN "signin" ELSE "reset", PresentLink(r, op, kind, p)
        PROVE  LinkInv'
  <2>1. PICK t \in Request :
          /\ tokens[t] # NoRow /\ tokens[t].kind = kind
          /\ Begin(r, Call(op, IF tokens[t].spentAt = Nil /\ ~tokens[t].expired
                               THEN "findOwner" ELSE "refused", tokens[t].account, Nil, p, t))
    BY <1>18 DEF PresentLink
  <2>2. tokens' = tokens /\ changed' = changed
    BY <1>18 DEF PresentLink, ReadsOnly, tables
  <2>3. CASE tokens[t].spentAt = Nil /\ ~tokens[t].expired
    <3> DEFINE c == Call(op, "findOwner", tokens[t].account, Nil, p, t)
    <3>1. IsCall(c) /\ c.op = op /\ c.pc = "findOwner" /\ c.ref = t BY BeginCall
    <3>2. Become(r, c) /\ req[r].pc \in Fresh BY <2>1, <2>3 DEF Begin, At, Fresh
    <3> HIDE DEF c
    <3>3. req'[r] = c BY <3>1, <3>2, BecomeLemma DEF Ended
    <3>4. IsToken(tokens[t]) BY <2>1 DEF LinkInv
    <3>5. Holds(r, c, tokens, changed', req)
      BY <1>18, <2>1, <3>1, <3>4 DEF Holds, Fresh, Ended
    <3> QED BY <2>2, <3>1, <3>2, <3>3, <3>5, KeepTokens
  <2>4. CASE ~(tokens[t].spentAt = Nil /\ ~tokens[t].expired)
    BY <2>1, <2>2, <2>4, PlainBegin DEF Ended
  <2> QED BY <2>3, <2>4
<1>19. CASE ConsumeMagicLink(r)
  BY <1>18, <1>19 DEF ConsumeMagicLink
<1>20. CASE ConfirmPasswordReset(r)
  BY <1>18, <1>20 DEF ConfirmPasswordReset
<1>21. CASE ConfirmEmailChange(r)
  <2>1. PICK a \in cookies, t \in Request :
          /\ tokens[t] # NoRow /\ tokens[t].kind = "address"
          /\ Begin(r, Call("confirmEmail",
               IF t \in Pending(a) /\ (\A u \in Pending(a) : u <= t) /\ ~tokens[t].expired
               THEN "spendAddress" ELSE "refused", a, tokens[t].email, Nil, t))
    BY <1>21 DEF ConfirmEmailChange
  <2>2. tokens' = tokens /\ changed' = changed
    BY <1>21 DEF ConfirmEmailChange, ReadsOnly, tables
  <2> DEFINE next == IF t \in Pending(a) /\ (\A u \in Pending(a) : u <= t) /\ ~tokens[t].expired
                     THEN "spendAddress" ELSE "refused"
             c == Call("confirmEmail", next, a, tokens[t].email, Nil, t)
  <2>3. next \in {"spendAddress", "refused"} OBVIOUS
  <2>4. Become(r, c) /\ req[r].pc \in Fresh BY <2>1 DEF Begin, At, Fresh
  <2> HIDE DEF next
  <2>5. IsCall(c) /\ c.op = "confirmEmail" /\ c.pc = next /\ c.ref = t BY BeginCall
  <2> HIDE DEF c
  <2>6. CASE next = "refused"
    BY <2>2, <2>4, <2>5, <2>6, PlainCall DEF Ended
  <2>7. CASE next = "spendAddress"
    <3>1. req'[r] = c BY <2>4, <2>5, <2>7, BecomeLemma DEF Ended
    <3>2. req[t].pc \notin Fresh BY <2>1 DEF LinkInv, Holds
    <3>3. Holds(r, c, tokens, changed', req)
      BY <2>1, <2>5, <2>7, <3>2 DEF Holds, Fresh
    <3> QED BY <2>2, <2>4, <2>5, <3>1, <3>3, <2>7, KeepTokens DEF Fresh
  <2> QED BY <2>3, <2>6, <2>7
<1>22. CASE FillProfile(r)
  BY <1>22, PlainBegin DEF FillProfile, ReadsOnly, tables, Ended
<1> QED BY <1>1, <1>2, <1>3, <1>4, <1>5, <1>6, <1>7, <1>8, <1>9, <1>10, <1>11, <1>12, <1>13, <1>14, <1>15, <1>16, <1>17, <1>19, <1>20, <1>21, <1>22 DEF Endpoint

(* A step that writes a token, or deletes tokens, keeps what a request      *)
(* knows of its link, as long as links stay and stay spent.                 *)
LEMMA WriteTokens ==
  ASSUME LinkInv, NEW r \in Request, NEW call, IsCall(call), Become(r, call),
         changed' = changed, call.pc \notin Fresh,
         tokens' = [t \in Request |-> tokens'[t]],
         \A t \in Request : tokens'[t] = NoRow \/ IsToken(tokens'[t]),
         \A t \in Request : req[t].pc \in Fresh /\ t # r => tokens'[t] = tokens[t],
         \A t \in Request : req[t].pc \notin Fresh =>
           \/ tokens'[t] = tokens[t]
           \/ tokens[t] # NoRow /\ tokens'[t] = NoRow /\ ~IsLink(t)
           \/ /\ IsToken(tokens[t]) /\ IsToken(tokens'[t])
              /\ tokens'[t].kind = tokens[t].kind /\ tokens[t].spentAt = Nil
              /\ tokens[t].kind = "reset" => tokens'[t].spentAt \in changed,
         req[r].pc \in Fresh => IsToken(tokens'[r]) /\ tokens'[r].spentAt = Nil,
         Holds(r, req'[r], tokens', changed, req)
  PROVE  LinkInv'
<1>1. /\ req' = [q \in Request |-> req'[q]]
      /\ IsCall(req'[r]) /\ req'[r].pc = call.pc
      /\ \A q \in Request \ {r} : req'[q] = req[q]
  BY BecomeLemma
<1>2. \A q \in Request : IsCall(req'[q]) BY <1>1 DEF LinkInv
<1>3. ASSUME NEW q \in Request PROVE Holds(q, req'[q], tokens', changed', req')
  <2>1. Holds(q, req'[q], tokens', changed, req)
    <3>1. CASE q = r BY <3>1
    <3>2. CASE q # r
      <4>1. Holds(q, req[q], tokens, changed, req) BY DEF LinkInv
      <4>2. req'[q] = req[q] BY <3>2, <1>1
      <4>3. \A t \in Request : tokens[t] # NoRow => req[t].pc \notin Fresh
        BY DEF LinkInv, Holds
      <4>4. \A t \in Request : IsToken(tokens[t]) /\ tokens[t].kind \in LinkKind =>
              /\ IsToken(tokens'[t]) /\ tokens'[t].kind = tokens[t].kind
              /\ tokens[t].spentAt # Nil => tokens'[t] = tokens[t]
        BY <4>3, NoRowIsNoToken DEF IsLink
      <4>5. \A t \in Request : req[t].pc \notin Fresh /\ IsToken(tokens'[t]) =>
              IsToken(tokens[t]) /\ tokens'[t].kind = tokens[t].kind
        BY NoRowIsNoToken
      <4>6. Nil # q BY NilAssumption
      <4> QED BY <3>2, <4>1, <4>2, <4>4, <4>5, <4>6 DEF Holds, LinkKind
    <3> QED BY <3>1, <3>2
  <2>2. \A s \in Request : req[s].pc \notin Fresh => req'[s].pc \notin Fresh
    BY <1>1
  <2> QED BY <2>1, <2>2 DEF Holds
<1>4. UsedResetTookEffect'
  <2> SUFFICES ASSUME NEW t \in Request, tokens'[t] # NoRow, tokens'[t].kind = "reset",
                      tokens'[t].spentAt # Nil
               PROVE  tokens'[t].spentAt \in changed
    BY DEF UsedResetTookEffect
  <2>1. tokens[t] # NoRow => (tokens[t].kind = "reset" /\ tokens[t].spentAt # Nil
                                => tokens[t].spentAt \in changed)
    BY DEF LinkInv, UsedResetTookEffect
  <2>2. req[t].pc \in Fresh => tokens[t] = NoRow BY DEF LinkInv, Holds
  <2>3. Holds(r, req'[r], tokens', changed, req) OBVIOUS
  <2> QED BY <2>1, <2>2, NoRowIsNoToken DEF Fresh
<1> QED BY <1>1, <1>2, <1>3, <1>4 DEF LinkInv

LEMMA ContinueKeeps ==
  ASSUME LinkInv, NEW r \in Request, Continue(r)
  PROVE  LinkInv'
<1>a. /\ req = [q \in Request |-> req[q]] /\ IsCall(req[r])
      /\ tokens = [t \in Request |-> tokens[t]]
      /\ \A t \in Request : tokens[t] = NoRow \/ IsToken(tokens[t])
      /\ Holds(r, req[r], tokens, changed, req)
  BY DEF LinkInv
<1>b. /\ req[r].op = "useLink" =>
           req[r].pc \in {"waiting", "findOwner", "spendLink", "openSession", "history"} \cup Ended
      /\ req[r].op = "confirmReset" =>
           req[r].pc \in {"waiting", "findOwner", "setPassword", "spendReset"} \cup Ended
  BY <1>a DEF Holds
<1>c. req[r].pc = "setPassword" => req[r].op \in {"confirmReset", "changePassword"}
  BY <1>a DEF Holds
<1>1. CASE StoreSignupCode(r)
  BY <1>1, <1>b, PlainGo DEF StoreSignupCode, At, GoIf, GrantCookie, ReadsOnly, tables, Ended, Fresh
<1>2. CASE FindActive(r)
  BY <1>2, <1>b, PlainGo DEF FindActive, At, GoIf, GrantCookie, ReadsOnly, tables, Ended, Fresh
<1>3. CASE SpendSignupCode(r)
  BY <1>3, <1>b, PlainGo DEF SpendSignupCode, At, GoIf, GrantCookie, ReadsOnly, tables, Ended, Fresh
<1>4. CASE Rehash(r)
  BY <1>4, <1>b, PlainGo DEF Rehash, At, GoIf, GrantCookie, ReadsOnly, tables, Ended, Fresh
<1>5. CASE AddFailedHistory(r)
  BY <1>5, <1>b, PlainGo DEF AddFailedHistory, At, GoIf, GrantCookie, ReadsOnly, tables, Ended, Fresh
<1>6. CASE DropState(r)
  BY <1>6, <1>b, PlainGo DEF DropState, At, GoIf, GrantCookie, ReadsOnly, tables, Ended, Fresh
<1>7. CASE LinkGoogle(r)
  BY <1>7, <1>b, PlainGo DEF LinkGoogle, At, GoIf, GrantCookie, ReadsOnly, tables, Ended, Fresh
<1>8. CASE StoreSecret(r)
  BY <1>8, <1>b, PlainGo DEF StoreSecret, At, GoIf, GrantCookie, ReadsOnly, tables, Ended, Fresh
<1>9. CASE MarkVerified(r)
  BY <1>9, <1>b, PlainGo DEF MarkVerified, At, GoIf, GrantCookie, ReadsOnly, tables, Ended, Fresh
<1>10. CASE EndAllOthers(r)
  BY <1>10, <1>b, PlainGo DEF EndAllOthers, At, GoIf, GrantCookie, ReadsOnly, tables, Ended, Fresh
<1>11. CASE WriteRow(r)
  BY <1>11, <1>b, PlainGo DEF WriteRow, At, Ended, Fresh
<1>12. CASE AddHistory(r)
  BY <1>12, PlainGo DEF AddHistory, tables, Ended, Fresh
<1>13. CASE FindRow(r)
  <2>1. CASE Go(r, "writeRow")
    BY <1>13, <1>b, <2>1, PlainGo DEF FindRow, At, ReadsOnly, tables, Ended, Fresh
  <2>2. ASSUME NEW a, Become(r, [req[r] EXCEPT !.pc = "writeRow", !.seen = accounts[a]])
        PROVE  LinkInv'
    <3> DEFINE c == [req[r] EXCEPT !.pc = "writeRow", !.seen = accounts[a]]
    <3>1. IsCall(c) /\ c.op = req[r].op /\ c.pc = "writeRow" BY <1>a DEF IsCall, CallFields
    <3>2. Become(r, c) BY <2>2
    <3> HIDE DEF c
    <3> QED BY <1>13, <1>b, <3>1, <3>2, PlainCall DEF FindRow, At, ReadsOnly, tables, Ended, Fresh
  <2> QED BY <1>13, <2>1, <2>2 DEF FindRow
<1>14. CASE Reload(r)
  <2>1. CASE Go(r, "raised")
    BY <1>14, <2>1, PlainGo DEF Reload, ReadsOnly, tables, Ended, Fresh
  <2>2. ASSUME NEW a, NEW pc \in {"spendCode", "done", "linkGoogle"},
               Become(r, [req[r] EXCEPT !.account = a, !.seen = NoRow, !.pc = pc])
        PROVE  LinkInv'
    <3> DEFINE c == [req[r] EXCEPT !.account = a, !.seen = NoRow, !.pc = pc]
    <3>1. IsCall(c) /\ c.op = req[r].op /\ c.pc = pc BY <1>a DEF IsCall, CallFields
    <3>2. Become(r, c) BY <2>2
    <3> HIDE DEF c
    <3> QED BY <1>14, <1>b, <3>1, <3>2, PlainCall DEF Reload, At, ReadsOnly, tables, Ended, Fresh
  <2> QED BY <1>14, <2>1, <2>2 DEF Reload
<1>15. CASE FindGoogle(r)
  <2>1. CASE Go(r, "findRow")
    BY <1>15, <1>b, <2>1, PlainGo DEF FindGoogle, At, ReadsOnly, tables, Ended, Fresh
  <2>2. ASSUME NEW a, Become(r, [req[r] EXCEPT !.account = a, !.pc = "findLinked"])
        PROVE  LinkInv'
    <3> DEFINE c == [req[r] EXCEPT !.account = a, !.pc = "findLinked"]
    <3>1. IsCall(c) /\ c.op = req[r].op /\ c.pc = "findLinked" BY <1>a DEF IsCall, CallFields
    <3>2. Become(r, c) BY <2>2
    <3> HIDE DEF c
    <3> QED BY <1>15, <1>b, <3>1, <3>2, PlainCall DEF FindGoogle, At, ReadsOnly, tables, Ended, Fresh
  <2> QED BY <1>15, <2>1, <2>2 DEF FindGoogle
<1>16. CASE FindLinked(r)
  <2>1. CASE Go(r, "refused")
    BY <1>16, <2>1, PlainGo DEF FindLinked, ReadsOnly, tables, Ended, Fresh
  <2>2. ASSUME NEW e, Become(r, [req[r] EXCEPT !.email = e, !.pc = "openSession"])
        PROVE  LinkInv'
    <3> DEFINE c == [req[r] EXCEPT !.email = e, !.pc = "openSession"]
    <3>1. IsCall(c) /\ c.op = req[r].op /\ c.pc = "openSession" BY <1>a DEF IsCall, CallFields
    <3>2. Become(r, c) BY <2>2
    <3> HIDE DEF c
    <3> QED BY <1>16, <1>b, <3>1, <3>2, PlainCall DEF FindLinked, At, ReadsOnly, tables, Ended, Fresh
  <2> QED BY <1>16, <2>1, <2>2 DEF FindLinked
<1>17. CASE CheckFree(r)
  <2>1. CASE Go(r, "refused")
    BY <1>17, <2>1, PlainGo DEF CheckFree, ReadsOnly, tables, Ended, Fresh
  <2>2. CASE Go(r, "insertToken")
    <3> DEFINE c == [req[r] EXCEPT !.pc = "insertToken"]
    <3>1. IsCall(c) /\ c.op = req[r].op /\ c.pc = "insertToken" BY MovedCall
    <3>2. Become(r, c) BY <2>2 DEF Go
    <3> HIDE DEF c
    <3> QED BY <1>17, <1>b, <3>1, <3>2, PlainCall DEF CheckFree, At, ReadsOnly, tables, Ended, Fresh
  <2> QED BY <1>17, <2>1, <2>2 DEF CheckFree, GoIf
<1>18. CASE FindOwner(r)
  <2>1. CASE Go(r, "refused")
    BY <1>18, <2>1, PlainGo DEF FindOwner, ReadsOnly, tables, Ended, Fresh
  <2>2. ASSUME NEW e, NEW pc, pc = (IF req[r].op = "useLink" THEN "spendLink" ELSE "setPassword"),
               Become(r, [req[r] EXCEPT !.email = e, !.pc = pc])
        PROVE  LinkInv'
    <3> DEFINE c == [req[r] EXCEPT !.email = e, !.pc = pc]
    <3>1. IsCall(c) /\ c.op = req[r].op /\ c.pc = pc /\ c.ref = req[r].ref BY <1>a DEF IsCall, CallFields
    <3>2. Become(r, c) BY <2>2
    <3> HIDE DEF c
    <3>3. req'[r] = c BY <2>2, <3>1, <3>2, BecomeLemma DEF Ended
    <3>4. tokens' = tokens /\ changed' = changed BY <1>18 DEF FindOwner, ReadsOnly, tables
    <3>5. req[r].pc = "findOwner" BY <1>18 DEF FindOwner, At
    <3>6. Holds(r, c, tokens, changed', req)
      BY <1>a, <2>2, <3>1, <3>4, <3>5 DEF Holds, Fresh, Ended
    <3> QED BY <2>2, <3>1, <3>2, <3>3, <3>4, <3>6, KeepTokens DEF Fresh
  <2> QED BY <1>18, <2>1, <2>2 DEF FindOwner
<1>19. CASE SetPassword(r)
  <2>1. PICK pc \in {"history", "spendReset", "raised"} :
          /\ Go(r, pc) /\ (pc = "spendReset" => r \in changed')
          /\ pc = "history" <=> req[r].op = "changePassword"
    BY <1>19 DEF SetPassword
  <2> DEFINE c == [req[r] EXCEPT !.pc = pc]
  <2>2. IsCall(c) /\ c.op = req[r].op /\ c.pc = pc /\ c.ref = req[r].ref BY MovedCall
  <2>3. Become(r, c) /\ tokens' = tokens /\ changed \subseteq changed' /\ req[r].pc = "setPassword"
    BY <1>19, <2>1 DEF SetPassword, Go, At
  <2> HIDE DEF c
  <2>4. req'[r].op = req[r].op /\ req'[r].pc = pc
    BY <2>2, <2>3, BecomeLemma
  <2>5. pc = "spendReset" => req'[r].ref = req[r].ref
    BY <2>2, <2>3, BecomeLemma DEF Ended
  <2>6. pc = "spendReset" => req[r].op = "confirmReset"
    BY <2>1, <2>3, <1>c
  <2>7. Holds(r, req'[r], tokens, changed', req)
    BY <1>a, <2>1, <2>3, <2>4, <2>5, <2>6 DEF Holds, Fresh, Ended
  <2> QED BY <2>1, <2>2, <2>3, <2>7, KeepTokens DEF Fresh
<1>20. CASE SetEmail(r)
  <2>1. PICK pc \in {"history", "raised"} : Go(r, pc)
    BY <1>20 DEF SetEmail
  <2> DEFINE c == [req[r] EXCEPT !.pc = pc]
  <2>2. IsCall(c) /\ c.op = req[r].op /\ c.pc = pc BY MovedCall
  <2>3. /\ Become(r, c) /\ tokens' = tokens /\ changed \subseteq changed'
        /\ req[r].pc = "setEmail"
    BY <1>20, <2>1 DEF SetEmail, Go, At
  <2> HIDE DEF c
  <2>4. req'[r].op = req[r].op /\ req'[r].pc = pc BY <2>2, <2>3, BecomeLemma
  <2>5. Holds(r, req'[r], tokens, changed', req)
    BY <1>b, <2>3, <2>4 DEF Holds, Fresh, Ended
  <2> QED BY <2>2, <2>3, <2>5, KeepTokens DEF Fresh
<1>21. CASE OpenSession(r)
  <2>1. CASE Go(r, "raised")
    BY <1>21, <2>1, PlainGo DEF OpenSession, Ended, Fresh
  <2>2. CASE Go(r, "history")
    <3> DEFINE c == [req[r] EXCEPT !.pc = "history"]
    <3>1. IsCall(c) /\ c.op = req[r].op /\ c.pc = "history" /\ c.ref = req[r].ref BY MovedCall
    <3>2. Become(r, c) BY <2>2 DEF Go
    <3> HIDE DEF c
    <3>3. req'[r] = c BY <3>1, <3>2, BecomeLemma DEF Ended
    <3>4. tokens' = tokens /\ changed' = changed /\ req[r].pc = "openSession"
      BY <1>21 DEF OpenSession, At
    <3>5. Holds(r, c, tokens, changed', req)
      BY <1>a, <3>1, <3>4 DEF Holds, Fresh, Ended
    <3> QED BY <3>1, <3>2, <3>3, <3>4, <3>5, KeepTokens DEF Fresh
  <2> QED BY <1>21, <2>1, <2>2 DEF OpenSession
<1>22. CASE InsertToken(r)
  <2>1. CASE Go(r, "raised") /\ tokens' = tokens
    BY <1>22, <2>1, PlainGo DEF InsertToken, Ended, Fresh
  <2>2. CASE Go(r, "done") /\ Exists(req[r].account)
    <3> DEFINE c == [req[r] EXCEPT !.pc = "done"]
    <3>1. IsCall(c) /\ c.op = req[r].op /\ c.pc = "done" BY MovedCall
    <3>2. Become(r, c) BY <2>2 DEF Go
    <3> HIDE DEF c
    <3>3. req'[r].pc = "done" BY <3>1, <3>2, BecomeLemma
    <3>4. PICK kind, e :
            kind \in {"signin", "reset", "address"} /\ tokens' = [tokens EXCEPT ![r] = NewToken(kind, req[r].account, e)]
      BY <1>22, <2>2 DEF InsertToken, Go
    <3>5. /\ IsToken(NewToken(kind, req[r].account, e))
          /\ NewToken(kind, req[r].account, e).spentAt = Nil
      BY <3>4 DEF NewToken, IsToken
    <3>6. Holds(r, req'[r], tokens', changed, req) BY <3>3, <1>b DEF Holds, Fresh, Ended
    <3>7. changed' = changed /\ req[r].pc \in Fresh BY <1>22 DEF InsertToken, At, Fresh
    <3>8. tokens' = [t \in Request |-> tokens'[t]] /\ tokens'[r] = NewToken(kind, req[r].account, e)
          /\ \A t \in Request \ {r} : tokens'[t] = tokens[t]
      BY <1>a, <3>4
    <3> QED BY <1>a, <3>1, <3>2, <3>5, <3>6, <3>7, <3>8, WriteTokens DEF Ended, Fresh
  <2> QED BY <1>22, <2>1, <2>2 DEF InsertToken
<1>23. CASE SpendMagicLink(r)
  <2>1. CASE tokens[req[r].ref].spentAt # Nil
    <3>1. Go(r, "refused") /\ tokens' = tokens /\ changed' = changed
      BY <1>23, <2>1 DEF SpendMagicLink, SpendToken
    <3> QED BY <3>1, PlainGo DEF Ended, Fresh
  <2>2. CASE tokens[req[r].ref].spentAt = Nil
    <3> DEFINE c == [req[r] EXCEPT !.pc = "openSession"]
               t == req[r].ref
    <3>1. IsCall(c) /\ c.op = req[r].op /\ c.pc = "openSession" /\ c.ref = t BY MovedCall
    <3>2. /\ Become(r, c) /\ changed' = changed /\ req[r].pc = "spendLink"
          /\ tokens' = [tokens EXCEPT ![t].spentAt = r]
      BY <1>23, <2>2 DEF SpendMagicLink, SpendToken, Go, At
    <3>3. req'[r].op = req[r].op /\ req'[r].pc = "openSession"
          /\ ("openSession" # "done" => req'[r].ref = t)
      BY <3>1, <3>2, BecomeLemma DEF Ended
    <3>4. t \in Request /\ IsToken(tokens[t]) /\ tokens[t].kind = "signin" /\ req[r].op = "useLink"
          /\ ("signin" = "reset" => r \in changed)
      BY <1>a, <3>2 DEF Holds
    <3> HIDE DEF c, t
    <3>5. /\ tokens' = [u \in Request |-> tokens'[u]]
          /\ IsToken(tokens'[t]) /\ tokens'[t].kind = "signin" /\ tokens'[t].spentAt = r
          /\ \A u \in Request \ {t} : tokens'[u] = tokens[u]
      BY <1>a, <3>2, <3>4 DEF IsToken
    <3>6. Holds(r, req'[r], tokens', changed, req)
      BY <3>3, <3>4, <3>5 DEF Holds, Fresh, Ended
    <3>7. req[t].pc \notin Fresh
      BY <3>4, NoRowIsNoToken DEF LinkInv, Holds
    <3>8. \A u \in Request : tokens'[u] = NoRow \/ IsToken(tokens'[u])
      BY <1>a, <3>5
    <3> QED BY <2>2, <3>1, <3>2, <3>4, <3>5, <3>6, <3>7, <3>8, WriteTokens DEF Fresh, t
  <2> QED BY <2>1, <2>2
<1>24. CASE SpendResetLink(r)
  <2>1. CASE tokens[req[r].ref].spentAt # Nil
    <3>1. Go(r, "refused") /\ tokens' = tokens /\ changed' = changed
      BY <1>24, <2>1 DEF SpendResetLink, SpendToken
    <3> QED BY <3>1, PlainGo DEF Ended, Fresh
  <2>2. CASE tokens[req[r].ref].spentAt = Nil
    <3> DEFINE c == [req[r] EXCEPT !.pc = "done"]
               t == req[r].ref
    <3>1. IsCall(c) /\ c.op = req[r].op /\ c.pc = "done" /\ c.ref = t BY MovedCall
    <3>2. /\ Become(r, c) /\ changed' = changed /\ req[r].pc = "spendReset"
          /\ tokens' = [tokens EXCEPT ![t].spentAt = r]
      BY <1>24, <2>2 DEF SpendResetLink, SpendToken, Go, At
    <3>3. req'[r].op = req[r].op /\ req'[r].pc = "done"
          /\ ("done" # "done" => req'[r].ref = t)
      BY <3>1, <3>2, BecomeLemma DEF Ended
    <3>4. t \in Request /\ IsToken(tokens[t]) /\ tokens[t].kind = "reset" /\ req[r].op = "confirmReset"
          /\ ("reset" = "reset" => r \in changed)
      BY <1>a, <3>2 DEF Holds
    <3> HIDE DEF c, t
    <3>5. /\ tokens' = [u \in Request |-> tokens'[u]]
          /\ IsToken(tokens'[t]) /\ tokens'[t].kind = "reset" /\ tokens'[t].spentAt = r
          /\ \A u \in Request \ {t} : tokens'[u] = tokens[u]
      BY <1>a, <3>2, <3>4 DEF IsToken
    <3>6. Holds(r, req'[r], tokens', changed, req)
      BY <3>3, <3>4, <3>5 DEF Holds, Fresh, Ended
    <3>7. req[t].pc \notin Fresh
      BY <3>4, NoRowIsNoToken DEF LinkInv, Holds
    <3>8. \A u \in Request : tokens'[u] = NoRow \/ IsToken(tokens'[u])
      BY <1>a, <3>5
    <3> QED BY <2>2, <3>1, <3>2, <3>4, <3>5, <3>6, <3>7, <3>8, WriteTokens DEF Fresh, t
  <2> QED BY <2>1, <2>2
<1>25. CASE SpendAddressCode(r)
  <2> DEFINE t == req[r].ref
  <2>1. CASE ~(tokens[t] # NoRow /\ tokens[t].spentAt = Nil)
    <3>1. Go(r, "setEmail") /\ tokens' = tokens /\ changed' = changed
      BY <1>25, <2>1 DEF SpendAddressCode
    <3>2. req[r].pc = "spendAddress" BY <1>25 DEF SpendAddressCode, At
    <3> QED BY <1>b, <3>1, <3>2, PlainGo DEF Ended, Fresh
  <2>2. CASE tokens[t] # NoRow /\ tokens[t].spentAt = Nil
    <3> DEFINE c == [req[r] EXCEPT !.pc = "setEmail"]
    <3>1. IsCall(c) /\ c.op = req[r].op /\ c.pc = "setEmail" BY MovedCall
    <3>2. /\ Become(r, c) /\ changed' = changed /\ req[r].pc = "spendAddress"
          /\ tokens' = [tokens EXCEPT ![t].spentAt = r]
      BY <1>25, <2>2 DEF SpendAddressCode, Go, At
    <3>3. req'[r].op = req[r].op /\ req'[r].pc = "setEmail"
      BY <3>1, <3>2, BecomeLemma
    <3>4. t \in Request /\ IsToken(tokens[t]) /\ tokens[t].kind = "address" /\ req[t].pc \notin Fresh
      BY <1>a, <2>2, <3>2 DEF Holds
    <3> HIDE DEF c, t
    <3>5. /\ tokens' = [u \in Request |-> tokens'[u]]
          /\ IsToken(tokens'[t]) /\ tokens'[t].kind = "address"
          /\ \A u \in Request \ {t} : tokens'[u] = tokens[u]
      BY <1>a, <3>2, <3>4 DEF IsToken
    <3>6. Holds(r, req'[r], tokens', changed, req)
      BY <1>b, <3>2, <3>3 DEF Holds, Fresh, Ended
    <3>8. \A u \in Request : tokens'[u] = NoRow \/ IsToken(tokens'[u])
      BY <1>a, <3>5
    <3> QED BY <2>2, <3>1, <3>2, <3>4, <3>5, <3>6, <3>8, WriteTokens DEF Fresh
  <2> QED BY <2>1, <2>2
<1>26. CASE EraseAccount(r)
  <2> DEFINE a == req[r].account
  <2>1. CASE Go(r, "raised") /\ tokens' = tokens
    BY <1>26, <2>1, PlainGo DEF EraseAccount, Ended, Fresh
  <2>2. CASE /\ Keeping(a) = {}
             /\ tokens' = [t \in Request |->
                  IF tokens[t] # NoRow /\ tokens[t].account = a THEN NoRow ELSE tokens[t]]
    <3>1. PICK pc \in {"done", "raised"} : Go(r, pc) BY <1>26, <2>2 DEF EraseAccount
    <3> DEFINE c == [req[r] EXCEPT !.pc = pc]
    <3>2. IsCall(c) /\ c.op = req[r].op /\ c.pc = pc BY MovedCall
    <3>3. Become(r, c) /\ changed' = changed /\ req[r].pc = "erase"
      BY <1>26, <3>1 DEF EraseAccount, Go, At
    <3> HIDE DEF c
    <3>4. req'[r].pc \in {"done", "raised"} BY <3>2, <3>3, BecomeLemma
    <3>5. Holds(r, req'[r], tokens', changed, req) BY <3>4, <1>b DEF Holds, Fresh, Ended
    <3>9. ASSUME NEW t \in Request, tokens'[t] # tokens[t]
          PROVE  tokens[t] # NoRow /\ tokens'[t] = NoRow /\ ~IsLink(t)
      <4>1. tokens[t] # NoRow /\ tokens[t].account = a /\ tokens'[t] = NoRow BY <2>2, <3>9
      <4>2. t \notin Keeping(a) BY <2>2
      <4> QED BY <4>1, <4>2 DEF Keeping, IsLink
    <3>10. tokens' = [t \in Request |-> tokens'[t]]
      BY <2>2
    <3>6. \A t \in Request : \/ tokens'[t] = tokens[t]
                             \/ tokens[t] # NoRow /\ tokens'[t] = NoRow /\ ~IsLink(t)
      BY <3>9
    <3>7. \A t \in Request : req[t].pc \in Fresh => tokens[t] = NoRow BY DEF LinkInv, Holds
    <3>8. \A t \in Request : tokens'[t] = NoRow \/ IsToken(tokens'[t]) BY <1>a, <3>6
    <3> QED BY <3>2, <3>3, <3>5, <3>6, <3>7, <3>8, <3>10, WriteTokens DEF Fresh
  <2>3. ~Refused(a) => Keeping(a) = {} BY DEF Refused
  <2> QED BY <1>26, <2>1, <2>2, <2>3 DEF EraseAccount
<1>27. CASE StoreProfile(r)
  <2>1. PICK pc \in {"done", "raised"} : Go(r, pc) BY <1>27 DEF StoreProfile
  <2> QED BY <1>27, <2>1, PlainGo DEF StoreProfile, Ended, Fresh
<1> QED BY <1>1, <1>2, <1>3, <1>4, <1>5, <1>6, <1>7, <1>8, <1>9, <1>10, <1>11, <1>12, <1>13, <1>14, <1>15, <1>16, <1>17, <1>18, <1>19, <1>20, <1>21, <1>22, <1>23, <1>24, <1>25, <1>26, <1>27 DEF Continue

LEMMA StepKeeps == LinkInv /\ [AccountsNext]_accountVars => LinkInv'
<1> SUFFICES ASSUME LinkInv, [AccountsNext]_accountVars PROVE LinkInv' OBVIOUS
<1>1. CASE \E r \in Request : Endpoint(r) \/ Continue(r)
  BY <1>1, EndpointKeeps, ContinueKeeps
<1>2. ASSUME NEW t \in Request, ExpireToken(t) PROVE LinkInv'
  <2>1. /\ tokens[t] # NoRow /\ IsToken(tokens[t])
        /\ tokens' = [tokens EXCEPT ![t].expired = TRUE] /\ req' = req /\ changed' = changed
    BY <1>2 DEF ExpireToken, LinkInv
  <2>2. /\ tokens' = [u \in Request |-> tokens'[u]]
        /\ IsToken(tokens'[t]) /\ tokens'[t].kind = tokens[t].kind
        /\ tokens'[t].spentAt = tokens[t].spentAt
        /\ \A u \in Request \ {t} : tokens'[u] = tokens[u]
    BY <2>1 DEF IsToken, LinkInv
  <2>3. ASSUME NEW q \in Request PROVE Holds(q, req[q], tokens', changed, req)
    <3>1. Holds(q, req[q], tokens, changed, req) /\ (req[t].pc \in Fresh => tokens[t] = NoRow)
      BY DEF LinkInv, Holds
    <3>2. \A u \in Request : /\ IsToken(tokens[u]) <=> IsToken(tokens'[u])
                             /\ tokens'[u].kind = tokens[u].kind
                             /\ tokens'[u].spentAt = tokens[u].spentAt
                             /\ tokens[u] = NoRow => tokens'[u] = NoRow
      BY <2>1, <2>2
    <3> QED BY <3>1, <3>2 DEF Holds
  <2>4. UsedResetTookEffect'
    BY <2>1, <2>2 DEF UsedResetTookEffect, LinkInv
  <2> QED BY <2>1, <2>2, <2>3, <2>4 DEF LinkInv
<1>3. ASSUME NEW e \in Email, ExpireSignup(e) PROVE LinkInv'
  BY <1>3 DEF ExpireSignup, LinkInv, UsedResetTookEffect
<1>4. CASE StopServer
  <2> DEFINE ended(q) == Outcome([req[q] EXCEPT !.pc = "raised"])
  <2>1. /\ tokens' = tokens /\ changed' = changed
        /\ req' = [q \in Request |-> IF q \in InFlight THEN ended(q) ELSE req[q]]
    BY <1>4 DEF StopServer, tables
  <2>2. ASSUME NEW q \in Request PROVE IsCall(ended(q)) /\ ended(q).op = req[q].op /\ ended(q).pc = "raised"
    <3> DEFINE c == [req[q] EXCEPT !.pc = "raised"]
    <3>1. IsCall(c) /\ c.op = req[q].op /\ c.pc = "raised" BY MovedCall
    <3> QED BY <3>1 DEF Outcome, Call, IsCall, CallFields, Ended
  <2> HIDE DEF ended
  <2>3. ASSUME NEW q \in Request PROVE IsCall(req'[q]) /\ Holds(q, req'[q], tokens, changed, req')
    <3>1. IsCall(req[q]) /\ Holds(q, req[q], tokens, changed, req) BY DEF LinkInv
    <3>2. CASE q \in InFlight
      <4>1. req'[q].pc = "raised" /\ IsCall(req'[q]) BY <2>1, <2>2, <3>2
      <4> QED BY <4>1 DEF Holds, Fresh, Ended
    <3>3. CASE q \notin InFlight
      <4>1. req'[q] = req[q] BY <2>1, <3>3
      <4>2. \A s \in Request : req[s].pc \notin Fresh => req'[s].pc \notin Fresh
        BY <2>1, <2>2 DEF Fresh
      <4> QED BY <3>1, <4>1, <4>2 DEF Holds
    <3> QED BY <3>2, <3>3
  <2> QED BY <2>1, <2>3 DEF LinkInv, UsedResetTookEffect
<1>5. CASE UNCHANGED accountVars
  BY <1>5 DEF accountVars, tables, LinkInv, UsedResetTookEffect
<1> QED BY <1>1, <1>2, <1>3, <1>4, <1>5 DEF AccountsNext

LEMMA InitKeeps == AccountsInit => LinkInv
<1> SUFFICES ASSUME AccountsInit PROVE LinkInv OBVIOUS
<1>1. /\ req = [r \in Request |-> Call(Nil, "waiting", 0, Nil, Nil, 0)]
      /\ tokens = [t \in Request |-> NoRow]
  BY DEF AccountsInit
<1>2. \A q \in Request : IsCall(req[q]) /\ req[q].pc = "waiting"
  BY <1>1 DEF Call, IsCall, CallFields
<1>3. \A q \in Request : Holds(q, req[q], tokens, changed, req)
  BY <1>1, <1>2 DEF Holds, Fresh, Ended
<1> QED BY <1>1, <1>2, <1>3 DEF LinkInv, UsedResetTookEffect

THEOREM LinkInvariant == AccountsSpec => []LinkInv
<1> QED BY InitKeeps, StepKeeps, PTL DEF AccountsSpec

(* A sign-in link signs in at most one request, for every number of        *)
(* requests, clicks and stops (consume_subscriber_magic_link).             *)
THEOREM LinkOnceTheorem == AccountsSpec => []LinkSignsInOnce
<1>1. LinkInv => LinkSignsInOnce BY DEF LinkInv, Holds, LinkSignsInOnce
<1> QED BY <1>1, LinkInvariant, PTL

(* A reset link is used up by nobody who has not set the password           *)
(* (confirm_password_reset).                                                *)
THEOREM ResetTheorem == AccountsSpec => []UsedResetTookEffect
<1>1. LinkInv => UsedResetTookEffect BY DEF LinkInv
<1> QED BY <1>1, LinkInvariant, PTL

---------------------------------------------------------------------------
(* Links implement OneTimeLink. *)

Issued == {t \in Request : IsLink(t)}
SpentBy == [t \in Request |-> IF IsLink(t) THEN tokens[t].spentAt ELSE Nil]

(* What a step does to the links, by what it does to the tokens. *)
LinkStep ==
  \/ UNCHANGED <<Issued, SpentBy>>
  \/ \E t \in Request : OneTime!Issue(t)
  \/ \E t \in Request, u \in Request : OneTime!Spend(t, u)

LEMMA SameLinks ==
  ASSUME \A t \in Request : IsLink(t) =>
           \/ tokens'[t] = tokens[t]
           \/ IsLink(t)' /\ tokens'[t].spentAt = tokens[t].spentAt,
         \A t \in Request : IsLink(t)' => IsLink(t)
  PROVE  UNCHANGED <<Issued, SpentBy>>
<1>1. \A t \in Request : /\ IsLink(t)' <=> IsLink(t)
                         /\ IsLink(t) => tokens'[t].spentAt = tokens[t].spentAt
  BY DEF IsLink
<1> QED BY <1>1 DEF Issued, SpentBy

LEMMA InsertStep == ASSUME LinkInv, NEW r \in Request, InsertToken(r) PROVE LinkStep
<1>1. tokens = [t \in Request |-> tokens[t]] /\ tokens[r] = NoRow
  BY DEF InsertToken, At, LinkInv, Holds, Fresh
<1>2. CASE tokens' = tokens
  BY <1>2 DEF LinkStep, Issued, SpentBy, IsLink
<1>3. ASSUME NEW kind \in {"signin", "reset", "address"}, NEW e,
             tokens' = [tokens EXCEPT ![r] = NewToken(kind, req[r].account, e)]
      PROVE  LinkStep
  <2>1. /\ tokens'[r].kind = kind /\ tokens'[r].spentAt = Nil
        /\ IsToken(tokens'[r]) /\ tokens'[r] # NoRow
        /\ \A t \in Request \ {r} : tokens'[t] = tokens[t]
    BY <1>1, <1>3, NoRowIsNoToken DEF NewToken, IsToken
  <2>2. ~IsLink(r) /\ \A t \in Request \ {r} : IsLink(t)' <=> IsLink(t)
    BY <1>1, <2>1 DEF IsLink
  <2>3. CASE kind = "address"
    <3>1. ~IsLink(r)' BY <2>1, <2>3 DEF IsLink, LinkKind
    <3> QED BY <2>1, <2>2, <3>1 DEF LinkStep, Issued, SpentBy
  <2>4. CASE kind # "address"
    <3>1. IsLink(r)' BY <2>1, <2>4 DEF IsLink, LinkKind
    <3>2. Issued' = Issued \cup {r} /\ SpentBy' = SpentBy /\ r \notin Issued
      BY <2>1, <2>2, <3>1 DEF Issued, SpentBy
    <3> QED BY <3>2 DEF LinkStep, OneTime!Issue, Issued, SpentBy
  <2> QED BY <2>3, <2>4
<1> QED BY <1>2, <1>3 DEF InsertToken

LEMMA SpendStep ==
  ASSUME LinkInv, NEW r \in Request, NEW t \in Request, IsToken(tokens[t]),
         tokens[t].spentAt = Nil, tokens' = [tokens EXCEPT ![t].spentAt = r]
  PROVE  LinkStep
<1>1. tokens = [u \in Request |-> tokens[u]] /\ tokens[t] # NoRow
  BY NoRowIsNoToken DEF LinkInv
<1>2. /\ IsToken(tokens'[t]) /\ tokens'[t].kind = tokens[t].kind /\ tokens'[t].spentAt = r
      /\ \A u \in Request \ {t} : tokens'[u] = tokens[u]
  BY <1>1 DEF IsToken
<1>3. \A u \in Request : IsLink(u)' <=> IsLink(u)
  BY <1>1, <1>2, NoRowIsNoToken DEF IsLink
<1>4. CASE IsLink(t)
  <2>2. t \in Issued /\ SpentBy[t] = Nil /\ Issued' = Issued
    BY <1>3, <1>4 DEF Issued, SpentBy
  <2>3. SpentBy' = [u \in Request |-> IF u = t THEN r ELSE SpentBy[u]]
    BY <1>2, <1>3, <1>4 DEF SpentBy
  <2>4. SpentBy' = [SpentBy EXCEPT ![t] = r]
    BY <2>3 DEF SpentBy
  <2> QED BY <2>2, <2>4 DEF LinkStep, OneTime!Spend, Issued, SpentBy
<1>5. CASE ~IsLink(t)
  BY <1>2, <1>3, <1>5 DEF LinkStep, Issued, SpentBy
<1> QED BY <1>4, <1>5

LEMMA EraseStep == ASSUME LinkInv, NEW r \in Request, EraseAccount(r) PROVE LinkStep
<1>1. CASE tokens' = tokens
  BY <1>1 DEF LinkStep, Issued, SpentBy, IsLink
<1> DEFINE a == req[r].account
<1>2. CASE /\ Keeping(a) = {}
           /\ tokens' = [t \in Request |->
                IF tokens[t] # NoRow /\ tokens[t].account = a THEN NoRow ELSE tokens[t]]
  <2>1. ASSUME NEW t \in Request PROVE IsLink(t)' = IsLink(t) /\ (IsLink(t) => tokens'[t] = tokens[t])
    <3>1. IsLink(t) => tokens[t].account # a
      <4>1. t \notin Keeping(a) BY <1>2
      <4> QED BY <4>1 DEF Keeping, IsLink
    <3> QED BY <1>2, <3>1 DEF IsLink
  <2> QED BY <2>1 DEF LinkStep, Issued, SpentBy
<1>3. ~Refused(a) => Keeping(a) = {} BY DEF Refused
<1> QED BY <1>1, <1>2, <1>3 DEF EraseAccount

(* Every other step leaves the tokens alone. *)
LEMMA OtherSteps ==
  ASSUME NEW r \in Request, Endpoint(r) \/ Continue(r),
         ~InsertToken(r), ~SpendMagicLink(r), ~SpendResetLink(r), ~SpendAddressCode(r),
         ~EraseAccount(r)
  PROVE  tokens' = tokens
BY DEF Endpoint, Continue, 
       RequestSignup, ConfirmSignup, LegacySignup, RequestMagicLink, ConsumeMagicLink, RequestPasswordReset,
       ConfirmPasswordReset, LoginPassword, GoogleInitiate, GoogleCallback, ChangePassword, RequestEmailChange,
       ConfirmEmailChange, SetupTotp, VerifyTotp, DisableTotp, EndSession, FindOwnSession,
       DeleteAccount, SetActive, FillProfile,
       StoreSignupCode, FindActive, FindRow, WriteRow, Reload, SpendSignupCode,
       FindOwner, SetPassword, Rehash, OpenSession, AddHistory, AddFailedHistory,
       DropState, FindGoogle, FindLinked, LinkGoogle, CheckFree, SetEmail,
       StoreSecret, MarkVerified, EndAllOthers, StoreProfile,
       AskForLink, PresentLink, ReadsOnly, tables

LEMMA StepRefines == LinkInv /\ [AccountsNext]_accountVars => [OneTime!LinkNext]_(OneTime!links)
<1> SUFFICES ASSUME LinkInv, [AccountsNext]_accountVars PROVE LinkStep
  BY DEF LinkStep, OneTime!LinkNext, OneTime!links, Issued, SpentBy
<1>0. ASSUME tokens' = tokens PROVE LinkStep
  BY <1>0 DEF LinkStep, Issued, SpentBy, IsLink
<1>1. ASSUME NEW r \in Request, Endpoint(r) \/ Continue(r) PROVE LinkStep
  <2>1. CASE InsertToken(r) BY <2>1, InsertStep
  <2>2. ASSUME NEW pc, SpendToken(r, pc), req[r].pc \in {"spendLink", "spendReset"}
        PROVE  LinkStep
    <3>1. req[r].ref \in Request /\ IsToken(tokens[req[r].ref])
      BY <2>2 DEF LinkInv, Holds
    <3>2. CASE tokens[req[r].ref].spentAt = Nil
      <4>1. tokens' = [tokens EXCEPT ![req[r].ref].spentAt = r] BY <2>2, <3>2 DEF SpendToken
      <4> QED BY <3>1, <3>2, <4>1, SpendStep
    <3>3. CASE tokens[req[r].ref].spentAt # Nil
      BY <2>2, <3>3, <1>0 DEF SpendToken
    <3> QED BY <3>2, <3>3
  <2>3. CASE SpendMagicLink(r) BY <2>2, <2>3 DEF SpendMagicLink, At
  <2>4. CASE SpendResetLink(r) BY <2>2, <2>4 DEF SpendResetLink, At
  <2>5. CASE SpendAddressCode(r)
    <3> DEFINE t == req[r].ref
    <3>1. t \in Request BY <2>5 DEF SpendAddressCode, At, LinkInv, Holds
    <3>2. CASE tokens[t] # NoRow /\ tokens[t].spentAt = Nil
      <4>1. tokens' = [tokens EXCEPT ![t].spentAt = r] BY <2>5, <3>2 DEF SpendAddressCode
      <4>2. IsToken(tokens[t]) BY <3>1, <3>2 DEF LinkInv
      <4> QED BY <3>1, <3>2, <4>1, <4>2, SpendStep
    <3>3. CASE ~(tokens[t] # NoRow /\ tokens[t].spentAt = Nil)
      BY <2>5, <3>3, <1>0 DEF SpendAddressCode
    <3> QED BY <3>2, <3>3
  <2>6. CASE EraseAccount(r) BY <2>6, EraseStep
  <2>7. CASE ~InsertToken(r) /\ ~SpendMagicLink(r) /\ ~SpendResetLink(r)
             /\ ~SpendAddressCode(r) /\ ~EraseAccount(r)
    BY <1>1, <2>7, OtherSteps, <1>0
  <2> QED BY <2>1, <2>3, <2>4, <2>5, <2>6, <2>7
<1>2. ASSUME NEW t \in Request, ExpireToken(t) PROVE LinkStep
  <2>1. /\ tokens[t] # NoRow /\ IsToken(tokens[t]) /\ tokens = [u \in Request |-> tokens[u]]
        /\ tokens' = [tokens EXCEPT ![t].expired = TRUE]
    BY <1>2 DEF ExpireToken, LinkInv
  <2>2. /\ IsToken(tokens'[t]) /\ tokens'[t].kind = tokens[t].kind
        /\ tokens'[t].spentAt = tokens[t].spentAt
        /\ \A u \in Request \ {t} : tokens'[u] = tokens[u]
    BY <2>1 DEF IsToken
  <2>3. \A u \in Request : (IsLink(u)' <=> IsLink(u)) /\ tokens'[u].spentAt = tokens[u].spentAt
    BY <2>1, <2>2, NoRowIsNoToken DEF IsLink
  <2> QED BY <2>3 DEF LinkStep, Issued, SpentBy
<1>3. ASSUME NEW e \in Email, ExpireSignup(e) PROVE LinkStep
  BY <1>0, <1>3 DEF ExpireSignup
<1>4. CASE StopServer BY <1>0, <1>4 DEF StopServer, tables
<1>5. CASE UNCHANGED accountVars BY <1>0, <1>5 DEF accountVars, tables
<1> QED BY <1>1, <1>2, <1>3, <1>4, <1>5 DEF AccountsNext

LEMMA InitRefines == AccountsInit => OneTime!LinkInit
<1> SUFFICES ASSUME AccountsInit PROVE OneTime!LinkInit OBVIOUS
<1>1. tokens = [t \in Request |-> NoRow] BY DEF AccountsInit
<1>2. \A t \in Request : ~IsLink(t) BY <1>1 DEF IsLink
<1> QED BY <1>2 DEF OneTime!LinkInit

(* The look at a link and the spending of it are separate steps, links get  *)
(* too old and accounts are deleted; still every link mailed is spent once  *)
(* and for all.                                                             *)
THEOREM LinkTheorem == AccountsSpec => LinksImplemented
<1> QED BY InitRefines, StepRefines, LinkInvariant, PTL DEF AccountsSpec, LinksImplemented, OneTime!LinkSpec
---------------------------------------------------------------------------
(* Whose rows there are *)

IsAccount(x) == x = [email |-> x.email, password |-> x.password, active |-> x.active, kept |-> x.kept]
IsSession(x) ==
  /\ x = [account |-> x.account, email |-> x.email, device |-> x.device, active |-> x.active]
  /\ x.active \in BOOLEAN

(* Cookies and requests name accounts, whether they are still there or not. *)
CallsInv == cookies \subseteq Account /\ \A q \in Request : req[q].account \in Account

(* What refers to an account refers to one that is there: the foreign keys.  *)
RowsHaveAccount ==
  /\ \A t \in Request : /\ tokens[t] # NoRow => Exists(tokens[t].account)
                        /\ sessions[t] # NoRow => Exists(sessions[t].account)
  /\ \A a \in Account : totp[a] # NoRow => Exists(a)
  /\ \A g \in GoogleUser : googleLink[g] # Nil => Exists(googleLink[g])

(* The tables: what OneSessionPerDevice needs besides is that they hold      *)
(* records under their keys.                                                 *)
RowsInv ==
  /\ accounts = [a \in Account |-> accounts[a]]
  /\ \A a \in Account : Exists(a) => IsAccount(accounts[a])
  /\ sessions = [s \in Request |-> sessions[s]]
  /\ \A s \in Request : sessions[s] # NoRow => IsSession(sessions[s]) /\ sessions[s].account \in Account
  /\ \A t \in Request : tokens[t] # NoRow => tokens[t].account \in Account
  /\ totp = [a \in Account |-> totp[a]]
  /\ googleLink \in [GoogleUser -> Account \cup {Nil}]
  /\ RowsHaveAccount
  /\ OneSessionPerDevice

OwnedInv == LinkInv /\ CallsInv /\ RowsInv

LEMMA IsNoRow == (\A x : IsAccount(x) => x # NoRow) /\ (\A x : IsSession(x) => x # NoRow)
<1>1. DOMAIN NoRow = {"none"} BY DEF NoRow
<1>2. ASSUME NEW x, IsAccount(x) PROVE "email" \in DOMAIN x BY <1>2 DEF IsAccount
<1>3. ASSUME NEW x, IsSession(x) PROVE "email" \in DOMAIN x BY <1>3 DEF IsSession
<1> QED BY <1>1, <1>2, <1>3

(* A request moves on, and names an account. *)
LEMMA Moves ==
  ASSUME LinkInv, CallsInv, NEW r \in Request, NEW call, Become(r, call), call.account \in Account,
         cookies' \subseteq Account
  PROVE  CallsInv'
<1>1. Outcome(call).account \in Account
  BY DEF Outcome, Call, Account
<1>2. req'[r] = Outcome(call) /\ \A q \in Request \ {r} : req'[q] = req[q]
  BY DEF Become, LinkInv
<1> QED BY <1>1, <1>2 DEF CallsInv

LEMMA Goes ==
  ASSUME LinkInv, CallsInv, NEW r \in Request, NEW pc, Go(r, pc), cookies' \subseteq Account
  PROVE  CallsInv'
<1> DEFINE c == [req[r] EXCEPT !.pc = pc]
<1>1. c.account = req[r].account BY DEF LinkInv, IsCall, CallFields
<1> QED BY <1>1, Moves DEF Go, CallsInv

LEMMA Starts ==
  ASSUME LinkInv, CallsInv, NEW r \in Request, NEW op, NEW pc, NEW a \in Account, NEW e, NEW p, NEW ref,
         Begin(r, Call(op, pc, a, e, p, ref)), UNCHANGED cookies
  PROVE  CallsInv'
<1> DEFINE c == Call(op, pc, a, e, p, ref)
<1>1. c.account = a BY DEF Call
<1>2. Become(r, c) BY DEF Begin
<1> HIDE DEF c
<1> QED BY <1>1, <1>2, Moves DEF CallsInv

LEMMA SameRows ==
  ASSUME RowsInv, UNCHANGED <<accounts, tokens, sessions, totp, googleLink>> PROVE RowsInv'
BY DEF RowsInv, RowsHaveAccount, OneSessionPerDevice, SameDevice, Exists

(* Rows of one table are written; those that refer to an account refer to    *)
(* one that is there.                                                        *)
LEMMA AccountsWritten ==
  ASSUME RowsInv, UNCHANGED <<tokens, sessions, totp, googleLink>>,
         accounts' = [a \in Account |-> accounts'[a]],
         \A a \in Account : (Exists(a) => Exists(a)') /\ (Exists(a)' => IsAccount(accounts'[a]))
  PROVE  RowsInv'
<1>1. RowsHaveAccount' BY DEF RowsInv, RowsHaveAccount
<1> QED BY <1>1 DEF RowsInv, OneSessionPerDevice, SameDevice

LEMMA TokensWritten ==
  ASSUME RowsInv, UNCHANGED <<accounts, sessions, totp, googleLink>>,
         \A t \in Request : tokens'[t] # NoRow =>
            tokens'[t].account \in Account /\ Exists(tokens'[t].account)
  PROVE  RowsInv'
<1>1. RowsHaveAccount' BY DEF RowsInv, RowsHaveAccount, Exists
<1> QED BY <1>1 DEF RowsInv, OneSessionPerDevice, SameDevice, Exists

LEMMA SessionsWritten ==
  ASSUME RowsInv, UNCHANGED <<accounts, tokens, totp, googleLink>>,
         sessions' = [s \in Request |-> sessions'[s]],
         \A s \in Request : sessions'[s] # NoRow =>
           /\ IsSession(sessions'[s]) /\ sessions'[s].account \in Account
           /\ Exists(sessions'[s].account),
         OneSessionPerDevice'
  PROVE  RowsInv'
<1>1. RowsHaveAccount' BY DEF RowsInv, RowsHaveAccount, Exists
<1> QED BY <1>1 DEF RowsInv, Exists

LEMMA SecretsWritten ==
  ASSUME RowsInv, UNCHANGED <<accounts, tokens, sessions, googleLink>>,
         totp' = [a \in Account |-> totp'[a]],
         \A a \in Account : totp'[a] # NoRow => Exists(a)
  PROVE  RowsInv'
<1>1. RowsHaveAccount' BY DEF RowsInv, RowsHaveAccount, Exists
<1> QED BY <1>1 DEF RowsInv, OneSessionPerDevice, SameDevice, Exists

LEMMA PasswordWritten ==
  ASSUME LinkInv, CallsInv, RowsInv, NEW r \in Request, NEW p,
         accounts' = IF Exists(req[r].account)
                     THEN [accounts EXCEPT ![req[r].account].password = p] ELSE accounts,
         UNCHANGED <<tokens, sessions, totp, googleLink>>
  PROVE  RowsInv'
<1>1. CASE ~Exists(req[r].account) BY <1>1, SameRows
<1>2. CASE Exists(req[r].account)
  <2>1. PICK a : a = req[r].account OBVIOUS
  <2>2. a \in Account /\ IsAccount(accounts[a]) BY <1>2, <2>1 DEF CallsInv, RowsInv
  <2>3. PICK row : row = [accounts[a] EXCEPT !.password = p] OBVIOUS
  <2>4. IsAccount(row) BY <2>2, <2>3 DEF IsAccount
  <2>5. accounts' = [accounts EXCEPT ![a] = row] BY <1>2, <2>1, <2>3
  <2>6. accounts' = [x \in Account |-> accounts'[x]] /\ accounts'[a] = row
        /\ \A x \in Account \ {a} : accounts'[x] = accounts[x]
    BY <2>2, <2>5 DEF RowsInv
  <2> QED BY <2>4, <2>6, IsNoRow, AccountsWritten DEF RowsInv, Exists
<1> QED BY <1>1, <1>2

(* An endpoint starts with a look at the tables; four of them write.         *)
LEMMA EndpointCalls ==
  ASSUME OwnedInv, NEW r \in Request, Endpoint(r)
  PROVE  CallsInv'
<1> USE DEF OwnedInv
<1>1. 0 \in Account /\ cookies \subseteq Account BY DEF Account, CallsInv
<1>2. \A e : Owners(e) \subseteq Account BY DEF Owners
<1>3. \A t \in Request : tokens[t] # NoRow => tokens[t].account \in Account BY DEF RowsInv
<1>4. CASE RequestSignup(r) BY <1>1, <1>4, Starts DEF RequestSignup, ReadsOnly
<1>5. CASE ConfirmSignup(r) BY <1>1, <1>5, Starts DEF ConfirmSignup, ReadsOnly
<1>6. CASE LegacySignup(r) BY <1>1, <1>6, Starts DEF LegacySignup, ReadsOnly
<1>7. CASE RequestMagicLink(r) BY <1>1, <1>2, <1>7, Starts DEF RequestMagicLink, AskForLink, ReadsOnly
<1>8. CASE ConsumeMagicLink(r) BY <1>3, <1>8, Starts DEF ConsumeMagicLink, PresentLink, ReadsOnly
<1>9. CASE RequestPasswordReset(r)
  BY <1>1, <1>2, <1>9, Starts DEF RequestPasswordReset, AskForLink, ReadsOnly
<1>10. CASE ConfirmPasswordReset(r)
  BY <1>3, <1>10, Starts DEF ConfirmPasswordReset, PresentLink, ReadsOnly
<1>11. CASE LoginPassword(r) BY <1>1, <1>2, <1>11, Starts DEF LoginPassword, ReadsOnly
<1>12. CASE GoogleInitiate(r) BY <1>1, <1>12, Starts DEF GoogleInitiate
<1>13. CASE GoogleCallback(r) BY <1>1, <1>13, Starts DEF GoogleCallback, ReadsOnly
<1>14. CASE ChangePassword(r) BY <1>1, <1>14, Starts DEF ChangePassword, ReadsOnly
<1>15. CASE RequestEmailChange(r) BY <1>1, <1>15, Starts DEF RequestEmailChange, ReadsOnly
<1>16. CASE ConfirmEmailChange(r) BY <1>1, <1>16, Starts DEF ConfirmEmailChange, ReadsOnly
<1>17. CASE SetupTotp(r) BY <1>1, <1>17, Starts DEF SetupTotp, ReadsOnly
<1>18. CASE VerifyTotp(r) BY <1>1, <1>18, Starts DEF VerifyTotp, ReadsOnly
<1>19. CASE DisableTotp(r) BY <1>1, <1>19, Starts DEF DisableTotp
<1>20. CASE EndSession(r) BY <1>1, <1>20, Starts DEF EndSession
<1>21. CASE FindOwnSession(r) BY <1>1, <1>21, Starts DEF FindOwnSession, ReadsOnly
<1>22. CASE DeleteAccount(r) BY <1>1, <1>22, Starts DEF DeleteAccount, ReadsOnly
<1>23. CASE SetActive(r) BY <1>1, <1>23, Starts DEF SetActive
<1>24. CASE FillProfile(r) BY <1>1, <1>24, Starts DEF FillProfile, ReadsOnly
<1> QED BY <1>4, <1>5, <1>6, <1>7, <1>8, <1>9, <1>10, <1>11, <1>12, <1>13, <1>14, <1>15, <1>16, <1>17,
           <1>18, <1>19, <1>20, <1>21, <1>22, <1>23, <1>24 DEF Endpoint

(* The rest of a request keeps to its account, but for the three steps that  *)
(* find one.                                                                 *)
LEMMA ContinueCalls ==
  ASSUME OwnedInv, NEW r \in Request, Continue(r)
  PROVE  CallsInv'
<1> USE DEF OwnedInv
<1>1. cookies' \subseteq Account
  <2>1. cookies \cup {req[r].account} \subseteq Account BY DEF CallsInv
  <2> QED BY <2>1
          DEF Continue, CallsInv, GrantCookie, ReadsOnly, StoreSignupCode, FindActive, FindRow, WriteRow, Reload,
              SpendSignupCode, InsertToken, FindOwner, SpendMagicLink, SpendToken, SetPassword,
              SpendResetLink, Rehash, OpenSession, AddHistory, AddFailedHistory, DropState, FindGoogle,
              FindLinked, LinkGoogle, CheckFree, SpendAddressCode, SetEmail, StoreSecret, MarkVerified,
              EndAllOthers, EraseAccount, StoreProfile
<1>2. ASSUME NEW pc, Go(r, pc) PROVE CallsInv' BY <1>1, <1>2, Goes
<1>3. IsCall(req[r]) /\ req[r].account \in Account BY DEF LinkInv, CallsInv
<1>4. CASE FindRow(r)
  <2>1. ASSUME NEW row, Become(r, [req[r] EXCEPT !.pc = "writeRow", !.seen = row]) PROVE CallsInv'
    <3> DEFINE c == [req[r] EXCEPT !.pc = "writeRow", !.seen = row]
    <3>1. c.account = req[r].account BY <1>3 DEF IsCall, CallFields
    <3> QED BY <1>1, <1>3, <2>1, <3>1, Moves
  <2> QED BY <1>2, <1>4, <2>1 DEF FindRow
<1>5. CASE Reload(r)
  <2>1. ASSUME NEW a \in Account, NEW pc,
               Become(r, [req[r] EXCEPT !.account = a, !.seen = NoRow, !.pc = pc])
        PROVE  CallsInv'
    <3> DEFINE c == [req[r] EXCEPT !.account = a, !.seen = NoRow, !.pc = pc]
    <3>1. c.account = a BY <1>3 DEF IsCall, CallFields
    <3> QED BY <1>1, <2>1, <3>1, Moves
  <2>2. Owners(req[r].email) \subseteq Account BY DEF Owners
  <2> QED BY <1>2, <1>5, <2>1, <2>2 DEF Reload
<1>6. CASE FindGoogle(r)
  <2>1. ASSUME NEW a \in Account, Become(r, [req[r] EXCEPT !.account = a, !.pc = "findLinked"])
        PROVE  CallsInv'
    <3> DEFINE c == [req[r] EXCEPT !.account = a, !.pc = "findLinked"]
    <3>1. c.account = a BY <1>3 DEF IsCall, CallFields
    <3> QED BY <1>1, <2>1, <3>1, Moves
  <2>2. \A g \in Identities(r) : googleLink[g] \in Account \cup {Nil} BY DEF Identities, RowsInv
  <2> QED BY <1>2, <1>6, <2>1, <2>2 DEF FindGoogle
<1>7. ASSUME NEW e, NEW pc, Become(r, [req[r] EXCEPT !.email = e, !.pc = pc]) PROVE CallsInv'
  <2> DEFINE c == [req[r] EXCEPT !.email = e, !.pc = pc]
  <2>1. c.account = req[r].account BY <1>3 DEF IsCall, CallFields
  <2> QED BY <1>1, <1>3, <1>7, <2>1, Moves
<1>8. CASE FindLinked(r) \/ FindOwner(r) BY <1>2, <1>7, <1>8 DEF FindLinked, FindOwner
<1>9. CASE ~(FindRow(r) \/ Reload(r) \/ FindGoogle(r) \/ FindLinked(r) \/ FindOwner(r))
  <2>1. \E pc : Go(r, pc)
    BY <1>9 DEF Continue, StoreSignupCode, FindActive, WriteRow, GoIf,
              SpendSignupCode, InsertToken, SpendMagicLink, SpendToken, SetPassword,
              SpendResetLink, Rehash, OpenSession, AddHistory, AddFailedHistory, DropState,
              LinkGoogle, CheckFree, SpendAddressCode, SetEmail, StoreSecret, MarkVerified,
              EndAllOthers, EraseAccount, StoreProfile
  <2> QED BY <1>2, <2>1
<1> QED BY <1>4, <1>5, <1>6, <1>8, <1>9

(* Sign-in: the other sessions of the device have ended in the transaction   *)
(* that starts the new one.                                                  *)
LEMMA OpenSessionRows ==
  ASSUME OwnedInv, NEW r \in Request, OpenSession(r) PROVE RowsInv'
<1> USE DEF OwnedInv
<1>1. UNCHANGED <<accounts, tokens, totp, googleLink>> BY DEF OpenSession
<1>2. CASE UNCHANGED sessions BY <1>1, <1>2, SameRows
<1>3. CASE sessions' # sessions
  <2>1. PICK a : a = req[r].account OBVIOUS
  <2>2. a \in Account /\ Exists(a) BY <1>3, <2>1 DEF CallsInv, OpenSession
  <2>3. PICK d \in Device :
          sessions' = [s \in Request |->
               IF s = r THEN [account |-> a, email |-> req[r].email, device |-> d, active |-> TRUE]
               ELSE IF /\ sessions[s] # NoRow
                       /\ sessions[s].account = a /\ sessions[s].device = d
                    THEN [sessions[s] EXCEPT !.active = FALSE]
                    ELSE sessions[s]]
    BY <1>3, <2>1 DEF OpenSession
  <2>4. PICK new : new = [account |-> a, email |-> req[r].email, device |-> d, active |-> TRUE] OBVIOUS
  <2>5. IsSession(new) /\ new.account = a /\ new.device = d BY <2>4 DEF IsSession
  <2>6. sessions'[r] = new BY <2>3, <2>4
  <2>7. ASSUME NEW s \in Request \ {r}, sessions'[s] # NoRow
        PROVE  /\ sessions[s] # NoRow /\ IsSession(sessions'[s])
               /\ sessions'[s].account = sessions[s].account /\ sessions'[s].device = sessions[s].device
               /\ sessions'[s].active => sessions[s].active
                                         /\ ~(sessions[s].account = a /\ sessions[s].device = d)
    <3>1. CASE sessions[s] # NoRow /\ sessions[s].account = a /\ sessions[s].device = d
      <4>1. sessions'[s] = [sessions[s] EXCEPT !.active = FALSE] BY <2>3, <3>1
      <4>2. IsSession(sessions[s]) BY <3>1 DEF RowsInv
      <4> QED BY <3>1, <4>1, <4>2 DEF IsSession
    <3>2. CASE ~(sessions[s] # NoRow /\ sessions[s].account = a /\ sessions[s].device = d)
      BY <2>3, <2>7, <3>2 DEF RowsInv
    <3> QED BY <3>1, <3>2
  <2>8. ASSUME NEW s \in Request, sessions'[s] # NoRow
        PROVE  /\ IsSession(sessions'[s]) /\ sessions'[s].account \in Account
               /\ Exists(sessions'[s].account)
    <3>1. CASE s = r BY <2>2, <2>5, <2>6, <3>1
    <3>2. CASE s # r BY <2>7, <2>8, <3>2 DEF RowsInv, RowsHaveAccount
    <3> QED BY <3>1, <3>2
  <2>9. ASSUME NEW s \in Request, NEW t \in Request, sessions'[s] # NoRow, sessions'[s].active,
               sessions'[t] # NoRow, sessions'[t].active, SameDevice(s, t)'
        PROVE  s = t
    <3>1. CASE s # r /\ t # r
      BY <2>7, <2>9, <3>1 DEF RowsInv, OneSessionPerDevice, SameDevice
    <3>2. CASE s = r /\ t # r BY <2>5, <2>6, <2>7, <2>9, <3>2 DEF SameDevice
    <3>3. CASE s # r /\ t = r BY <2>5, <2>6, <2>7, <2>9, <3>3 DEF SameDevice
    <3> QED BY <3>1, <3>2, <3>3
  <2>10. OneSessionPerDevice' BY <2>9 DEF OneSessionPerDevice
  <2> QED BY <1>1, <2>3, <2>8, <2>10, SessionsWritten
<1> QED BY <1>2, <1>3

(* Sessions that end stay those of their account.                            *)
LEMMA SessionsEnd ==
  ASSUME OwnedInv, UNCHANGED <<accounts, tokens, totp, googleLink>>,
         sessions' = [s \in Request |-> sessions'[s]],
         \A s \in Request : \/ sessions'[s] = sessions[s]
                            \/ sessions[s] # NoRow /\ sessions'[s] = [sessions[s] EXCEPT !.active = FALSE]
  PROVE  RowsInv'
<1> USE DEF OwnedInv
<1>1. ASSUME NEW s \in Request, sessions'[s] # NoRow
      PROVE  /\ sessions[s] # NoRow /\ IsSession(sessions'[s])
             /\ sessions'[s].account = sessions[s].account /\ sessions'[s].device = sessions[s].device
             /\ sessions'[s].active => sessions[s].active
  <2>1. CASE sessions'[s] = sessions[s] BY <1>1, <2>1 DEF RowsInv
  <2>2. CASE sessions[s] # NoRow /\ sessions'[s] = [sessions[s] EXCEPT !.active = FALSE]
    <3>1. IsSession(sessions[s]) BY <2>2 DEF RowsInv
    <3> QED BY <2>2, <3>1 DEF IsSession
  <2> QED BY <2>1, <2>2
<1>2. OneSessionPerDevice' BY <1>1 DEF RowsInv, OneSessionPerDevice, SameDevice
<1> QED BY <1>1, <1>2, SessionsWritten DEF RowsInv, RowsHaveAccount

LEMMA EndpointRows ==
  ASSUME OwnedInv, NEW r \in Request, Endpoint(r)
  PROVE  RowsInv'
<1> USE DEF OwnedInv
<1>1. CASE EndSession(r)
  <2>1. PICK s \in Request :
          sessions' = IF sessions[s] # NoRow /\ sessions[s].active /\ sessions' # sessions
                      THEN [sessions EXCEPT ![s].active = FALSE] ELSE sessions
    BY <1>1 DEF EndSession
  <2>2. sessions' = [t \in Request |-> sessions'[t]]
        /\ \A t \in Request : \/ sessions'[t] = sessions[t]
                              \/ sessions[t] # NoRow /\ sessions'[t] = [sessions[t] EXCEPT !.active = FALSE]
    BY <2>1 DEF RowsInv
  <2> QED BY <1>1, <2>2, SessionsEnd DEF EndSession
<1>2. CASE DisableTotp(r)
  <2>1. PICK a \in cookies : totp' = [totp EXCEPT ![a] = NoRow] BY <1>2 DEF DisableTotp
  <2>2. totp' = [x \in Account |-> totp'[x]] /\ \A x \in Account : totp'[x] \in {totp[x], NoRow}
    BY <2>1 DEF RowsInv
  <2> QED BY <1>2, <2>2, SecretsWritten DEF DisableTotp, RowsInv, RowsHaveAccount
<1>3. CASE SetActive(r)
  <2>1. PICK e \in Email, active \in BOOLEAN :
          accounts' = [a \in Account |->
            IF a \in Owners(e) THEN [accounts[a] EXCEPT !.active = active] ELSE accounts[a]]
    BY <1>3 DEF SetActive
  <2>2. ASSUME NEW a \in Account
        PROVE  (Exists(a) => Exists(a)') /\ (Exists(a)' => IsAccount(accounts'[a]))
    <3>1. CASE a \in Owners(e)
      <4>1. IsAccount(accounts[a]) BY <3>1 DEF Owners, RowsInv
      <4>2. IsAccount([accounts[a] EXCEPT !.active = active]) BY <4>1 DEF IsAccount
      <4> QED BY <2>1, <3>1, <4>2, IsNoRow DEF Exists
    <3>2. CASE a \notin Owners(e) BY <2>1, <3>2 DEF RowsInv, Exists
    <3> QED BY <3>1, <3>2
  <2> QED BY <1>3, <2>1, <2>2, AccountsWritten DEF SetActive
<1>4. CASE ~(EndSession(r) \/ DisableTotp(r) \/ SetActive(r))
  BY <1>4, SameRows DEF Endpoint,
       RequestSignup, ConfirmSignup, LegacySignup, RequestMagicLink, ConsumeMagicLink, RequestPasswordReset,
       ConfirmPasswordReset, LoginPassword, GoogleInitiate, GoogleCallback, ChangePassword,
       RequestEmailChange, ConfirmEmailChange, SetupTotp, VerifyTotp, FindOwnSession, DeleteAccount,
       FillProfile, AskForLink, PresentLink, ReadsOnly, tables
<1> QED BY <1>1, <1>2, <1>3, <1>4

(* A token is spent, or gets too old: it stays the token of its account.     *)
LEMMA TokenChanges ==
  ASSUME OwnedInv, NEW t \in Request, tokens[t] # NoRow,
         NEW row, row.account = tokens[t].account, tokens' = [tokens EXCEPT ![t] = row],
         UNCHANGED <<accounts, sessions, totp, googleLink>>
  PROVE  RowsInv'
<1> USE DEF OwnedInv
<1>1. tokens = [u \in Request |-> tokens[u]] BY DEF LinkInv
<1>2. ASSUME NEW u \in Request, tokens'[u] # NoRow
      PROVE  tokens[u] # NoRow /\ tokens'[u].account = tokens[u].account
  BY <1>1, <1>2
<1> QED BY <1>2, TokensWritten DEF RowsInv, RowsHaveAccount

LEMMA TokenSpent ==
  ASSUME OwnedInv, NEW r \in Request, NEW t \in Request, tokens[t] # NoRow,
         tokens' = [tokens EXCEPT ![t].spentAt = r],
         UNCHANGED <<accounts, sessions, totp, googleLink>>
  PROVE  RowsInv'
<1>1. IsToken(tokens[t]) BY DEF OwnedInv, LinkInv
<1>2. [tokens[t] EXCEPT !.spentAt = r].account = tokens[t].account
  BY <1>1 DEF IsToken
<1>3. tokens' = [tokens EXCEPT ![t] = [tokens[t] EXCEPT !.spentAt = r]] OBVIOUS
<1> QED BY <1>2, <1>3, TokenChanges

LEMMA InsertTokenRows == ASSUME OwnedInv, NEW r \in Request, InsertToken(r) PROVE RowsInv'
<1> USE DEF OwnedInv
<1>1. UNCHANGED <<accounts, sessions, totp, googleLink>> BY DEF InsertToken
<1>2. CASE tokens' = tokens BY <1>1, <1>2, SameRows
<1>3. CASE tokens' # tokens
  <2>1. Exists(req[r].account) /\ req[r].account \in Account BY <1>3 DEF InsertToken, CallsInv
  <2>2. PICK kind, e : tokens' = [tokens EXCEPT ![r] = NewToken(kind, req[r].account, e)]
    BY <1>3 DEF InsertToken
  <2>3. NewToken(kind, req[r].account, e).account = req[r].account BY DEF NewToken
  <2>4. tokens'[r] = NewToken(kind, req[r].account, e) /\ \A t \in Request \ {r} : tokens'[t] = tokens[t]
    BY <2>2 DEF LinkInv
  <2> QED BY <1>1, <2>1, <2>3, <2>4, TokensWritten DEF RowsInv, RowsHaveAccount
<1> QED BY <1>2, <1>3

LEMMA WriteRowRows == ASSUME OwnedInv, NEW r \in Request, WriteRow(r) PROVE RowsInv'
<1> USE DEF OwnedInv
<1>1. UNCHANGED <<tokens, sessions, totp, googleLink>> BY DEF WriteRow
<1>2. r \in Account BY DEF Account
<1>3. ASSUME NEW p, NEW kept
      PROVE  IsAccount([email |-> req[r].email, password |-> p, active |-> TRUE, kept |-> kept])
  BY DEF IsAccount
<1>4. CASE accounts' = accounts BY <1>1, <1>4, SameRows
<1>5. ASSUME NEW p, accounts' = [accounts EXCEPT ![r] =
                     [email |-> req[r].email, password |-> p, active |-> TRUE, kept |-> FALSE]]
      PROVE  RowsInv'
  <2>1. PICK new : new = [email |-> req[r].email, password |-> p, active |-> TRUE, kept |-> FALSE]
    OBVIOUS
  <2>2. IsAccount(new) BY <1>3, <2>1
  <2>3. accounts' = [x \in Account |-> accounts'[x]] /\ accounts'[r] = new
        /\ \A x \in Account \ {r} : accounts'[x] = accounts[x]
    BY <1>2, <1>5, <2>1 DEF RowsInv
  <2> QED BY <1>1, <2>2, <2>3, IsNoRow, AccountsWritten DEF RowsInv, Exists
<1>6. ASSUME NEW p, accounts' = [a \in Account |->
               IF a \in Owners(req[r].email)
               THEN [email |-> req[r].email, password |-> p, active |-> TRUE,
                     kept |-> accounts[a].kept]
               ELSE accounts[a]]
      PROVE  RowsInv'
  <2>1. accounts' = [x \in Account |-> accounts'[x]] BY <1>6
  <2>2. \A x \in Account : IsAccount(accounts'[x]) \/ accounts'[x] = accounts[x]
    BY <1>3, <1>6
  <2>3. \A x \in Account : accounts'[x] = accounts[x] \/ accounts'[x] # NoRow
    BY <2>2, IsNoRow
  <2> QED BY <1>1, <2>1, <2>2, <2>3, IsNoRow, AccountsWritten DEF RowsInv, Exists
<1>7. CASE req[r].seen = NoRow BY <1>4, <1>5, <1>7 DEF WriteRow
<1>8. CASE req[r].seen # NoRow
  <2>1. PICK p : p = IF req[r].password = Nil THEN req[r].seen.password ELSE req[r].password OBVIOUS
  <2> QED BY <1>6, <1>8, <2>1 DEF WriteRow
<1> QED BY <1>7, <1>8

LEMMA SetEmailRows == ASSUME OwnedInv, NEW r \in Request, SetEmail(r) PROVE RowsInv'
<1> USE DEF OwnedInv
<1>1. UNCHANGED <<tokens, sessions, totp, googleLink>> BY DEF SetEmail
<1>2. PICK a : a = req[r].account OBVIOUS
<1>3. CASE accounts' = accounts BY <1>1, <1>3, SameRows
<1>4. CASE accounts' # accounts
  <2>1. Exists(a) /\ accounts' = [accounts EXCEPT ![a].email = req[r].email] BY <1>2, <1>4 DEF SetEmail
  <2>2. a \in Account /\ IsAccount(accounts[a]) BY <1>2, <2>1 DEF CallsInv, RowsInv
  <2>3. PICK row : row = [accounts[a] EXCEPT !.email = req[r].email] OBVIOUS
  <2>4. IsAccount(row) BY <2>2, <2>3 DEF IsAccount
  <2>5. accounts' = [accounts EXCEPT ![a] = row] BY <2>1, <2>3
  <2>6. accounts' = [x \in Account |-> accounts'[x]] /\ accounts'[a] = row
        /\ \A x \in Account \ {a} : accounts'[x] = accounts[x]
    BY <2>2, <2>5 DEF RowsInv
  <2> QED BY <1>1, <2>4, <2>6, IsNoRow, AccountsWritten DEF RowsInv, Exists
<1> QED BY <1>3, <1>4

(* delete_subscriber_account: whatever refers to the account goes with it;   *)
(* with a link or a profile left nothing is deleted at all.                  *)
LEMMA EraseRows == ASSUME OwnedInv, NEW r \in Request, EraseAccount(r) PROVE RowsInv'
<1> USE DEF OwnedInv
<1>1. PICK a : a = req[r].account OBVIOUS
<1>2. a \in Account BY <1>1 DEF CallsInv
<1>3. CASE UNCHANGED <<accounts, tokens, sessions, totp, googleLink>> BY <1>3, SameRows
<1>4. CASE ~UNCHANGED <<accounts, tokens, sessions, totp, googleLink>>
  <2>1. /\ accounts' = [accounts EXCEPT ![a] = NoRow]
        /\ tokens' = [t \in Request |->
             IF tokens[t] # NoRow /\ tokens[t].account = a THEN NoRow ELSE tokens[t]]
        /\ sessions' = [s \in Request |->
             IF sessions[s] # NoRow /\ sessions[s].account = a THEN NoRow ELSE sessions[s]]
        /\ totp' = [totp EXCEPT ![a] = NoRow]
        /\ googleLink' = [g \in GoogleUser |-> IF googleLink[g] = a THEN Nil ELSE googleLink[g]]
    BY <1>1, <1>4 DEF EraseAccount
  <2>2. /\ accounts' = [x \in Account |-> accounts'[x]] /\ ~Exists(a)'
        /\ \A x \in Account \ {a} : accounts'[x] = accounts[x]
    BY <1>2, <2>1 DEF RowsInv, Exists
  <2>3. \A s \in Request : sessions'[s] # NoRow => sessions'[s] = sessions[s] /\ sessions[s].account # a
    BY <2>1
  <2>4. \A t \in Request : tokens'[t] # NoRow => tokens'[t] = tokens[t] /\ tokens[t].account # a
    BY <2>1
  <2>5. totp' = [x \in Account |-> totp'[x]] /\ totp'[a] = NoRow
        /\ \A x \in Account \ {a} : totp'[x] = totp[x]
    BY <1>2, <2>1 DEF RowsInv
  <2>6. googleLink' \in [GoogleUser -> Account \cup {Nil}]
        /\ \A g \in GoogleUser : googleLink'[g] # Nil => googleLink'[g] = googleLink[g] /\ googleLink[g] # a
    BY <2>1 DEF RowsInv
  <2>7. \A x \in Account \ {a} : Exists(x)' <=> Exists(x) BY <2>2 DEF Exists
  <2>8. RowsHaveAccount' BY <2>3, <2>4, <2>5, <2>6, <2>7 DEF RowsInv, RowsHaveAccount
  <2>9. OneSessionPerDevice' BY <2>3 DEF RowsInv, OneSessionPerDevice, SameDevice
  <2>10. sessions' = [s \in Request |-> sessions'[s]] BY <2>1
  <2>11. \A x \in Account : Exists(x)' => IsAccount(accounts'[x]) BY <2>2, <2>7 DEF RowsInv
  <2> QED BY <2>2, <2>3, <2>4, <2>5, <2>6, <2>8, <2>9, <2>10, <2>11 DEF RowsInv
<1> QED BY <1>3, <1>4

LEMMA ContinueRows ==
  ASSUME OwnedInv, NEW r \in Request, Continue(r)
  PROVE  RowsInv'
<1> USE DEF OwnedInv
<1>1. req[r].account \in Account BY DEF CallsInv
<1>2. CASE SetPassword(r) BY <1>2, PasswordWritten DEF SetPassword
<1>3. CASE Rehash(r) BY <1>3, PasswordWritten DEF Rehash
<1>4. CASE StoreSecret(r)
  <2>1. PICK a : a = req[r].account OBVIOUS
  <2>2. CASE UNCHANGED totp BY <1>4, <2>2, SameRows DEF StoreSecret
  <2>3. CASE ~UNCHANGED totp
    <3>1. Exists(a) /\ totp' = [totp EXCEPT ![a] = [secret |-> r, verified |-> FALSE]]
      BY <1>4, <2>1, <2>3 DEF StoreSecret
    <3>2. totp' = [x \in Account |-> totp'[x]] /\ \A x \in Account \ {a} : totp'[x] = totp[x]
      BY <3>1 DEF RowsInv
    <3> QED BY <1>4, <3>1, <3>2, SecretsWritten DEF StoreSecret, RowsInv, RowsHaveAccount
  <2> QED BY <2>2, <2>3
<1>5. CASE MarkVerified(r)
  <2>1. PICK a : a = req[r].account OBVIOUS
  <2>2. CASE UNCHANGED totp BY <1>5, <2>2, SameRows DEF MarkVerified
  <2>3. CASE ~UNCHANGED totp
    <3>1. totp[a] # NoRow /\ totp' = [totp EXCEPT ![a].verified = TRUE]
      BY <1>5, <2>1, <2>3 DEF MarkVerified
    <3>2. totp' = [x \in Account |-> totp'[x]] /\ \A x \in Account \ {a} : totp'[x] = totp[x]
      BY <3>1 DEF RowsInv
    <3> QED BY <1>5, <3>1, <3>2, SecretsWritten DEF MarkVerified, RowsInv, RowsHaveAccount
  <2> QED BY <2>2, <2>3
<1>6. CASE LinkGoogle(r)
  <2>1. PICK g \in Identities(r) :
          googleLink' = IF googleLink[g] = Nil /\ Exists(req[r].account)
                        THEN [googleLink EXCEPT ![g] = req[r].account] ELSE googleLink
    BY <1>6 DEF LinkGoogle
  <2>2. googleLink' \in [GoogleUser -> Account \cup {Nil}]
        /\ \A h \in GoogleUser : googleLink'[h] # Nil => Exists(googleLink'[h])
    BY <1>1, <2>1 DEF RowsInv, RowsHaveAccount
  <2>3. UNCHANGED <<accounts, tokens, sessions, totp>> BY <1>6 DEF LinkGoogle
  <2>4. RowsHaveAccount' BY <2>2, <2>3 DEF RowsInv, RowsHaveAccount, Exists
  <2> QED BY <2>2, <2>3, <2>4 DEF RowsInv, OneSessionPerDevice, SameDevice, Exists
<1>7. ASSUME NEW next, SpendToken(r, next), req[r].pc \in {"spendLink", "spendReset"} PROVE RowsInv'
  <2>1. req[r].ref \in Request /\ IsToken(tokens[req[r].ref]) BY <1>7 DEF LinkInv, Holds
  <2>2. CASE UNCHANGED tokens BY <1>7, <2>2, SameRows DEF SpendToken
  <2>3. CASE ~UNCHANGED tokens
    <3>1. tokens' = [tokens EXCEPT ![req[r].ref].spentAt = r] BY <1>7, <2>3 DEF SpendToken
    <3>2. PICK t : t = req[r].ref OBVIOUS
    <3> QED BY <1>7, <2>1, <3>1, <3>2, NoRowIsNoToken, TokenSpent DEF SpendToken
  <2> QED BY <2>2, <2>3
<1>8. CASE SpendMagicLink(r) BY <1>7, <1>8 DEF SpendMagicLink, At
<1>9. CASE SpendResetLink(r) BY <1>7, <1>9 DEF SpendResetLink, At
<1>10. CASE SpendAddressCode(r)
  <2>1. PICK t : t = req[r].ref OBVIOUS
  <2>2. t \in Request BY <1>10, <2>1 DEF SpendAddressCode, At, LinkInv, Holds
  <2>3. CASE UNCHANGED tokens BY <1>10, <2>3, SameRows DEF SpendAddressCode
  <2>4. CASE ~UNCHANGED tokens
    BY <1>10, <2>1, <2>2, <2>4, TokenSpent DEF SpendAddressCode
  <2> QED BY <2>3, <2>4
<1>11. CASE EndAllOthers(r)
  <2>1. sessions' = [s \in Request |-> sessions'[s]] BY <1>11 DEF EndAllOthers
  <2>2. \A s \in Request : \/ sessions'[s] = sessions[s]
                           \/ sessions[s] # NoRow /\ sessions'[s] = [sessions[s] EXCEPT !.active = FALSE]
    BY <1>11 DEF EndAllOthers
  <2> QED BY <1>11, <2>1, <2>2, SessionsEnd DEF EndAllOthers
<1>12. CASE StoreSignupCode(r) \/ FindActive(r) \/ FindRow(r) \/ Reload(r) \/ SpendSignupCode(r)
            \/ FindOwner(r) \/ AddHistory(r) \/ AddFailedHistory(r) \/ DropState(r) \/ FindGoogle(r)
            \/ FindLinked(r) \/ CheckFree(r)
  BY <1>12, SameRows DEF StoreSignupCode, FindActive, FindRow, Reload, SpendSignupCode, FindOwner, AddHistory,
       AddFailedHistory, DropState, FindGoogle, FindLinked, CheckFree, ReadsOnly, tables
<1>13. CASE StoreProfile(r)
  <2>1. PICK a : a = req[r].account OBVIOUS
  <2>2. CASE UNCHANGED accounts BY <1>13, <2>2, SameRows DEF StoreProfile
  <2>3. CASE ~UNCHANGED accounts
    <3>1. Exists(a) /\ accounts' = [accounts EXCEPT ![a].kept = TRUE]
      BY <1>13, <2>1, <2>3 DEF StoreProfile
    <3>2. a \in Account /\ IsAccount(accounts[a]) BY <1>1, <2>1, <3>1 DEF RowsInv
    <3>3. PICK row : row = [accounts[a] EXCEPT !.kept = TRUE] OBVIOUS
    <3>4. IsAccount(row) BY <3>2, <3>3 DEF IsAccount
    <3>5. accounts' = [accounts EXCEPT ![a] = row] BY <3>1, <3>3
    <3>6. accounts' = [x \in Account |-> accounts'[x]] /\ accounts'[a] = row
          /\ \A x \in Account \ {a} : accounts'[x] = accounts[x]
      BY <3>2, <3>5 DEF RowsInv
    <3> QED BY <1>13, <3>4, <3>6, IsNoRow, AccountsWritten DEF StoreProfile, RowsInv, Exists
  <2> QED BY <2>2, <2>3
<1> QED BY <1>2, <1>3, <1>4, <1>5, <1>6, <1>8, <1>9, <1>10, <1>11, <1>12, <1>13, OpenSessionRows, InsertTokenRows,
           WriteRowRows, SetEmailRows, EraseRows DEF Continue


LEMMA OwnedKept == OwnedInv /\ [AccountsNext]_accountVars => OwnedInv'
<1> SUFFICES ASSUME OwnedInv, [AccountsNext]_accountVars PROVE OwnedInv' OBVIOUS
<1>1. LinkInv' BY StepKeeps DEF OwnedInv
<1>2. ASSUME NEW r \in Request, Endpoint(r) \/ Continue(r) PROVE CallsInv' /\ RowsInv'
  BY <1>2, EndpointCalls, ContinueCalls, EndpointRows, ContinueRows
<1>3. ASSUME NEW t \in Request, ExpireToken(t) PROVE CallsInv' /\ RowsInv'
  <2>1. PICK row : row = [tokens[t] EXCEPT !.expired = TRUE] OBVIOUS
  <2>2. IsToken(tokens[t]) BY <1>3 DEF ExpireToken, OwnedInv, LinkInv
  <2>3. row.account = tokens[t].account BY <2>1, <2>2 DEF IsToken
  <2>4. tokens' = [tokens EXCEPT ![t] = row] BY <1>3, <2>1 DEF ExpireToken
  <2> QED BY <1>3, <2>3, <2>4, TokenChanges DEF ExpireToken, OwnedInv, CallsInv
<1>4. ASSUME NEW e \in Email, ExpireSignup(e) PROVE CallsInv' /\ RowsInv'
  BY <1>4, SameRows DEF ExpireSignup, OwnedInv, CallsInv
<1>5. CASE StopServer
  <2>1. RowsInv' BY <1>5, SameRows DEF StopServer, tables, OwnedInv
  <2>2. ASSUME NEW q \in Request PROVE req'[q].account \in Account
    <3> DEFINE c == [req[q] EXCEPT !.pc = "raised"]
    <3>1. c.pc = "raised" BY DEF OwnedInv, LinkInv, IsCall, CallFields
    <3>2. Outcome(c).account = 0 BY <3>1 DEF Outcome, Call, Ended
    <3>3. req'[q] = IF q \in InFlight THEN Outcome(c) ELSE req[q] BY <1>5 DEF StopServer
    <3> QED BY <3>2, <3>3 DEF OwnedInv, CallsInv, Account
  <2> QED BY <1>1, <1>5, <2>1, <2>2 DEF StopServer, OwnedInv, CallsInv
<1>6. CASE UNCHANGED accountVars
  BY <1>1, <1>6, SameRows DEF accountVars, tables, OwnedInv, CallsInv
<1> QED BY <1>1, <1>2, <1>3, <1>4, <1>5, <1>6 DEF AccountsNext, OwnedInv

LEMMA InitOwned == AccountsInit => OwnedInv
<1> SUFFICES ASSUME AccountsInit PROVE OwnedInv OBVIOUS
<1>1. LinkInv BY InitKeeps
<1>2. CallsInv
  <2>1. \A q \in Request : req[q].account = 0 BY DEF AccountsInit, Call
  <2> QED BY <2>1 DEF CallsInv, Account, AccountsInit
<1>3. PICK e, p : accounts = [a \in Account |->
         IF a = 0 THEN [email |-> e, password |-> p, active |-> TRUE, kept |-> FALSE]
         ELSE NoRow]
  BY DEF AccountsInit
<1>4. IsAccount([email |-> e, password |-> p, active |-> TRUE, kept |-> FALSE]) BY DEF IsAccount
<1>5. accounts = [a \in Account |-> accounts[a]]
      /\ \A a \in Account : Exists(a) => IsAccount(accounts[a])
  BY <1>3, <1>4 DEF Exists
<1>6. (\A s \in Request : sessions[s] = NoRow /\ tokens[s] = NoRow) /\ (\A a \in Account : totp[a] = NoRow)
      /\ \A g \in GoogleUser : googleLink[g] = Nil
  BY DEF AccountsInit
<1>7. RowsHaveAccount /\ OneSessionPerDevice BY <1>6 DEF RowsHaveAccount, OneSessionPerDevice
<1>8. RowsInv BY <1>5, <1>6, <1>7 DEF RowsInv, AccountsInit
<1> QED BY <1>1, <1>2, <1>8 DEF OwnedInv

THEOREM OwnedInvariant == AccountsSpec => []OwnedInv
BY InitOwned, OwnedKept, PTL DEF AccountsSpec

(* create_session: a device is listed once, however sign-ins overlap.        *)
THEOREM OneSessionTheorem == AccountsSpec => []OneSessionPerDevice
<1>1. OwnedInv => OneSessionPerDevice BY DEF OwnedInv, RowsInv
<1> QED BY <1>1, OwnedInvariant, PTL

-----------------------------------------------------------------------------
(* Reading a CV: the lines of a document.                                  *)

TextPiece == [kind : Kind, from : Int, to : Int]
Places == Section \cup {None}

LEMMA PieceIs == \A p \in TextPiece : p.kind \in Kind /\ p.from \in Int /\ p.to \in Int
  BY DEF TextPiece

\* Line i of the document D is kept in the lines L, or repeats one before it.
KeptIn(D, L, i) ==
  \/ \E k \in 1..Len(L) : i \in L[k].from..L[k].to
  \/ \E k \in 1..Len(L) : L[k].to < i /\ L[k].kind = D[i]
  \/ \E k \in 1..Len(L), j \in {i - 1, i} \cap 1..(Len(D) - 1) : L[k].to < i /\ L[k].kind = Joined[<<D[j], D[j + 1]>>]

\* The lines come one after the other.
Follow(L) ==
  \A k \in 1..Len(L) : /\ 1 <= L[k].from /\ L[k].from <= L[k].to
                       /\ \A j \in 1..Len(L) : k < j => L[k].to < L[j].from

\* What is prepared before line n.
Prepared(D, L, n) ==
  /\ Follow(L) /\ \A k \in 1..Len(L) : L[k].to < n
  /\ \A i \in 1..(n - 1) : KeptIn(D, L, i)

\* A line more, alone or joined with the next, is added or repeats the last.
LEMMA LinePrepared ==
  ASSUME NEW D \in Seq(Kind), NEW L \in Seq(TextPiece), NEW n \in 1..Len(D), Prepared(D, L, n),
         NEW c \in TextPiece, c.from = n,
         \/ c.to = n /\ c.kind = D[n]
         \/ c.to = n + 1 /\ n < Len(D) /\ c.kind = Joined[<<D[n], D[n + 1]>>]
  PROVE  /\ Prepared(D, Append(L, c), c.to + 1)
         /\ L # <<>> /\ L[Len(L)].kind = c.kind => Prepared(D, L, c.to + 1)
<1>0. PICK m, M, N : m = Len(L) /\ M = Append(L, c) /\ N = Len(D)
  OBVIOUS
<1>a. m \in Nat /\ N \in Nat /\ n \in Nat
  BY <1>0
<1>b. M \in Seq(TextPiece) /\ Len(M) = m + 1 /\ M[m + 1] = c /\ \A k \in 1..m : M[k] = L[k]
  BY <1>0
<1>1. /\ m = Len(L) /\ m \in Nat /\ M = Append(L, c) /\ M \in Seq(TextPiece) /\ Len(M) = m + 1
      /\ N = Len(D) /\ N \in Nat /\ n \in Nat
      /\ M[m + 1] = c /\ \A k \in 1..m : M[k] = L[k]
  BY <1>0, <1>a, <1>b
<1>2. /\ \A k \in 1..m : L[k].from \in Int /\ L[k].to \in Int
      /\ c.from \in Int /\ c.to \in Int /\ c.to >= n
  <2>1. \A k \in 1..m : L[k] \in TextPiece
    BY <1>1
  <2> QED
    BY <1>1, <2>1, PieceIs
<1>3. /\ \A k \in 1..m : 1 <= L[k].from /\ L[k].from <= L[k].to /\ L[k].to < n
      /\ \A k, j \in 1..m : k < j => L[k].to < L[j].from
      /\ \A i \in 1..(n - 1) : KeptIn(D, L, i)
  BY <1>1 DEF Prepared, Follow
<1>4. Prepared(D, M, c.to + 1)
  <2>1. Follow(M)
    <3>1. ASSUME NEW k \in 1..(m + 1), NEW j \in 1..(m + 1), k < j PROVE M[k].to < M[j].from
      <4>0. k \in Int /\ j \in Int /\ 1 <= k /\ j <= m + 1 /\ k < j /\ m \in Int
        BY <1>1, <3>1
      <4>1. k \in 1..m /\ (j \in 1..m \/ j = m + 1)
        BY <4>0
      <4> QED
        BY <1>1, <1>2, <1>3, <3>1, <4>1
    <3>2. ASSUME NEW k \in 1..(m + 1) PROVE 1 <= M[k].from /\ M[k].from <= M[k].to
      <4>1. k \in 1..m \/ k = m + 1
        BY <1>1
      <4> QED
        BY <1>1, <1>2, <1>3, <4>1
    <3> QED
      BY <1>1, <3>1, <3>2 DEF Follow
  <2>2. \A k \in 1..Len(M) : M[k].to < c.to + 1
    <3> SUFFICES ASSUME NEW k \in 1..(m + 1) PROVE M[k].to < c.to + 1
      BY <1>1
    <3>1. k \in 1..m \/ k = m + 1
      BY <1>1
    <3> QED
      BY <1>1, <1>2, <1>3, <3>1
  <2>3. ASSUME NEW i \in 1..(c.to + 1 - 1) PROVE KeptIn(D, M, i)
    <3>1. CASE i < n
      <4>1. i \in 1..(n - 1) /\ KeptIn(D, L, i)
        BY <1>1, <1>2, <1>3, <3>1
      <4>2. \A k \in 1..Len(L) : k \in 1..Len(M) /\ M[k] = L[k]
        BY <1>1
      <4> QED
        BY <4>1, <4>2 DEF KeptIn
    <3>2. CASE i >= n
      <4>1. i \in c.from..c.to
        BY <1>1, <1>2, <3>2
      <4>2. m + 1 \in 1..Len(M) /\ M[m + 1] = c
        BY <1>1
      <4> QED
        BY <4>1, <4>2 DEF KeptIn
    <3> QED
      BY <1>1, <1>2, <3>1, <3>2
  <2>4. PICK T : T = c.to + 1
    OBVIOUS
  <2>5. /\ \A k \in 1..Len(M) : M[k].to < T
        /\ \A i \in 1..(T - 1) : KeptIn(D, M, i)
    BY <2>2, <2>3, <2>4
  <2>6. Prepared(D, M, T)
    BY <2>1, <2>5 DEF Prepared
  <2> QED
    BY <2>4, <2>6
<1>5. ASSUME L # <<>>, L[Len(L)].kind = c.kind PROVE Prepared(D, L, c.to + 1)
  <2>1. m \in 1..Len(L) /\ L[m].to < n /\ L[m].kind = c.kind
    BY <1>1, <1>3, <1>5
  <2>2. Follow(L) /\ \A k \in 1..Len(L) : L[k].to < c.to + 1
    BY <1>1, <1>2, <1>3 DEF Prepared
  <2>3. ASSUME NEW i \in 1..(c.to + 1 - 1) PROVE KeptIn(D, L, i)
    <3>1. CASE i < n
      BY <1>1, <1>2, <1>3, <3>1
    <3>2. CASE i >= n /\ c.to = n
      <4>1. i = n /\ L[m].to < i /\ L[m].kind = D[i]
        BY <1>1, <1>2, <2>1, <3>2
      <4> QED
        BY <2>1, <4>1 DEF KeptIn
    <3>3. CASE i >= n /\ c.to = n + 1
      <4>1. n \in {i - 1, i} /\ n \in 1..(Len(D) - 1) /\ L[m].to < i /\ L[m].kind = Joined[<<D[n], D[n + 1]>>]
        BY <1>1, <1>2, <2>1, <3>3
      <4> QED
        BY <2>1, <4>1 DEF KeptIn
    <3> QED
      BY <1>1, <1>2, <3>1, <3>2, <3>3
  <2> QED
    BY <2>2, <2>3 DEF Prepared
<1> QED
  BY <1>1, <1>4, <1>5

\* Where the first n lines are filed: each that is no heading has one place,
\* and no section has more pieces than there are lines.
FiledOf(F, L, n) ==
  /\ F \in [Places -> Seq(TextPiece)]
  /\ \A s \in Places : \A i \in 1..Len(F[s]) : i <= F[s][i].from /\ \E k \in 1..n : F[s][i].from = L[k].from
  /\ \A s, t \in Places : \A i \in 1..Len(F[s]), j \in 1..Len(F[t]) : F[s][i].from = F[t][j].from => s = t /\ i = j
  /\ \A k \in 1..n : Heading(L[k].kind) = None => \E s \in Places : \E i \in 1..Len(F[s]) : F[s][i].from = L[k].from

LEMMA LineFiled ==
  ASSUME NEW L \in Seq(TextPiece), Follow(L), NEW n \in 1..Len(L), NEW F, FiledOf(F, L, n - 1)
  PROVE  /\ \A s \in Places : \A p \in TextPiece :
              p.from = L[n].from => FiledOf([F EXCEPT ![s] = Append(@, p)], L, n)
         /\ Heading(L[n].kind) # None => FiledOf(F, L, n)
<1>1. PICK N : N = Len(L) /\ N \in Nat /\ n \in Nat /\ n >= 1 /\ n <= N
  OBVIOUS
<1>2. /\ F \in [Places -> Seq(TextPiece)]
      /\ \A s \in Places : \A i \in 1..Len(F[s]) : i <= F[s][i].from /\ \E k \in 1..(n - 1) : F[s][i].from = L[k].from
      /\ \A s, t \in Places : \A i \in 1..Len(F[s]), j \in 1..Len(F[t]) : F[s][i].from = F[t][j].from => s = t /\ i = j
      /\ \A k \in 1..(n - 1) : Heading(L[k].kind) = None =>
           \E s \in Places : \E i \in 1..Len(F[s]) : F[s][i].from = L[k].from
  BY DEF FiledOf
<1>3. \A k \in 1..(n - 1) : k \in 1..n /\ L[k].from \in Int /\ L[k].from < L[n].from
  <2>1. \A k \in 1..(n - 1) : k \in 1..N /\ k < n
    BY <1>1
  <2>a. \A k \in 1..N : L[k] \in TextPiece
    BY <1>1
  <2>2. \A k \in 1..N : L[k].from \in Int /\ L[k].to \in Int
    BY <2>a, PieceIs
  <2>3. \A k \in 1..(n - 1) : L[k].from <= L[k].to /\ L[k].to < L[n].from
    BY <1>1, <2>1 DEF Follow
  <2> QED
    BY <1>1, <2>1, <2>2, <2>3
<1>4. L[n].from \in Int /\ 1 <= L[n].from
  <2>1. L[n] \in TextPiece /\ n \in 1..Len(L)
    BY <1>1
  <2> QED
    BY <2>1, PieceIs DEF Follow
<1>5. \A k \in 1..n : k \in 1..(n - 1) \/ k = n
  BY <1>1
<1>6. ASSUME Heading(L[n].kind) # None PROVE FiledOf(F, L, n)
  BY <1>2, <1>3, <1>5, <1>6 DEF FiledOf
<1>7. ASSUME NEW s \in Places, NEW p \in TextPiece, p.from = L[n].from
      PROVE  FiledOf([F EXCEPT ![s] = Append(@, p)], L, n)
  <2>a. PICK G, m : G = [F EXCEPT ![s] = Append(@, p)] /\ m = Len(F[s])
    OBVIOUS
  <2>b. F[s] \in Seq(TextPiece)
    BY <1>2
  <2>1. G = [F EXCEPT ![s] = Append(@, p)] /\ m = Len(F[s]) /\ m \in Nat
    BY <2>a, <2>b
  <2>2. /\ G \in [Places -> Seq(TextPiece)] /\ Len(G[s]) = m + 1 /\ G[s][m + 1] = p
        /\ \A i \in 1..m : G[s][i] = F[s][i]
        /\ \A t \in Places : t # s => G[t] = F[t]
    BY <1>2, <2>1
  <2>3. \A t \in Places : \A i \in 1..Len(G[t]) : \/ i \in 1..Len(F[t]) /\ G[t][i] = F[t][i]
                                                  \/ t = s /\ i = m + 1 /\ G[t][i] = p
    BY <2>1, <2>2
  <2>4. \A t \in Places : \A i \in 1..Len(F[t]) : i \in 1..Len(G[t]) /\ G[t][i] = F[t][i]
    BY <2>1, <2>2
  <2>5. \A t \in Places : \A i \in 1..Len(F[t]) : F[t][i].from \in Int /\ F[t][i].from < L[n].from
    <3> SUFFICES ASSUME NEW t \in Places, NEW i \in 1..Len(F[t])
                 PROVE  F[t][i].from \in Int /\ F[t][i].from < L[n].from
      OBVIOUS
    <3>1. PICK k \in 1..(n - 1) : F[t][i].from = L[k].from
      BY <1>2
    <3> QED
      BY <1>3, <3>1
  <2>6. m + 1 <= L[n].from
    <3>1. CASE m = 0
      BY <1>4, <3>1
    <3>2. CASE m # 0
      <4>1. m \in 1..Len(F[s])
        BY <2>1, <3>2
      <4>2. m <= F[s][m].from /\ F[s][m].from < L[n].from /\ F[s][m].from \in Int
        BY <1>2, <2>5, <4>1
      <4> QED
        BY <1>4, <2>1, <4>2
    <3> QED
      BY <3>1, <3>2
  <2>7. \A t \in Places : \A i \in 1..Len(G[t]) : i <= G[t][i].from /\ \E k \in 1..n : G[t][i].from = L[k].from
    <3> SUFFICES ASSUME NEW t \in Places, NEW i \in 1..Len(G[t])
                 PROVE  i <= G[t][i].from /\ \E k \in 1..n : G[t][i].from = L[k].from
      OBVIOUS
    <3>1. CASE i \in 1..Len(F[t]) /\ G[t][i] = F[t][i]
      BY <1>2, <1>3, <3>1
    <3>2. CASE t = s /\ i = m + 1 /\ G[t][i] = p
      <4>1. n \in 1..n
        BY <1>1
      <4> QED
        BY <1>7, <2>6, <3>2, <4>1
    <3> QED
      BY <2>3, <3>1, <3>2
  <2>8. \A t, u \in Places : \A i \in 1..Len(G[t]), j \in 1..Len(G[u]) : G[t][i].from = G[u][j].from => t = u /\ i = j
    <3> SUFFICES ASSUME NEW t \in Places, NEW u \in Places, NEW i \in 1..Len(G[t]), NEW j \in 1..Len(G[u]),
                        G[t][i].from = G[u][j].from
                 PROVE  t = u /\ i = j
      OBVIOUS
    <3>1. CASE i \in 1..Len(F[t]) /\ G[t][i] = F[t][i] /\ j \in 1..Len(F[u]) /\ G[u][j] = F[u][j]
      BY <1>2, <3>1
    <3>2. CASE i \in 1..Len(F[t]) /\ G[t][i] = F[t][i] /\ G[u][j] = p
      BY <1>4, <1>7, <2>5, <3>2
    <3>3. CASE G[t][i] = p /\ j \in 1..Len(F[u]) /\ G[u][j] = F[u][j]
      BY <1>4, <1>7, <2>5, <3>3
    <3>4. CASE t = s /\ i = m + 1 /\ u = s /\ j = m + 1
      BY <3>4
    <3> QED
      BY <2>3, <3>1, <3>2, <3>3, <3>4
  <2>9. \A k \in 1..n : Heading(L[k].kind) = None =>
           \E t \in Places : \E i \in 1..Len(G[t]) : G[t][i].from = L[k].from
    <3> SUFFICES ASSUME NEW k \in 1..n, Heading(L[k].kind) = None
                 PROVE  \E t \in Places : \E i \in 1..Len(G[t]) : G[t][i].from = L[k].from
      OBVIOUS
    <3>1. CASE k \in 1..(n - 1)
      <4>1. PICK t \in Places : \E i \in 1..Len(F[t]) : F[t][i].from = L[k].from
        BY <1>2, <3>1
      <4>2. PICK i \in 1..Len(F[t]) : F[t][i].from = L[k].from
        BY <4>1
      <4>3. i \in 1..Len(G[t]) /\ G[t][i].from = L[k].from
        BY <2>4, <4>2
      <4> QED
        BY <4>3
    <3>2. CASE k = n
      <4>1. m + 1 \in 1..Len(G[s])
        BY <2>1, <2>2
      <4> QED
        BY <1>7, <2>2, <3>2, <4>1
    <3> QED
      BY <1>5, <3>1, <3>2
  <2>10. FiledOf(G, L, n)
    BY <2>2, <2>7, <2>8, <2>9 DEF FiledOf
  <2> QED
    BY <2>1, <2>10
<1> QED
  BY <1>6, <1>7

-----------------------------------------------------------------------------
(* The blocks of the experience section.                                   *)

BlockState == [blocks : Seq(Seq(TextPiece)), block : Seq(TextPiece)]
NoBlocks == [blocks |-> <<>>, block |-> <<>>]

LEMMA BlockStateIs ==
  ASSUME NEW a \in BlockState
  PROVE  a.blocks \in Seq(Seq(TextPiece)) /\ a.block \in Seq(TextPiece)
  BY DEF BlockState

\* The closed blocks and the open one, which may be empty.
BlocksOf(a) == Append(a.blocks, a.block)

\* A block has one date, or two that the OCR parted.
OneDate(b) ==
  \/ \A i, j \in Dated(b) : i = j
  \/ /\ Len(b) >= 2 /\ OcrPair(b[1].kind, b[2].kind)
     /\ Dated(b) \subseteq {1, 2}

\* What is known of the blocks B of the first n pieces of s.
BlocksFit(s, n, B) ==
  /\ B \in Seq(Seq(TextPiece)) /\ Len(B) >= 1
  /\ \A i \in 1..Len(B) : OneDate(B[i]) /\ (i < Len(B) => B[i] # <<>>)
  /\ \A i \in 1..Len(B) : \A j \in 1..Len(B[i]) : \E m \in 1..n : B[i][j] = s[m]
  /\ \A i, k \in 1..Len(B) : \A j \in 1..Len(B[i]), l \in 1..Len(B[k]) : B[i][j] = B[k][l] => i = k
  /\ \A m \in 1..n : ~Blank(s[m].kind) => \E i \in 1..Len(B) : \E j \in 1..Len(B[i]) : B[i][j] = s[m]

LEMMA DatedIs ==
  ASSUME NEW b \in Seq(TextPiece)
  PROVE  /\ Some("year", b) <=> Dated(b) # {}
         /\ Dated(b) \subseteq 1..Len(b) /\ Len(b) \in Nat
         /\ \A i \in 1..Len(b) : i \in Dated(b) <=> Year(b[i].kind)
<1>1. Len(b) \in Nat
  OBVIOUS
<1> QED
  BY <1>1 DEF Some, Dated, Year

LEMMA ShortIsOneDate ==
  /\ OneDate(<<>>)
  /\ \A p \in TextPiece : OneDate(<<p>>)
<1>1. Dated(<<>>) = {}
  BY DEF Dated
<1>2. ASSUME NEW p \in TextPiece PROVE \A i, j \in Dated(<<p>>) : i = j
  <2>1. Len(<<p>>) = 1
    OBVIOUS
  <2> QED
    BY <2>1 DEF Dated
<1> QED
  BY <1>1, <1>2 DEF OneDate

\* A piece that opens no block of its own leaves one date in the block.
LEMMA StillOneDate ==
  ASSUME NEW b \in Seq(TextPiece), OneDate(b), NEW p \in TextPiece, ~ShouldStartNewBlock(b, p.kind)
  PROVE  OneDate(Append(b, p))
<1>1. PICK n, c : n = Len(b) /\ c = Append(b, p)
  OBVIOUS
<1>2. n \in Nat /\ c \in Seq(TextPiece) /\ Len(c) = n + 1 /\ c[n + 1] = p /\ \A i \in 1..n : c[i] = b[i]
  BY <1>1
<1>3. \A i \in Dated(c) : i \in Dated(b) \/ (i = n + 1 /\ Year(p.kind))
  <2>1. \A i \in Dated(c) : (i \in 1..n \/ i = n + 1) /\ Year(c[i].kind)
    BY <1>2 DEF Dated
  <2> QED
    BY <1>1, <1>2, <2>1 DEF Dated
<1>4. Dated(b) \subseteq 1..n
  BY <1>1 DEF Dated
<1>5. CASE ~Year(p.kind)
  <2>1. \A i \in Dated(c) : i \in Dated(b)
    BY <1>3, <1>5
  <2>2. CASE \A i, j \in Dated(b) : i = j
    BY <1>1, <2>1, <2>2 DEF OneDate
  <2>3. CASE Len(b) >= 2 /\ OcrPair(b[1].kind, b[2].kind) /\ Dated(b) \subseteq {1, 2}
    <3>1. c[1] = b[1] /\ c[2] = b[2] /\ Len(c) >= 2
      BY <1>1, <1>2, <2>3
    <3> QED
      BY <1>1, <2>1, <2>3, <3>1 DEF OneDate
  <2> QED
    BY <2>2, <2>3 DEF OneDate
<1>6. CASE Year(p.kind) /\ Dated(b) = {}
  <2>1. \A i, j \in Dated(c) : i = j
    BY <1>3, <1>6
  <2> QED
    BY <1>1, <2>1 DEF OneDate
<1>7. CASE Year(p.kind) /\ Dated(b) # {}
  <2>1. b # <<>> /\ Some("year", b)
    BY <1>4, <1>7, <1>1, DatedIs
  <2>2. Len(b) = 1 /\ OcrPair(b[1].kind, p.kind)
    BY <1>7, <2>1 DEF ShouldStartNewBlock
  <2>3. n = 1 /\ Len(c) = 2 /\ c[1] = b[1] /\ c[2] = p
    BY <1>1, <1>2, <2>2
  <2>4. Dated(c) \subseteq {1, 2}
    BY <1>3, <1>4, <2>3
  <2> QED
    BY <1>1, <2>2, <2>3, <2>4 DEF OneDate
<1> QED
  BY <1>5, <1>6, <1>7

\* Three ways the blocks grow: an empty one is opened, a piece opens one, a
\* piece is added to the last.
LEMMA BlankRead ==
  ASSUME NEW s \in Seq(TextPiece), NEW n \in 1..Len(s), NEW B, BlocksFit(s, n - 1, B), Blank(s[n].kind)
  PROVE  BlocksFit(s, n, B)
<1>1. \A m \in 1..n : m \in 1..(n - 1) \/ m = n
  OBVIOUS
<1>2. \A m \in 1..(n - 1) : m \in 1..n
  OBVIOUS
<1>3. /\ B \in Seq(Seq(TextPiece)) /\ Len(B) >= 1
      /\ \A i \in 1..Len(B) : OneDate(B[i]) /\ (i < Len(B) => B[i] # <<>>)
      /\ \A i, k \in 1..Len(B) : \A j \in 1..Len(B[i]), l \in 1..Len(B[k]) : B[i][j] = B[k][l] => i = k
  BY DEF BlocksFit
<1>4. \A i \in 1..Len(B) : \A j \in 1..Len(B[i]) : \E m \in 1..n : B[i][j] = s[m]
  <2>1. \A i \in 1..Len(B) : \A j \in 1..Len(B[i]) : \E m \in 1..(n - 1) : B[i][j] = s[m]
    BY DEF BlocksFit
  <2> QED
    BY <1>2, <2>1
<1>5. \A m \in 1..n : ~Blank(s[m].kind) => \E i \in 1..Len(B) : \E j \in 1..Len(B[i]) : B[i][j] = s[m]
  <2>1. \A m \in 1..(n - 1) : ~Blank(s[m].kind) => \E i \in 1..Len(B) : \E j \in 1..Len(B[i]) : B[i][j] = s[m]
    BY DEF BlocksFit
  <2> QED
    BY <1>1, <2>1
<1> QED
  BY <1>3, <1>4, <1>5 DEF BlocksFit

LEMMA BlockEnds ==
  ASSUME NEW s, NEW n, NEW B, BlocksFit(s, n, B), B[Len(B)] # <<>>
  PROVE  BlocksFit(s, n, Append(B, <<>>))
<1>1. PICK N, C : N = Len(B) /\ C = Append(B, <<>>)
  OBVIOUS
<1>2. B \in Seq(Seq(TextPiece)) /\ N >= 1
  BY <1>1 DEF BlocksFit
<1>3. <<>> \in Seq(TextPiece)
  OBVIOUS
<1>4. N \in Nat /\ C \in Seq(Seq(TextPiece)) /\ Len(C) = N + 1 /\ C[N + 1] = <<>> /\ \A i \in 1..N : C[i] = B[i]
  BY <1>1, <1>2, <1>3
<1>5. \A i \in 1..(N + 1) : i \in 1..N \/ i = N + 1
  BY <1>4
<1>6. \A i \in 1..N : i \in 1..(N + 1)
  BY <1>4
<1>7. 1..Len(C[N + 1]) = {}
  BY <1>4
<1>8. \A i \in 1..(N + 1) : OneDate(C[i]) /\ (i < N + 1 => C[i] # <<>>)
  <2> SUFFICES ASSUME NEW i \in 1..(N + 1) PROVE OneDate(C[i]) /\ (i < N + 1 => C[i] # <<>>)
    OBVIOUS
  <2>1. CASE i = N + 1
    BY <1>4, <2>1, ShortIsOneDate
  <2>2. CASE i \in 1..N
    <3>1. OneDate(B[i]) /\ (i < N => B[i] # <<>>) /\ (i = N => B[i] # <<>>)
      BY <1>1, <2>2 DEF BlocksFit
    <3> QED
      BY <1>4, <2>2, <3>1
  <2> QED
    BY <1>5, <2>1, <2>2
<1>9. \A i \in 1..(N + 1) : \A j \in 1..Len(C[i]) : \E m \in 1..n : C[i][j] = s[m]
  BY <1>1, <1>4, <1>5, <1>7 DEF BlocksFit
<1>10. \A i, k \in 1..(N + 1) : \A j \in 1..Len(C[i]), l \in 1..Len(C[k]) : C[i][j] = C[k][l] => i = k
  BY <1>1, <1>4, <1>5, <1>7 DEF BlocksFit
<1>11. \A m \in 1..n : ~Blank(s[m].kind) => \E i \in 1..(N + 1) : \E j \in 1..Len(C[i]) : C[i][j] = s[m]
  <2> SUFFICES ASSUME NEW m \in 1..n, ~Blank(s[m].kind)
               PROVE  \E i \in 1..(N + 1) : \E j \in 1..Len(C[i]) : C[i][j] = s[m]
    OBVIOUS
  <2>1. PICK i \in 1..N : \E j \in 1..Len(B[i]) : B[i][j] = s[m]
    BY <1>1 DEF BlocksFit
  <2>2. i \in 1..(N + 1) /\ C[i] = B[i]
    BY <1>4, <1>6, <2>1
  <2> QED
    BY <2>1, <2>2
<1>12. C \in Seq(Seq(TextPiece)) /\ Len(C) = N + 1 /\ N + 1 >= 1
  BY <1>2, <1>4
<1>13. BlocksFit(s, n, C)
  BY <1>8, <1>9, <1>10, <1>11, <1>12 DEF BlocksFit
<1> QED
  BY <1>1, <1>13

LEMMA PieceAdded ==
  ASSUME NEW s \in Seq(TextPiece), \A i, j \in 1..Len(s) : s[i].from = s[j].from => i = j,
         NEW n \in 1..Len(s), NEW B, BlocksFit(s, n - 1, B),
         NEW C, C \in Seq(Seq(TextPiece)), NEW k \in 1..Len(C), NEW o \in Seq(TextPiece),
         Len(C) >= Len(B), k = Len(C), C[k] = Append(o, s[n]), OneDate(C[k]),
         \/ Len(C) = Len(B) /\ o = B[k]
         \/ Len(C) = Len(B) + 1 /\ o = <<>> /\ B[Len(B)] # <<>>,
         \A i \in 1..Len(B) : i # k => C[i] = B[i]
  PROVE  BlocksFit(s, n, C)
<1>1. PICK p, N, c, K : p = s[n] /\ N = Len(B) /\ c = Len(o) /\ K = Len(C)
  OBVIOUS
<1>2. B \in Seq(Seq(TextPiece)) /\ N >= 1
  BY <1>1 DEF BlocksFit
<1>3. N \in Nat /\ c \in Nat /\ n \in Nat /\ n >= 1 /\ K \in Nat /\ k \in Nat /\ k = K /\ k >= 1
  BY <1>1, <1>2
<1>4. p \in TextPiece
  BY <1>1
<1>5. Len(C[k]) = c + 1 /\ C[k][c + 1] = p /\ \A j \in 1..c : C[k][j] = o[j]
  BY <1>1, <1>4
<1>6. \A m \in 1..n : m \in 1..(n - 1) \/ m = n
  BY <1>3
<1>7. \A m \in 1..(n - 1) : m \in 1..n /\ s[m] # p
  <2> SUFFICES ASSUME NEW m \in 1..(n - 1) PROVE m \in 1..n /\ s[m] # p
    OBVIOUS
  <2>1. m \in 1..n /\ m \in 1..Len(s) /\ m # n
    BY <1>3
  <2> QED
    BY <1>1, <2>1
<1>8. \A i \in 1..K : \A j \in 1..Len(C[i]) : \/ i \in 1..N /\ j \in 1..Len(B[i]) /\ C[i][j] = B[i][j]
                                              \/ i = k /\ C[i][j] = p
  <2> SUFFICES ASSUME NEW i \in 1..K, NEW j \in 1..Len(C[i])
               PROVE  \/ i \in 1..N /\ j \in 1..Len(B[i]) /\ C[i][j] = B[i][j]
                      \/ i = k /\ C[i][j] = p
    OBVIOUS
  <2>1. CASE i # k
    <3>1. i \in 1..N
      BY <1>1, <1>3, <2>1
    <3> QED
      BY <1>1, <2>1, <3>1
  <2>2. CASE i = k
    <3>1. j \in 1..c \/ j = c + 1
      BY <1>3, <1>5, <2>2
    <3>2. CASE j \in 1..c
      <4>1. o = B[k] /\ k \in 1..N
        BY <1>1, <1>3, <3>2
      <4> QED
        BY <1>1, <1>5, <2>2, <3>2, <4>1
    <3> QED
      BY <1>5, <2>2, <3>1, <3>2
  <2> QED
    BY <2>1, <2>2
<1>9. \A i \in 1..N : \A j \in 1..Len(B[i]) : i \in 1..K /\ j \in 1..Len(C[i]) /\ C[i][j] = B[i][j]
  <2> SUFFICES ASSUME NEW i \in 1..N, NEW j \in 1..Len(B[i])
               PROVE  i \in 1..K /\ j \in 1..Len(C[i]) /\ C[i][j] = B[i][j]
    OBVIOUS
  <2>1. i \in 1..K
    BY <1>1, <1>3
  <2>2. CASE i # k
    BY <1>1, <2>1, <2>2
  <2>3. CASE i = k
    <3>1. o = B[k]
      BY <1>1, <1>3, <2>3
    <3>2. j \in 1..c /\ j \in 1..(c + 1)
      BY <1>1, <1>3, <2>3, <3>1
    <3> QED
      BY <1>5, <2>1, <2>3, <3>1, <3>2
  <2> QED
    BY <2>2, <2>3
<1>10. \A i \in 1..N : \A j \in 1..Len(B[i]) : (\E m \in 1..(n - 1) : B[i][j] = s[m]) /\ B[i][j] # p
  BY <1>1, <1>7 DEF BlocksFit
<1>11. \A i \in 1..K : OneDate(C[i]) /\ (i < K => C[i] # <<>>)
  <2> SUFFICES ASSUME NEW i \in 1..K PROVE OneDate(C[i]) /\ (i < K => C[i] # <<>>)
    OBVIOUS
  <2>1. CASE i = k
    <3>1. ~(i < K)
      BY <1>3, <2>1
    <3> QED
      BY <2>1, <3>1
  <2>2. CASE i # k
    <3>1. i \in 1..N /\ i < K
      BY <1>1, <1>3, <2>2
    <3>2. C[i] = B[i] /\ OneDate(B[i]) /\ (i < N => B[i] # <<>>)
      BY <1>1, <2>2, <3>1 DEF BlocksFit
    <3>3. i = N => B[i] # <<>>
      BY <1>1, <1>3, <3>1
    <3>4. i < N \/ i = N
      BY <1>3, <3>1
    <3> QED
      BY <3>2, <3>3, <3>4
  <2> QED
    BY <2>1, <2>2
<1>12. \A i \in 1..K : \A j \in 1..Len(C[i]) : \E m \in 1..n : C[i][j] = s[m]
  <2> SUFFICES ASSUME NEW i \in 1..K, NEW j \in 1..Len(C[i]) PROVE \E m \in 1..n : C[i][j] = s[m]
    OBVIOUS
  <2>1. n \in 1..n
    BY <1>3
  <2>2. CASE C[i][j] = p
    BY <1>1, <2>1, <2>2
  <2>3. CASE i \in 1..N /\ j \in 1..Len(B[i]) /\ C[i][j] = B[i][j]
    <3>1. PICK m \in 1..(n - 1) : B[i][j] = s[m]
      BY <1>10, <2>3
    <3>2. m \in 1..n
      BY <1>7, <3>1
    <3> QED
      BY <2>3, <3>1, <3>2
  <2> QED
    BY <1>8, <2>2, <2>3
<1>13. \A i, h \in 1..K : \A j \in 1..Len(C[i]), l \in 1..Len(C[h]) : C[i][j] = C[h][l] => i = h
  <2> SUFFICES ASSUME NEW i \in 1..K, NEW h \in 1..K, NEW j \in 1..Len(C[i]), NEW l \in 1..Len(C[h]), C[i][j] = C[h][l]
               PROVE  i = h
    OBVIOUS
  <2>a. PICK x, y : x = C[i][j] /\ y = C[h][l] /\ x = y
    OBVIOUS
  <2>b. \/ i \in 1..N /\ j \in 1..Len(B[i]) /\ x = B[i][j] /\ x # p
        \/ i = k /\ x = p
    <3>1. \/ i \in 1..N /\ j \in 1..Len(B[i]) /\ C[i][j] = B[i][j]
          \/ i = k /\ C[i][j] = p
      BY <1>8
    <3>2. i \in 1..N /\ j \in 1..Len(B[i]) => B[i][j] # p
      BY <1>10
    <3> QED
      BY <2>a, <3>1, <3>2
  <2>c. \/ h \in 1..N /\ l \in 1..Len(B[h]) /\ y = B[h][l] /\ y # p
        \/ h = k /\ y = p
    <3>1. \/ h \in 1..N /\ l \in 1..Len(B[h]) /\ C[h][l] = B[h][l]
          \/ h = k /\ C[h][l] = p
      BY <1>8
    <3>2. h \in 1..N /\ l \in 1..Len(B[h]) => B[h][l] # p
      BY <1>10
    <3> QED
      BY <2>a, <3>1, <3>2
  <2>1. CASE x = p
    BY <2>a, <2>b, <2>c, <2>1
  <2>2. CASE x # p
    <3>1. i \in 1..N /\ h \in 1..N /\ j \in 1..Len(B[i]) /\ l \in 1..Len(B[h]) /\ B[i][j] = B[h][l]
      BY <2>a, <2>b, <2>c, <2>2
    <3>2. \A u, v \in 1..Len(B) : \A q \in 1..Len(B[u]), w \in 1..Len(B[v]) : B[u][q] = B[v][w] => u = v
      BY DEF BlocksFit
    <3> QED
      BY <1>1, <3>1, <3>2
  <2> QED
    BY <2>1, <2>2
<1>14. \A m \in 1..n : ~Blank(s[m].kind) => \E i \in 1..K : \E j \in 1..Len(C[i]) : C[i][j] = s[m]
  <2> SUFFICES ASSUME NEW m \in 1..n, ~Blank(s[m].kind)
               PROVE  \E i \in 1..K : \E j \in 1..Len(C[i]) : C[i][j] = s[m]
    OBVIOUS
  <2>1. CASE m = n
    <3>1. k \in 1..K /\ c + 1 \in 1..Len(C[k]) /\ C[k][c + 1] = s[m]
      BY <1>1, <1>3, <1>5, <2>1
    <3> QED
      BY <3>1
  <2>2. CASE m \in 1..(n - 1)
    <3>1. PICK i \in 1..N : \E j \in 1..Len(B[i]) : B[i][j] = s[m]
      BY <1>1, <2>2 DEF BlocksFit
    <3>2. PICK j \in 1..Len(B[i]) : B[i][j] = s[m]
      BY <3>1
    <3> QED
      BY <1>9, <3>2
  <2> QED
    BY <1>6, <2>1, <2>2
<1> QED
  BY <1>1, <1>3, <1>11, <1>12, <1>13, <1>14 DEF BlocksFit

\* Reading a piece keeps what is known of the blocks.
LEMMA LineBlocked ==
  ASSUME NEW s \in Seq(TextPiece), \A i, j \in 1..Len(s) : s[i].from = s[j].from => i = j,
         NEW n \in 1..Len(s), NEW a \in BlockState, BlocksFit(s, n - 1, BlocksOf(a))
  PROVE  WithLine(a, s[n]) \in BlockState /\ BlocksFit(s, n, BlocksOf(WithLine(a, s[n])))
<1>1. PICK B, p, N : B = BlocksOf(a) /\ p = s[n] /\ N = Len(a.blocks)
  OBVIOUS
<1>2. a.blocks \in Seq(Seq(TextPiece)) /\ a.block \in Seq(TextPiece)
  BY BlockStateIs
<1>3. /\ N \in Nat /\ B \in Seq(Seq(TextPiece)) /\ Len(B) = N + 1 /\ B[N + 1] = a.block
      /\ \A i \in 1..N : B[i] = a.blocks[i]
  BY <1>1, <1>2 DEF BlocksOf
<1>4. p \in TextPiece /\ <<p>> \in Seq(TextPiece)
  BY <1>1
<1>5. CASE Blank(p.kind) /\ Some("year", a.block)
  <2>1. WithLine(a, p) = a
    BY <1>5 DEF WithLine
  <2> QED
    BY <1>1, <1>5, <2>1, BlankRead
<1>6. CASE Blank(p.kind) /\ ~Some("year", a.block)
  <2>0. BlocksFit(s, n, B)
    BY <1>1, <1>6, BlankRead
  <2>1. WithLine(a, p) = [blocks |-> Close(a.blocks, a.block), block |-> <<>>]
    BY <1>6 DEF WithLine
  <2>2. CASE a.block = <<>>
    <3>1. WithLine(a, p) = [blocks |-> a.blocks, block |-> <<>>]
      BY <2>1, <2>2 DEF Close
    <3>2. WithLine(a, p) \in BlockState
      BY <1>2, <3>1 DEF BlockState
    <3>3. BlocksOf(WithLine(a, p)) = B
      BY <1>1, <2>2, <3>1 DEF BlocksOf
    <3> QED
      BY <1>1, <2>0, <3>2, <3>3
  <2>3. CASE a.block # <<>>
    <3>1. WithLine(a, p) = [blocks |-> B, block |-> <<>>]
      BY <1>1, <2>1, <2>3 DEF Close, BlocksOf
    <3>2. WithLine(a, p) \in BlockState
      BY <1>3, <3>1 DEF BlockState
    <3>3. BlocksOf(WithLine(a, p)) = Append(B, <<>>)
      BY <3>1 DEF BlocksOf
    <3>4. BlocksFit(s, n, Append(B, <<>>))
      BY <1>3, <2>0, <2>3, BlockEnds
    <3> QED
      BY <1>1, <3>2, <3>3, <3>4
  <2> QED
    BY <2>2, <2>3
<1>7. CASE ~Blank(p.kind) /\ ShouldStartNewBlock(a.block, p.kind)
  <2>0. a.block # <<>>
    BY <1>7 DEF ShouldStartNewBlock
  <2>1. WithLine(a, p) = [blocks |-> B, block |-> <<p>>]
    BY <1>1, <1>7 DEF WithLine, BlocksOf
  <2>2. WithLine(a, p) \in BlockState
    BY <1>3, <1>4, <2>1 DEF BlockState
  <2>3. PICK C : C = Append(B, <<p>>)
    OBVIOUS
  <2>4. /\ C \in Seq(Seq(TextPiece)) /\ Len(C) = N + 2 /\ C[N + 2] = <<p>>
        /\ \A i \in 1..(N + 1) : C[i] = B[i]
    BY <1>3, <1>4, <2>3
  <2>5. <<p>> = Append(<<>>, s[n]) /\ <<>> \in Seq(TextPiece)
    BY <1>1
  <2>6. OneDate(C[N + 2])
    BY <1>4, <2>4, ShortIsOneDate
  <2>7. PICK k : k = N + 2
    OBVIOUS
  <2>8. k \in 1..Len(C) /\ k = Len(C) /\ Len(C) >= Len(B) /\ Len(C) = Len(B) + 1 /\ B[Len(B)] # <<>>
    BY <1>3, <2>0, <2>4, <2>7
  <2>9. BlocksFit(s, n, C)
    BY <1>1, <1>3, <2>4, <2>5, <2>6, <2>7, <2>8, PieceAdded
  <2> QED
    BY <1>1, <2>1, <2>2, <2>3, <2>9 DEF BlocksOf
<1>8. CASE ~Blank(p.kind) /\ ~ShouldStartNewBlock(a.block, p.kind)
  <2>1. PICK c : c = Append(a.block, p)
    OBVIOUS
  <2>2. WithLine(a, p) = [blocks |-> a.blocks, block |-> c]
    BY <1>8, <2>1 DEF WithLine, BlockState
  <2>3. c \in Seq(TextPiece)
    BY <1>2, <1>4, <2>1
  <2>4. WithLine(a, p) \in BlockState
    BY <1>2, <2>2, <2>3 DEF BlockState
  <2>5. PICK C : C = Append(a.blocks, c)
    OBVIOUS
  <2>6. /\ C \in Seq(Seq(TextPiece)) /\ Len(C) = N + 1 /\ C[N + 1] = c
        /\ \A i \in 1..N : C[i] = a.blocks[i]
    BY <1>1, <1>2, <2>3, <2>5
  <2>7. OneDate(B[N + 1])
    <3>1. N + 1 \in 1..Len(B)
      BY <1>3
    <3> QED
      BY <1>1, <3>1 DEF BlocksFit
  <2>8. OneDate(C[N + 1])
    BY <1>2, <1>3, <1>4, <1>8, <2>1, <2>6, <2>7, StillOneDate
  <2>9. PICK k : k = N + 1
    OBVIOUS
  <2>10. k \in 1..Len(C) /\ k = Len(C) /\ Len(C) >= Len(B) /\ Len(C) = Len(B)
    BY <1>3, <2>6, <2>9
  <2>11. C[k] = Append(a.block, s[n]) /\ a.block = B[k] /\ OneDate(C[k])
    BY <1>1, <1>3, <2>1, <2>6, <2>8, <2>9
  <2>12. \A i \in 1..Len(B) : i # k => C[i] = B[i]
    <3> SUFFICES ASSUME NEW i \in 1..Len(B), i # k PROVE C[i] = B[i]
      OBVIOUS
    <3>1. i \in 1..N
      BY <1>3, <2>9
    <3> QED
      BY <1>3, <2>6, <3>1
  <2>13. BlocksFit(s, n, C)
    BY <1>1, <1>2, <2>6, <2>10, <2>11, <2>12, PieceAdded
  <2> QED
    BY <1>1, <2>2, <2>4, <2>5, <2>13 DEF BlocksOf
<1> QED
  BY <1>5, <1>6, <1>7, <1>8

LEMMA BlockStep == \A v \in BlockState : \A x \in TextPiece : WithLine(v, x) \in BlockState
<1> SUFFICES ASSUME NEW v \in BlockState, NEW x \in TextPiece PROVE WithLine(v, x) \in BlockState
  OBVIOUS
<1>1. v.blocks \in Seq(Seq(TextPiece)) /\ v.block \in Seq(TextPiece)
  BY BlockStateIs
<1>2. PICK c, d, e : c = Append(v.block, x) /\ d = Append(v.blocks, v.block) /\ e = Close(v.blocks, v.block)
  OBVIOUS
<1>3. /\ c \in Seq(TextPiece) /\ d \in Seq(Seq(TextPiece)) /\ e \in Seq(Seq(TextPiece))
      /\ <<x>> \in Seq(TextPiece) /\ <<>> \in Seq(TextPiece)
  BY <1>1, <1>2 DEF Close
<1>a. [v EXCEPT !.block = c] = [blocks |-> v.blocks, block |-> c]
  BY DEF BlockState
<1>4. WithLine(v, x) \in {v, [blocks |-> e, block |-> <<>>], [blocks |-> d, block |-> <<x>>], [blocks |-> v.blocks, block |-> c]}
  BY <1>2, <1>a DEF WithLine
<1>5. \A f \in Seq(Seq(TextPiece)), g \in Seq(TextPiece) : [blocks |-> f, block |-> g] \in BlockState
  BY DEF BlockState
<1>6. {v, [blocks |-> e, block |-> <<>>], [blocks |-> d, block |-> <<x>>], [blocks |-> v.blocks, block |-> c]} \subseteq BlockState
  BY <1>1, <1>3, <1>5
<1> QED
  BY <1>4, <1>6

LEMMA NoBlocksTyped == NoBlocks \in BlockState
<1>1. <<>> \in Seq(Seq(TextPiece)) /\ <<>> \in Seq(TextPiece)
  OBVIOUS
<1> QED
  BY <1>1 DEF NoBlocks, BlockState

\* The blocks are cut piece by piece.
LEMMA BlocksRun ==
  ASSUME NEW s \in Seq(TextPiece)
  PROVE  \E p \in [0..Len(s) -> BlockState] :
           /\ p[0] = NoBlocks /\ p[Len(s)] = FoldLeft(WithLine, NoBlocks, s)
           /\ \A n \in 1..Len(s) : p[n] = WithLine(p[n - 1], s[n])
<1>1. PICK N : N = Len(s) /\ N \in Nat /\ DOMAIN s = 1..N
  OBVIOUS
<1>2. PICK iter : iter = CHOOSE g : g = [t \in SUBSET DOMAIN s |->
            IF t = {} THEN NoBlocks ELSE LET x == Max(t) IN WithLine(g[t \ {x}], s[x])]
  OBVIOUS
<1>3. FoldLeft(WithLine, NoBlocks, s) = iter[DOMAIN s]
  BY <1>2 DEF FoldLeft, MapThenFoldSet
<1>4. PICK V : V = BlockState
  OBVIOUS
<1>5. PICK step : step = [n \in 1..N |-> [v \in V |-> WithLine(v, s[n])]]
  OBVIOUS
<1>6. NoBlocks \in V /\ step \in [1..N -> [V -> V]]
  <2>1. NoBlocks \in V
    BY <1>4, NoBlocksTyped
  <2>2. \A n \in 1..N : \A v \in V : WithLine(v, s[n]) \in V
    <3>1. \A n \in 1..N : s[n] \in TextPiece
      BY <1>1
    <3> QED
      BY <1>4, <3>1, BlockStep
  <2> QED
    BY <1>5, <2>1, <2>2
<1>7. \A n \in 1..N : \A v \in V : step[n][v] = WithLine(v, s[n])
  BY <1>5
<1>8. iter = [t \in SUBSET DOMAIN s |->
            IF t = {} THEN NoBlocks ELSE LET x == Max(t) IN WithLine(iter[t \ {x}], s[x])]
  <2>1. PICK f : f \in FoldsBy(N, V, NoBlocks, step)
    <3>1. N \in Nat /\ NoBlocks \in V /\ step \in [1..N -> [V -> V]]
      BY <1>1, <1>6
    <3>2. FoldsBy(N, V, NoBlocks, step) # {}
      BY <3>1, FoldExists, Zenon
    <3> QED
      BY <3>2
  <2>2. /\ f \in [SUBSET (1..N) -> V]
        /\ \A t \in SUBSET (1..N) : f[t] = IF t = {} THEN NoBlocks ELSE step[Max(t)][f[t \ {Max(t)}]]
    BY <2>1 DEF FoldsBy
  <2>3. ASSUME NEW t \in SUBSET (1..N)
        PROVE  f[t] = IF t = {} THEN NoBlocks ELSE LET x == Max(t) IN WithLine(f[t \ {x}], s[x])
    <3>1. t # {} => Max(t) \in 1..N
      BY <1>1, MaxIn
    <3>2. f[t \ {Max(t)}] \in V
      BY <2>2
    <3> QED
      BY <1>7, <2>2, <3>1, <3>2
  <2>4. f = [t \in SUBSET DOMAIN s |->
            IF t = {} THEN NoBlocks ELSE LET x == Max(t) IN WithLine(f[t \ {x}], s[x])]
    BY <1>1, <2>2, <2>3
  <2> QED
    BY <1>2, <2>4
<1>9. iter[{}] = NoBlocks
  BY <1>8
<1>10. \A t \in SUBSET (1..N) : t # {} /\ iter[t \ {Max(t)}] \in V => iter[t] = step[Max(t)][iter[t \ {Max(t)}]]
  <2> SUFFICES ASSUME NEW t \in SUBSET (1..N), t # {}, iter[t \ {Max(t)}] \in V
               PROVE  iter[t] = step[Max(t)][iter[t \ {Max(t)}]]
    OBVIOUS
  <2>1. Max(t) \in 1..N
    BY <1>1, MaxIn
  <2>2. iter[t] = WithLine(iter[t \ {Max(t)}], s[Max(t)])
    BY <1>1, <1>8
  <2> QED
    BY <1>7, <2>1, <2>2
<1>a. iter[1..N] \in {q[N] : q \in RunsOf(N, V, NoBlocks, step)}
  BY <1>1, <1>6, <1>9, <1>10, FoldRun
<1>11. PICK p \in RunsOf(N, V, NoBlocks, step) : iter[1..N] = p[N]
  BY <1>a
<1>12. p \in [0..N -> V] /\ p[0] = NoBlocks /\ \A n \in 1..N : p[n] = step[n][p[n - 1]]
  BY <1>11 DEF RunsOf
<1>13. \A n \in 1..N : p[n] = WithLine(p[n - 1], s[n])
  <2>1. \A n \in 1..N : p[n - 1] \in V
    BY <1>1, <1>12
  <2> QED
    BY <1>7, <1>12, <2>1
<1> QED
  BY <1>1, <1>3, <1>4, <1>11, <1>12, <1>13

\* The blocks of a section, in the order of its pieces.
LEMMA BlocksKnown ==
  ASSUME NEW s \in Seq(TextPiece), \A i, j \in 1..Len(s) : s[i].from = s[j].from => i = j
  PROVE  \E a \in BlockState : /\ BlocksFit(s, Len(s), BlocksOf(a))
                               /\ SplitNonEmptyBlocks(s) = Close(a.blocks, a.block)
<1>1. PICK N : N = Len(s) /\ N \in Nat
  OBVIOUS
<1>2. PICK p \in [0..N -> BlockState] : /\ p[0] = NoBlocks /\ p[N] = FoldLeft(WithLine, NoBlocks, s)
                                        /\ \A n \in 1..N : p[n] = WithLine(p[n - 1], s[n])
  BY <1>1, BlocksRun
<1>3. PICK S : S = {n \in 0..N : BlocksFit(s, n, BlocksOf(p[n]))}
  OBVIOUS
<1>4. 0 \in S
  <2>1. PICK B : B = BlocksOf(NoBlocks)
    OBVIOUS
  <2>a. <<>> \in Seq(TextPiece)
    OBVIOUS
  <2>b. B = Append(<<>>, <<>>)
    BY <2>1 DEF BlocksOf, NoBlocks
  <2>2. B = <<(<<>>)>> /\ B \in Seq(Seq(TextPiece)) /\ Len(B) = 1 /\ B[1] = <<>>
    BY <2>a, <2>b
  <2>3. \A i \in 1..Len(B) : i = 1 /\ 1..Len(B[i]) = {} /\ ~(i < Len(B))
    BY <2>2
  <2>4. BlocksFit(s, 0, B)
    BY <2>2, <2>3, ShortIsOneDate DEF BlocksFit
  <2>5. 0 \in 0..N
    BY <1>1
  <2> QED
    BY <1>2, <1>3, <2>1, <2>4, <2>5
<1>5. \A n \in 1..N : n - 1 \in S => n \in S
  <2> SUFFICES ASSUME NEW n \in 1..N, n - 1 \in S PROVE n \in S
    OBVIOUS
  <2>1. n - 1 \in 0..N /\ n \in 0..N /\ p[n - 1] \in BlockState /\ BlocksFit(s, n - 1, BlocksOf(p[n - 1]))
    BY <1>1, <1>2, <1>3
  <2>2. BlocksFit(s, n, BlocksOf(WithLine(p[n - 1], s[n])))
    BY <1>1, <2>1, LineBlocked
  <2> QED
    BY <1>2, <1>3, <2>1, <2>2
<1>6. \A n \in 0..N : n \in S
  BY <1>1, <1>4, <1>5, PrefixInduction, Zenon
<1>7. N \in 0..N /\ p[N] \in BlockState /\ BlocksFit(s, N, BlocksOf(p[N]))
  <2>1. N \in 0..N
    BY <1>1
  <2> QED
    BY <1>2, <1>3, <1>6, <2>1
<1>8. SplitNonEmptyBlocks(s) = Close(p[N].blocks, p[N].block)
  BY <1>2 DEF SplitNonEmptyBlocks, NoBlocks
<1> QED
  BY <1>1, <1>7, <1>8

\* The least of a set of places.
LEMMA MinOf ==
  ASSUME NEW n \in Nat, NEW S \in SUBSET (1..n), S # {}
  PROVE  Min(S) \in S /\ \A i \in S : Min(S) <= i
<1>1. S \in SUBSET Nat
  OBVIOUS
<1>2. PICK m \in S : \A i \in S : m <= i
  BY <1>1, LeastOf
<1>3. \E x \in S : \A y \in S : x =< y
  BY <1>2
<1> QED
  BY <1>3 DEF Min

\* The layout read is one that fits when any does, and the first when it does.
LEMMA FirstFitIs ==
  ASSUME NEW A, NEW B, NEW C, NEW D, NEW E
  PROVE  /\ FirstFit(<<A, B, C, D, E>>) \in {A, B, C, D, E} \cup {{}}
         /\ E # {} => FirstFit(<<A, B, C, D, E>>) # {}
         /\ A # {} => FirstFit(<<A, B, C, D, E>>) = A
<1>1. PICK L, fits : L = <<A, B, C, D, E>> /\ fits = {i \in 1..Len(L) : L[i] # NoEntry}
  OBVIOUS
<1>2. Len(L) = 5 /\ L[1] = A /\ L[2] = B /\ L[3] = C /\ L[4] = D /\ L[5] = E
  BY <1>1
<1>3. fits \in SUBSET (1..5) /\ (E # {} => 5 \in fits) /\ (A # {} => 1 \in fits)
  BY <1>1, <1>2 DEF NoEntry
<1>4. CASE fits = {}
  <2>1. FirstFit(L) = {}
    BY <1>1, <1>4 DEF FirstFit, NoEntry
  <2> QED
    BY <1>1, <1>3, <1>4, <2>1
<1>5. CASE fits # {}
  <2>1. Min(fits) \in fits /\ \A i \in fits : Min(fits) <= i
    BY <1>3, <1>5, MinOf
  <2>2. FirstFit(L) = L[Min(fits)]
    BY <1>1, <1>5 DEF FirstFit
  <2>3. PICK m : m = Min(fits)
    OBVIOUS
  <2>4. m \in 1..5 /\ L[m] # {}
    BY <1>1, <1>3, <2>1, <2>3 DEF NoEntry
  <2>5. m = 1 \/ m = 2 \/ m = 3 \/ m = 4 \/ m = 5
    BY <2>4
  <2>6. L[m] \in {A, B, C, D, E}
    BY <1>2, <2>5
  <2>7. A # {} => m = 1
    BY <1>3, <2>1, <2>3, <2>4
  <2> QED
    BY <1>1, <1>2, <2>2, <2>3, <2>4, <2>6, <2>7
<1> QED
  BY <1>4, <1>5

\* An entry's dates are pieces of its block, and every dated piece of a block
\* with one date, or with two that the OCR parted, is among them when the
\* block says a title and the engine comes to the piece.
LEMMA EntryIs ==
  ASSUME NEW b \in Seq(TextPiece), b # <<>>, OneDate(b)
  PROVE  /\ \A e \in ParseExperienceBlock(b) : \A q \in e.dates : \E i \in 1..Len(b) : q = b[i]
         /\ SaysTitle(b) =>
              \A i \in Dated(b) : ReadsDate(b, b[i]) => \E e \in ParseExperienceBlock(b) : b[i] \in e.dates
<1>1. PICK n : n = Len(b)
  OBVIOUS
<1>2. n \in Nat /\ n >= 1 /\ 1 \in 1..n /\ Dated(b) \in SUBSET (1..n)
  <2>1. n \in Nat /\ n # 0
    BY <1>1
  <2>2. Dated(b) \in SUBSET (1..n)
    BY <1>1 DEF Dated
  <2> QED
    BY <2>1, <2>2
<1>3. PICK A, B, C, D, E : /\ A = OcrYearTitleCompany(b) /\ B = InlineTitleCompany(b)
                           /\ C = CompanyFirst(b) /\ D = Discrete(b) /\ E = EngineEntry(b)
  OBVIOUS
<1>4. PICK X : X = ParseExperienceBlock(b)
  OBVIOUS
<1>5. E # {} <=> SaysTitle(b)
  BY <1>3 DEF EngineEntry, NoEntry
<1>6. X = FirstFit(<<A, B, C, D, E>>)
  BY <1>3, <1>4 DEF ParseExperienceBlock
<1>7. /\ X \in {A, B, C, D, E} \cup {{}}
      /\ E # {} => X # {}
      /\ A # {} => X = A
  BY <1>6, FirstFitIs
<1>8. ASSUME NEW Y, NEW S, Y # {}, \A e \in Y : e.dates = {b[i] : i \in S},
             S \subseteq 1..n, Dated(b) \subseteq S
      PROVE  /\ \A e \in Y : \A q \in e.dates : \E i \in 1..n : q = b[i]
             /\ \A i \in Dated(b) : \E e \in Y : b[i] \in e.dates
  BY <1>8
<1>9. CASE A # {}
  <2>1. n >= 2 /\ A = {Entry("ocr", b[1], b[2], {b[1], b[2]})} /\ OcrPair(b[1].kind, b[2].kind)
    BY <1>1, <1>3, <1>9 DEF OcrYearTitleCompany, NoEntry
  <2>2. {b[1], b[2]} = {b[i] : i \in {1, 2}} /\ {1, 2} \subseteq 1..n
    BY <1>2, <2>1
  <2>3. \A e \in A : e.dates = {b[i] : i \in {1, 2}}
    BY <2>1, <2>2 DEF Entry
  <2>4. Dated(b) \subseteq {1, 2}
    <3>1. CASE \A i, j \in Dated(b) : i = j
      <4>1. b[1] \in TextPiece
        BY <1>1, <1>2
      <4>2. b[1].kind \in Kind
        BY <4>1, PieceIs
      <4>3. Year(b[1].kind)
        BY <2>1, <4>2, LineAssumption DEF OcrPair, Is, Year
      <4>4. 1 \in Dated(b)
        BY <1>1, <1>2, <4>3 DEF Dated
      <4> QED
        BY <3>1, <4>4
    <3>2. CASE Dated(b) \subseteq {1, 2}
      BY <3>2
    <3> QED
      BY <3>1, <3>2 DEF OneDate
  <2>5. X = A
    BY <1>7, <1>9
  <2> QED
    BY <1>1, <1>4, <1>8, <1>9, <2>2, <2>3, <2>4, <2>5
<1>11. CASE X = {}
  BY <1>4, <1>5, <1>7, <1>11
<1>10. CASE A = {} /\ X # {}
  <2>1. \A i, j \in Dated(b) : i = j
    <3>1. ~(n >= 2 /\ OcrPair(b[1].kind, b[2].kind))
      BY <1>1, <1>3, <1>10 DEF OcrYearTitleCompany
    <3> QED
      BY <1>1, <3>1 DEF OneDate
  <2>2. ASSUME NEW i \in Dated(b) PROVE Dated(b) = {i}
    BY <2>1
  <2>3. Dated(b) # {} => FirstDated(b) \in Dated(b) /\ {FirstDated(b)} \subseteq 1..n /\ Dated(b) \subseteq {FirstDated(b)}
    <3> SUFFICES ASSUME Dated(b) # {} PROVE FirstDated(b) \in Dated(b)
      BY <1>2, <2>2
    <3> QED
      BY <1>2, MinOf DEF FirstDated
  <2>4. \A i : {b[i]} = {b[j] : j \in {i}}
    OBVIOUS
  <2>5. CASE X = B
    <3>1. PICK later : later = {i \in Dated(b) : i > 1}
      OBVIOUS
    <3>2. later # {} /\ B = {Entry("inline", b[1], b[1], {b[Min(later)]})}
      BY <1>1, <1>3, <1>7, <1>10, <2>5, <3>1 DEF InlineTitleCompany, NoEntry
    <3>3. Min(later) \in Dated(b)
      <4>1. later \in SUBSET (1..n)
        BY <1>2, <3>1
      <4> QED
        BY <1>2, <3>1, <3>2, <4>1, MinOf
    <3>4. {Min(later)} \subseteq 1..n /\ Dated(b) \subseteq {Min(later)}
      BY <1>2, <2>2, <3>3
    <3>5. \A e \in B : e.dates = {b[i] : i \in {Min(later)}}
      BY <2>4, <3>2 DEF Entry
    <3> QED
      BY <1>1, <1>4, <1>7, <1>10, <1>8, <2>5, <3>4, <3>5
  <2>6. CASE X = C
    <3>1. n >= 2 /\ Year(b[2].kind) /\ C = {Entry("company_first", b[2], b[1], {b[2]})}
      BY <1>1, <1>3, <1>7, <1>10, <2>6 DEF CompanyFirst, NoEntry
    <3>2. 2 \in Dated(b)
      BY <1>1, <1>2, <3>1 DEF Dated
    <3>4. {2} \subseteq 1..n /\ Dated(b) \subseteq {2}
      BY <1>2, <2>2, <3>2
    <3>5. \A e \in C : e.dates = {b[i] : i \in {2}}
      BY <2>4, <3>1 DEF Entry
    <3> QED
      BY <1>1, <1>4, <1>7, <1>10, <1>8, <2>6, <3>4, <3>5
  <2>7. CASE X = D
    <3>1. Dated(b) # {} /\ D = {Entry("discrete", b[1], b[2], {b[FirstDated(b)]})}
      BY <1>1, <1>3, <1>7, <1>10, <2>7 DEF Discrete, NoEntry
    <3>5. \A e \in D : e.dates = {b[i] : i \in {FirstDated(b)}}
      BY <2>4, <3>1 DEF Entry
    <3> QED
      BY <1>1, <1>4, <1>7, <1>10, <1>8, <2>3, <2>7, <3>1, <3>5
  <2>8. CASE X = E
    <3>1. PICK D8 : D8 = EngineDates(b)
      OBVIOUS
    <3>2. PICK dates : dates = IF D8 = {} THEN {} ELSE {b[Min(D8)]}
      OBVIOUS
    <3>3. \A e \in E : e.dates = dates
      <4>1. ASSUME NEW l, NEW t, NEW o PROVE Entry(l, t, o, dates).dates = dates
        BY DEF Entry
      <4>2. E = {} \/ \E t, o : E = {Entry("engine", t, o, dates)}
        BY <1>3, <3>1, <3>2, Zenon DEF EngineEntry, NoEntry
      <4> QED
        BY <4>1, <4>2
    <3>4. D8 \in SUBSET (1..n)
      BY <1>1, <3>1 DEF EngineDates, Opening
    <3>5. D8 # {} => Min(D8) \in D8 /\ \A i \in D8 : Min(D8) <= i
      BY <1>2, <3>4, MinOf
    <3>6. \A e \in E : \A q \in e.dates : \E i \in 1..n : q = b[i]
      BY <3>2, <3>3, <3>4, <3>5
    <3>7. ASSUME NEW i \in Dated(b), ReadsDate(b, b[i]) PROVE b[i] \in dates
      <4>1. PICK k \in Opening(b) : b[k] = b[i] /\ \A j \in 1..k : ~Is("present", b[j].kind)
        BY <3>7 DEF ReadsDate
      <4>2. k \in 1..n
        BY <1>1 DEF Opening
      <4>3. k \in Dated(b) /\ k \in D8
        BY <1>1, <3>1, <4>1, <4>2 DEF Dated, EngineDates
      <4>4. PICK m : m = Min(D8)
        OBVIOUS
      <4>5. m \in D8 /\ m <= k /\ m \in 1..n
        BY <3>4, <3>5, <4>3, <4>4
      <4>6. m \in 1..k
        BY <4>2, <4>5
      <4>7. m \in Dated(b)
        BY <1>1, <3>1, <4>1, <4>5, <4>6 DEF Dated, EngineDates
      <4>8. m = k
        BY <2>1, <4>3, <4>7
      <4> QED
        BY <3>2, <4>1, <4>3, <4>4, <4>8
    <3> QED
      BY <1>1, <1>4, <1>10, <2>8, <3>3, <3>6, <3>7
  <2> QED
    BY <1>7, <1>10, <2>5, <2>6, <2>7, <2>8
<1> QED
  BY <1>9, <1>10, <1>11

DatesOne(p) ==
  \E i \in 1..Len(ExperienceBlocks) :
     /\ \A j \in 1..Len(ExperienceBlocks) : p \in Range(ExperienceBlocks[j]) <=> j = i
     /\ SaysTitle(ExperienceBlocks[i]) /\ ReadsDate(ExperienceBlocks[i], p) =>
          Cardinality({j \in 1..Len(ExperienceEntries) :
                         \E e \in ExperienceEntries[j] : p \in e.dates}) = 1

\* Every dated piece of the experience section is in one block, and dates one
\* entry of the draft when the block says a title and its date is read.
LEMMA DatesRead ==
  ASSUME sections \in [Section -> Seq(TextPiece)],
         \A i, j \in 1..Len(sections["experience"]) :
            sections["experience"][i].from = sections["experience"][j].from => i = j
  PROVE  \A p \in Range(sections["experience"]) : Year(p.kind) => DatesOne(p)
<1> SUFFICES ASSUME NEW p \in Range(sections["experience"]), Year(p.kind)
             PROVE  DatesOne(p)
  OBVIOUS
<1>1. PICK s : s = sections["experience"]
  OBVIOUS
<1>2. s \in Seq(TextPiece) /\ \A i, j \in 1..Len(s) : s[i].from = s[j].from => i = j
  BY <1>1, LineAssumption
<1>3. PICK a \in BlockState : BlocksFit(s, Len(s), BlocksOf(a)) /\ SplitNonEmptyBlocks(s) = Close(a.blocks, a.block)
  BY <1>2, BlocksKnown
<1>4. PICK B, N : B = BlocksOf(a) /\ N = Len(a.blocks)
  OBVIOUS
<1>5. a.blocks \in Seq(Seq(TextPiece)) /\ a.block \in Seq(TextPiece)
  BY BlockStateIs
<1>6. /\ N \in Nat /\ B \in Seq(Seq(TextPiece)) /\ Len(B) = N + 1 /\ B[N + 1] = a.block
      /\ \A i \in 1..N : B[i] = a.blocks[i]
  BY <1>4, <1>5 DEF BlocksOf
<1>7. PICK m \in 1..Len(s) : p = s[m]
  BY <1>1, <1>2 DEF Range
<1>8. ~Blank(p.kind)
  <2>1. p \in TextPiece
    BY <1>2, <1>7
  <2> QED
    BY <2>1, PieceIs, LineAssumption DEF Year, Blank, Is
<1>9. PICK k \in 1..(N + 1) : \E j \in 1..Len(B[k]) : B[k][j] = p
  BY <1>3, <1>4, <1>6, <1>7, <1>8 DEF BlocksFit
<1>10. PICK j \in 1..Len(B[k]) : B[k][j] = p
  BY <1>9
<1>11. PICK K, blocks : K = Len(blocks) /\ blocks = ExperienceBlocks
  OBVIOUS
<1>12. /\ K \in Nat /\ \A i \in 1..K : i \in 1..(N + 1) /\ blocks[i] = B[i] /\ blocks[i] # <<>>
       /\ blocks \in Seq(Seq(TextPiece)) /\ k \in 1..K
  <2>1. blocks = Close(a.blocks, a.block)
    BY <1>1, <1>3, <1>11 DEF ExperienceBlocks
  <2>2. \A i \in 1..N : i \in 1..(N + 1) /\ i < N + 1 /\ B[i] # <<>>
    <3>1. \A i \in 1..N : i \in 1..(N + 1) /\ i < N + 1
      BY <1>6
    <3> QED
      BY <1>3, <1>4, <1>6, <3>1 DEF BlocksFit
  <2>3. CASE a.block = <<>>
    <3>1. blocks = a.blocks /\ K = N
      BY <1>4, <1>11, <2>1, <2>3 DEF Close
    <3>2. k # N + 1
      BY <1>6, <1>10, <2>3
    <3>3. k \in 1..K
      BY <1>6, <3>1, <3>2
    <3> QED
      BY <1>5, <1>6, <2>2, <3>1, <3>3
  <2>4. CASE a.block # <<>>
    <3>1. blocks = B /\ K = N + 1
      BY <1>4, <1>6, <1>11, <2>1, <2>4 DEF Close, BlocksOf
    <3>2. \A i \in 1..K : i \in 1..N \/ i = N + 1
      BY <1>6, <3>1
    <3> QED
      BY <1>6, <2>2, <2>4, <3>1, <3>2
  <2> QED
    BY <2>3, <2>4
<1>13. \A i \in 1..K : blocks[i] \in Seq(TextPiece) /\ OneDate(blocks[i])
  <2>1. \A i \in 1..(N + 1) : OneDate(B[i])
    BY <1>3, <1>4, <1>6 DEF BlocksFit
  <2> QED
    BY <1>11, <1>12, <2>1
<1>14. \A i \in 1..K :
         /\ \A e \in ParseExperienceBlock(blocks[i]) : \A q \in e.dates : \E l \in 1..Len(blocks[i]) : q = blocks[i][l]
         /\ SaysTitle(blocks[i]) =>
              \A l \in Dated(blocks[i]) : ReadsDate(blocks[i], blocks[i][l]) =>
                 \E e \in ParseExperienceBlock(blocks[i]) : blocks[i][l] \in e.dates
  BY <1>12, <1>13, EntryIs
<1>15. ASSUME NEW i \in 1..K, NEW l \in 1..Len(blocks[i]), blocks[i][l] = p PROVE i = k
  <2>1. i \in 1..(N + 1) /\ l \in 1..Len(B[i]) /\ B[i][l] = B[k][j]
    BY <1>10, <1>12, <1>15
  <2>a. BlocksFit(s, Len(s), B) /\ 1..Len(B) = 1..(N + 1)
    BY <1>3, <1>4, <1>6
  <2>b. \A u, v \in 1..Len(B) : \A q \in 1..Len(B[u]), w \in 1..Len(B[v]) : B[u][q] = B[v][w] => u = v
    BY <2>a DEF BlocksFit
  <2>4. \A u, v \in 1..(N + 1) : \A q \in 1..Len(B[u]), w \in 1..Len(B[v]) : B[u][q] = B[v][w] => u = v
    BY <2>a, <2>b
  <2> QED
    BY <1>10, <2>1, <2>4
<1>16. j \in Dated(blocks[k]) /\ blocks[k][j] = p /\ j \in 1..Len(blocks[k])
  BY <1>10, <1>12 DEF Dated
<1>17. \A i \in 1..K : p \in Range(blocks[i]) <=> i = k
  <2>1. ASSUME NEW i \in 1..K PROVE Range(blocks[i]) = {blocks[i][l] : l \in 1..Len(blocks[i])}
    BY <1>13 DEF Range
  <2>2. ASSUME NEW i \in 1..K, p \in Range(blocks[i]) PROVE i = k
    <3>1. PICK l \in 1..Len(blocks[i]) : p = blocks[i][l]
      BY <2>1, <2>2
    <3> QED
      BY <1>15, <3>1
  <2>3. k \in 1..K /\ p \in Range(blocks[k])
    <3>1. k \in 1..K
      BY <1>12
    <3> QED
      BY <1>16, <2>1, <3>1
  <2> QED
    BY <2>2, <2>3
<1>18. ASSUME SaysTitle(blocks[k]), ReadsDate(blocks[k], p)
       PROVE  Cardinality({i \in 1..Len(ExperienceEntries) :
                             \E e \in ExperienceEntries[i] : p \in e.dates}) = 1
  <2>1. \E e \in ParseExperienceBlock(blocks[k]) : p \in e.dates
    BY <1>12, <1>14, <1>16, <1>18
  <2>2. PICK own : own = EntriesOf(blocks)
    OBVIOUS
  <2>3. own = [i \in 1..K |-> ParseExperienceBlock(blocks[i])]
    BY <1>11, <2>2 DEF EntriesOf
  <2>4. own[k] # NoEntry
    BY <1>12, <2>1, <2>3 DEF NoEntry
  <2>5. ExperienceEntries = own
    BY <1>11, <1>12, <2>2, <2>4 DEF ExperienceEntries
  <2>6. PICK entries : entries = ExperienceEntries
    OBVIOUS
  <2>7. Len(entries) = K /\ \A i \in 1..K : entries[i] = ParseExperienceBlock(blocks[i])
    BY <1>12, <2>3, <2>5, <2>6
  <2>8. PICK X : X = {i \in 1..K : \E e \in entries[i] : p \in e.dates}
    OBVIOUS
  <2>9. k \in X
    BY <1>12, <2>1, <2>7, <2>8
  <2>10. ASSUME NEW i \in X PROVE i = k
    <3>1. i \in 1..K /\ \E e \in ParseExperienceBlock(blocks[i]) : p \in e.dates
      BY <2>7, <2>8
    <3>2. PICK l \in 1..Len(blocks[i]) : p = blocks[i][l]
      BY <1>14, <3>1
    <3> QED
      BY <1>15, <3>1, <3>2
  <2>11. X = {k}
    BY <2>9, <2>10
  <2>12. Cardinality(X) = 1
    BY <2>11, FS_Singleton
  <2> QED
    BY <2>6, <2>7, <2>8, <2>12
<1> QED
  BY <1>11, <1>12, <1>17, <1>18 DEF DatesOne

-----------------------------------------------------------------------------
(* Reading a CV: the states.                                               *)

Filings == [s \in Places |-> FiledUnder(s)]

ReaderInv ==
  /\ doc \in Seq(Kind) /\ lines \in Seq(TextPiece) /\ at \in Nat /\ at >= 1
  /\ section \in Places /\ preamble \in Seq(TextPiece) /\ sections \in [Section -> Seq(TextPiece)]
  /\ reading \in {"prepare", "segment", "done"}
  /\ reading = "prepare" => at <= Len(doc) + 1 /\ Prepared(doc, lines, at) /\ FiledOf(Filings, lines, 0)
  /\ reading # "prepare" => /\ Prepared(doc, lines, Len(doc) + 1)
                            /\ at <= Len(lines) + 1 /\ FiledOf(Filings, lines, at - 1)
  /\ reading = "done" => at = Len(lines) + 1
  /\ EachDateHasItsEntry

LEMMA ReaderStarts == ReaderInit => ReaderInv
<1> SUFFICES ASSUME ReaderInit PROVE ReaderInv
  OBVIOUS
<1>1. /\ doc \in Document /\ reading = "prepare" /\ at = 1 /\ lines = <<>> /\ section = None
      /\ preamble = <<>> /\ sections = [s \in Section |-> <<>>]
  BY DEF ReaderInit
<1>2. doc \in Seq(Kind) /\ section \in Places
  BY <1>1, LineAssumption DEF Places
<1>3. lines \in Seq(TextPiece) /\ preamble \in Seq(TextPiece) /\ sections \in [Section -> Seq(TextPiece)]
  BY <1>1
<1>4. at <= Len(doc) + 1
  BY <1>1, <1>2
<1>5. Prepared(doc, lines, at)
  BY <1>1 DEF Prepared, Follow
<1>6. \A s \in Places : Filings[s] = <<>>
  BY <1>1 DEF Filings, FiledUnder, Places
<1>7. FiledOf(Filings, lines, 0)
  <2>1. Filings \in [Places -> Seq(TextPiece)]
    <3>1. \A s \in Places : FiledUnder(s) \in Seq(TextPiece)
      BY <1>1 DEF FiledUnder, Places
    <3> QED
      BY <3>1 DEF Filings
  <2>2. \A s \in Places : 1..Len(Filings[s]) = {}
    BY <1>6
  <2> QED
    BY <2>1, <2>2 DEF FiledOf
<1>8. EachDateHasItsEntry
  BY <1>1 DEF EachDateHasItsEntry
<1> QED
  BY <1>1, <1>2, <1>3, <1>4, <1>5, <1>7, <1>8 DEF ReaderInv

\* The line to prepare: the next one, or the next two.
LEMMA CandidateIs ==
  ASSUME doc \in Seq(Kind), at \in 1..Len(doc)
  PROVE  /\ Candidate \in TextPiece /\ Candidate.from = at /\ Candidate.to + 1 \in 1..(Len(doc) + 1)
         /\ \/ Candidate.to = at /\ Candidate.kind = doc[at]
            \/ Candidate.to = at + 1 /\ at < Len(doc) /\ Candidate.kind = Joined[<<doc[at], doc[at + 1]>>]
<1>1. PICK N : N = Len(doc) /\ N \in Nat
  OBVIOUS
<1>2. at \in Nat /\ at >= 1 /\ at <= N
  BY <1>1
<1>3. CASE at < Len(doc) /\ JoinsNext(doc[at], doc[at + 1])
  <2>1. Candidate = [kind |-> Joined[<<doc[at], doc[at + 1]>>], from |-> at, to |-> at + 1]
    BY <1>3 DEF Candidate
  <2>2. at + 1 \in 1..Len(doc) /\ doc[at] \in Kind /\ doc[at + 1] \in Kind
    BY <1>1, <1>2, <1>3
  <2>3. Joined[<<doc[at], doc[at + 1]>>] \in Kind
    BY <2>2, LineAssumption
  <2> QED
    BY <1>1, <1>2, <1>3, <2>1, <2>3 DEF TextPiece
<1>4. CASE ~(at < Len(doc) /\ JoinsNext(doc[at], doc[at + 1]))
  <2>1. Candidate = [kind |-> doc[at], from |-> at, to |-> at]
    BY <1>4 DEF Candidate
  <2>2. doc[at] \in Kind
    OBVIOUS
  <2> QED
    BY <1>1, <1>2, <2>1, <2>2 DEF TextPiece
<1> QED
  BY <1>3, <1>4

\* A piece in its place.
LEMMA PlaceFiles ==
  ASSUME preamble \in Seq(TextPiece), sections \in [Section -> Seq(TextPiece)],
         NEW s \in Places, NEW p \in TextPiece, Place(s, p)
  PROVE  /\ preamble' \in Seq(TextPiece) /\ sections' \in [Section -> Seq(TextPiece)]
         /\ Filings' = [Filings EXCEPT ![s] = Append(@, p)]
<1>1. None \notin Section
  BY LineAssumption
<1>2. CASE s = None
  <2>1. preamble' = Append(preamble, p) /\ sections' = sections
    BY <1>2 DEF Place
  <2>2. Filings' = [t \in Places |-> IF t = s THEN Append(Filings[t], p) ELSE Filings[t]]
    BY <1>1, <1>2, <2>1 DEF Filings, FiledUnder, Places
  <2>3. Filings' = [Filings EXCEPT ![s] = Append(@, p)]
    BY <2>2 DEF Filings
  <2>4. preamble' \in Seq(TextPiece)
    BY <2>1
  <2> QED
    BY <2>1, <2>3, <2>4
<1>3. CASE s # None
  <2>1. sections' = [sections EXCEPT ![s] = Append(@, p)] /\ preamble' = preamble /\ s \in Section
    BY <1>3 DEF Place, Places
  <2>2. sections' \in [Section -> Seq(TextPiece)] /\ sections'[s] = Append(sections[s], p)
        /\ \A t \in Section : t # s => sections'[t] = sections[t]
    BY <2>1
  <2>3. Filings' = [t \in Places |-> IF t = s THEN Append(Filings[t], p) ELSE Filings[t]]
    BY <1>1, <1>3, <2>1, <2>2 DEF Filings, FiledUnder, Places
  <2> QED
    BY <2>1, <2>2, <2>3 DEF Filings
<1> QED
  BY <1>2, <1>3

LEMMA LinePreparing == ReaderInv /\ PrepareLine => ReaderInv'
<1> SUFFICES ASSUME ReaderInv, PrepareLine PROVE ReaderInv'
  OBVIOUS
<1>1. PICK c : c = Candidate
  OBVIOUS
<1>2. /\ reading = "prepare" /\ at <= Len(doc)
      /\ lines' = (IF Repeats(c) THEN lines ELSE Append(lines, c))
      /\ at' = c.to + 1
      /\ UNCHANGED <<doc, reading, section, preamble, sections>>
  BY <1>1 DEF PrepareLine
<1>3. /\ doc \in Seq(Kind) /\ lines \in Seq(TextPiece) /\ at \in Nat /\ at >= 1 /\ Len(doc) \in Nat
      /\ section \in Places /\ preamble \in Seq(TextPiece) /\ sections \in [Section -> Seq(TextPiece)]
      /\ Prepared(doc, lines, at) /\ FiledOf(Filings, lines, 0)
  BY <1>2 DEF ReaderInv
<1>4. at \in 1..Len(doc)
  BY <1>2, <1>3
<1>5. /\ c \in TextPiece /\ c.from = at /\ c.to + 1 \in 1..(Len(doc) + 1)
      /\ \/ c.to = at /\ c.kind = doc[at]
         \/ c.to = at + 1 /\ at < Len(doc) /\ c.kind = Joined[<<doc[at], doc[at + 1]>>]
  BY <1>1, <1>3, <1>4, CandidateIs
<1>6. /\ Prepared(doc, Append(lines, c), c.to + 1)
      /\ lines # <<>> /\ lines[Len(lines)].kind = c.kind => Prepared(doc, lines, c.to + 1)
  BY <1>3, <1>4, <1>5, LinePrepared
<1>7. lines' \in Seq(TextPiece) /\ Prepared(doc, lines', at')
  <2>1. CASE Repeats(c)
    <3>1. lines # <<>> /\ lines[Len(lines)].kind = c.kind
      BY <2>1 DEF Repeats, Last
    <3> QED
      BY <1>2, <1>3, <1>6, <2>1, <3>1
  <2>2. CASE ~Repeats(c)
    BY <1>2, <1>3, <1>5, <1>6, <2>2
  <2> QED
    BY <2>1, <2>2
<1>8. Filings' = Filings
  BY <1>2 DEF Filings, FiledUnder
<1>9. FiledOf(Filings, lines', 0)
  BY <1>3 DEF FiledOf
<1>10. EachDateHasItsEntry'
  BY <1>2 DEF EachDateHasItsEntry
<1>11. at' \in Nat /\ at' >= 1 /\ at' <= Len(doc) + 1
  BY <1>2, <1>3, <1>5
<1> QED
  BY <1>2, <1>3, <1>7, <1>8, <1>9, <1>10, <1>11 DEF ReaderInv

LEMMA SegmentingStarts == ReaderInv /\ StartSegmenting => ReaderInv'
<1> SUFFICES ASSUME ReaderInv, StartSegmenting PROVE ReaderInv'
  OBVIOUS
<1>1. /\ reading = "prepare" /\ at > Len(doc) /\ reading' = "segment" /\ at' = 1
      /\ UNCHANGED <<doc, lines, section, preamble, sections>>
  BY DEF StartSegmenting
<1>2. /\ doc \in Seq(Kind) /\ lines \in Seq(TextPiece) /\ at \in Nat
      /\ section \in Places /\ preamble \in Seq(TextPiece) /\ sections \in [Section -> Seq(TextPiece)]
      /\ at <= Len(doc) + 1 /\ Prepared(doc, lines, at) /\ FiledOf(Filings, lines, 0)
  BY <1>1 DEF ReaderInv
<1>3. Filings' = Filings
  BY <1>1 DEF Filings, FiledUnder
<1>4. Len(doc) \in Nat /\ Len(lines) \in Nat
  BY <1>2
<1>5. at = Len(doc) + 1 /\ 1 <= Len(lines) + 1 /\ 1 - 1 = 0
  BY <1>1, <1>2, <1>4
<1>6. EachDateHasItsEntry'
  BY <1>1 DEF EachDateHasItsEntry
<1> QED
  BY <1>1, <1>2, <1>3, <1>5, <1>6 DEF ReaderInv

LEMMA LineSegmenting == ReaderInv /\ (ReadHeading \/ ReadInlineHeading \/ ReadContent) => ReaderInv'
<1> SUFFICES ASSUME ReaderInv, ReadHeading \/ ReadInlineHeading \/ ReadContent PROVE ReaderInv'
  OBVIOUS
<1>1. PICK c : c = Current
  OBVIOUS
<1>2. /\ reading = "segment" /\ at <= Len(lines)
      /\ at' = at + 1 /\ doc' = doc /\ reading' = reading /\ lines' = lines
  BY DEF ReadHeading, ReadInlineHeading, ReadContent, Segmenting, NextLine
<1>3. /\ doc \in Seq(Kind) /\ lines \in Seq(TextPiece) /\ at \in Nat /\ at >= 1
      /\ section \in Places /\ preamble \in Seq(TextPiece) /\ sections \in [Section -> Seq(TextPiece)]
      /\ Prepared(doc, lines, Len(doc) + 1) /\ FiledOf(Filings, lines, at - 1)
  BY <1>2 DEF ReaderInv
<1>4. at \in 1..Len(lines) /\ Len(lines) \in Nat /\ c = lines[at] /\ at + 1 - 1 = at
  BY <1>1, <1>2, <1>3 DEF Current
<1>5. c \in TextPiece /\ c.kind \in Kind
  BY <1>3, <1>4, PieceIs
<1>6. /\ Heading(c.kind) # None => Heading(c.kind) \in Section
      /\ InlineHeading(c.kind) # None => InlineHeading(c.kind) \in Section
      /\ Payload[c.kind] \in Kind
  BY <1>5, LineAssumption DEF Heading, InlineHeading
<1>7. /\ \A s \in Places : \A p \in TextPiece :
           p.from = lines[at].from => FiledOf([Filings EXCEPT ![s] = Append(@, p)], lines, at)
      /\ Heading(lines[at].kind) # None => FiledOf(Filings, lines, at)
  BY <1>3, <1>4, LineFiled DEF Prepared
<1>8. /\ section' \in Places /\ preamble' \in Seq(TextPiece) /\ sections' \in [Section -> Seq(TextPiece)]
      /\ FiledOf(Filings', lines, at)
  <2>1. CASE ReadHeading
    <3>1. Heading(c.kind) # None /\ section' = Heading(c.kind) /\ preamble' = preamble /\ sections' = sections
      BY <1>1, <2>1 DEF ReadHeading
    <3>2. Filings' = Filings
      BY <3>1 DEF Filings, FiledUnder
    <3>3. section' \in Places
      BY <1>6, <3>1 DEF Places
    <3> QED
      BY <1>3, <1>4, <1>7, <3>1, <3>2, <3>3
  <2>2. CASE ReadInlineHeading
    <3>1. PICK s, p : s = InlineHeading(c.kind) /\ p = [c EXCEPT !.kind = Payload[@]]
      OBVIOUS
    <3>2. s # None /\ section' = s /\ Place(section', p)
      BY <1>1, <2>2, <3>1 DEF ReadInlineHeading
    <3>3. s \in Places /\ p \in TextPiece /\ p.from = lines[at].from
      BY <1>4, <1>5, <1>6, <3>1, <3>2 DEF Places, TextPiece
    <3>4. Place(s, p)
      BY <3>2 DEF Place
    <3>5. /\ preamble' \in Seq(TextPiece) /\ sections' \in [Section -> Seq(TextPiece)]
          /\ Filings' = [Filings EXCEPT ![s] = Append(@, p)]
      BY <1>3, <3>3, <3>4, PlaceFiles
    <3> QED
      BY <1>7, <3>2, <3>3, <3>5
  <2>3. CASE ReadContent
    <3>1. section' = section /\ Place(section, c)
      BY <1>1, <2>3 DEF ReadContent
    <3>2. c.from = lines[at].from
      BY <1>4
    <3>5. /\ preamble' \in Seq(TextPiece) /\ sections' \in [Section -> Seq(TextPiece)]
          /\ Filings' = [Filings EXCEPT ![section] = Append(@, c)]
      BY <1>3, <1>5, <3>1, PlaceFiles
    <3> QED
      BY <1>3, <1>5, <1>7, <3>1, <3>2, <3>5
  <2> QED
    BY <2>1, <2>2, <2>3
<1>9. EachDateHasItsEntry'
  BY <1>2 DEF EachDateHasItsEntry
<1> QED
  BY <1>2, <1>3, <1>4, <1>8, <1>9 DEF ReaderInv

\* At the end every line has been read.
LEMMA ReadWhole == ReaderInv => NoLineLost
<1> SUFFICES ASSUME ReaderInv, reading = "done" PROVE NoLineLost
  BY DEF NoLineLost
<1>1. /\ doc \in Seq(Kind) /\ lines \in Seq(TextPiece) /\ Prepared(doc, lines, Len(doc) + 1)
      /\ at = Len(lines) + 1 /\ FiledOf(Filings, lines, at - 1)
  BY DEF ReaderInv
<1>a. PICK N, n : N = Len(doc) /\ n = Len(lines)
  OBVIOUS
<1>b. N \in Nat
  BY <1>1, <1>a
<1>c. n \in Nat /\ DOMAIN lines = 1..n
  BY <1>1, <1>a
<1>2. N = Len(doc) /\ N \in Nat /\ n = Len(lines) /\ n \in Nat /\ DOMAIN lines = 1..n
  BY <1>a, <1>b, <1>c
<1>3. FiledOf(Filings, lines, n) /\ \A i \in 1..N : KeptIn(doc, lines, i)
  BY <1>1, <1>2 DEF Prepared
<1>4. \A k \in 1..n : lines[k] \in Range(lines)
  BY <1>2 DEF Range
<1>5. ASSUME NEW i \in 1..Len(doc)
      PROVE  \/ \E p \in Range(lines) : i \in Covers(p)
             \/ \E p \in Range(lines) : p.to < i /\ p.kind = doc[i]
             \/ \E p \in Range(lines), j \in {i - 1, i} \cap 1..(Len(doc) - 1) :
                    p.to < i /\ p.kind = Joined[<<doc[j], doc[j + 1]>>]
  BY <1>2, <1>3, <1>4 DEF KeptIn, Covers
<1>6. ASSUME NEW p \in Range(lines), Heading(p.kind) = None
      PROVE  Cardinality({x \in (Section \cup {None}) \X (1..Len(doc)) :
                    /\ x[2] <= Len(FiledUnder(x[1]))
                    /\ FiledUnder(x[1])[x[2]].from = p.from}) = 1
  <2>1. PICK k \in 1..n : p = lines[k]
    BY <1>2 DEF Range
  <2>2. /\ \A s \in Places : FiledUnder(s) = Filings[s]
        /\ Filings \in [Places -> Seq(TextPiece)]
        /\ \A s \in Places : \A i \in 1..Len(Filings[s]) : i <= Filings[s][i].from
        /\ \A s, t \in Places : \A i \in 1..Len(Filings[s]), j \in 1..Len(Filings[t]) :
              Filings[s][i].from = Filings[t][j].from => s = t /\ i = j
        /\ \E s \in Places : \E i \in 1..Len(Filings[s]) : Filings[s][i].from = p.from
    BY <1>3, <1>6, <2>1 DEF FiledOf, Filings
  <2>3. PICK s \in Places : \E i \in 1..Len(Filings[s]) : Filings[s][i].from = p.from
    BY <2>2
  <2>4. PICK i \in 1..Len(Filings[s]) : Filings[s][i].from = p.from
    BY <2>3
  <2>5. p.from \in Int /\ p.from <= N
    <3>1. lines[k] \in TextPiece /\ lines[k].to < N + 1 /\ lines[k].from <= lines[k].to
      BY <1>1, <1>2 DEF Prepared, Follow
    <3> QED
      BY <1>2, <2>1, <3>1, PieceIs
  <2>6. i \in 1..N
    <3>1. Filings[s] \in Seq(TextPiece) /\ i <= Filings[s][i].from
      BY <2>2
    <3>2. i \in Nat /\ i >= 1
      BY <3>1
    <3> QED
      BY <1>2, <2>4, <2>5, <3>1, <3>2
  <2>7. PICK X : X = {x \in Places \X (1..N) : x[2] <= Len(FiledUnder(x[1])) /\ FiledUnder(x[1])[x[2]].from = p.from}
    OBVIOUS
  <2>8. <<s, i>> \in X
    BY <1>2, <2>2, <2>4, <2>6, <2>7
  <2>9. ASSUME NEW x \in X PROVE x = <<s, i>>
    <3>1. PICK t \in Places, j \in 1..N : x = <<t, j>>
      BY <2>7, <2>9
    <3>2. j <= Len(Filings[t]) /\ Filings[t][j].from = p.from /\ Len(Filings[t]) \in Nat
      BY <2>2, <2>7, <2>9, <3>1
    <3>3. j \in 1..Len(Filings[t])
      BY <1>2, <3>2
    <3>4. t = s /\ j = i
      BY <2>2, <2>4, <3>2, <3>3
    <3> QED
      BY <3>1, <3>4
  <2>10. X = {<<s, i>>}
    BY <2>8, <2>9
  <2>11. Cardinality(X) = 1
    BY <2>10, FS_Singleton
  <2> QED
    BY <1>2, <2>7, <2>11 DEF Places
<1> QED
  BY <1>5, <1>6 DEF NoLineLost

LEMMA DraftParsed == ReaderInv /\ ParseDraft => ReaderInv'
<1> SUFFICES ASSUME ReaderInv, ParseDraft PROVE ReaderInv'
  OBVIOUS
<1>1. /\ reading = "segment" /\ at > Len(lines) /\ reading' = "done"
      /\ UNCHANGED <<doc, at, lines, section, preamble, sections>> /\ draft' = ReadDraft
  BY DEF ParseDraft, Finish
<1>2. /\ doc \in Seq(Kind) /\ lines \in Seq(TextPiece) /\ at \in Nat /\ at >= 1
      /\ section \in Places /\ preamble \in Seq(TextPiece) /\ sections \in [Section -> Seq(TextPiece)]
      /\ Prepared(doc, lines, Len(doc) + 1) /\ at <= Len(lines) + 1 /\ FiledOf(Filings, lines, at - 1)
  BY <1>1 DEF ReaderInv
<1>3. at = Len(lines) + 1
  <2>1. Len(lines) \in Nat
    BY <1>2
  <2> QED
    BY <1>1, <1>2, <2>1
<1>4. Filings' = Filings
  BY <1>1 DEF Filings, FiledUnder
<1>5. \A i, j \in 1..Len(sections["experience"]) :
         sections["experience"][i].from = sections["experience"][j].from => i = j
  <2>1. "experience" \in Places /\ "experience" # None
    BY LineAssumption DEF Places
  <2>2. Filings["experience"] = sections["experience"]
    BY <2>1 DEF Filings, FiledUnder
  <2>3. \A i, j \in 1..Len(Filings["experience"]) : Filings["experience"][i].from = Filings["experience"][j].from => i = j
    BY <1>2, <2>1 DEF FiledOf
  <2> QED
    BY <2>2, <2>3
<1>6. draft'.experience = ExperienceEntries
  <2>1. ReadDraft.experience = ExperienceEntries
    BY DEF ReadDraft, Titled, DraftWith
  <2> QED
    BY <1>1, <2>1
<1>7. EachDateHasItsEntry'
  <2>1. \A p \in Range(sections["experience"]) : Year(p.kind) => DatesOne(p)
    BY <1>2, <1>5, DatesRead
  <2>2. ExperienceBlocks' = ExperienceBlocks
    BY <1>1 DEF ExperienceBlocks
  <2> QED
    BY <1>1, <1>6, <2>1, <2>2 DEF EachDateHasItsEntry, DatesOne
<1> QED
  BY <1>1, <1>2, <1>3, <1>4, <1>7 DEF ReaderInv

\* A CV is read whole: every line of it is kept or repeats one before it, every
\* line kept is a heading or is filed in one place, and every dated line of the
\* experience section is in one block and dates one entry when the block says a
\* title and its date is read, whatever the document and whatever the patterns
\* find in its lines (_prepare_cv_text_for_parsing,
\* _segment_cv_sections, _split_non_empty_blocks, _parse_experience_block).
THEOREM CvReadWholeTheorem == ReaderSpec => []CvReadWhole
<1>1. ReaderInit => ReaderInv
  BY ReaderStarts
<1>2. ReaderInv /\ [ReaderNext]_readerVars => ReaderInv'
  <2> SUFFICES ASSUME ReaderInv, [ReaderNext]_readerVars PROVE ReaderInv'
    OBVIOUS
  <2>1. CASE PrepareLine
    BY <2>1, LinePreparing
  <2>2. CASE StartSegmenting
    BY <2>2, SegmentingStarts
  <2>3. CASE ReadHeading \/ ReadInlineHeading \/ ReadContent
    BY <2>3, LineSegmenting
  <2>4. CASE ParseDraft
    BY <2>4, DraftParsed
  <2>5. CASE UNCHANGED readerVars
    <3>1. UNCHANGED <<doc, reading, at, lines, section, preamble, sections, draft>>
      BY <2>5 DEF readerVars, textVars
    <3>2. Filings' = Filings
      BY <3>1 DEF Filings, FiledUnder
    <3>3. EachDateHasItsEntry' = EachDateHasItsEntry
      <4>1. ExperienceBlocks' = ExperienceBlocks
        BY <3>1 DEF ExperienceBlocks
      <4> QED
        BY <3>1, <4>1 DEF EachDateHasItsEntry
    <3> QED
      BY <3>1, <3>2, <3>3 DEF ReaderInv
  <2> QED
    BY <2>1, <2>2, <2>3, <2>4, <2>5 DEF ReaderNext
<1>3. ReaderInv => CvReadWhole
  <2>1. ReaderInv => EachDateHasItsEntry
    BY DEF ReaderInv
  <2> QED
    BY <2>1, ReadWhole DEF CvReadWhole
<1> QED
  BY <1>1, <1>2, <1>3, PTL DEF ReaderSpec

==============================================================================
