------------------------------ MODULE MCAccounts ------------------------------
(* Small instances of Accounts: what each of the requests may be, and the    *)
(* Google identity of one of the addresses.                                  *)
EXTENDS Accounts, TLC

CONSTANTS e1, e2, p1, p2, g1

MCGoogleMail == (g1 :> e1)
MCEmail == {e1, e2}
MCPassword == {p1, p2}
MCGoogleUser == {g1}

(* Something is set up, and then two requests of any kind follow.            *)
Setups == {"signup", "requestLink", "requestReset", "requestEmail", "setupTotp",
           "googleStart", "login", "fillProfile"}
SetupFirst == [r \in 1 .. 3 |-> IF r = 1 THEN Setups ELSE Op]

(* A link is asked for or the profile is saved, and then the account is deleted. *)
UseThenDelete == [r \in 1 .. 2 |-> IF r = 1 THEN {"requestLink", "fillProfile"}
                                   ELSE {"deleteAccount"}]

(* The specification does not tell passwords apart. *)
SamePasswords == Permutations(MCPassword)
===============================================================================
