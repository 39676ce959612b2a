------------------------------ MODULE Accounts ------------------------------
(***************************************************************************)
(* Registration, login and the two ways to change a password.  Each is one  *)
(* transaction: it looks the user up, checks, and writes; between the look  *)
(* and the write others may commit.  A password stands for itself: hashing  *)
(* is outside the model, but for a hash made with parameters that are not   *)
(* today's, which the next login replaces.                                  *)
(*                                                                         *)
(* users   the committed accounts, by the number of the request that made   *)
(*         them (0 for one that was there before)                           *)
(* asks    the requests in the order they were sent                         *)
(* chosen  history: the passwords that were chosen for an account by its    *)
(*         registration, by a reset, or by a change that proved a password  *)
(*         in force                                                         *)
(***************************************************************************)
EXTENDS Integers, Sequences

CONSTANTS
  Spellings,       (* email addresses as they are typed                     *)
  Norm,            (* lower case, without white space around                *)
  Passwords,
  Strong,          (* those with eight characters or more                   *)
  FirstEmail, FirstPassword,
  MaxAsks

ASSUME AccountsAssumption ==
  /\ Norm \in [Spellings -> Spellings]
  /\ \A s \in Spellings : Norm[Norm[s]] = Norm[s]
  /\ FirstEmail \in Spellings /\ Norm[FirstEmail] = FirstEmail
  /\ Strong \subseteq Passwords /\ FirstPassword \in Strong
  /\ MaxAsks \in Nat

VARIABLES users, asks, chosen

accountVars == <<users, asks, chosen>>

AccountsInit ==
  /\ users = [i \in {0} |-> [email |-> FirstEmail, password |-> FirstPassword,
                             outdated |-> TRUE]]
  /\ asks = <<>>
  /\ chosen = [i \in 0..MaxAsks |-> IF i = 0 THEN {FirstPassword} ELSE {}]

(* Mutant: the address is taken as it is typed.                             *)
AsTyped(s) == s

(* _normalize_email.                                                        *)
Normal(s) == Norm[s]

Named(s) == {i \in DOMAIN users : users[i].email = Normal(s)}

Ask(kind, email, id, current, new) ==
  /\ Len(asks) < MaxAsks
  /\ asks' = Append(asks, [kind |-> kind, email |-> email, id |-> id,
                           current |-> current, new |-> new, pc |-> "find"])
  /\ UNCHANGED <<users, chosen>>

Asking(r, kind, pc) ==
  r \in DOMAIN asks /\ asks[r].kind = kind /\ asks[r].pc = pc

(* A finished request; only its number matters.                             *)
Closed == [kind |-> "register", email |-> FirstEmail, id |-> 0,
           current |-> FirstPassword, new |-> FirstPassword, pc |-> "done"]

(* The request goes on, with a user in hand.                                *)
Proceeds(r, pc, i) ==
  asks' = [asks EXCEPT ![r] =
             IF pc = "done" THEN Closed ELSE [@ EXCEPT !.pc = pc, !.id = i]]
Refused(r) == Proceeds(r, "done", 0) /\ UNCHANGED <<users, chosen>>

-----------------------------------------------------------------------------
(* register: the strength and the address are checked, then the row is      *)
(* inserted.                                                                *)
FindFree(r) ==
  /\ Asking(r, "register", "find")
  /\ IF asks[r].new \notin Strong \/ Named(asks[r].email) # {} THEN Refused(r)
     ELSE Proceeds(r, "insert", r) /\ UNCHANGED <<users, chosen>>

(* The INSERT waits for an uncommitted one of the same address; the unique  *)
(* index refuses an address that is taken by then.                          *)
InsertUser(r) ==
  /\ Asking(r, "register", "insert")
  /\ \A q \in DOMAIN asks :
       Asking(q, "register", "commit") => Normal(asks[q].email) # Normal(asks[r].email)
  /\ IF Named(asks[r].email) # {} THEN Refused(r)
     ELSE Proceeds(r, "commit", r) /\ UNCHANGED <<users, chosen>>

CommitUser(r) ==
  /\ Asking(r, "register", "commit")
  /\ users' = [i \in DOMAIN users \cup {r} |->
                 IF i = r THEN [email |-> Normal(asks[r].email),
                                password |-> asks[r].new, outdated |-> FALSE]
                 ELSE users[i]]
  /\ chosen' = [chosen EXCEPT ![r] = {asks[r].new}]
  /\ Proceeds(r, "done", 0)

(* Mutant: the hash is renewed before the password is verified.             *)
LoginRehashFirst(r) ==
  /\ Asking(r, "login", "find")
  /\ \/ Named(asks[r].email) = {} /\ Refused(r)
     \/ \E i \in Named(asks[r].email) :
          /\ Proceeds(r, IF users[i].outdated THEN "write" ELSE "done", i)
          /\ UNCHANGED <<users, chosen>>

(* login: with the password in force; an outdated hash is made anew from    *)
(* the password that was given.  (Nothing in the program makes an account   *)
(* inactive.)                                                               *)
Login(r) ==
  /\ Asking(r, "login", "find")
  /\ \/ /\ \A i \in Named(asks[r].email) : users[i].password # asks[r].new
        /\ Refused(r)
     \/ \E i \in Named(asks[r].email) :
          /\ users[i].password = asks[r].new
          /\ Proceeds(r, IF users[i].outdated THEN "write" ELSE "done", i)
          /\ UNCHANGED <<users, chosen>>

(* change_password, of the user the token names.                            *)
ChangePassword(r) ==
  LET i == asks[r].id
  IN  /\ Asking(r, "change", "find")
      /\ IF \/ i \notin DOMAIN users
            \/ users[i].password # asks[r].current
            \/ asks[r].new \notin Strong
         THEN Refused(r)
         ELSE Proceeds(r, "write", i) /\ UNCHANGED <<users, chosen>>

(* admin_reset_password, from the host's shell.                             *)
ResetPassword(r) ==
  /\ Asking(r, "reset", "find")
  /\ \/ (Named(asks[r].email) = {} \/ asks[r].new \notin Strong) /\ Refused(r)
     \/ /\ asks[r].new \in Strong
        /\ \E i \in Named(asks[r].email) : Proceeds(r, "write", i)
        /\ UNCHANGED <<users, chosen>>

Writers == {"login", "change", "reset"}

(* update_password_hash: the UPDATE waits for whoever has the row.          *)
Write(r) ==
  /\ \E kind \in Writers : Asking(r, kind, "write")
  /\ \A q \in DOMAIN asks :
       asks[q].kind \in Writers /\ asks[q].pc = "commit" => asks[q].id # asks[r].id
  /\ Proceeds(r, "commit", asks[r].id)
  /\ UNCHANGED <<users, chosen>>

CommitPassword(r) ==
  LET i == asks[r].id
  IN  /\ \E kind \in Writers : Asking(r, kind, "commit")
      /\ users' = [users EXCEPT ![i].password = asks[r].new, ![i].outdated = FALSE]
      /\ chosen' = [chosen EXCEPT ![i] =
                      IF asks[r].kind = "login" THEN @ ELSE @ \cup {asks[r].new}]
      /\ Proceeds(r, "done", 0)

(* The request fails and is rolled back.                                    *)
AskFails(r) == r \in DOMAIN asks /\ asks[r].pc # "done" /\ Refused(r)

AccountsNext ==
  \/ \E s \in Spellings, p \in Passwords :
       \/ Ask("register", s, 0, p, p)
       \/ Ask("login", s, 0, p, p)
       \/ Ask("reset", s, 0, p, p)
  \/ \E i \in DOMAIN users, p, q \in Passwords : Ask("change", users[i].email, i, p, q)
  \/ \E r \in DOMAIN asks :
       \/ FindFree(r) \/ InsertUser(r) \/ CommitUser(r) \/ Login(r)
       \/ ChangePassword(r) \/ ResetPassword(r) \/ Write(r) \/ CommitPassword(r)
       \/ AskFails(r)

AccountsSpec == AccountsInit /\ [][AccountsNext]_accountVars

-----------------------------------------------------------------------------
(* Nobody has two accounts, however the address is typed and however many   *)
(* registrations overlap.                                                   *)
OneAccountPerEmail ==
  \A i, j \in DOMAIN users : Norm[users[i].email] = Norm[users[j].email] => i = j

(* The password in force is one that somebody entitled chose, whatever      *)
(* logins renew the hash meanwhile.  (It need not be the last: a login that *)
(* began before a change may write the old one back.)                       *)
OnlyChosenPasswords ==
  \A i \in DOMAIN users : users[i].password \in chosen[i]
=============================================================================
