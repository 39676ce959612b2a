---------------------------- MODULE MCWorkspace ----------------------------
(* One run for two parts of the program that share no state: a behaviour is *)
(* one of the chat store or one of the accounts.                            *)
EXTENDS ChatStore, Accounts

VARIABLE focus

MCNorm == [s \in {"anna", "Bob", "bob"} |-> IF s = "Bob" THEN "bob" ELSE s]

MCInit == Init /\ AccountsInit /\ focus \in {"chat", "accounts"}

MCNext ==
  /\ UNCHANGED focus
  /\ \/ focus = "chat" /\ Next /\ UNCHANGED accountVars
     \/ focus = "accounts" /\ AccountsNext /\ UNCHANGED vars

MCSpec == MCInit /\ [][MCNext]_<<vars, accountVars, focus>>
=============================================================================
