---------------------------- MODULE TurnContract ----------------------------
(***************************************************************************)
(* What the chat endpoint promises about one turn, seen from the database  *)
(* and from the broker and from nowhere else.                              *)
(*                                                                         *)
(*   log[t]   what a reader of the messages table finds of turn t: nothing,*)
(*            the user's question alone, or question and answer.           *)
(*   work[t]  the background task the turn has handed to the broker.       *)
(*                                                                         *)
(* A turn becomes visible once, in one transaction: an answer is never     *)
(* visible without its question, nothing visible is taken back, and a      *)
(* question that became visible alone stays alone.  A turn hands over at   *)
(* most one task, either the extraction fan-out or the correction cleanup. *)
(***************************************************************************)
CONSTANT Turns   (* the chat turns *)

VARIABLES log, work

contractVars == <<log, work>>

TaskKind == {"after_chat", "correction"}

ContractInit ==
  /\ log = [t \in Turns |-> "absent"]
  /\ work = [t \in Turns |-> "none"]

(* The request's transaction commits, with or without the answer in it. *)
Record(t, what) ==
  /\ log[t] = "absent"
  /\ log' = [log EXCEPT ![t] = what]
  /\ UNCHANGED work

(* One task of one kind is published for the turn. *)
HandOver(t, kind) ==
  /\ work[t] = "none"
  /\ work' = [work EXCEPT ![t] = kind]
  /\ UNCHANGED log

ContractNext ==
  \E t \in Turns :
    \/ \E what \in {"question", "exchange"} : Record(t, what)
    \/ \E kind \in TaskKind : HandOver(t, kind)

ContractSpec == ContractInit /\ [][ContractNext]_contractVars
=============================================================================
