------------------------------ MODULE EvalLab ------------------------------
(***************************************************************************)
(* The chat audit of the evaluation lab: one conversation is read back from *)
(* its messages, cut into turns, judged against what the user has banned,   *)
(* and the review is kept in a file.  The requests of one API process       *)
(* interleave where they await the database; the files are read and written *)
(* without a pause.  How a turn is judged is the module TurnReview's.       *)
(*                                                                         *)
(* messages   the committed messages, by created_at                         *)
(* turns      chat turns: when their question was asked, the bans their     *)
(*            prompt was composed with                                      *)
(* bans       the banned entities                                            *)
(* audits     the requests: what each has read so far                       *)
(* file       the stored review, torn when a crash interrupted its writing  *)
(* clock      the number of messages given a time; crossed: two turns have  *)
(*            been under way at once                                        *)
(***************************************************************************)
EXTENDS Integers, Sequences, FiniteSets

CONSTANTS
  TurnIds, Audits, Entities,
  Limit,         (* list_history's, 500                                     *)
  MaxCrashes

ASSUME EvalAssumption ==
  /\ Limit \in Nat \ {0} /\ MaxCrashes \in Nat
  /\ TurnIds \subseteq Nat \ {0} /\ Audits \subseteq Nat

VARIABLES messages, turns, bans, audits, file, clock, crossed, crashes

evalVars == <<messages, turns, bans, audits, file, clock, crossed, crashes>>

Answered == [pc |-> "done", step |-> 1, packs |-> {}, bans |-> {}]

None == [kind |-> "none", packs |-> {}, bans |-> {}]

EvalInit ==
  /\ messages = {}
  /\ turns = [t \in TurnIds |-> [pc |-> "idle", asked |-> 0, bans |-> {}]]
  /\ bans = {}
  /\ audits = [a \in Audits |-> [Answered EXCEPT !.pc = "idle"]]
  /\ file = None
  /\ clock = 0 /\ crossed = FALSE /\ crashes = 0

-----------------------------------------------------------------------------
(* What goes on beside the audits                                           *)

(* A turn writes its question at its start and its reply at its end, and    *)
(* commits both; one that cannot be composed commits the question alone.    *)
AskTurn(t) ==
  /\ turns[t].pc = "idle" /\ \A o \in TurnIds : o < t => turns[o].pc # "idle"
  /\ turns' = [turns EXCEPT ![t].pc = "asked", ![t].asked = clock + 1]
  /\ clock' = clock + 1
  /\ crossed' = (crossed \/ \E o \in TurnIds : turns[o].pc \in {"asked", "composed"})
  /\ UNCHANGED <<messages, bans, audits, file, crashes>>

ComposeTurn(t) ==
  /\ turns[t].pc = "asked"
  /\ turns' = [turns EXCEPT ![t].pc = "composed", ![t].bans = bans]
  /\ UNCHANGED <<messages, bans, audits, file, clock, crossed, crashes>>

Message(role, t, time) == [role |-> role, turn |-> t, at |-> time]

(* The reply gets its time when it is inserted and is visible from the      *)
(* commit, right after the response; here that is one step.                 *)
EndTurn(t) ==
  /\ turns[t].pc \in {"asked", "composed"}
  /\ turns' = [turns EXCEPT ![t].pc = "ended"]
  /\ messages' = messages \cup {Message("user", t, turns[t].asked)} \cup
       IF turns[t].pc = "composed" THEN {Message("assistant", t, clock + 1)} ELSE {}
  /\ clock' = clock + 1
  /\ UNCHANGED <<bans, audits, file, crossed, crashes>>

(* A correction or the user bans an entity; nothing takes a ban back.       *)
BanEntity(e) ==
  /\ e \notin bans
  /\ bans' = bans \cup {e}
  /\ UNCHANGED <<messages, turns, audits, file, clock, crossed, crashes>>

-----------------------------------------------------------------------------
(* The messages that list_history returns: the last ones.                   *)
History == {m \in messages : Cardinality({n \in messages : m.at < n.at}) < Limit}

Heard(history, m) == {n \in history : n.at < m.at}

(* The latest of some messages, if there is any.                            *)
Latest(heard) == {m \in heard : \A n \in heard : n.at <= m.at}

Replies(history) == {m \in history : m.role = "assistant"}

Questions(heard) == {m.turn : m \in {n \in heard : n.role = "user"}}

(* Mutant: the question itself counts as heard before.                      *)
PackedLate(history) ==
  {[reply |-> m, user |-> Questions(Latest(Heard(history, m))), before |-> Heard(history, m)] :
     m \in Replies(history)}

(* _build_turns: a reply is paired with the message right before it, if     *)
(* that is a question, and with the messages before that one.               *)
Packed(history) ==
  {[reply |-> m, user |-> Questions(Latest(Heard(history, m))),
    before |-> Heard(history, m) \ Latest(Heard(history, m))] : m \in Replies(history)}

(* Mutant: the bans are read first.                                         *)
ContextFirst == <<"context", "turns">>

(* The order of the reads of an audit.                                      *)
Reads == <<"turns", "context">>

(* chat_audit answers from the file, unless forced; a torn file is an error.*)
AskAudit(a, force) ==
  /\ audits[a].pc = "idle" /\ \A o \in Audits : o < a => audits[o].pc # "idle"
  /\ audits' = [audits EXCEPT ![a].pc = IF force \/ file.kind = "none" THEN "read" ELSE "done"]
  /\ UNCHANGED <<messages, turns, bans, file, clock, crossed, crashes>>

Reading(a, what) ==
  audits[a].pc = "read" /\ audits[a].step \in DOMAIN Reads /\ Reads[audits[a].step] = what

(* _build_turns; without a turn the answer is 404.                          *)
ReadTurns(a) ==
  /\ Reading(a, "turns")
  /\ LET packs == Packed(History)
     IN  audits' = [audits EXCEPT ![a] =
                      IF packs = {} THEN Answered
                      ELSE [audits[a] EXCEPT !.packs = packs, !.step = @ + 1]]
  /\ UNCHANGED <<messages, turns, bans, file, clock, crossed, crashes>>

(* _build_review_context.                                                   *)
ReadContext(a) ==
  /\ Reading(a, "context")
  /\ audits' = [audits EXCEPT ![a].bans = bans, ![a].step = @ + 1]
  /\ UNCHANGED <<messages, turns, bans, file, clock, crossed, crashes>>

(* save_review overwrites what is there.                                    *)
SaveReview(a) ==
  /\ audits[a].pc = "read" /\ audits[a].step > Len(Reads)
  /\ audits' = [audits EXCEPT ![a] = Answered]
  /\ file' = [kind |-> "whole", packs |-> audits[a].packs, bans |-> audits[a].bans]
  /\ UNCHANGED <<messages, turns, bans, clock, crossed, crashes>>

(* delete_review, of a torn file too.                                       *)
DeleteReview ==
  /\ file.kind # "none" /\ file' = None
  /\ UNCHANGED <<messages, turns, bans, audits, clock, crossed, crashes>>

(* The process dies: its turns are rolled back and its audits are gone; one *)
(* that was being saved leaves the file torn, or whole.                     *)
CrashOfLab ==
  /\ crashes < MaxCrashes /\ crashes' = crashes + 1
  /\ turns' = [t \in TurnIds |->
                 IF turns[t].pc = "idle" THEN turns[t] ELSE [turns[t] EXCEPT !.pc = "ended"]]
  /\ audits' = [a \in Audits |->
                  IF audits[a].pc = "idle" THEN audits[a]
                  ELSE Answered]
  /\ \/ UNCHANGED file
     \/ /\ \E a \in Audits : audits[a].pc = "read" /\ audits[a].step > Len(Reads)
        /\ file' = [None EXCEPT !.kind = "torn"]
  /\ UNCHANGED <<messages, bans, clock, crossed>>

EvalNext ==
  \/ \E t \in TurnIds : AskTurn(t) \/ ComposeTurn(t) \/ EndTurn(t)
  \/ \E e \in Entities : BanEntity(e)
  \/ \E a \in Audits : AskAudit(a, TRUE) \/ AskAudit(a, FALSE)
                        \/ ReadTurns(a) \/ ReadContext(a) \/ SaveReview(a)
  \/ DeleteReview \/ CrashOfLab

EvalSpec == EvalInit /\ [][EvalNext]_evalVars

-----------------------------------------------------------------------------
(* Every reply that is read is judged with the question it answers, or with *)
(* none when the limit has cut that off, and with what came right before    *)
(* the question and nothing later, as long as no two turns overlapped.      *)
PairedWithOwn ==
  \A a \in Audits : \A pack \in audits[a].packs :
    ~crossed =>
      /\ pack.user \subseteq {pack.reply.turn}
      /\ pack.user = {} => \A p \in audits[a].packs : pack.reply.at <= p.reply.at
      /\ pack.user # {} /\ pack.before # {} =>
           \A m \in messages : m.at < turns[pack.reply.turn].asked
                                  <=> \E n \in pack.before : m.at <= n.at

(* No stored review judges a reply with fewer bans than its prompt was      *)
(* composed with: a reply that mentions what it was told not to is never    *)
(* passed for want of the ban.                                              *)
BansJudged ==
  file.kind = "whole" =>
    \A pack \in file.packs : turns[pack.reply.turn].bans \subseteq file.bans
=============================================================================
