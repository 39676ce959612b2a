------------------------------ MODULE MCUpkeep ------------------------------
(* One run for four parts of the program that share no state: a behaviour   *)
(* is one of the relationship worker, of the deduplication script, of the   *)
(* chat audit, or of the synthetic evaluation.                              *)
EXTENDS RelationshipGraph, Dedup, EvalLab, SyntheticLab

VARIABLE focus

Candidates ==
  {c \in [name : Names, role : {"kin"}, via : Names \cup {Nobody}] : c.via # c.name}
    \cup {[name |-> "son", role |-> "kin", via |-> "son"],
          [name |-> "son", role |-> "work", via |-> "dog"]}

(* The first task may introduce three people, the second one.               *)
MCAnswers ==
  [b \in Batches |-> UNION {[1..n -> Candidates] : n \in IF b = 1 THEN 0..3 ELSE 1..1}]

(* "a" and "b" are part of "ab".                                            *)
MCWithin == {<<"a", "ab">>, <<"b", "ab">>}

(* Two messages, one of which a hard rule matches.                          *)
MCSignals == [m \in Messages |-> IF m = "remember" THEN {"remember"} ELSE {}]

(* None of them has a line that begins like a part of the cache key.        *)
MCReadsAs == [m \in Messages |-> << <<"user", m>> >>]

MCPrompt == [i \in Intent |-> IF i = "casual" THEN {"cat"} ELSE {}]

(* A case that both runs ask about; one that only forbids, with a history;  *)
(* one for the rule.                                                        *)
Expecting(m, intents, needs, forbids) ==
  [message |-> m, before |-> <<>>, history |-> {}, intents |-> intents, optional |-> {},
   needs |-> needs, contains |-> {}, forbids |-> forbids, unprompted |-> {}]
MCCases == <<
  [Expecting("hello", {"plan_followup"}, {}, {}) EXCEPT !.optional = {"casual"},
                                                        !.contains = {"dog"}],
  [Expecting("hello", {}, {}, {"dog"}) EXCEPT
     !.before = << <<"user", "hello">>, <<"assistant", "hello">> >>, !.history = {"cat"}],
  [Expecting("remember", {"memory_challenge"}, {"cat"}, {}) EXCEPT !.unprompted = {"dog"}] >>

(* A part that is not in focus has one initial state; at most one row is    *)
(* still to come.                                                           *)
MCInit ==
  /\ PeopleInit /\ EvalInit /\ SynInit /\ DedupInit
  /\ \/ focus = "dedup" /\ status[MaxRow - 1] = "active"
     \/ /\ focus \in {"people", "audit", "synthetic"}
        /\ layer = "event" /\ at = [i \in Rows |-> i] /\ title = [i \in Rows |-> Untitled]
        /\ \A i \in Rows : status[i] = "none"

MCNext ==
  /\ UNCHANGED focus
  /\ \/ focus = "people" /\ PeopleNext /\ UNCHANGED <<dedupVars, evalVars, synVars>>
     \/ focus = "dedup" /\ DedupNext /\ UNCHANGED <<peopleVars, evalVars, synVars>>
     \/ focus = "audit" /\ EvalNext /\ UNCHANGED <<peopleVars, dedupVars, synVars>>
     \/ focus = "synthetic" /\ SynNext /\ UNCHANGED <<peopleVars, dedupVars, evalVars>>

MCSpec == MCInit /\ [][MCNext]_<<peopleVars, dedupVars, evalVars, synVars, focus>>
=============================================================================
