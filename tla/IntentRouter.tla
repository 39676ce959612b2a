--------------------------- MODULE IntentRouter ----------------------------
(***************************************************************************)
(* How a message is given an intent, and what an intent makes the turn      *)
(* load.  A message is known by the signals (regular expressions of the     *)
(* hard rules) it matches.                                                  *)
(***************************************************************************)
EXTENDS Integers, SequencesExt

CONSTANTS
  Messages,
  Signals,        (* the hard-rule patterns a message matches               *)
  Texts,          (* what stands after a role at the head of a line         *)
  ReadsAs,        (* the entries a user's message reads as in the cache key *)
  KeyTurns,       (* history_window of make_cache_key: 2 in the code        *)
  AskedTurns      (* history_window of the classifier: 2 in the code        *)

Intent == {"casual", "self_summary", "memory_challenge", "relationship_topic",
           "emotional_support", "plan_followup", "preference_request",
           "correction", "knowledge_task"}

(* Where a route's intent comes from; "none" before it is known.            *)
Source == {"hard_rule", "small_model", "fallback", "cache", "none"}

Role == {"user", "assistant"}

(* default_hard_rules, in order: the first match wins.                      *)
HardRules == <<
  [signal |-> "opening",  intent |-> "correction"],
  [signal |-> "denial",   intent |-> "correction"],
  [signal |-> "remember", intent |-> "memory_challenge"],
  [signal |-> "recall",   intent |-> "memory_challenge"],
  [signal |-> "summary",  intent |-> "self_summary"],
  [signal |-> "family",   intent |-> "relationship_topic"],
  [signal |-> "mood",     intent |-> "emotional_support"] >>

ASSUME RouterAssumption ==
  /\ Messages # {}
  /\ Signals \in [Messages -> SUBSET {HardRules[i].signal : i \in DOMAIN HardRules}]
  /\ ReadsAs \in [Messages -> Seq(Role \X Texts) \ {<<>>}]
  /\ \A m \in Messages : ReadsAs[m][1][1] = "user"

(* The key looks as far back as the classifier does.  (With a window of 0   *)
(* its slice [-0:] would be the whole history.)                             *)
ASSUME WindowAssumption == KeyTurns \in Nat \ {0} /\ AskedTurns \in 0..KeyTurns

Matching(m) == {i \in DOMAIN HardRules : HardRules[i].signal \in Signals[m]}

(* Mutant: the last match wins.                                             *)
HardIntentLast(m) ==
  HardRules[CHOOSE i \in Matching(m) : \A j \in Matching(m) : j <= i].intent

(* apply_hard_rules, for a message some rule matches.                       *)
HardIntent(m) ==
  HardRules[CHOOSE i \in Matching(m) : \A j \in Matching(m) : i <= j].intent

(* The last turns of a history: [-2n:], and nothing of it when n is 0.      *)
LastTurns(history, n) ==
  SubSeq(history, IF Len(history) > 2 * n THEN Len(history) - 2 * n + 1 ELSE 1,
         Len(history))

(* The last turns and the new message.  A history's entry is a role and a   *)
(* content, the content of a user's being a message.                        *)
Exchange(history, m, n) == Append(LastTurns(history, n), <<"user", m>>)

(* What the classifier is asked: contents as they are (_trim_history).      *)
Question(history, m) == Exchange(history, m, AskedTurns)

(* make_cache_key writes "role:content", stripped, one part to a line, and  *)
(* escapes nothing: a content with a line that begins like a part reads as  *)
(* several.  A reply has no such line.                                      *)
Parts(entry) == IF entry[1] = "user" THEN ReadsAs[entry[2]] ELSE <<entry>>

Joined(exchange) == FlattenSeq([i \in DOMAIN exchange |-> Parts(exchange[i])])

(* Mutant: the key is the message alone.                                    *)
MessageKey(history, m) == Joined(<< <<"user", m>> >>)

(* make_cache_key: what is hashed, for a hash that does not collide.        *)
CacheKey(history, m) == Joined(Exchange(history, m, KeyTurns))

(* No content that goes into the key has a part inside.                     *)
Plain(history, m) ==
  LET exchange == Exchange(history, m, KeyTurns)
  IN  \A i \in DOMAIN exchange : Len(Parts(exchange[i])) = 1

(* Two exchanges say the same but for white space around the contents.      *)
Alike(one, other) ==
  /\ Len(one) = Len(other)
  /\ \A i \in DOMAIN one : Parts(one[i]) = Parts(other[i])

(* DEFAULT_POLICY.                                                          *)
Layers(intent) ==
  CASE intent = "self_summary" -> {"profile", "events", "relationships", "episodic"}
    [] intent \in {"memory_challenge", "emotional_support"} -> {"profile_basic", "episodic"}
    [] intent = "relationship_topic" -> {"profile_basic", "relationships", "episodic"}
    [] intent = "plan_followup" -> {"profile_basic", "events"}
    [] intent = "preference_request" -> {"profile_basic", "profile", "episodic"}
    [] OTHER -> {"profile_basic"}

MaxExplicit(intent) ==
  CASE intent = "self_summary" -> 4
    [] intent \in {"memory_challenge", "relationship_topic"} -> 3
    [] intent \in {"plan_followup", "preference_request"} -> 2
    [] intent = "emotional_support" -> 1
    [] OTHER -> 0

Sensitive(intent) == intent = "emotional_support"

EventPolicy(intent) ==
  CASE intent \in {"self_summary", "plan_followup"} -> "summary"
    [] intent = "emotional_support" -> "background_pain_points"
    [] OTHER -> "none"
=============================================================================
