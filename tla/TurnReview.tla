---------------------------- MODULE TurnReview -----------------------------
(***************************************************************************)
(* What the evaluation lab says of one stored turn: the structural rules    *)
(* (L0), the heuristic rules (L1), the verdict and its attribution.         *)
(*                                                                         *)
(* A turn is what the message rows and the prompt meta keep: the user's     *)
(* words, the reply's text, the route, the sections, the quoted items and   *)
(* the sizes of the pools.  The rules know nothing else: the error of a     *)
(* failed stream is in the row, but not in what the repository hands out.   *)
(***************************************************************************)
EXTENDS MemoryContext, ContractGuard

CONSTANTS
  MsgWords,                  (* the words of a message                      *)
  Lower,                     (* a word in lower case                        *)
  NamedItems,                (* name, location and interests of the profile *)
  GenericWords, ErrorWords,  (* patterns of empty talk and of failure       *)
  ShortChars, GenericChars   (* 6 and 24 in the code                        *)

ASSUME ReviewAssumption ==
  /\ MsgWords \in [Messages -> SUBSET Words]
  /\ ItemWords \in [Items -> SUBSET Words]
  /\ Lower \in [Words -> Words] /\ NamedItems \subseteq Items
  /\ GenericWords \subseteq Words /\ ErrorWords \subseteq Words
  /\ ShortChars \in Nat /\ GenericChars \in Nat
  /\ \A p \in Personality : ShortChars < MaxChars[p]

(* Mutant: an empty reply is stored empty.                                  *)
StoredEmpty == <<>>

(* The text stored for a reply with nothing left, "(empty)": seven          *)
(* characters, one more than a reply that counts as short.                  *)
Placeholder == [i \in 1..(ShortChars + 1) |-> "(empty)"]

WordsOf(text) == {text[i] : i \in DOMAIN text} \cap Words
LowerAll(S) == {Lower[w] : w \in S}

(* _activated_text_blob, in lower case.                                     *)
QuotedWords(turn) == LowerAll(UNION {ItemWords[i] : i \in turn.picked})

(* _build_review_context: what of the profile counts as known.              *)
KnownEntities(active) == UNION {ItemWords[i] : i \in active \cap NamedItems}

Ok(b, otherwise) == IF b THEN "pass" ELSE otherwise

-----------------------------------------------------------------------------
(* L0_RULES, rule by rule, and their severity.                              *)
L0High == {"meta_exists", "reply_nonempty", "system_nonempty", "intent_valid",
           "personality_valid"}

ExplicitSection(turn) ==
  IF "explicit" \in turn.sections THEN "pass"
  ELSE IF turn.picked = {} THEN "skip" ELSE "fail"

BackgroundSection(turn) ==
  IF "background" \in turn.sections THEN "pass"
  ELSE IF turn.recalled = 0 THEN "skip" ELSE "fail"

ActivatedConsistent(turn) ==
  Ok(Cardinality(turn.picked) <= turn.profiled + turn.recalled, "fail")

L0(turn) == [
  meta_exists |-> "pass",
  reply_nonempty |-> Ok(turn.reply # <<>>, "fail"),
  system_nonempty |-> Ok(turn.sections # {}, "fail"),
  intent_valid |-> Ok(turn.intent \in Intent, "fail"),
  personality_valid |-> Ok(turn.personality \in Personality, "fail"),
  explicit_section |-> ExplicitSection(turn),
  background_section |-> BackgroundSection(turn),
  activated_consistent |-> ActivatedConsistent(turn)]

-----------------------------------------------------------------------------
(* L1_RULES.                                                                *)
Shares(turn) == MsgWords[turn.msg] \cap WordsOf(turn.reply) # {}

(* No 2-gram can be taken of a text of one character.                       *)
Gramless(turn) == MsgWords[turn.msg] = {} \/ Len(turn.reply) < 2

RecallForChallenge(turn) ==
  IF turn.intent # "memory_challenge" \/ MsgWords[turn.msg] = {} THEN "skip"
  ELSE Ok(LowerAll(MsgWords[turn.msg]) \cap QuotedWords(turn) # {}, "fail")

RecallForSelfSummary(turn) ==
  IF turn.intent # "self_summary" THEN "skip" ELSE Ok(turn.picked # {}, "fail")

ActivationGap(turn) ==
  IF turn.profiled + turn.recalled = 0 THEN "skip"
  ELSE IF turn.picked # {} THEN "pass"
  ELSE IF turn.intent \in {"knowledge_task", "casual"} THEN "skip" ELSE "suspicious"

GenericReply(turn) ==
  LET generic == Cardinality(WordsOf(turn.reply) \cap GenericWords) >= 2
  IN  IF turn.reply = <<>> THEN "skip"
      ELSE IF Len(turn.reply) <= ShortChars THEN "fail"
      ELSE Ok(~(generic /\ Len(turn.reply) <= GenericChars), "suspicious")

AsksAtTheEnd(text) == text # <<>> /\ text[Len(text)] = "?"

ReplyOffTopic(turn) ==
  IF \/ turn.intent \in {"memory_challenge", "preference_request",
                         "self_summary", "knowledge_task"}
     \/ Gramless(turn)
  THEN "skip" ELSE Ok(Shares(turn) \/ AsksAtTheEnd(turn.reply), "suspicious")

(* The turn after a correction must not name what is banned by now.         *)
CorrectionPersisted(turn, prevIntent, bans) ==
  IF prevIntent # "correction" \/ bans = {} THEN "skip"
  ELSE Ok(LowerAll(bans) \cap LowerAll(WordsOf(turn.reply)) = {}, "fail")

ConcreteAck(turn) ==
  IF turn.intent # "correction" \/ Gramless(turn) THEN "skip"
  ELSE Ok(Shares(turn), "fail")

(* The runs of words between punctuation: what may be a name.               *)
RunsOf(text) ==
  {{text[k] : k \in p[1]..p[2]} : p \in
     {p \in (DOMAIN text) \X (DOMAIN text) :
        /\ p[1] <= p[2] /\ \A k \in p[1]..p[2] : text[k] \in Words
        /\ p[1] = 1 \/ text[p[1] - 1] \notin Words
        /\ p[2] = Len(text) \/ text[p[2] + 1] \notin Words}}

(* A run is vouched for by a known name in it, or by a quoted item that     *)
(* contains it or is contained in it.                                       *)
Fabrication(turn, known) ==
  LET vouched(run) ==
        \/ LowerAll(run) \cap LowerAll(known) # {}
        \/ \E i \in turn.picked : LET item == LowerAll(ItemWords[i])
                                  IN  LowerAll(run) \subseteq item \/ item \subseteq LowerAll(run)
  IN  IF turn.intent # "memory_challenge" THEN "skip"
      ELSE Ok(\A run \in RunsOf(turn.reply) : vouched(run), "suspicious")

FollowupOverflow(turn) ==
  Ok(Cardinality({i \in DOMAIN turn.reply : turn.reply[i] = "?"}) <= 2, "suspicious")

PersonalitySignature(turn) ==
  IF turn.intent = "knowledge_task" THEN "skip"
  ELSE Ok(/\ Len(turn.reply) <= MaxChars[turn.personality]
          /\ turn.personality \in AllowQuestion \/ ~AsksAtTheEnd(turn.reply), "fail")

L1High == {"error_reply", "recall_for_challenge", "recall_for_self_summary",
           "correction_persisted", "correction_no_concrete_ack",
           "fabrication_under_challenge"}

L1(turn, prevIntent, known, bans) == [
  error_reply |-> Ok(WordsOf(turn.reply) \cap ErrorWords = {}, "fail"),
  recall_for_challenge |-> RecallForChallenge(turn),
  recall_for_self_summary |-> RecallForSelfSummary(turn),
  data_vs_activation_gap |-> ActivationGap(turn),
  generic_reply |-> GenericReply(turn),
  reply_off_topic |-> ReplyOffTopic(turn),
  correction_persisted |-> CorrectionPersisted(turn, prevIntent, bans),
  correction_no_concrete_ack |-> ConcreteAck(turn),
  fabrication_under_challenge |-> Fabrication(turn, known),
  followup_overflow |-> FollowupOverflow(turn),
  personality_signature |-> PersonalitySignature(turn)]

-----------------------------------------------------------------------------
Some(results, rules, statuses) ==
  \E r \in DOMAIN results \cap rules : results[r] \in statuses

(* final_status: a medium failure is worth "ok" when the other rules are    *)
(* content, and nothing of its own otherwise.                               *)
FinalStatus(l0, l1) ==
  CASE Some(l0, L0High, {"fail"}) \/ Some(l1, L1High, {"fail"}) -> "bad"
    [] OTHER ->
       IF /\ Some(l0, DOMAIN l0 \ L0High, {"fail"})
          /\ ~Some(l1, DOMAIN l1, {"fail", "suspicious"})
       THEN "ok"
       ELSE IF Some(l1, DOMAIN l1, {"suspicious"}) THEN "suspicious" ELSE "good"

(* DEFAULT_ATTRIBUTION: no structural rule has one.                         *)
Attribution(rule) ==
  CASE rule \in {"recall_for_challenge", "recall_for_self_summary"} -> "A"
    [] rule = "data_vs_activation_gap" -> "C"
    [] rule = "personality_signature" -> "D"
    [] rule \in {"generic_reply", "reply_off_topic", "error_reply",
                 "followup_overflow"} -> "E"
    [] rule \in {"correction_persisted", "correction_no_concrete_ack"} -> "F"
    [] rule = "fabrication_under_challenge" -> "G"

(* review_turn.                                                             *)
TurnVerdict(turn, prevIntent, known, bans) ==
  LET l1 == L1(turn, prevIntent, known, bans)
  IN  [status |-> FinalStatus(L0(turn), l1),
       causes |-> {Attribution(r) : r \in {r \in DOMAIN l1 : l1[r] \in {"fail", "suspicious"}}}]
=============================================================================
