--------------------------- MODULE ContractGuard ---------------------------
(***************************************************************************)
(* The deterministic post-processing of a reply.  A text is a sequence of   *)
(* marks: words, "." for every sentence end that is no question, "?" for    *)
(* both question marks, ")" for closing quotes and brackets.  White space   *)
(* is left out: the code strips it at both ends and skips it elsewhere.     *)
(***************************************************************************)
EXTENDS Integers, Sequences

CONSTANTS
  Words,           (* the words a text is made of                           *)
  Personality,
  MaxChars,        (* the length budget of each contract                    *)
  AllowQuestion    (* the contracts that allow a reply to end in a question *)

Ellipsis == "..."
SentenceEnd == {".", "?"}
Closing == {")"}
Mark == Words \cup SentenceEnd \cup Closing \cup {Ellipsis}

ASSUME GuardAssumption ==
  /\ Personality # {} /\ MaxChars \in [Personality -> Nat \ {0}]
  /\ AllowQuestion \subseteq Personality
  /\ Words \cap (SentenceEnd \cup Closing \cup {Ellipsis}) = {}

(* The last of the first n positions whose mark satisfies membership in S,  *)
(* 0 when there is none.                                                    *)
LastIn(text, n, S) ==
  LET at == {i \in 1..n : text[i] \in S}
  IN  IF at = {} THEN 0 ELSE CHOOSE i \in at : \A j \in at : j <= i

UpTo(text, n) == SubSeq(text, 1, n)

(* _ends_with_question: closing marks after the question do not hide it.    *)
EndsWithQuestion(text) ==
  LET n == LastIn(text, Len(text), Mark \ Closing)
  IN  n > 0 /\ text[n] = "?"

(* _strip_trailing_question: back over the sentence ends (but not over      *)
(* closing marks), then keep everything up to the end of the sentence       *)
(* before; nothing when there is no such sentence.                          *)
StripTrailingQuestion(text) ==
  LET last == LastIn(text, Len(text), Mark \ SentenceEnd)
  IN  UpTo(text, LastIn(text, last, SentenceEnd))

(* Mutant: the cut is one mark late.                                        *)
TruncatedLate(text, max) ==
  IF Len(text) <= max + 1 THEN text ELSE UpTo(text, max + 1) \o <<Ellipsis>>

(* _truncate_to_max: at the last sentence end that fits, else a hard cut    *)
(* with an ellipsis after it.                                               *)
TruncateToMax(text, max) ==
  LET cut == LastIn(text, max, SentenceEnd)
  IN  IF Len(text) <= max THEN text
      ELSE IF cut > 0 THEN UpTo(text, cut)
      ELSE UpTo(text, max) \o <<Ellipsis>>

Stripped(raw, p) ==
  IF p \notin AllowQuestion /\ EndsWithQuestion(raw)
  THEN StripTrailingQuestion(raw) ELSE raw

(* ContractGuard.enforce: the question first, the length second.            *)
Enforce(raw, p) == TruncateToMax(Stripped(raw, p), MaxChars[p])
=============================================================================
