------------------------------- MODULE Reply -------------------------------
(***************************************************************************)
(* What one chat turn makes of a message: the intent, the memories it       *)
(* loads, the prompt, the reply after the guard and the turn that is        *)
(* stored, for a user whose memory is edited meanwhile by the memory API    *)
(* and by the workers.  (That the turn is stored, published or lost is      *)
(* ChatTurn's subject, how the workers come to write is MemoryTasks'.)      *)
(*                                                                         *)
(* Every read of the loader is a statement of its own under READ COMMITTED, *)
(* so the memory may change between any two of them.                        *)
(*                                                                         *)
(* pc       the turn's next step                                            *)
(* turn     the turn under way                                              *)
(* stored   the turn stored last, until the next one starts                 *)
(* prev     the intent of the conversation's last stored turn, if any       *)
(* hist     the end of the conversation, as far as the router looks at it   *)
(* cache    the user's intent cache: a partial map from keys to intents     *)
(* active, dead, deprecated   memory rows that are active, soft-deleted,    *)
(*          and the ids the deprecation table lists                         *)
(* banned   the ban list                                                    *)
(* answered history: what the classifier model really answered, and after   *)
(*          which history to which message                                  *)
(***************************************************************************)
EXTENDS TurnReview, TLC

CONSTANTS
  InitialItems,
  Bannable,        (* words a ban may hold                                  *)
  Answers,         (* intents the classifier model may give                 *)
  Replies,         (* texts the model may stream before it ends or fails    *)
  Unanswered,      (* messages a failed turn may have left in a conversation *)
  MaxTurns, MaxEdits, NoTurn

ASSUME ReplyAssumption ==
  /\ InitialItems \subseteq Items /\ Unanswered \subseteq Messages
  /\ Bannable \subseteq Words /\ Answers \subseteq Intent
  /\ Replies \subseteq Seq(Words \cup {".", "?", ")"})
  /\ MaxTurns \in Nat /\ MaxEdits \in Nat

VARIABLES pc, turn, stored, prev, hist, cache, active, dead, deprecated, banned,
          answered, turns, edits

vars == <<pc, turn, stored, prev, hist, cache, active, dead, deprecated, banned,
          answered, turns, edits>>
memory == <<active, dead, deprecated, banned>>
record == <<stored, prev>>

Reads == <<"profile", "relationships", "events", "bans", "deprecations", "search",
           "compose">>

(* The reads an intent's layers call for, and composing after them.         *)
Needed(intent) ==
  {"compose"}
  \cup {s \in {"profile"} : Layers(intent) \cap {"profile", "profile_basic"} # {}}
  \cup (Layers(intent) \cap {"relationships"})
  \cup {s \in {"events"} : "events" \in Layers(intent) /\ EventPolicy(intent) # "none"}
  \cup {s \in {"bans", "deprecations", "search"} : "episodic" \in Layers(intent)}

(* The first needed step after the k-th.                                    *)
StepAfter(k, intent) ==
  Reads[CHOOSE i \in (k + 1)..Len(Reads) :
          /\ Reads[i] \in Needed(intent)
          /\ \A j \in (k + 1)..(i - 1) : Reads[j] \notin Needed(intent)]

Blank == [msg |-> CHOOSE m \in Messages : TRUE,
          personality |-> CHOOSE p \in Personality : TRUE,
          intent |-> "casual", source |-> "none", pools |-> {}, bans |-> {},
          gone |-> {}, picked |-> {}, sections |-> {}, profiled |-> 0,
          recalled |-> 0, bannedBefore |-> {}, deadBefore |-> {}]

Section == {"base", "profile", "relationships", "events", "background", "explicit"}

Turn == [msg : Messages, personality : Personality, intent : Intent,
         source : Source, pools : SUBSET Items, bans : SUBSET Words,
         gone : SUBSET Items, picked : SUBSET Items, sections : SUBSET Section,
         profiled : Nat, recalled : Nat,
         bannedBefore : SUBSET Words, deadBefore : SUBSET Items]

Stored == [msg : Messages, personality : Personality, intent : Intent,
           picked : SUBSET Items, sections : SUBSET Section, profiled : Nat,
           recalled : Nat, reply : Seq(Mark \cup {"(empty)"}), raw : Seq(Mark),
           error : BOOLEAN, prevIntent : Intent \cup {"none"}]

(* The type invariant.                                                      *)
ReplyTypeOK ==
  /\ pc \in {"idle", "route", "classify", "stream"} \cup {Reads[i] : i \in DOMAIN Reads}
  /\ turn \in Turn
  /\ stored \in Stored \cup {NoTurn} /\ prev \in Intent \cup {"none"}
  /\ \A a \in answered : a.message \in Messages /\ a.intent \in Intent
  /\ \A k \in DOMAIN cache : cache[k] \in Intent
  /\ active \subseteq Items /\ dead \subseteq Items \ active
  /\ deprecated \subseteq dead /\ banned \subseteq Bannable
  /\ turns \in 0..MaxTurns /\ edits \in 0..MaxEdits

(* The conversation is new, or has one message whose turn failed.           *)
Init ==
  /\ pc = "idle" /\ turn = Blank /\ stored = NoTurn /\ prev = "none"
  /\ hist \in {<<>>} \cup {<< <<"user", m>> >> : m \in Unanswered}
  /\ cache = <<>> /\ answered = {}
  /\ active = InitialItems /\ dead = {} /\ deprecated = {} /\ banned = {}
  /\ turns = 0 /\ edits = 0

-----------------------------------------------------------------------------
(* The turn                                                                 *)

(* The user sends a message, in the conversation or in a new one.           *)
Start(m, p) ==
  /\ pc = "idle" /\ turns < MaxTurns
  /\ turn' = [Blank EXCEPT !.msg = m, !.personality = p]
  /\ \/ UNCHANGED <<hist, prev>>
     \/ hist' = <<>> /\ prev' = "none"
  /\ stored' = NoTurn /\ pc' = "route" /\ turns' = turns + 1
  /\ UNCHANGED <<cache, answered, memory, edits>>

(* _compose: the route is complete, the loader's first read is next.        *)
Routed(intent, source) ==
  /\ turn' = [turn EXCEPT !.intent = intent, !.source = source,
                          !.bannedBefore = banned, !.deadBefore = dead]
  /\ pc' = StepAfter(0, intent)

RouteByRule ==
  /\ pc = "route" /\ Matching(turn.msg) # {}
  /\ Routed(HardIntent(turn.msg), "hard_rule")
  /\ UNCHANGED <<record, hist, cache, answered, memory, turns, edits>>

RouteFromCache ==
  LET key == CacheKey(hist, turn.msg)
  IN  /\ pc = "route" /\ Matching(turn.msg) = {}
      /\ IF key \in DOMAIN cache THEN Routed(cache[key], "cache")
         ELSE pc' = "classify" /\ UNCHANGED turn
      /\ UNCHANGED <<record, hist, cache, answered, memory, turns, edits>>

Put(key, intent) ==
  [k \in DOMAIN cache \cup {key} |-> IF k = key THEN intent ELSE cache[k]]

(* The model answers.  An answer whose stated reason has the word           *)
(* "fallback" in it is used but taken for one.                              *)
Classify(intent, source) ==
  /\ pc = "classify"
  /\ Routed(intent, source)
  /\ cache' = IF source = "fallback" THEN cache ELSE Put(CacheKey(hist, turn.msg), intent)
  /\ answered' = answered \cup
       {[history |-> hist, message |-> turn.msg, intent |-> intent]}
  /\ UNCHANGED <<record, hist, memory, turns, edits>>

(* The model fails: an ordinary chat, and nothing to remember.              *)
ClassifyFails ==
  /\ pc = "classify"
  /\ Routed("casual", "fallback")
  /\ UNCHANGED <<record, hist, cache, answered, memory, turns, edits>>

(* One read of the loader: what it puts into the turn.                      *)
Reading(k) ==
  LET in == turn.intent
      add(T) == [turn EXCEPT !.pools = @ \cup T, !.recalled = @ + Cardinality(T)]
  IN  CASE Reads[k] = "profile" ->
             turn' = [turn EXCEPT !.pools = ProfileItems(active, in),
                                  !.profiled = Cardinality(ProfileItems(active, in))]
        [] Reads[k] = "relationships" ->
             \E T \in FirstOf(RelationshipItems(active, in), RelationshipLimit) :
               turn' = add(T)
        [] Reads[k] = "events" ->
             \E T \in FirstOf(Of(active, "event"), EventLimit) : turn' = add(T)
        [] Reads[k] = "bans" -> turn' = [turn EXCEPT !.bans = banned]
        [] Reads[k] = "deprecations" -> turn' = [turn EXCEPT !.gone = deprecated]
        [] Reads[k] = "search" ->
             \E hits \in FoundIn(Of(active, "episodic"), SearchLimit) :
               LET kept == Kept(hits, turn.bans, turn.gone)
               IN  \E T \in FirstOf(kept, MemoryLimit(in)) :
                     turn' = [turn EXCEPT !.pools = @ \cup T,
                                          !.recalled = @ + Cardinality(kept)]
        [] Reads[k] = "compose" ->
             \E P \in Picks(turn.pools, in) :
               turn' = [turn EXCEPT !.picked = P,
                                    !.sections = Sections(turn.pools, P, in)]

Load(k) ==
  /\ pc = Reads[k]
  /\ Reading(k)
  /\ pc' = IF Reads[k] = "compose" THEN "stream" ELSE StepAfter(k, turn.intent)
  /\ UNCHANGED <<record, hist, cache, answered, memory, turns, edits>>

(* Redis, the database or the embedding service fails before the stream:    *)
(* the user is told and the message stays without a reply.                  *)
ComposeFails ==
  /\ pc \notin {"idle", "stream"}
  /\ pc' = "idle" /\ turn' = Blank
  /\ hist' = LastTurns(Append(hist, <<"user", turn.msg>>), KeyTurns)
  /\ UNCHANGED <<record, cache, answered, memory, turns, edits>>

(* The content of the assistant's row.                                      *)
Content(raw, p) == IF Enforce(raw, p) = <<>> THEN Placeholder ELSE Enforce(raw, p)

(* What a later audit packs of the rows and the meta (_build_turns), beside *)
(* the turn before; raw and error are kept for the properties only.         *)
Packed(content, raw, failed) ==
  [msg |-> turn.msg, personality |-> turn.personality, intent |-> turn.intent,
   picked |-> turn.picked, sections |-> turn.sections, profiled |-> turn.profiled,
   recalled |-> turn.recalled, reply |-> content, raw |-> raw, error |-> failed,
   prevIntent |-> prev]

(* The stream ends or fails after raw; what is left of it is stored.        *)
Finish(raw, failed) ==
  LET content == Content(raw, turn.personality)
  IN  /\ pc = "stream"
      /\ stored' = Packed(content, raw, failed) /\ prev' = turn.intent
      /\ hist' = LastTurns(hist \o << <<"user", turn.msg>>, <<"assistant", content>> >>,
                           KeyTurns)
      /\ pc' = "idle" /\ turn' = Blank
      /\ UNCHANGED <<cache, answered, memory, turns, edits>>

-----------------------------------------------------------------------------
(* The environment of a turn                                                *)

(* A cache entry's time is up.                                              *)
Expire(k) ==
  /\ k \in DOMAIN cache
  /\ cache' = [j \in DOMAIN cache \ {k} |-> cache[j]]
  /\ UNCHANGED <<pc, turn, record, hist, answered, memory, turns, edits>>

Editing ==
  /\ edits < MaxEdits /\ edits' = edits + 1
  /\ UNCHANGED <<pc, turn, record, hist, cache, answered, turns>>

(* Mutant: the deprecation is recorded, the row left active.                *)
DeleteListedOnly(i) ==
  /\ Editing
  /\ i \in Of(active, "episodic")
  /\ deprecated' = deprecated \cup {i}
  /\ UNCHANGED <<active, dead, banned>>

(* DELETE /memory/episodic/{id}.                                            *)
DeleteEpisodic(i) ==
  /\ Editing
  /\ i \in Of(active, "episodic")
  /\ active' = active \ {i} /\ dead' = dead \cup {i}
  /\ deprecated' = deprecated \cup {i}
  /\ UNCHANGED banned

(* POST /memory/banned-entities, the spelling as it comes.                  *)
AddBanned(w) ==
  /\ Editing
  /\ banned' = banned \cup {w}
  /\ UNCHANGED <<active, dead, deprecated>>

(* A correction that denies w commits: some rows that mention it are        *)
(* deprecated or replaced (only the former are listed as deprecated), a     *)
(* relationship is left as it is, and w is banned.                          *)
Correct(w) ==
  /\ Editing
  /\ \E gone \in SUBSET {i \in Of(active, "event") \cup Of(active, "episodic") :
                           Lower[w] \in LowerAll(ItemWords[i])} :
       \E listed \in SUBSET Of(gone, "episodic") :
         /\ active' = active \ gone /\ dead' = dead \cup gone
         /\ deprecated' = deprecated \cup listed
  /\ banned' = banned \cup {w}

(* A worker commits a row; it may have read the ban list long before.       *)
Learn(i) ==
  /\ Editing
  /\ i \in Items \ (active \cup dead)
  /\ active' = active \cup {i}
  /\ UNCHANGED <<dead, deprecated, banned>>

Next ==
  \/ \E m \in Messages, p \in Personality : Start(m, p)
  \/ RouteByRule \/ RouteFromCache \/ ClassifyFails \/ ComposeFails
  \/ \E i \in Answers, s \in {"small_model", "fallback"} : Classify(i, s)
  \/ \E k \in DOMAIN Reads : Load(k)
  \/ \E raw \in Replies, failed \in BOOLEAN : Finish(raw, failed)
  \/ \E k \in DOMAIN cache : Expire(k)
  \/ \E i \in Items : DeleteEpisodic(i) \/ Learn(i)
  \/ \E w \in Bannable : AddBanned(w) \/ Correct(w)

Spec == Init /\ [][Next]_vars

-----------------------------------------------------------------------------
(* Properties                                                               *)

(* An intent served from the cache is one the model gave, not what an       *)
(* outage was papered over with, and to the question it would be asked now  *)
(* but for white space around the contents (make_cache_key against          *)
(* classify).  Only where a content of either exchange has a line that      *)
(* begins with a role may the question have been another.                   *)
CacheAnswersTheQuestion ==
  turn.source = "cache" =>
    \E a \in answered :
      /\ a.intent = turn.intent
      /\ CacheKey(a.history, a.message) = CacheKey(hist, turn.msg)
      /\ Plain(a.history, a.message) /\ Plain(hist, turn.msg) =>
           Alike(Question(a.history, a.message), Question(hist, turn.msg))

(* A message that opens with a denial is a correction, whatever else it     *)
(* matches, whatever is cached and whether or not the model answers: the    *)
(* correction task and the extraction tasks exclude each other by intent.   *)
CorrectionsAreHeard ==
  turn.source # "none" /\ Signals[turn.msg] \cap {"opening", "denial"} # {}
    => turn.intent = "correction"

(* The loader's promise: no episodic memory reaches the pools that contains *)
(* an entity banned, as spelled, before the load, or that was deleted       *)
(* before it, whatever is edited between its reads.                         *)
ForgottenStaysForgotten ==
  \A i \in Of(turn.pools, "episodic") :
    i \notin turn.deadBefore /\ ItemWords[i] \cap turn.bannedBefore = {}

(* In a sensitive turn no episodic memory is offered for quotation.         *)
PainIsNotQuoted ==
  turn.source # "none" /\ Sensitive(turn.intent) => Of(turn.picked, "episodic") = {}

(* The evaluation's structural rules agree with the composer and the guard: *)
(* no stored turn fails one, except for the background section.             *)
StructureHolds ==
  stored # NoTurn =>
    \A r \in DOMAIN L0(stored) \ {"background_section"} : L0(stored)[r] # "fail"

(* The reviewer finds the contract broken by a guarded reply only where the *)
(* guard leaves off: after a hard cut, whose ellipsis is one character too  *)
(* many, and where a question was hidden behind another one, a bracket or   *)
(* the length.                                                              *)
ContractKept ==
  stored # NoTurn =>
    LET reply == stored.reply
        raw == stored.raw
        max == MaxChars[stored.personality]
    IN  /\ Len(reply) > max => Len(reply) = max + 1 /\ reply[max + 1] = Ellipsis
        /\ stored.personality \notin AllowQuestion /\ AsksAtTheEnd(reply) =>
             \/ \E i, j \in DOMAIN raw : i # j /\ raw[i] = "?" /\ raw[j] = "?"
             \/ \E i \in DOMAIN raw : raw[i] \in Closing
             \/ Len(raw) > max

(* A turn the review blames has something to blame: an attribution.         *)
BlameHasACause ==
  stored # NoTurn =>
    LET v == TurnVerdict(stored, stored.prevIntent, KnownEntities(active), banned)
    IN  v.status \in {"bad", "suspicious"} => v.causes # {}
=============================================================================
