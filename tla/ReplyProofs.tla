---------------------------- MODULE ReplyProofs ----------------------------
(***************************************************************************)
(* One turn's reply, for any messages, items, words, budgets and limits:    *)
(* the routing, what the loader lets through while the memory is edited,    *)
(* what the guard leaves of the model's text, and what the audit's rules    *)
(* find in the stored turn: the structural rules agree with the composer    *)
(* and the guard, and what is blamed has a cause.                           *)
(***************************************************************************)
EXTENDS Reply, Induction, FiniteSetTheorems

-----------------------------------------------------------------------------
(* Routing: the least matching rule exists, and gives an intent; a denial   *)
(* is the first or the second rule, whose intent is a correction.           *)
LEMMA HardIntentFacts ==
  ASSUME NEW m \in Messages, Matching(m) # {}
  PROVE  /\ HardIntent(m) \in Intent
         /\ Signals[m] \cap {"opening", "denial"} # {} => HardIntent(m) = "correction"
<1> DEFINE i == CHOOSE i \in Matching(m) : \A j \in Matching(m) : i <= j
<1>1. Matching(m) \in SUBSET (1..7)
  BY DEF Matching, HardRules
<1>2. i \in Matching(m) /\ \A j \in Matching(m) : i <= j
  <2>1. \E x \in Matching(m) : \A y \in Matching(m) : x <= y
    BY <1>1, LeastNumber
  <2>2. QED
    BY <2>1
<1>3. HardIntent(m) = HardRules[i].intent
  BY DEF HardIntent
<1>4. i \in 1..7
  BY <1>1, <1>2
<1>5. Signals[m] \cap {"opening", "denial"} # {} => 1 \in Matching(m) \/ 2 \in Matching(m)
  BY DEF Matching, HardRules
<1> HIDE DEF i
<1>6. HardIntent(m) \in Intent
  BY <1>3, <1>4 DEF HardRules, Intent
<1>7. Signals[m] \cap {"opening", "denial"} # {} => i \in {1, 2}
  BY <1>2, <1>4, <1>5
<1>8. QED
  BY <1>3, <1>6, <1>7 DEF HardRules

(* The next read is one that is needed, and none that is needed is skipped. *)
LEMMA StepAfterFacts ==
  ASSUME NEW k \in 0..6, NEW intent
  PROVE  \E i \in (k + 1)..7 :
           /\ StepAfter(k, intent) = Reads[i] /\ Reads[i] \in Needed(intent)
           /\ \A j \in (k + 1)..(i - 1) : Reads[j] \notin Needed(intent)
<1> DEFINE T == {i \in (k + 1)..7 : Reads[i] \in Needed(intent)}
           i == CHOOSE i \in (k + 1)..7 :
                  /\ Reads[i] \in Needed(intent)
                  /\ \A j \in (k + 1)..(i - 1) : Reads[j] \notin Needed(intent)
<1>1. Len(Reads) = 7 /\ Reads[7] = "compose"
  BY DEF Reads
<1>2. 7 \in T
  BY <1>1 DEF Needed
<1>3. PICK x \in T : \A y \in T : x <= y
  BY <1>2, LeastNumber
<1>4. /\ x \in (k + 1)..7 /\ Reads[x] \in Needed(intent)
      /\ \A j \in (k + 1)..(x - 1) : Reads[j] \notin Needed(intent)
  BY <1>3
<1>5. /\ i \in (k + 1)..7 /\ Reads[i] \in Needed(intent)
      /\ \A j \in (k + 1)..(i - 1) : Reads[j] \notin Needed(intent)
  BY <1>4
<1>6. StepAfter(k, intent) = Reads[i]
  BY <1>1 DEF StepAfter
<1> HIDE DEF i
<1>7. QED
  BY <1>5, <1>6

-----------------------------------------------------------------------------
(* The invariant of the turn under way.                                     *)
Unrouted == {"idle", "route", "classify"}

TurnTypes ==
  /\ pc \in Unrouted \cup {"stream"} \cup {Reads[i] : i \in 1..7}
  /\ turn \in Turn
  /\ active \subseteq Items /\ dead \subseteq Items \ active
  /\ deprecated \subseteq dead /\ banned \subseteq Bannable
  /\ turns \in 0..MaxTurns /\ edits \in 0..MaxEdits

(* Until it is routed, a turn has nothing; once it is, the rules have been  *)
(* heard.                                                                   *)
RouteInv ==
  /\ pc \in Unrouted => turn.source = "none" /\ turn.pools = {} /\ turn.picked = {}
  /\ pc = "classify" => Matching(turn.msg) = {}
  /\ turn.source # "none" /\ Matching(turn.msg) # {} => turn.intent = HardIntent(turn.msg)

(* A conversation's entry: a role and a content.                            *)
Entry == ({"user"} \X Messages) \cup ({"assistant"} \X Seq(Mark \cup {"(empty)"}))

(* The model gave the intent, for an exchange with this key.                *)
Filed(key, intent, given) ==
  \E a \in given : a.intent = intent /\ CacheKey(a.history, a.message) = key

(* Every entry of the cache is an answer of the model, filed under its key. *)
CacheInv ==
  /\ hist \in Seq(Entry)
  /\ \A a \in answered :
       a.history \in Seq(Entry) /\ a.message \in Messages /\ a.intent \in Intent
  /\ \A k \in DOMAIN cache : Filed(k, cache[k], answered)
  /\ turn.source = "cache" => Filed(CacheKey(hist, turn.msg), turn.intent, answered)

(* What was forgotten before the load is forgotten still, and the bans the  *)
(* search is filtered by were read since.                                   *)
LoadInv ==
  /\ turn.bannedBefore \subseteq banned /\ turn.deadBefore \subseteq dead
  /\ pc \in {"deprecations", "search"} => turn.bannedBefore \subseteq turn.bans
  /\ ForgottenStaysForgotten /\ PainIsNotQuoted

TurnInv == TurnTypes /\ RouteInv /\ CacheInv /\ LoadInv

LEMMA BlankFacts ==
  /\ Blank \in Turn /\ Blank.source = "none" /\ Blank.pools = {} /\ Blank.picked = {}
  /\ Blank.bannedBefore = {} /\ Blank.deadBefore = {}
  /\ \A m \in Messages, p \in Personality :
       LET b == [Blank EXCEPT !.msg = m, !.personality = p]
       IN  /\ b \in Turn /\ b.source = "none" /\ b.pools = {} /\ b.picked = {}
           /\ b.bannedBefore = {} /\ b.deadBefore = {}
<1>1. /\ (CHOOSE m \in Messages : TRUE) \in Messages
      /\ (CHOOSE p \in Personality : TRUE) \in Personality
  BY RouterAssumption, GuardAssumption
<1>2. Blank \in Turn
  BY <1>1 DEF Blank, Turn, Intent, Source
<1>3. QED
  BY <1>2 DEF Blank, Turn

(* A turn with nothing in it satisfies the invariant where it may be.       *)
LEMMA EmptyTurn ==
  ASSUME TurnInv, turn' \in Turn, turn'.source = "none", turn'.pools = {}, turn'.picked = {},
         turn'.bannedBefore = {}, turn'.deadBefore = {}, pc' \in {"idle", "route"},
         turns' \in 0..MaxTurns, hist' \in Seq(Entry),
         UNCHANGED <<cache, answered, memory, edits>>
  PROVE  TurnInv'
<1>1. TurnTypes'
  BY DEF TurnInv, TurnTypes, memory, Unrouted
<1>2. RouteInv'
  BY DEF RouteInv
<1>3. CacheInv'
  BY DEF TurnInv, CacheInv
<1>4. LoadInv'
  BY DEF LoadInv, ForgottenStaysForgotten, PainIsNotQuoted, Of
<1>5. QED
  BY <1>1, <1>2, <1>3, <1>4 DEF TurnInv

(* Only the reads that lie ahead follow: the bans are read before the       *)
(* deprecations, and both before the search.                                *)
LEMMA ReadsInOrder ==
  ASSUME NEW k \in 0..6, NEW intent
  PROVE  /\ StepAfter(k, intent) \in {Reads[i] : i \in 1..7}
         /\ StepAfter(k, intent) = "deprecations" => k = 4
         /\ StepAfter(k, intent) = "search" => k = 5
<1>1. PICK i \in (k + 1)..7 :
        /\ StepAfter(k, intent) = Reads[i] /\ Reads[i] \in Needed(intent)
        /\ \A j \in (k + 1)..(i - 1) : Reads[j] \notin Needed(intent)
  BY StepAfterFacts
<1>2. /\ Reads[1] = "profile" /\ Reads[2] = "relationships" /\ Reads[3] = "events"
      /\ Reads[4] = "bans" /\ Reads[5] = "deprecations" /\ Reads[6] = "search"
      /\ Reads[7] = "compose"
  BY DEF Reads
<1>3. \A s \in {"bans", "deprecations", "search"} :
        s \in Needed(intent) <=> "episodic" \in Layers(intent)
  BY DEF Needed
<1>4. Reads[i] = "deprecations" => k = 4
  <2>1. Reads[i] = "deprecations" => i = 5 /\ 4 \notin (k + 1)..(i - 1)
    BY <1>1, <1>2, <1>3
  <2>2. QED
    BY <2>1
<1>5. Reads[i] = "search" => k = 5
  <2>1. Reads[i] = "search" => i = 6 /\ 5 \notin (k + 1)..(i - 1)
    BY <1>1, <1>2, <1>3
  <2>2. QED
    BY <2>1
<1>6. QED
  BY <1>1, <1>4, <1>5

(* A turn is routed: by a rule, or where no rule matches.                   *)
LEMMA RoutedStep ==
  ASSUME TurnInv, NEW intent \in Intent, NEW source \in Source \ {"none"},
         Routed(intent, source), pc \in {"route", "classify"},
         Matching(turn.msg) # {} => intent = HardIntent(turn.msg),
         UNCHANGED <<hist, memory, turns, edits>>,
         \A k \in DOMAIN cache' : Filed(k, cache'[k], answered'),
         \A a \in answered' :
           a.history \in Seq(Entry) /\ a.message \in Messages /\ a.intent \in Intent,
         source = "cache" => Filed(CacheKey(hist, turn.msg), intent, answered')
  PROVE  TurnInv'
<1> DEFINE x == [turn EXCEPT !.intent = intent, !.source = source,
                             !.bannedBefore = banned, !.deadBefore = dead]
<1>1. /\ turn' = x /\ pc' = StepAfter(0, intent) /\ turn \in Turn
      /\ banned \subseteq Words /\ dead \subseteq Items
      /\ turn.pools = {} /\ turn.picked = {}
  BY ReplyAssumption DEF Routed, TurnInv, TurnTypes, RouteInv, Unrouted
<1>2. /\ x \in Turn /\ x.intent = intent /\ x.source = source /\ x.msg = turn.msg
      /\ x.bannedBefore = banned /\ x.deadBefore = dead /\ x.pools = {} /\ x.picked = {}
  BY <1>1 DEF Turn
<1> HIDE DEF x
<1>3. /\ pc' \in {Reads[i] : i \in 1..7} /\ pc' \notin {"deprecations", "search"}
      /\ pc' \notin Unrouted
  BY <1>1, ReadsInOrder DEF Reads, Unrouted
<1>4. TurnTypes'
  BY <1>1, <1>2, <1>3 DEF TurnInv, TurnTypes, memory
<1>5. RouteInv'
  BY <1>1, <1>2, <1>3 DEF RouteInv, Unrouted
<1>6. CacheInv'
  BY <1>1, <1>2 DEF TurnInv, CacheInv
<1>7. LoadInv'
  BY <1>1, <1>2, <1>3 DEF LoadInv, ForgottenStaysForgotten, PainIsNotQuoted, Of, memory
<1>8. QED
  BY <1>4, <1>5, <1>6, <1>7 DEF TurnInv

-----------------------------------------------------------------------------
(* The loader.  A read keeps what was known before the load.                *)
Remembers(x, y) ==
  /\ y.msg = x.msg /\ y.personality = x.personality
  /\ y.intent = x.intent /\ y.source = x.source
  /\ y.bannedBefore = x.bannedBefore /\ y.deadBefore = x.deadBefore

LEMMA FiniteItems ==
  ASSUME NEW T \in SUBSET Items
  PROVE  IsFiniteSet(T) /\ Cardinality(T) \in Nat
BY ContextAssumption, FS_Subset, FS_CardinalityType

(* The reads before the search add no episodic memory.                      *)
LEMMA OtherReads ==
  ASSUME TurnInv, NEW k \in {1, 2, 3}, Reading(k)
  PROVE  /\ turn' \in Turn /\ Remembers(turn, turn') /\ turn'.bans = turn.bans
         /\ turn'.picked = turn.picked
         /\ Of(turn'.pools, "episodic") \subseteq Of(turn.pools, "episodic")
<1>1. turn \in Turn /\ active \subseteq Items
  BY DEF TurnInv, TurnTypes
<1>2. Reads[1] = "profile" /\ Reads[2] = "relationships" /\ Reads[3] = "events"
  BY DEF Reads
<1>3. CASE k = 1
  <2> DEFINE T == ProfileItems(active, turn.intent)
             n == Cardinality(T)
             x == [turn EXCEPT !.pools = T, !.profiled = n]
  <2>1. turn' = x
    BY <1>2, <1>3 DEF Reading
  <2>2. T \in SUBSET Items /\ Of(T, "episodic") = {}
    BY <1>1 DEF ProfileItems, Of
  <2>3. n \in Nat
    BY <2>2, FiniteItems
  <2> HIDE DEF T, n
  <2>4. /\ x \in Turn /\ Remembers(turn, x) /\ x.bans = turn.bans
        /\ x.picked = turn.picked /\ x.pools = T
    BY <1>1, <2>2, <2>3 DEF Turn, Remembers
  <2>5. QED
    BY <2>1, <2>2, <2>4
<1>4. ASSUME NEW T \in SUBSET Items, Of(T, "episodic") = {},
             turn' = [turn EXCEPT !.pools = turn.pools \cup T,
                                  !.recalled = turn.recalled + Cardinality(T)]
      PROVE  /\ turn' \in Turn /\ Remembers(turn, turn') /\ turn'.bans = turn.bans
             /\ turn'.picked = turn.picked
             /\ Of(turn'.pools, "episodic") \subseteq Of(turn.pools, "episodic")
  <2> DEFINE n == turn.recalled + Cardinality(T)
             U == turn.pools \cup T
             x == [turn EXCEPT !.pools = U, !.recalled = n]
  <2>1. n \in Nat /\ U \in SUBSET Items
    <3>1. turn.recalled \in Nat /\ turn.pools \in SUBSET Items
      BY <1>1 DEF Turn
    <3>2. Cardinality(T) \in Nat
      BY FiniteItems
    <3>3. QED
      BY <3>1, <3>2
  <2>2. turn' = x
    BY <1>4
  <2>3. Of(U, "episodic") \subseteq Of(turn.pools, "episodic")
    BY <1>4 DEF Of
  <2> HIDE DEF n, U
  <2>4. /\ x \in Turn /\ Remembers(turn, x) /\ x.bans = turn.bans
        /\ x.picked = turn.picked /\ x.pools = U
    BY <1>1, <2>1 DEF Turn, Remembers
  <2>5. QED
    BY <2>2, <2>3, <2>4
<1>5. CASE k = 2
  <2>1. PICK T \in FirstOf(RelationshipItems(active, turn.intent), RelationshipLimit) :
          turn' = [turn EXCEPT !.pools = turn.pools \cup T,
                               !.recalled = turn.recalled + Cardinality(T)]
    BY <1>1, <1>2, <1>5 DEF Reading, Turn
  <2>2. T \in SUBSET Items /\ Of(T, "episodic") = {}
    BY <1>1 DEF FirstOf, RelationshipItems, Of
  <2>3. QED
    BY <1>4, <2>1, <2>2
<1>6. CASE k = 3
  <2>1. PICK T \in FirstOf(Of(active, "event"), EventLimit) :
          turn' = [turn EXCEPT !.pools = turn.pools \cup T,
                               !.recalled = turn.recalled + Cardinality(T)]
    BY <1>1, <1>2, <1>6 DEF Reading, Turn
  <2>2. T \in SUBSET Items /\ Of(T, "episodic") = {}
    BY <1>1 DEF FirstOf, Of
  <2>3. QED
    BY <1>4, <2>1, <2>2
<1>7. QED
  BY <1>3, <1>5, <1>6

(* The two lists, read by one statement each.                               *)
LEMMA ListReads ==
  ASSUME TurnInv, NEW k \in {4, 5}, Reading(k)
  PROVE  /\ turn' \in Turn /\ Remembers(turn, turn')
         /\ turn'.pools = turn.pools /\ turn'.picked = turn.picked
         /\ turn'.bans = IF k = 4 THEN banned ELSE turn.bans
<1>1. /\ turn \in Turn /\ banned \subseteq Words /\ deprecated \subseteq Items
      /\ Reads[4] = "bans" /\ Reads[5] = "deprecations"
  BY ReplyAssumption DEF TurnInv, TurnTypes, Reads
<1>2. CASE k = 4
  <2>1. turn' = [turn EXCEPT !.bans = banned]
    BY <1>1, <1>2 DEF Reading
  <2>2. QED
    BY <1>1, <1>2, <2>1 DEF Turn, Remembers
<1>3. CASE k = 5
  <2>1. turn' = [turn EXCEPT !.gone = deprecated]
    BY <1>1, <1>3 DEF Reading
  <2>2. QED
    BY <1>1, <1>3, <2>1 DEF Turn, Remembers
<1>4. QED
  BY <1>2, <1>3

(* The search finds active rows, and the filter drops those with a banned   *)
(* word.                                                                    *)
LEMMA SearchRead ==
  ASSUME TurnInv, Reading(6)
  PROVE  /\ turn' \in Turn /\ Remembers(turn, turn') /\ turn'.picked = turn.picked
         /\ \A i \in Of(turn'.pools, "episodic") :
              \/ i \in Of(turn.pools, "episodic")
              \/ i \in active /\ ItemWords[i] \cap turn.bans = {}
<1>1. turn \in Turn /\ active \subseteq Items /\ Reads[6] = "search"
  BY DEF TurnInv, TurnTypes, Reads
<1>2. PICK hits \in FoundIn(Of(active, "episodic"), SearchLimit) :
        \E T \in FirstOf(Kept(hits, turn.bans, turn.gone), MemoryLimit(turn.intent)) :
          turn' = [turn EXCEPT !.pools = turn.pools \cup T,
                               !.recalled = turn.recalled
                                 + Cardinality(Kept(hits, turn.bans, turn.gone))]
  BY <1>1 DEF Reading, Turn
<1>20. PICK T \in FirstOf(Kept(hits, turn.bans, turn.gone), MemoryLimit(turn.intent)) :
         turn' = [turn EXCEPT !.pools = turn.pools \cup T,
                              !.recalled = turn.recalled
                                + Cardinality(Kept(hits, turn.bans, turn.gone))]
  BY <1>2
<1> DEFINE kept == Kept(hits, turn.bans, turn.gone)
           n == turn.recalled + Cardinality(kept)
           U == turn.pools \cup T
           x == [turn EXCEPT !.pools = U, !.recalled = n]
<1>3. hits \subseteq active /\ kept \subseteq hits /\ T \subseteq kept
  BY <1>2, <1>20 DEF FirstOf, FoundIn, Of, Kept
<1>4. \A i \in kept : ItemWords[i] \cap turn.bans = {}
  BY DEF Kept
<1>5. n \in Nat /\ U \in SUBSET Items
  <2>1. turn.recalled \in Nat /\ turn.pools \in SUBSET Items
    BY <1>1 DEF Turn
  <2>2. kept \in SUBSET Items
    BY <1>1, <1>3
  <2> HIDE DEF kept
  <2>3. Cardinality(kept) \in Nat
    BY <2>2, FiniteItems
  <2>4. QED
    BY <1>3, <2>1, <2>2, <2>3
<1>6. turn' = x
  BY <1>20
<1>7. \A i \in Of(U, "episodic") :
        i \in Of(turn.pools, "episodic") \/ (i \in active /\ ItemWords[i] \cap turn.bans = {})
  BY <1>3, <1>4 DEF Of
<1> HIDE DEF n, U, kept
<1>8. x \in Turn /\ Remembers(turn, x) /\ x.picked = turn.picked /\ x.pools = U
  BY <1>1, <1>5 DEF Turn, Remembers
<1>9. QED
  BY <1>6, <1>7, <1>8

(* The composer picks from the pools what may be quoted.                    *)
LEMMA ComposeRead ==
  ASSUME TurnInv, Reading(7)
  PROVE  /\ turn' \in Turn /\ Remembers(turn, turn') /\ turn'.pools = turn.pools
         /\ Sensitive(turn.intent) => Of(turn'.picked, "episodic") = {}
<1>1. turn \in Turn /\ Reads[7] = "compose"
  BY DEF TurnInv, TurnTypes, Reads
<1>2. PICK P \in Picks(turn.pools, turn.intent) :
        turn' = [turn EXCEPT !.picked = P, !.sections = Sections(turn.pools, P, turn.intent)]
  BY <1>1 DEF Reading
<1>3. P \subseteq turn.pools /\ \A i \in P : Usage(i, turn.intent) # "BACKGROUND_ONLY"
  BY <1>2 DEF Picks, FirstOf
<1>4. Sensitive(turn.intent) => Of(P, "episodic") = {}
  BY <1>3 DEF Of, Usage
<1> DEFINE s == Sections(turn.pools, P, turn.intent)
           x == [turn EXCEPT !.picked = P, !.sections = s]
<1>5. s \subseteq Section /\ P \subseteq Items
  BY <1>1, <1>3 DEF Sections, Section, Turn
<1> HIDE DEF s
<1>6. x \in Turn /\ Remembers(turn, x) /\ x.pools = turn.pools /\ x.picked = P
  BY <1>1, <1>5 DEF Turn, Remembers
<1>7. QED
  BY <1>2, <1>4, <1>6 DEF s

LEMMA LoadStep ==
  ASSUME TurnInv, NEW k \in 1..7, Load(k)
  PROVE  TurnInv'
<1>1. /\ Reads[1] = "profile" /\ Reads[2] = "relationships" /\ Reads[3] = "events"
      /\ Reads[4] = "bans" /\ Reads[5] = "deprecations" /\ Reads[6] = "search"
      /\ Reads[7] = "compose"
  BY DEF Reads
<1>2. /\ Reading(k) /\ pc = Reads[k]
      /\ pc' = IF Reads[k] = "compose" THEN "stream" ELSE StepAfter(k, turn.intent)
      /\ UNCHANGED <<hist, cache, answered, memory, turns, edits>>
  BY DEF Load
<1>3. /\ pc' \in {"stream"} \cup {Reads[i] : i \in 1..7} /\ pc' \notin Unrouted
      /\ pc' = "deprecations" => k = 4
      /\ pc' = "search" => k = 5
  <2>1. CASE k = 7
    BY <1>1, <1>2, <2>1 DEF Unrouted
  <2>2. CASE k # 7
    <3>1. pc' = StepAfter(k, turn.intent) /\ k \in 0..6
      BY <1>1, <1>2, <2>2
    <3>2. QED
      BY <1>1, <3>1, ReadsInOrder DEF Unrouted
  <2>3. QED
    BY <2>1, <2>2
<1>4. turn' \in Turn /\ Remembers(turn, turn')
  BY <1>2, OtherReads, ListReads, SearchRead, ComposeRead
<1>5. TurnTypes'
  BY <1>2, <1>3, <1>4 DEF TurnInv, TurnTypes, memory
<1>6. RouteInv'
  BY <1>3, <1>4 DEF TurnInv, RouteInv, Remembers, Unrouted
<1>7. CacheInv'
  BY <1>2, <1>4 DEF TurnInv, CacheInv, Remembers
<1>8. pc' \in {"deprecations", "search"} => turn'.bannedBefore \subseteq turn'.bans
  <2>1. CASE pc' = "deprecations"
    BY <1>2, <1>3, <1>4, <2>1, ListReads DEF TurnInv, LoadInv, Remembers
  <2>2. CASE pc' = "search"
    <3>1. k = 5 /\ pc = "deprecations"
      BY <1>1, <1>2, <1>3, <2>2
    <3>2. QED
      BY <1>2, <1>4, <3>1, ListReads DEF TurnInv, LoadInv, Remembers
  <2>3. QED
    BY <2>1, <2>2
<1>9. ForgottenStaysForgotten'
  <2>1. CASE k = 6
    <3>1. turn.bannedBefore \subseteq turn.bans /\ turn.deadBefore \subseteq dead
      BY <1>1, <1>2, <2>1 DEF TurnInv, LoadInv
    <3>2. \A i \in active : i \notin dead
      BY DEF TurnInv, TurnTypes
    <3>3. QED
      BY <1>2, <1>4, <2>1, <3>1, <3>2, SearchRead
      DEF TurnInv, LoadInv, ForgottenStaysForgotten, Remembers
  <2>2. CASE k # 6
    <3>1. Of(turn'.pools, "episodic") \subseteq Of(turn.pools, "episodic")
      BY <1>2, <2>2, OtherReads, ListReads, ComposeRead
    <3>2. QED
      BY <1>4, <3>1 DEF TurnInv, LoadInv, ForgottenStaysForgotten, Remembers
  <2>3. QED
    BY <2>1, <2>2
<1>10. PainIsNotQuoted'
  <2>1. CASE k = 7
    BY <1>2, <1>4, <2>1, ComposeRead DEF PainIsNotQuoted, Remembers
  <2>2. CASE k # 7
    <3>1. turn'.picked = turn.picked
      BY <1>2, <2>2, OtherReads, ListReads, SearchRead
    <3>2. QED
      BY <1>4, <3>1 DEF TurnInv, LoadInv, PainIsNotQuoted, Remembers
  <2>3. QED
    BY <2>1, <2>2
<1>11. LoadInv'
  BY <1>2, <1>4, <1>8, <1>9, <1>10 DEF TurnInv, LoadInv, Remembers, memory
<1>12. QED
  BY <1>5, <1>6, <1>7, <1>11 DEF TurnInv

-----------------------------------------------------------------------------
(* The guard, on a text of any length.                                      *)
LEMMA LastInFacts ==
  ASSUME NEW text, NEW n \in Nat, NEW S
  PROVE  /\ LastIn(text, n, S) \in 0..n
         /\ LastIn(text, n, S) # 0 => text[LastIn(text, n, S)] \in S
         /\ \A i \in 1..n : text[i] \in S => i <= LastIn(text, n, S)
<1> DEFINE at == {i \in 1..n : text[i] \in S}
           T == {n - i : i \in at}
           last == CHOOSE i \in at : \A j \in at : j <= i
<1>1. CASE at = {}
  <2>1. LastIn(text, n, S) = 0
    BY <1>1 DEF LastIn
  <2>2. QED
    BY <1>1, <2>1
<1>2. CASE at # {}
  <2>1. T \in SUBSET Nat /\ T # {}
    BY <1>2
  <2> HIDE DEF T
  <2>2. PICK x \in T : \A y \in T : x <= y
    BY <2>1, LeastNumber
  <2>3. PICK i \in at : x = n - i
    BY <2>2 DEF T
  <2>4. \A j \in at : n - j \in T
    BY DEF T
  <2>5. \A j \in at : j <= i
    BY <2>2, <2>3, <2>4
  <2>6. last \in at /\ \A j \in at : j <= last
    BY <2>5
  <2>7. LastIn(text, n, S) = last
    BY <1>2 DEF LastIn
  <2> HIDE DEF last
  <2>8. QED
    BY <2>6, <2>7
<1>3. QED
  BY <1>1, <1>2

(* The cut leaves a beginning of the text, with an ellipsis after it when   *)
(* no sentence ends in time.                                                *)
LEMMA TruncateFacts ==
  ASSUME NEW M, NEW text \in Seq(M), NEW max \in Nat, Ellipsis \in M
  PROVE  /\ TruncateToMax(text, max) \in Seq(M)
         /\ Len(text) <= max => TruncateToMax(text, max) = text
         /\ \/ Len(TruncateToMax(text, max)) <= max
            \/ /\ Len(TruncateToMax(text, max)) = max + 1
               /\ TruncateToMax(text, max)[max + 1] = Ellipsis
<1> DEFINE cut == LastIn(text, max, SentenceEnd)
           cutText == UpTo(text, cut)
           hard == UpTo(text, max)
<1>1. Len(text) \in Nat /\ cut \in 0..max
  BY LastInFacts
<1>2. CASE Len(text) <= max
  BY <1>2 DEF TruncateToMax
<1>3. CASE Len(text) > max /\ cut > 0
  <2>1. TruncateToMax(text, max) = cutText
    BY <1>1, <1>3 DEF TruncateToMax
  <2> HIDE DEF cut
  <2>2. cutText \in Seq(M) /\ Len(cutText) = cut
    BY <1>1, <1>3 DEF UpTo
  <2>3. QED
    BY <1>1, <1>3, <2>1, <2>2
<1>4. CASE Len(text) > max /\ ~(cut > 0)
  <2>1. TruncateToMax(text, max) = hard \o <<Ellipsis>>
    BY <1>1, <1>4 DEF TruncateToMax
  <2>2. hard \in Seq(M) /\ Len(hard) = max
    BY <1>1, <1>4 DEF UpTo
  <2> HIDE DEF hard
  <2>3. <<Ellipsis>> \in Seq(M) /\ Len(<<Ellipsis>>) = 1 /\ <<Ellipsis>>[1] = Ellipsis
    OBVIOUS
  <2> DEFINE e == <<Ellipsis>>
  <2> HIDE DEF e
  <2>4. /\ hard \o e \in Seq(M) /\ Len(hard \o e) = max + 1
        /\ (hard \o e)[max + 1] = e[1]
    BY <2>2, <2>3 DEF e
  <2>5. QED
    BY <1>4, <1>1, <2>1, <2>3, <2>4 DEF e
<1>5. QED
  BY <1>1, <1>2, <1>3, <1>4

(* A question that nothing hides is stripped: what is left has another one  *)
(* at its end, or none.                                                     *)
LEMMA StrippedFacts ==
  ASSUME NEW raw \in Replies, NEW p \in Personality
  PROVE  /\ Stripped(raw, p) \in Seq(Mark)
         /\ Len(Stripped(raw, p)) <= Len(raw)
         /\ /\ p \notin AllowQuestion
            /\ AsksAtTheEnd(Stripped(raw, p))
            => \/ \E i, j \in DOMAIN raw : i # j /\ raw[i] = "?" /\ raw[j] = "?"
               \/ \E i \in DOMAIN raw : raw[i] \in Closing
<1> DEFINE n == Len(raw)
           shown == LastIn(raw, n, Mark \ Closing)
           last == LastIn(raw, n, Mark \ SentenceEnd)
           k == LastIn(raw, last, SentenceEnd)
<1>1. /\ raw \in Seq(Mark) /\ n \in Nat /\ DOMAIN raw = 1..n
      /\ \A i \in 1..n : raw[i] \in Mark
  BY ReplyAssumption DEF Mark, SentenceEnd, Closing
<1>2. /\ last \in 0..n /\ shown \in 0..n
      /\ last # 0 => raw[last] \notin SentenceEnd
      /\ \A i \in 1..n : raw[i] \in Mark \ Closing => i <= shown
  BY <1>1, LastInFacts
<1>3. k \in 0..last
  BY <1>2, LastInFacts
<1>4. EndsWithQuestion(raw) <=> shown > 0 /\ raw[shown] = "?"
  BY DEF EndsWithQuestion
<1>5. StripTrailingQuestion(raw) = SubSeq(raw, 1, k)
  BY DEF StripTrailingQuestion, UpTo
<1> HIDE DEF n, shown, last, k
<1>6. /\ SubSeq(raw, 1, k) \in Seq(Mark) /\ Len(SubSeq(raw, 1, k)) = k
      /\ \A i \in 1..k : SubSeq(raw, 1, k)[i] = raw[i]
  BY <1>1, <1>2, <1>3 DEF n
<1>7. CASE ~(p \notin AllowQuestion /\ EndsWithQuestion(raw))
  <2>1. Stripped(raw, p) = raw
    BY <1>7 DEF Stripped
  <2>2. ASSUME p \notin AllowQuestion, AsksAtTheEnd(raw)
        PROVE  FALSE
    <3>1. n > 0 /\ raw[n] = "?"
      BY <1>1, <2>2 DEF AsksAtTheEnd, n
    <3>2. raw[n] \in Mark \ Closing
      BY <1>1, <3>1 DEF Closing
    <3>3. shown = n
      BY <1>1, <1>2, <3>1, <3>2
    <3>4. QED
      BY <1>4, <1>7, <2>2, <3>1, <3>3
  <2>3. QED
    BY <1>1, <2>1, <2>2 DEF n
<1>8. CASE p \notin AllowQuestion /\ EndsWithQuestion(raw)
  <2>1. Stripped(raw, p) = SubSeq(raw, 1, k)
    BY <1>5, <1>8 DEF Stripped
  <2>2. ASSUME AsksAtTheEnd(SubSeq(raw, 1, k)), \A i \in DOMAIN raw : raw[i] \notin Closing
        PROVE  \E i, j \in DOMAIN raw : i # j /\ raw[i] = "?" /\ raw[j] = "?"
    <3>1. k > 0 /\ raw[k] = "?"
      BY <1>2, <1>3, <1>6, <2>2 DEF AsksAtTheEnd
    <3>2. n > 0 /\ raw[n] \in Mark \ Closing
      BY <1>1, <1>2, <1>3, <2>2, <3>1
    <3>3. shown = n
      BY <1>1, <1>2, <3>2
    <3>4. raw[n] = "?"
      BY <1>4, <1>8, <3>3
    <3>5. last # n
      BY <1>2, <3>2, <3>4 DEF SentenceEnd
    <3>6. k # n /\ k \in 1..n /\ n \in 1..n
      BY <1>1, <1>2, <1>3, <3>1, <3>2, <3>5
    <3>7. QED
      BY <1>1, <3>1, <3>4, <3>6
  <2>3. QED
    BY <1>1, <1>2, <1>3, <1>6, <2>1, <2>2 DEF n
<1>9. QED
  BY <1>7, <1>8

(* What is stored is what the guard left of one of the model's texts.       *)
StoredInv ==
  /\ stored \in Stored \cup {NoTurn} /\ prev \in Intent \cup {"none"}
  /\ stored # NoTurn =>
       /\ stored.raw \in Replies /\ stored.personality \in Personality
       /\ stored.reply = Content(stored.raw, stored.personality)

ReplyInv == TurnInv /\ StoredInv

LEMMA ContentType ==
  ASSUME NEW raw \in Replies, NEW p \in Personality
  PROVE  Content(raw, p) \in Seq(Mark \cup {"(empty)"}) /\ raw \in Seq(Mark)
<1>1. MaxChars[p] \in Nat /\ Ellipsis \in Mark /\ ShortChars + 1 \in Nat
  BY GuardAssumption, ReviewAssumption DEF Mark
<1>2. Enforce(raw, p) \in Seq(Mark)
  BY <1>1, StrippedFacts, TruncateFacts DEF Enforce
<1>3. Seq(Mark) \subseteq Seq(Mark \cup {"(empty)"})
  OBVIOUS
<1>4. Placeholder \in Seq(Mark \cup {"(empty)"})
  BY <1>1 DEF Placeholder
<1>5. raw \in Seq(Mark)
  BY ReplyAssumption DEF Mark, SentenceEnd, Closing
<1>6. QED
  BY <1>2, <1>3, <1>4, <1>5 DEF Content

(* The reply a reader of the contract finds at fault.                       *)
LEMMA ContentContract ==
  ASSUME NEW raw \in Replies, NEW p \in Personality
  PROVE  LET reply == Content(raw, p)
             max == MaxChars[p]
         IN  /\ Len(reply) > max => Len(reply) = max + 1 /\ reply[max + 1] = Ellipsis
             /\ p \notin AllowQuestion /\ AsksAtTheEnd(reply) =>
                  \/ \E i, j \in DOMAIN raw : i # j /\ raw[i] = "?" /\ raw[j] = "?"
                  \/ \E i \in DOMAIN raw : raw[i] \in Closing
                  \/ Len(raw) > max
<1> DEFINE max == MaxChars[p]
           s == Stripped(raw, p)
           e == Enforce(raw, p)
<1>1. /\ max \in Nat /\ Ellipsis \in Mark /\ ShortChars \in Nat /\ ShortChars < max
      /\ e = TruncateToMax(s, max)
  BY GuardAssumption, ReviewAssumption DEF Mark, Enforce
<1>2. /\ s \in Seq(Mark) /\ Len(s) <= Len(raw) /\ Len(raw) \in Nat
      /\ p \notin AllowQuestion /\ AsksAtTheEnd(s) =>
           \/ \E i, j \in DOMAIN raw : i # j /\ raw[i] = "?" /\ raw[j] = "?"
           \/ \E i \in DOMAIN raw : raw[i] \in Closing
  BY StrippedFacts, ContentType
<1> HIDE DEF max, s, e
<1>3. /\ e \in Seq(Mark) /\ (Len(s) <= max => e = s)
      /\ Len(e) <= max \/ (Len(e) = max + 1 /\ e[max + 1] = Ellipsis)
  BY <1>1, <1>2, TruncateFacts
<1>4. CASE e = <<>>
  <2>1. Content(raw, p) = Placeholder
    BY <1>4 DEF Content, e
  <2>2. /\ Len(Placeholder) = ShortChars + 1 /\ ShortChars + 1 <= max
        /\ Placeholder[Len(Placeholder)] = "(empty)"
    BY <1>1 DEF Placeholder
  <2>3. QED
    BY <1>1, <2>1, <2>2 DEF AsksAtTheEnd, max
<1>5. CASE e # <<>>
  <2>1. Content(raw, p) = e
    BY <1>5 DEF Content, e
  <2>2. Len(e) > max => Len(e) = max + 1 /\ e[max + 1] = Ellipsis
    BY <1>1, <1>3
  <2>3. Len(raw) <= max => e = s
    BY <1>1, <1>2, <1>3
  <2>4. QED
    BY <1>1, <1>2, <2>1, <2>2, <2>3 DEF max
<1>6. QED
  BY <1>4, <1>5

-----------------------------------------------------------------------------
(* The key tells two plain exchanges apart.                                 *)

LEMMA ConcatType ==
  ASSUME NEW E, NEW b \in Seq(E), NEW c \in Seq(E)
  PROVE  b \o c \in Seq(E) /\ Len(b \o c) = Len(b) + Len(c)
OBVIOUS

(* Sequences of one element are joined to the sequence of those elements.   *)
LEMMA JoinOfSingles ==
  ASSUME NEW E, NEW s \in Seq(Seq(E)), s # <<>>, \A i \in DOMAIN s : Len(s[i]) = 1
  PROVE  FlattenSeq(s) = [i \in DOMAIN s |-> s[i][1]]
<1> DEFINE N == Len(s)
           Upto(n) == [j \in 1..n |-> s[j][1]]
           Body(f) == [i \in 1..N |-> IF i = 1 THEN s[i] ELSE f[i - 1] \o s[i]]
           flatten == CHOOSE f : f = Body(f)
<1>1. N \in Nat /\ N # 0 /\ DOMAIN s = 1..N
  OBVIOUS
<1>2. ASSUME NEW i \in 1..N PROVE s[i] \in Seq(E) /\ Len(s[i]) = 1 /\ s[i][1] \in E
  <2>1. s[i] \in Seq(E) /\ Len(s[i]) = 1
    BY <1>1
  <2>2. QED
    BY <2>1
<1>3. \A i \in 1..N : Upto(i) \in Seq(E) /\ Len(Upto(i)) = i
  BY <1>2
<1>4. ASSUME NEW i \in 1..N, i # 1 PROVE Upto(i) = Upto(i - 1) \o s[i]
  <2>1. i - 1 \in 1..N
    BY <1>1, <1>4
  <2>2. Upto(i - 1) \in Seq(E) /\ Len(Upto(i - 1)) = i - 1 /\ s[i] \in Seq(E) /\ Len(s[i]) = 1
    BY <1>2, <1>3, <2>1
  <2>3. \A j \in 1..i : (Upto(i - 1) \o s[i])[j] = s[j][1]
    BY <2>1, <2>2
  <2> DEFINE u == Upto(i - 1) \o s[i]
  <2>4. u \in Seq(E) /\ Len(u) = i
    <3> DEFINE b == Upto(i - 1)
               c == s[i]
    <3>1. b \in Seq(E) /\ Len(b) = i - 1 /\ c \in Seq(E) /\ Len(c) = 1
      BY <2>2
    <3>2. (i - 1) + 1 = i
      BY <2>1
    <3> HIDE DEF b, c
    <3>3. b \o c \in Seq(E) /\ Len(b \o c) = Len(b) + Len(c)
      BY <3>1, ConcatType
    <3>4. Len(b) + Len(c) = i
      BY <3>1, <3>2
    <3>5. QED
      BY <3>3, <3>4 DEF b, c
  <2>5. \A j \in 1..i : u[j] = s[j][1]
    BY <2>3
  <2> HIDE DEF u
  <2>6. u = [j \in 1..i |-> s[j][1]]
    BY <2>4, <2>5
  <2>7. QED
    BY <2>6 DEF u
<1>5. Upto(1) = s[1]
  BY <1>1, <1>2
<1>6. \E f : f = Body(f)
  <2> DEFINE w == [i \in 1..N |-> Upto(i)]
  <2>1. \A i \in 1..N : i # 1 => i - 1 \in 1..N
    BY <1>1
  <2> HIDE DEF Upto
  <2>2. w = Body(w)
    BY <1>4, <1>5, <2>1
  <2>3. QED
    BY <2>2
<1>7. flatten = Body(flatten)
  BY <1>6
<1>8. FlattenSeq(s) = flatten[N]
  BY <1>1 DEF FlattenSeq
<1> HIDE DEF flatten
<1>9. /\ flatten[1] = s[1]
      /\ \A n \in 1..N : n + 1 <= N => flatten[n + 1] = flatten[n] \o s[n + 1]
  <2>1. flatten[1] = s[1]
    BY <1>1, <1>7
  <2>2. ASSUME NEW n \in 1..N, n + 1 <= N PROVE flatten[n + 1] = flatten[n] \o s[n + 1]
    <3>1. n + 1 \in 1..N /\ n + 1 # 1 /\ (n + 1) - 1 = n
      BY <1>1, <2>2
    <3>2. QED
      BY <1>7, <3>1
  <2>3. QED
    BY <2>1, <2>2
<1> DEFINE P == {n \in Nat : n \in 1..N => flatten[n] = Upto(n)}
<1>10. 0 \in P
  OBVIOUS
<1>11. ASSUME NEW n \in Nat, n \in P PROVE n + 1 \in P
  <2>1. CASE n + 1 \in 1..N /\ n # 0
    <3>1. n \in 1..N /\ n + 1 # 1 /\ (n + 1) - 1 = n
      BY <1>1, <2>1
    <3> HIDE DEF Upto
    <3>2. flatten[n] = Upto(n)
      BY <1>11, <3>1
    <3>3. flatten[n + 1] = flatten[n] \o s[n + 1]
      <4>1. n + 1 <= N
        BY <1>1, <2>1
      <4>2. QED
        BY <1>9, <3>1, <4>1
    <3>4. Upto(n + 1) = Upto(n) \o s[n + 1]
      BY <1>4, <2>1, <3>1
    <3>5. flatten[n + 1] = Upto(n + 1)
      BY <3>2, <3>3, <3>4
    <3>6. QED
      BY <3>5
  <2>2. CASE n = 0
    BY <1>5, <1>9, <2>2
  <2>3. CASE n + 1 \notin 1..N
    BY <2>3
  <2>4. QED
    BY <2>1, <2>2, <2>3
<1> HIDE DEF P
<1>12. N \in P
  BY <1>1, <1>10, <1>11, Induct
<1>13. flatten[N] = Upto(N)
  BY <1>1, <1>12 DEF P
<1>14. QED
  BY <1>1, <1>8, <1>13

(* The last turns are the end of the history.                               *)
LEMMA LastTurnsFacts ==
  ASSUME NEW h \in Seq(Entry), NEW n \in Nat
  PROVE  LET t == LastTurns(h, n)
         IN  /\ t \in Seq(Entry)
             /\ Len(t) = IF Len(h) > 2 * n THEN 2 * n ELSE Len(h)
             /\ \A i \in 1..Len(t) : t[i] = h[i + Len(h) - Len(t)]
<1> DEFINE a == IF Len(h) > 2 * n THEN Len(h) - 2 * n + 1 ELSE 1
<1>1. Len(h) \in Nat /\ a \in 1..(Len(h) + 1)
  OBVIOUS
<1> HIDE DEF a
<1>2. /\ SubSeq(h, a, Len(h)) \in Seq(Entry)
      /\ Len(SubSeq(h, a, Len(h))) = Len(h) - a + 1
      /\ \A i \in 1..(Len(h) - a + 1) : SubSeq(h, a, Len(h))[i] = h[i + a - 1]
  BY <1>1
<1>3. LastTurns(h, n) = SubSeq(h, a, Len(h))
  BY DEF LastTurns, a
<1>4. Len(h) - a + 1 = IF Len(h) > 2 * n THEN 2 * n ELSE Len(h)
  BY <1>1 DEF a
<1> DEFINE k == SubSeq(h, a, Len(h))
<1>5. \A i \in 1..Len(k) : i + a - 1 = i + Len(h) - Len(k)
  BY <1>1, <1>2
<1> HIDE DEF k
<1>6. /\ k \in Seq(Entry) /\ Len(k) = IF Len(h) > 2 * n THEN 2 * n ELSE Len(h)
      /\ \A i \in 1..Len(k) : k[i] = h[i + Len(h) - Len(k)]
  BY <1>2, <1>4, <1>5 DEF k
<1>7. QED
  BY <1>3, <1>6 DEF k

LEMMA ExchangeFacts ==
  ASSUME NEW h \in Seq(Entry), NEW m \in Messages, NEW n \in Nat
  PROVE  LET x == Exchange(h, m, n)
         IN  /\ x \in Seq(Entry)
             /\ Len(x) = 1 + (IF Len(h) > 2 * n THEN 2 * n ELSE Len(h))
             /\ \A i \in 1..Len(x) : x[i] = Append(h, <<"user", m>>)[i + Len(h) + 1 - Len(x)]
<1> DEFINE e == <<"user", m>>
           t == LastTurns(h, n)
<1>1. e \in Entry
  BY DEF Entry
<1>2. /\ t \in Seq(Entry)
      /\ Len(t) = IF Len(h) > 2 * n THEN 2 * n ELSE Len(h)
      /\ \A i \in 1..Len(t) : t[i] = h[i + Len(h) - Len(t)]
  BY LastTurnsFacts
<1> HIDE DEF e, t
<1>3. /\ Append(t, e) \in Seq(Entry) /\ Len(Append(t, e)) = Len(t) + 1
      /\ \A i \in 1..Len(t) : Append(t, e)[i] = t[i]
      /\ Append(t, e)[Len(t) + 1] = e
  BY <1>1, <1>2
<1>4. /\ \A i \in 1..Len(h) : Append(h, e)[i] = h[i]
      /\ Append(h, e)[Len(h) + 1] = e
  BY <1>1
<1>5. ASSUME NEW i \in 1..(Len(t) + 1)
      PROVE  Append(t, e)[i] = Append(h, e)[i + Len(h) - Len(t)]
  <2>1. Len(t) \in Nat /\ Len(h) \in Nat /\ Len(t) <= Len(h)
    BY <1>2
  <2>2. CASE i = Len(t) + 1
    BY <1>3, <1>4, <2>1, <2>2
  <2>3. CASE i # Len(t) + 1
    <3>1. i \in 1..Len(t) /\ i + Len(h) - Len(t) \in 1..Len(h)
      BY <2>1, <2>3
    <3>2. QED
      BY <1>2, <1>3, <1>4, <3>1
  <2>4. QED
    BY <2>2, <2>3
<1>6. Exchange(h, m, n) = Append(t, e)
  BY DEF Exchange, e, t
<1>7. Len(t) \in Nat /\ Len(h) \in Nat
  BY <1>2
<1> DEFINE x == Append(t, e)
<1>9. x \in Seq(Entry) /\ Len(x) = 1 + (IF Len(h) > 2 * n THEN 2 * n ELSE Len(h))
  BY <1>2, <1>3, <1>7
<1>10. \A i \in 1..Len(x) : x[i] = Append(h, e)[i + Len(h) + 1 - Len(x)]
  <2>1. Len(x) = Len(t) + 1
    BY <1>3
  <2> HIDE DEF x
  <2>2. \A i \in 1..Len(x) : i + Len(h) - Len(t) = i + Len(h) + 1 - Len(x)
    BY <1>7, <2>1
  <2>3. \A i \in 1..Len(x) : x[i] = Append(h, e)[i + Len(h) - Len(t)]
    BY <1>5, <2>1 DEF x
  <2>4. QED
    BY <2>2, <2>3
<1> HIDE DEF x
<1>11. QED
  BY <1>6, <1>9, <1>10 DEF e, x

(* The parts a content reads as are a sequence.                             *)
Part == Role \X (Texts \cup Seq(Mark \cup {"(empty)"}))

LEMMA PartsType ==
  ASSUME NEW x \in Entry
  PROVE  Parts(x) \in Seq(Part)
<1>1. CASE x \in {"user"} \X Messages
  <2>1. x[1] = "user" /\ x[2] \in Messages
    BY <1>1
  <2>2. ReadsAs[x[2]] \in Seq(Role \X Texts)
    BY <2>1, RouterAssumption
  <2>3. Role \X Texts \subseteq Part
    BY DEF Part
  <2> DEFINE r == ReadsAs[x[2]]
  <2> HIDE DEF r
  <2>4. r \in Seq(Role \X Texts) => r \in Seq(Part)
    BY <2>3
  <2>5. QED
    BY <2>1, <2>2, <2>4 DEF Parts, r
<1>2. CASE x \in {"assistant"} \X Seq(Mark \cup {"(empty)"})
  <2>1. x[1] = "assistant" /\ x \in Part
    BY <1>2 DEF Part, Role
  <2>2. QED
    BY <2>1 DEF Parts
<1>3. QED
  BY <1>1, <1>2 DEF Entry

LEMMA PlainKey ==
  ASSUME NEW h \in Seq(Entry), NEW m \in Messages, Plain(h, m)
  PROVE  LET x == Exchange(h, m, KeyTurns)
         IN  /\ CacheKey(h, m) = [i \in DOMAIN x |-> Parts(x[i])[1]]
             /\ \A i \in DOMAIN x : Parts(x[i]) = <<Parts(x[i])[1]>>
<1> DEFINE x == Exchange(h, m, KeyTurns)
           s == [i \in DOMAIN x |-> Parts(x[i])]
<1>1. x \in Seq(Entry) /\ Len(x) # 0
  <2>1. /\ x \in Seq(Entry)
        /\ Len(x) = 1 + (IF Len(h) > 2 * KeyTurns THEN 2 * KeyTurns ELSE Len(h))
        /\ KeyTurns \in Nat
    BY ExchangeFacts, WindowAssumption
  <2>2. Len(h) \in Nat
    OBVIOUS
  <2> HIDE DEF x
  <2>3. QED
    BY <2>1, <2>2
<1>2. \A i \in DOMAIN x : Parts(x[i]) \in Seq(Part) /\ Len(Parts(x[i])) = 1
  BY <1>1, PartsType DEF Plain
<1>3. CacheKey(h, m) = FlattenSeq(s)
  BY DEF CacheKey, Joined
<1> HIDE DEF x
<1>4. s \in Seq(Seq(Part)) /\ DOMAIN s = DOMAIN x /\ s # <<>> /\ \A i \in DOMAIN s : Len(s[i]) = 1
  <2> DEFINE n == Len(x)
             T == Seq(Part)
  <2>1. n \in Nat /\ n # 0 /\ DOMAIN x = 1..n
    BY <1>1
  <2>2. DOMAIN s = 1..n /\ \A i \in 1..n : s[i] = Parts(x[i])
    BY <2>1
  <2>3. \A i \in 1..n : s[i] \in T /\ Len(s[i]) = 1
    BY <1>2, <2>1, <2>2
  <2>4. s = [i \in 1..n |-> s[i]]
    BY <2>1
  <2> HIDE DEF s, n, T
  <2>5. s \in [1..n -> T]
    BY <2>3, <2>4
  <2>6. s \in Seq(T) /\ Len(s) = n
    BY <2>1, <2>5
  <2>7. s # <<>>
    BY <2>1, <2>6
  <2>8. QED
    BY <2>1, <2>2, <2>3, <2>6, <2>7 DEF T
<1>5. FlattenSeq(s) = [i \in DOMAIN s |-> s[i][1]]
  <2> HIDE DEF s
  <2>1. QED
    BY <1>4, JoinOfSingles
<1>6. \A i \in DOMAIN x : Parts(x[i]) = <<Parts(x[i])[1]>>
  BY <1>2
<1>7. QED
  BY <1>3, <1>4, <1>5, <1>6 DEF x

(* The length of a history that is cut to so many turns.                    *)
CutTo(n, k) == IF n > 2 * k THEN 2 * k ELSE n

(* Two histories as long as each other after the wider cut are so after the *)
(* narrower one.                                                            *)
LEMMA CutLengths ==
  ASSUME NEW m \in Nat, NEW n \in Nat, NEW k \in Nat, NEW a \in Nat, a <= k,
         CutTo(m, k) = CutTo(n, k)
  PROVE  /\ CutTo(m, a) = CutTo(n, a) /\ CutTo(m, a) <= CutTo(m, k)
         /\ CutTo(m, a) \in Nat /\ CutTo(m, k) \in Nat
<1>1. 2 * a <= 2 * k /\ 2 * a \in Nat /\ 2 * k \in Nat
  OBVIOUS
<1>2. CASE m > 2 * k
  <2>1. n >= 2 * k
    BY <1>1, <1>2 DEF CutTo
  <2>2. QED
    BY <1>1, <1>2, <2>1 DEF CutTo
<1>3. CASE ~(m > 2 * k)
  <2>1. m = n \/ (n > 2 * k /\ m = 2 * k)
    BY <1>1, <1>3 DEF CutTo
  <2>2. QED
    BY <1>1, <1>3, <2>1 DEF CutTo
<1>4. QED
  BY <1>2, <1>3

(* Two plain exchanges with one key put questions that are alike.           *)
LEMMA KeysTellQuestions ==
  ASSUME NEW g \in Seq(Entry), NEW l \in Messages, NEW h \in Seq(Entry), NEW m \in Messages,
         CacheKey(g, l) = CacheKey(h, m), Plain(g, l), Plain(h, m)
  PROVE  Alike(Question(g, l), Question(h, m))
<1> DEFINE x == Exchange(g, l, KeyTurns)
           y == Exchange(h, m, KeyTurns)
           p == Exchange(g, l, AskedTurns)
           q == Exchange(h, m, AskedTurns)
<1>0. KeyTurns \in Nat /\ AskedTurns \in Nat /\ AskedTurns <= KeyTurns
  BY WindowAssumption
<1>1. /\ x \in Seq(Entry) /\ Len(x) = 1 + (IF Len(g) > 2 * KeyTurns THEN 2 * KeyTurns ELSE Len(g))
      /\ \A i \in 1..Len(x) : x[i] = Append(g, <<"user", l>>)[i + Len(g) + 1 - Len(x)]
  BY <1>0, ExchangeFacts
<1>2. /\ y \in Seq(Entry) /\ Len(y) = 1 + (IF Len(h) > 2 * KeyTurns THEN 2 * KeyTurns ELSE Len(h))
      /\ \A i \in 1..Len(y) : y[i] = Append(h, <<"user", m>>)[i + Len(h) + 1 - Len(y)]
  BY <1>0, ExchangeFacts
<1>3. /\ p \in Seq(Entry)
      /\ Len(p) = 1 + (IF Len(g) > 2 * AskedTurns THEN 2 * AskedTurns ELSE Len(g))
      /\ \A i \in 1..Len(p) : p[i] = Append(g, <<"user", l>>)[i + Len(g) + 1 - Len(p)]
  BY <1>0, ExchangeFacts
<1>4. /\ q \in Seq(Entry)
      /\ Len(q) = 1 + (IF Len(h) > 2 * AskedTurns THEN 2 * AskedTurns ELSE Len(h))
      /\ \A i \in 1..Len(q) : q[i] = Append(h, <<"user", m>>)[i + Len(h) + 1 - Len(q)]
  BY <1>0, ExchangeFacts
<1>5. /\ [i \in DOMAIN x |-> Parts(x[i])[1]] = [i \in DOMAIN y |-> Parts(y[i])[1]]
      /\ \A i \in DOMAIN x : Parts(x[i]) = <<Parts(x[i])[1]>>
      /\ \A i \in DOMAIN y : Parts(y[i]) = <<Parts(y[i])[1]>>
  BY PlainKey
<1>6. Question(g, l) = p /\ Question(h, m) = q
  BY DEF Question
<1> HIDE DEF x, y, p, q
<1>7. DOMAIN x = DOMAIN y /\ \A i \in DOMAIN x : Parts(x[i]) = Parts(y[i])
  BY <1>5
<1>8. Len(x) = Len(y)
  BY <1>1, <1>2, <1>7
<1>9. Len(p) = Len(q) /\ Len(p) <= Len(x) /\ Len(p) \in Nat /\ Len(x) \in Nat
  <2>1. Len(x) = 1 + CutTo(Len(g), KeyTurns) /\ Len(y) = 1 + CutTo(Len(h), KeyTurns)
    BY <1>1, <1>2 DEF CutTo
  <2>2. Len(p) = 1 + CutTo(Len(g), AskedTurns) /\ Len(q) = 1 + CutTo(Len(h), AskedTurns)
    BY <1>3, <1>4 DEF CutTo
  <2>3. Len(g) \in Nat /\ Len(h) \in Nat
    OBVIOUS
  <2>4. /\ CutTo(Len(g), KeyTurns) \in Nat /\ CutTo(Len(h), KeyTurns) \in Nat
        /\ CutTo(Len(g), AskedTurns) \in Nat
    BY <1>0, <2>3 DEF CutTo
  <2>5. CutTo(Len(g), KeyTurns) = CutTo(Len(h), KeyTurns)
    <3>1. 1 + CutTo(Len(g), KeyTurns) = 1 + CutTo(Len(h), KeyTurns)
      BY <1>8, <2>1
    <3>2. QED
      BY <2>4, <3>1
  <2>6. CutTo(Len(g), AskedTurns) = CutTo(Len(h), AskedTurns)
    BY <1>0, <2>3, <2>5, CutLengths
  <2>7. CutTo(Len(g), AskedTurns) <= CutTo(Len(g), KeyTurns)
    BY <1>0, <2>3, <2>5, CutLengths
  <2>8. Len(p) = Len(q)
    BY <2>2, <2>6
  <2>9. QED
    BY <2>1, <2>2, <2>4, <2>7, <2>8
<1>10. ASSUME NEW i \in 1..Len(p) PROVE Parts(p[i]) = Parts(q[i])
  <2> DEFINE j == i + Len(x) - Len(p)
  <2>1. j \in 1..Len(x) /\ Len(g) \in Nat /\ Len(h) \in Nat
    BY <1>9
  <2>2. /\ j + Len(g) + 1 - Len(x) = i + Len(g) + 1 - Len(p)
        /\ j + Len(h) + 1 - Len(y) = i + Len(h) + 1 - Len(q)
    BY <1>8, <1>9, <2>1
  <2> DEFINE G == Append(g, <<"user", l>>)
             H == Append(h, <<"user", m>>)
  <2> HIDE DEF j, G, H
  <2>3. x[j] = p[i]
    <3>1. x[j] = G[j + Len(g) + 1 - Len(x)] /\ p[i] = G[i + Len(g) + 1 - Len(p)]
      BY <1>1, <1>3, <2>1 DEF G
    <3>2. QED
      BY <2>2, <3>1
  <2>4. y[j] = q[i]
    <3>1. j \in 1..Len(y) /\ i \in 1..Len(q)
      BY <1>8, <1>9, <2>1
    <3>2. y[j] = H[j + Len(h) + 1 - Len(y)] /\ q[i] = H[i + Len(h) + 1 - Len(q)]
      BY <1>2, <1>4, <3>1 DEF H
    <3>3. QED
      BY <2>2, <3>2
  <2>5. Parts(x[j]) = Parts(y[j])
    BY <1>1, <1>7, <2>1
  <2>6. QED
    BY <2>3, <2>4, <2>5
<1>11. DOMAIN p = 1..Len(p)
  BY <1>3
<1>12. QED
  BY <1>6, <1>9, <1>10, <1>11 DEF Alike

-----------------------------------------------------------------------------
LEMMA ReplyInit == Init => ReplyInv
<1> SUFFICES ASSUME Init PROVE ReplyInv
  OBVIOUS
<1>0. turn = Blank /\ pc = "idle"
  BY DEF Init
<1>1. TurnTypes
  <2>1. pc \in Unrouted /\ turn \in Turn
    BY <1>0, BlankFacts DEF Unrouted
  <2>2. /\ active \subseteq Items /\ dead \subseteq Items \ active
        /\ deprecated \subseteq dead /\ banned \subseteq Bannable
        /\ turns \in 0..MaxTurns /\ edits \in 0..MaxEdits
    BY ReplyAssumption DEF Init
  <2>3. QED
    BY <2>1, <2>2 DEF TurnTypes
<1>2. RouteInv /\ CacheInv
  <2>1. RouteInv
    BY <1>0, BlankFacts DEF RouteInv
  <2>2. DOMAIN cache = {} /\ answered = {} /\ hist \in Seq(Entry)
    <3>1. \A m \in Unanswered : <<"user", m>> \in Entry
      BY ReplyAssumption DEF Entry
    <3>2. \A e \in Entry : <<e>> \in Seq(Entry)
      OBVIOUS
    <3>3. <<>> \in Seq(Entry)
      OBVIOUS
    <3>4. hist \in Seq(Entry)
      BY <3>1, <3>2, <3>3 DEF Init
    <3>5. QED
      BY <3>4 DEF Init
  <2>3. QED
    BY <1>0, <2>1, <2>2, BlankFacts DEF CacheInv
<1>3. LoadInv
  BY BlankFacts DEF Init, LoadInv, ForgottenStaysForgotten, PainIsNotQuoted, Of
<1>4. StoredInv
  BY DEF Init, StoredInv
<1>5. QED
  BY <1>1, <1>2, <1>3, <1>4 DEF ReplyInv, TurnInv

(* The steps that leave the turn alone.                                     *)
LEMMA EditStep ==
  ASSUME TurnInv, UNCHANGED <<pc, turn, hist, cache, answered, turns>>, edits' \in 0..MaxEdits,
         active' \subseteq Items, dead' \subseteq Items \ active', deprecated' \subseteq dead',
         banned' \subseteq Bannable, dead \subseteq dead', banned \subseteq banned'
  PROVE  TurnInv'
<1>1. TurnTypes'
  BY DEF TurnInv, TurnTypes
<1>2. RouteInv'
  BY DEF TurnInv, RouteInv
<1>3. CacheInv'
  BY DEF TurnInv, CacheInv
<1>4. LoadInv'
  BY DEF TurnInv, LoadInv, ForgottenStaysForgotten, PainIsNotQuoted
<1>5. QED
  BY <1>1, <1>2, <1>3, <1>4 DEF TurnInv

LEMMA RoutingStep ==
  ASSUME TurnInv, \/ RouteByRule \/ RouteFromCache \/ ClassifyFails
                  \/ \E i \in Answers, s \in {"small_model", "fallback"} : Classify(i, s)
  PROVE  TurnInv'
<1>1. /\ turn.msg \in Messages /\ pc \in {"classify"} => Matching(turn.msg) = {}
      /\ {"hard_rule", "small_model", "fallback", "cache"} = Source \ {"none"}
      /\ "casual" \in Intent /\ Answers \subseteq Intent
      /\ hist \in Seq(Entry)
      /\ \A k \in DOMAIN cache : Filed(k, cache[k], answered)
      /\ \A a \in answered :
           a.history \in Seq(Entry) /\ a.message \in Messages /\ a.intent \in Intent
  BY ReplyAssumption DEF TurnInv, TurnTypes, Turn, RouteInv, CacheInv, Source, Intent
<1>2. CASE RouteByRule
  <2>1. HardIntent(turn.msg) \in Intent
    BY <1>2, HardIntentFacts DEF RouteByRule, TurnInv, TurnTypes, Turn
  <2>2. QED
    BY <1>1, <1>2, <2>1, RoutedStep DEF RouteByRule
<1>3. CASE RouteFromCache
  <2> DEFINE key == CacheKey(hist, turn.msg)
  <2>1. /\ pc = "route" /\ Matching(turn.msg) = {}
        /\ UNCHANGED <<hist, cache, answered, memory, turns, edits>>
    BY <1>3 DEF RouteFromCache
  <2>2. CASE key \in DOMAIN cache
    <3>1. Routed(cache[key], "cache") /\ Filed(key, cache[key], answered)
      BY <1>1, <1>3, <2>2 DEF RouteFromCache
    <3>2. cache[key] \in Intent
      BY <1>1, <3>1 DEF Filed
    <3>3. /\ \A k \in DOMAIN cache' : Filed(k, cache'[k], answered')
          /\ Filed(key, cache[key], answered')
      BY <1>1, <2>1, <3>1
    <3>4. QED
      BY <1>1, <2>1, <3>1, <3>2, <3>3, RoutedStep
  <2>3. CASE key \notin DOMAIN cache
    <3>1. pc' = "classify" /\ UNCHANGED turn
      BY <1>3, <2>3 DEF RouteFromCache
    <3>2. TurnTypes' /\ RouteInv'
      BY <2>1, <3>1 DEF TurnInv, TurnTypes, RouteInv, Unrouted, memory
    <3>3. CacheInv' /\ LoadInv'
      BY <2>1, <3>1
      DEF TurnInv, CacheInv, LoadInv, ForgottenStaysForgotten,
          PainIsNotQuoted, memory
    <3>4. QED
      BY <3>2, <3>3 DEF TurnInv
  <2>4. QED
    BY <2>2, <2>3
<1>4. CASE ClassifyFails
  <2>1. /\ pc = "classify" /\ Routed("casual", "fallback")
        /\ UNCHANGED <<hist, cache, answered, memory, turns, edits>>
    BY <1>4 DEF ClassifyFails
  <2>2. Matching(turn.msg) = {}
    BY <2>1 DEF TurnInv, RouteInv
  <2>3. \A k \in DOMAIN cache' : Filed(k, cache'[k], answered')
    BY <1>1, <2>1
  <2>4. QED
    BY <1>1, <2>1, <2>2, <2>3, RoutedStep
<1>5. ASSUME NEW i \in Answers, NEW s \in {"small_model", "fallback"}, Classify(i, s)
      PROVE  TurnInv'
  <2> DEFINE key == CacheKey(hist, turn.msg)
             new == [history |-> hist, message |-> turn.msg, intent |-> i]
  <2>1. /\ pc = "classify" /\ Routed(i, s)
        /\ cache' \in {cache, Put(key, i)}
        /\ answered' = answered \cup {new}
        /\ UNCHANGED <<hist, memory, turns, edits>>
    BY <1>5 DEF Classify
  <2>2. Matching(turn.msg) = {}
    BY <2>1 DEF TurnInv, RouteInv
  <2>3. \A k \in DOMAIN cache' : Filed(k, cache'[k], answered')
    <3>1. \A k \in DOMAIN cache : Filed(k, cache[k], answered')
      BY <1>1, <2>1 DEF Filed
    <3>2. Filed(key, i, answered')
      <4>1. /\ new.intent = i /\ CacheKey(new.history, new.message) = key
            /\ new \in answered'
        BY <2>1
      <4> HIDE DEF new, key
      <4>2. QED
        BY <4>1 DEF Filed
    <3> HIDE DEF key
    <3>3. CASE cache' = cache
      BY <3>1, <3>3
    <3>4. CASE cache' = Put(key, i)
      <4>1. /\ DOMAIN cache' = DOMAIN cache \cup {key} /\ cache'[key] = i
            /\ \A k \in DOMAIN cache : cache'[k] = cache[k] \/ k = key
        BY <3>4 DEF Put
      <4>2. QED
        BY <3>1, <3>2, <4>1
    <3>5. QED
      BY <2>1, <3>3, <3>4
  <2>4. \A a \in answered' :
          a.history \in Seq(Entry) /\ a.message \in Messages /\ a.intent \in Intent
    <3>1. new.history = hist /\ new.message = turn.msg /\ new.intent = i /\ i \in Intent
      BY <1>1
    <3>2. hist \in Seq(Entry) /\ turn.msg \in Messages
      BY <1>1 DEF TurnInv, TurnTypes, Turn
    <3> HIDE DEF new
    <3>3. \A a \in answered' : a \in answered \/ a = new
      BY <2>1
    <3>4. QED
      BY <1>1, <3>1, <3>2, <3>3
  <2>5. i \in Intent /\ s \in Source \ {"none"} /\ s # "cache"
    BY <1>1
  <2>6. QED
    BY <2>1, <2>2, <2>3, <2>4, <2>5, RoutedStep
<1>6. QED
  BY <1>2, <1>3, <1>4, <1>5

(* The end of the stream stores what the guard leaves of a text.            *)
LEMMA FinishStep ==
  ASSUME ReplyInv, NEW raw \in Replies, NEW failed \in BOOLEAN, Finish(raw, failed)
  PROVE  ReplyInv'
<1> DEFINE content == Content(raw, turn.personality)
           x == Packed(content, raw, failed)
           last == prev
<1>1. turn \in Turn /\ turn.personality \in Personality
  BY DEF ReplyInv, TurnInv, TurnTypes, Turn
<1>2. content \in Seq(Mark \cup {"(empty)"}) /\ raw \in Seq(Mark)
  BY <1>1, ContentType
<1>3. stored' = x /\ pc' = "idle" /\ turn' = Blank /\ UNCHANGED <<cache, answered, memory, turns, edits>>
  BY DEF Finish
<1>30. prev' = turn.intent /\ turn.intent \in Intent
  BY DEF Finish, ReplyInv, TurnInv, TurnTypes, Turn
<1>31. hist' \in Seq(Entry)
  <2> DEFINE pair == << <<"user", turn.msg>>, <<"assistant", content>> >>
  <2>1. hist' = LastTurns(hist \o pair, KeyTurns)
    BY DEF Finish
  <2>2. hist \in Seq(Entry) /\ turn.msg \in Messages /\ KeyTurns \in Nat
    BY WindowAssumption DEF ReplyInv, TurnInv, TurnTypes, CacheInv, Turn
  <2> HIDE DEF content
  <2>3. pair \in Seq(Entry)
    BY <1>2, <2>2 DEF Entry
  <2> HIDE DEF pair
  <2>4. hist \o pair \in Seq(Entry)
    BY <2>2, <2>3
  <2>5. QED
    BY <2>1, <2>2, <2>4, LastTurnsFacts
<1>4. last \in Intent \cup {"none"}
  BY DEF ReplyInv, StoredInv, Stored
<1> HIDE DEF content, last
<1>5. /\ x \in Stored /\ x.raw = raw /\ x.personality = turn.personality
      /\ x.reply = content
  BY <1>1, <1>2, <1>4 DEF Packed, Stored, Turn, last
<1>6. StoredInv'
  BY <1>1, <1>3, <1>30, <1>5 DEF StoredInv, content
<1>7. turns' \in 0..MaxTurns
  BY <1>3 DEF ReplyInv, TurnInv, TurnTypes
<1>8. TurnInv'
  <2>1. turn' \in Turn /\ turn'.source = "none" /\ turn'.pools = {} /\ turn'.picked = {}
        /\ turn'.bannedBefore = {} /\ turn'.deadBefore = {}
    BY <1>3, BlankFacts
  <2>2. TurnInv
    BY DEF ReplyInv
  <2>3. QED
    BY <1>3, <1>31, <1>7, <2>1, <2>2, EmptyTurn
<1>9. QED
  BY <1>6, <1>8 DEF ReplyInv

LEMMA MemoryStep ==
  ASSUME TurnInv,
         \/ \E i \in Items : DeleteEpisodic(i) \/ Learn(i)
         \/ \E w \in Bannable : AddBanned(w) \/ Correct(w)
  PROVE  TurnInv'
<1>1. /\ active \subseteq Items /\ dead \subseteq Items \ active
      /\ deprecated \subseteq dead /\ banned \subseteq Bannable
      /\ edits \in 0..MaxEdits /\ MaxEdits \in Nat
  BY ReplyAssumption DEF TurnInv, TurnTypes
<1>2. Editing => /\ UNCHANGED <<pc, turn, hist, cache, answered, turns>>
                 /\ edits' \in 0..MaxEdits
  BY <1>1 DEF Editing
<1>3. ASSUME NEW i \in Items, DeleteEpisodic(i)
      PROVE  TurnInv'
  <2>1. /\ Editing /\ i \in active /\ active' = active \ {i} /\ dead' = dead \cup {i}
        /\ deprecated' = deprecated \cup {i} /\ banned' = banned
    BY <1>3 DEF DeleteEpisodic, Of
  <2>2. /\ active' \subseteq Items /\ dead' \subseteq Items \ active' /\ dead \subseteq dead'
        /\ deprecated' \subseteq dead'
    BY <1>1, <2>1
  <2>3. QED
    BY <1>1, <1>2, <2>1, <2>2, EditStep
<1>4. ASSUME NEW i \in Items, Learn(i)
      PROVE  TurnInv'
  <2>1. /\ Editing /\ i \notin dead /\ active' = active \cup {i}
        /\ UNCHANGED <<dead, deprecated, banned>>
    BY <1>4 DEF Learn
  <2>2. active' \subseteq Items /\ dead' \subseteq Items \ active'
    BY <1>1, <2>1
  <2>3. QED
    BY <1>1, <1>2, <2>1, <2>2, EditStep
<1>5. ASSUME NEW w \in Bannable, AddBanned(w)
      PROVE  TurnInv'
  <2>1. Editing /\ banned' = banned \cup {w} /\ UNCHANGED <<active, dead, deprecated>>
    BY <1>5 DEF AddBanned
  <2>2. QED
    BY <1>1, <1>2, <2>1, EditStep
<1>6. ASSUME NEW w \in Bannable, Correct(w)
      PROVE  TurnInv'
  <2>1. Editing /\ banned' = banned \cup {w}
    BY <1>6 DEF Correct
  <2>2. PICK gone \in SUBSET active :
          /\ active' = active \ gone /\ dead' = dead \cup gone
          /\ deprecated' \subseteq deprecated \cup gone
    BY <1>6 DEF Correct, Of
  <2>3. /\ active' \subseteq Items /\ dead' \subseteq Items \ active' /\ dead \subseteq dead'
        /\ deprecated' \subseteq dead'
    BY <1>1, <2>2
  <2>4. QED
    BY <1>1, <1>2, <2>1, <2>3, EditStep
<1>7. QED
  BY <1>3, <1>4, <1>5, <1>6

LEMMA ReplyStep == ReplyInv /\ [Next]_vars => ReplyInv'
<1> SUFFICES ASSUME ReplyInv, [Next]_vars PROVE ReplyInv'
  OBVIOUS
<1>1. TurnInv /\ StoredInv /\ turns \in 0..MaxTurns /\ MaxTurns \in Nat
  BY ReplyAssumption DEF ReplyInv, TurnInv, TurnTypes
<1>2. UNCHANGED record => StoredInv'
  BY <1>1 DEF StoredInv, record
<1>3. ASSUME NEW m \in Messages, NEW p \in Personality, Start(m, p)
      PROVE  ReplyInv'
  <2> DEFINE b == [Blank EXCEPT !.msg = m, !.personality = p]
  <2>1. /\ turn' = b /\ pc' = "route" /\ turns' = turns + 1 /\ turns < MaxTurns
        /\ stored' = NoTurn /\ prev' \in {prev, "none"} /\ hist' \in {hist, <<>>}
        /\ UNCHANGED <<cache, answered, memory, edits>>
    BY <1>3 DEF Start
  <2>2. turns' \in 0..MaxTurns
    BY <1>1, <2>1
  <2>3. /\ b \in Turn /\ b.source = "none" /\ b.pools = {} /\ b.picked = {}
        /\ b.bannedBefore = {} /\ b.deadBefore = {}
    BY BlankFacts
  <2> HIDE DEF b
  <2>4. TurnInv'
    <3>1. hist' \in Seq(Entry)
      <4>1. hist \in Seq(Entry) /\ <<>> \in Seq(Entry)
        BY <1>1 DEF TurnInv, CacheInv
      <4>2. QED
        BY <2>1, <4>1
    <3>2. QED
      BY <1>1, <2>1, <2>2, <2>3, <3>1, EmptyTurn
  <2>5. StoredInv'
    BY <1>1, <2>1 DEF StoredInv
  <2>6. QED
    BY <2>4, <2>5 DEF ReplyInv
<1>4. CASE \/ RouteByRule \/ RouteFromCache \/ ClassifyFails
           \/ \E i \in Answers, s \in {"small_model", "fallback"} : Classify(i, s)
  <2>1. UNCHANGED record
    BY <1>4 DEF RouteByRule, RouteFromCache, ClassifyFails, Classify
  <2>2. QED
    BY <1>1, <1>2, <1>4, <2>1, RoutingStep DEF ReplyInv
<1>5. ASSUME NEW k \in DOMAIN Reads, Load(k)
      PROVE  ReplyInv'
  <2>1. k \in 1..7 /\ UNCHANGED record
    BY <1>5 DEF Reads, Load
  <2>2. QED
    BY <1>1, <1>2, <1>5, <2>1, LoadStep DEF ReplyInv
<1>6. CASE ComposeFails
  <2>1. /\ pc' = "idle" /\ turn' = Blank
        /\ UNCHANGED <<record, cache, answered, memory, turns, edits>>
        /\ hist' = LastTurns(Append(hist, <<"user", turn.msg>>), KeyTurns)
    BY <1>6 DEF ComposeFails
  <2>2. hist' \in Seq(Entry)
    <3>1. hist \in Seq(Entry) /\ <<"user", turn.msg>> \in Entry /\ KeyTurns \in Nat
      BY <1>1, WindowAssumption DEF TurnInv, TurnTypes, CacheInv, Turn, Entry
    <3>2. Append(hist, <<"user", turn.msg>>) \in Seq(Entry)
      BY <3>1
    <3>3. QED
      BY <2>1, <3>1, <3>2, LastTurnsFacts
  <2>3. turn' \in Turn /\ turn'.source = "none" /\ turn'.pools = {} /\ turn'.picked = {}
        /\ turn'.bannedBefore = {} /\ turn'.deadBefore = {}
    BY <2>1, BlankFacts
  <2>4. TurnInv'
    BY <1>1, <2>1, <2>2, <2>3, EmptyTurn
  <2>5. QED
    BY <1>2, <2>1, <2>4 DEF ReplyInv
<1>7. ASSUME NEW raw \in Replies, NEW failed \in BOOLEAN, Finish(raw, failed)
      PROVE  ReplyInv'
  BY <1>7, FinishStep
<1>8. ASSUME NEW k \in DOMAIN cache, Expire(k)
      PROVE  ReplyInv'
  <2>1. /\ DOMAIN cache' \subseteq DOMAIN cache
        /\ \A j \in DOMAIN cache' : cache'[j] = cache[j]
        /\ UNCHANGED <<pc, turn, record, hist, answered, memory, turns, edits>>
    BY <1>8 DEF Expire
  <2>2. TurnTypes' /\ RouteInv'
    BY <1>1, <2>1 DEF TurnInv, TurnTypes, RouteInv, memory
  <2>3. CacheInv'
    BY <1>1, <2>1 DEF TurnInv, CacheInv
  <2>4. LoadInv'
    BY <1>1, <2>1 DEF TurnInv, LoadInv, ForgottenStaysForgotten, PainIsNotQuoted, memory
  <2>5. QED
    BY <1>2, <2>1, <2>2, <2>3, <2>4 DEF ReplyInv, TurnInv
<1>9. CASE \/ \E i \in Items : DeleteEpisodic(i) \/ Learn(i)
           \/ \E w \in Bannable : AddBanned(w) \/ Correct(w)
  <2>1. UNCHANGED record
    BY <1>9 DEF DeleteEpisodic, Learn, AddBanned, Correct, Editing
  <2>2. QED
    BY <1>1, <1>2, <1>9, <2>1, MemoryStep DEF ReplyInv
<1>10. CASE UNCHANGED vars
  <2>1. UNCHANGED <<pc, turn, hist, cache, answered, turns, active, dead, deprecated, banned,
                    edits, record>>
    BY <1>10 DEF vars, record
  <2>2. TurnTypes' /\ RouteInv'
    BY <1>1, <2>1 DEF TurnInv, TurnTypes, RouteInv
  <2>3. CacheInv'
    BY <1>1, <2>1 DEF TurnInv, CacheInv
  <2>4. LoadInv'
    BY <1>1, <2>1 DEF TurnInv, LoadInv, ForgottenStaysForgotten, PainIsNotQuoted
  <2>5. QED
    BY <1>2, <2>1, <2>2, <2>3, <2>4 DEF ReplyInv, TurnInv
<1>11. QED
  BY <1>3, <1>4, <1>5, <1>6, <1>7, <1>8, <1>9, <1>10 DEF Next

(* The invariant holds throughout.                                          *)
THEOREM ReplyInvariant == Spec => []ReplyInv
BY ReplyInit, ReplyStep, PTL DEF Spec

-----------------------------------------------------------------------------
(* Every field of the turn, of the stored turn and of the memory keeps its  *)
(* type.                                                                    *)
THEOREM ReplyTypes == Spec => []ReplyTypeOK
<1>1. DOMAIN Reads = 1..7
  BY DEF Reads
<1>2. ReplyInv => ReplyTypeOK
  <2> SUFFICES ASSUME ReplyInv PROVE ReplyTypeOK
    OBVIOUS
  <2>1. /\ \A k \in DOMAIN cache : cache[k] \in Intent
        /\ \A a \in answered : a.message \in Messages /\ a.intent \in Intent
    BY DEF ReplyInv, TurnInv, CacheInv, Filed
  <2>2. QED
    BY <1>1, <2>1 DEF ReplyInv, TurnInv, TurnTypes, CacheInv, StoredInv, ReplyTypeOK, Unrouted
<1>3. QED
  BY <1>2, ReplyInvariant, PTL

(* The cache serves what the model gave, never the stand-in of an outage;   *)
(* and where no content has a part inside, the model gave it to the same    *)
(* question but for white space around the contents.                        *)
THEOREM CacheIsHonest == Spec => []CacheAnswersTheQuestion
<1>1. ReplyInv => CacheAnswersTheQuestion
  <2> SUFFICES ASSUME ReplyInv, turn.source = "cache"
               PROVE  \E a \in answered :
                        /\ a.intent = turn.intent
                        /\ CacheKey(a.history, a.message) = CacheKey(hist, turn.msg)
                        /\ Plain(a.history, a.message) /\ Plain(hist, turn.msg) =>
                             Alike(Question(a.history, a.message), Question(hist, turn.msg))
    BY DEF CacheAnswersTheQuestion
  <2>1. PICK a \in answered :
          a.intent = turn.intent /\ CacheKey(a.history, a.message) = CacheKey(hist, turn.msg)
    BY DEF ReplyInv, TurnInv, CacheInv, Filed
  <2>2. /\ a.history \in Seq(Entry) /\ a.message \in Messages
        /\ hist \in Seq(Entry) /\ turn.msg \in Messages
    BY DEF ReplyInv, TurnInv, TurnTypes, CacheInv, Turn
  <2>3. QED
    BY <2>1, <2>2, KeysTellQuestions
<1>2. QED
  BY <1>1, ReplyInvariant, PTL

(* A denial is routed as a correction, whatever is cached or answered.      *)
THEOREM DenialsCorrect == Spec => []CorrectionsAreHeard
<1>1. ReplyInv => CorrectionsAreHeard
  <2> SUFFICES ASSUME ReplyInv, turn.source # "none",
                      Signals[turn.msg] \cap {"opening", "denial"} # {}
               PROVE  turn.intent = "correction"
    BY DEF CorrectionsAreHeard
  <2>1. turn.msg \in Messages
    BY DEF ReplyInv, TurnInv, TurnTypes, Turn
  <2>2. 1 \in Matching(turn.msg) \/ 2 \in Matching(turn.msg)
    BY DEF Matching, HardRules
  <2>3. QED
    BY <2>1, <2>2, HardIntentFacts DEF ReplyInv, TurnInv, RouteInv
<1>2. QED
  BY <1>1, ReplyInvariant, PTL

(* No memory reaches the pools that was banned as spelled or deleted before *)
(* the load, whatever is edited between its reads.                          *)
THEOREM ForgottenMemories == Spec => []ForgottenStaysForgotten
<1>1. ReplyInv => ForgottenStaysForgotten
  BY DEF ReplyInv, TurnInv, LoadInv
<1>2. QED
  BY <1>1, ReplyInvariant, PTL

(* A sensitive turn quotes no episodic memory.                              *)
THEOREM PainsUnquoted == Spec => []PainIsNotQuoted
<1>1. ReplyInv => PainIsNotQuoted
  BY DEF ReplyInv, TurnInv, LoadInv
<1>2. QED
  BY <1>1, ReplyInvariant, PTL

(* The stored reply keeps its contract but where the guard leaves off.      *)
THEOREM ContractsKept == Spec => []ContractKept
<1>1. ReplyInv => ContractKept
  BY ContentContract DEF ReplyInv, StoredInv, ContractKept
<1>2. QED
  BY <1>1, ReplyInvariant, PTL

-----------------------------------------------------------------------------
(* The audit of the stored turn                                             *)
-----------------------------------------------------------------------------

(* The counters of the pools count at least what is in them.                *)
PoolsCounted == Cardinality(turn.pools) <= turn.profiled + turn.recalled

(* What the composer promises of a prompt.                                  *)
Composed(x) ==
  /\ "base" \in x.sections
  /\ x.picked # {} => "explicit" \in x.sections
  /\ Cardinality(x.picked) <= x.profiled + x.recalled

ReviewInv ==
  /\ PoolsCounted
  /\ pc = "stream" => Composed(turn)
  /\ stored # NoTurn => Composed(stored) /\ stored.reply # <<>>

-----------------------------------------------------------------------------
LEMMA BlankCounted ==
  /\ Cardinality(Blank.pools) <= Blank.profiled + Blank.recalled
  /\ \A m \in Messages, p \in Personality :
       LET b == [Blank EXCEPT !.msg = m, !.personality = p]
       IN  Cardinality(b.pools) <= b.profiled + b.recalled
<1>1. Cardinality({}) = 0
  BY FS_EmptySet
<1>2. QED
  BY <1>1 DEF Blank

(* Sizes of sets of items.                                                  *)
LEMMA Sizes ==
  ASSUME NEW S \in SUBSET Items, NEW T \in SUBSET Items
  PROVE  /\ Cardinality(S) \in Nat
         /\ Cardinality(S \cup T) <= Cardinality(S) + Cardinality(T)
         /\ S \subseteq T => Cardinality(S) <= Cardinality(T)
<1>1. IsFiniteSet(S) /\ IsFiniteSet(T) /\ Cardinality(S) \in Nat /\ Cardinality(T) \in Nat
  BY FiniteItems
<1>2. Cardinality(S \cup T) = Cardinality(S) + Cardinality(T) - Cardinality(S \cap T)
  BY <1>1, FS_Union
<1>3. S \cap T \in SUBSET Items /\ Cardinality(S \cap T) \in Nat
  <2>1. S \cap T \in SUBSET Items
    OBVIOUS
  <2>2. QED
    BY <2>1, FiniteItems
<1>4. S \subseteq T => Cardinality(S) <= Cardinality(T)
  BY <1>1, FS_Subset
<1>5. QED
  BY <1>1, <1>2, <1>3, <1>4

(* A read adds to the counters what it adds to the pools, or more.          *)
LEMMA CountedRead ==
  ASSUME TurnInv, PoolsCounted, NEW k \in 1..7, Reading(k)
  PROVE  PoolsCounted'
<1>1. /\ turn \in Turn /\ active \subseteq Items
      /\ turn.pools \in SUBSET Items /\ turn.profiled \in Nat /\ turn.recalled \in Nat
  BY DEF TurnInv, TurnTypes, Turn
<1>2. /\ Reads[1] = "profile" /\ Reads[2] = "relationships" /\ Reads[3] = "events"
      /\ Reads[4] = "bans" /\ Reads[5] = "deprecations" /\ Reads[6] = "search"
      /\ Reads[7] = "compose"
  BY DEF Reads
<1>3. CASE k = 1
  <2> DEFINE T == ProfileItems(active, turn.intent)
             n == Cardinality(T)
  <2>1. turn' = [turn EXCEPT !.pools = T, !.profiled = n]
    BY <1>2, <1>3 DEF Reading
  <2>2. T \in SUBSET Items
    BY <1>1 DEF ProfileItems, Of
  <2> HIDE DEF T
  <2>3. n \in Nat
    BY <2>2, FiniteItems
  <2>4. turn'.pools = T /\ turn'.profiled = Cardinality(T) /\ turn'.recalled = turn.recalled
    BY <1>1, <2>1 DEF Turn
  <2>5. QED
    BY <1>1, <2>3, <2>4 DEF PoolsCounted
<1>4. ASSUME NEW T \in SUBSET Items, NEW U \in SUBSET Items, T \subseteq U,
             turn' = [turn EXCEPT !.pools = turn.pools \cup T,
                                  !.recalled = turn.recalled + Cardinality(U)]
      PROVE  PoolsCounted'
  <2>1. /\ turn'.pools = turn.pools \cup T /\ turn'.profiled = turn.profiled
        /\ turn'.recalled = turn.recalled + Cardinality(U)
    BY <1>1, <1>4 DEF Turn
  <2>2. /\ Cardinality(turn.pools \cup T) <= Cardinality(turn.pools) + Cardinality(T)
        /\ Cardinality(T) <= Cardinality(U)
        /\ Cardinality(turn.pools) \in Nat /\ Cardinality(T) \in Nat /\ Cardinality(U) \in Nat
    BY <1>1, <1>4, Sizes
  <2>3. turn.pools \cup T \in SUBSET Items
    BY <1>1
  <2>4. Cardinality(turn.pools \cup T) \in Nat
    BY <2>3, FiniteItems
  <2>5. QED
    BY <1>1, <2>1, <2>2, <2>4 DEF PoolsCounted
<1>5. CASE k = 2
  <2>1. PICK T \in FirstOf(RelationshipItems(active, turn.intent), RelationshipLimit) :
          turn' = [turn EXCEPT !.pools = turn.pools \cup T,
                               !.recalled = turn.recalled + Cardinality(T)]
    BY <1>1, <1>2, <1>5 DEF Reading, Turn
  <2>2. T \in SUBSET Items
    BY <1>1 DEF FirstOf, RelationshipItems, Of
  <2>3. QED
    BY <1>4, <2>1, <2>2
<1>6. CASE k = 3
  <2>1. PICK T \in FirstOf(Of(active, "event"), EventLimit) :
          turn' = [turn EXCEPT !.pools = turn.pools \cup T,
                               !.recalled = turn.recalled + Cardinality(T)]
    BY <1>1, <1>2, <1>6 DEF Reading, Turn
  <2>2. T \in SUBSET Items
    BY <1>1 DEF FirstOf, Of
  <2>3. QED
    BY <1>4, <2>1, <2>2
<1>7. CASE k = 6
  <2>1. PICK hits \in FoundIn(Of(active, "episodic"), SearchLimit) :
          \E T \in FirstOf(Kept(hits, turn.bans, turn.gone), MemoryLimit(turn.intent)) :
            turn' = [turn EXCEPT !.pools = turn.pools \cup T,
                                 !.recalled = turn.recalled
                                   + Cardinality(Kept(hits, turn.bans, turn.gone))]
    BY <1>1, <1>2, <1>7 DEF Reading, Turn
  <2> DEFINE U == Kept(hits, turn.bans, turn.gone)
  <2>2. PICK T \in FirstOf(U, MemoryLimit(turn.intent)) :
          turn' = [turn EXCEPT !.pools = turn.pools \cup T,
                               !.recalled = turn.recalled + Cardinality(U)]
    BY <2>1
  <2>3. U \in SUBSET Items
    BY <1>1, <2>1 DEF FoundIn, Of, Kept
  <2> HIDE DEF U
  <2>4. T \in SUBSET Items /\ T \subseteq U
    BY <2>2, <2>3 DEF FirstOf
  <2>5. QED
    BY <1>4, <2>2, <2>3, <2>4
<1>8. CASE k \in {4, 5, 7}
  <2>1. /\ turn'.pools = turn.pools /\ turn'.profiled = turn.profiled
        /\ turn'.recalled = turn.recalled
    <3>1. CASE k = 4
      <4>1. turn' = [turn EXCEPT !.bans = banned]
        BY <1>2, <3>1 DEF Reading
      <4>2. QED
        BY <1>1, <4>1 DEF Turn
    <3>2. CASE k = 5
      <4>1. turn' = [turn EXCEPT !.gone = deprecated]
        BY <1>2, <3>2 DEF Reading
      <4>2. QED
        BY <1>1, <4>1 DEF Turn
    <3>3. CASE k = 7
      <4>1. PICK P : turn' = [turn EXCEPT !.picked = P,
                                          !.sections = Sections(turn.pools, P, turn.intent)]
        BY <1>2, <3>3 DEF Reading
      <4>2. QED
        BY <1>1, <4>1 DEF Turn
    <3>4. QED
      BY <1>8, <3>1, <3>2, <3>3
  <2>2. QED
    BY <2>1 DEF PoolsCounted
<1>9. QED
  BY <1>3, <1>5, <1>6, <1>7, <1>8

(* The composer has a section for what it picks, from the pools.            *)
LEMMA ComposedRead ==
  ASSUME TurnInv, PoolsCounted, Reading(7)
  PROVE  Composed(turn')
<1>1. /\ turn \in Turn /\ Reads[7] = "compose"
      /\ turn.pools \in SUBSET Items /\ turn.profiled \in Nat /\ turn.recalled \in Nat
  BY DEF TurnInv, TurnTypes, Reads, Turn
<1>2. PICK P \in Picks(turn.pools, turn.intent) :
        turn' = [turn EXCEPT !.picked = P, !.sections = Sections(turn.pools, P, turn.intent)]
  BY <1>1 DEF Reading
<1> DEFINE s == Sections(turn.pools, P, turn.intent)
<1>3. P \subseteq turn.pools
  BY <1>2 DEF Picks, FirstOf
<1>4. "base" \in s /\ (P # {} => "explicit" \in s)
  BY DEF Sections
<1> HIDE DEF s
<1>5. /\ turn'.picked = P /\ turn'.sections = s
      /\ turn'.profiled = turn.profiled /\ turn'.recalled = turn.recalled
  BY <1>1, <1>2 DEF Turn, s
<1>6. /\ Cardinality(P) <= Cardinality(turn.pools)
      /\ Cardinality(P) \in Nat /\ Cardinality(turn.pools) \in Nat
  BY <1>1, <1>3, Sizes
<1>7. Cardinality(P) <= turn.profiled + turn.recalled
  BY <1>1, <1>6 DEF PoolsCounted
<1>8. QED
  BY <1>4, <1>5, <1>7 DEF Composed

(* Nothing is stored empty.                                                 *)
LEMMA ContentIsSomething ==
  ASSUME NEW raw, NEW p
  PROVE  Content(raw, p) # <<>>
<1>1. ShortChars + 1 \in Nat /\ ShortChars + 1 > 0
  BY ReviewAssumption
<1>2. Len(Placeholder) = ShortChars + 1
  BY <1>1 DEF Placeholder
<1>3. Placeholder # <<>>
  BY <1>1, <1>2
<1>4. QED
  BY <1>3 DEF Content

-----------------------------------------------------------------------------
LEMMA ReviewInit == Init => ReviewInv
BY BlankCounted DEF Init, ReviewInv, PoolsCounted

LEMMA ReviewStep == ReplyInv /\ ReviewInv /\ [Next]_vars => ReviewInv'
<1> SUFFICES ASSUME ReplyInv, ReviewInv, [Next]_vars PROVE ReviewInv'
  OBVIOUS
<1>1. TurnInv /\ PoolsCounted /\ turn \in Turn
  BY DEF ReplyInv, TurnInv, TurnTypes, ReviewInv
<1>2. ASSUME PoolsCounted', pc' # "stream", UNCHANGED stored
      PROVE  ReviewInv'
  BY <1>2 DEF ReviewInv, Composed
<1>3. ASSUME UNCHANGED <<pc, turn, stored>>
      PROVE  ReviewInv'
  BY <1>3 DEF ReviewInv, PoolsCounted, Composed
<1>4. ASSUME NEW m \in Messages, NEW p \in Personality, Start(m, p)
      PROVE  ReviewInv'
  <2>1. turn' = [Blank EXCEPT !.msg = m, !.personality = p] /\ pc' = "route"
    BY <1>4 DEF Start
  <2>2. PoolsCounted'
    BY <2>1, BlankCounted DEF PoolsCounted
  <2>3. stored' \in {stored, NoTurn}
    BY <1>4 DEF Start
  <2>4. QED
    BY <2>1, <2>2, <2>3 DEF ReviewInv, Composed
<1>5. ASSUME NEW intent, NEW source, Routed(intent, source), UNCHANGED stored
      PROVE  ReviewInv'
  <2>1. /\ turn'.pools = turn.pools /\ turn'.profiled = turn.profiled
        /\ turn'.recalled = turn.recalled
    BY <1>1, <1>5 DEF Routed, Turn
  <2>2. pc' # "stream"
    <3>1. pc' \in {Reads[i] : i \in 1..7}
      BY <1>5, ReadsInOrder DEF Routed
    <3>2. QED
      BY <3>1 DEF Reads
  <2>3. QED
    BY <1>1, <1>2, <1>5, <2>1, <2>2 DEF PoolsCounted
<1>6. CASE RouteByRule
  BY <1>5, <1>6 DEF RouteByRule, record
<1>7. CASE RouteFromCache
  <2>1. UNCHANGED stored
    BY <1>7 DEF RouteFromCache, record
  <2>2. \/ Routed(cache[CacheKey(hist, turn.msg)], "cache")
        \/ pc' = "classify" /\ UNCHANGED turn
    BY <1>7 DEF RouteFromCache
  <2>3. CASE pc' = "classify" /\ UNCHANGED turn
    BY <1>1, <1>2, <2>1, <2>3 DEF PoolsCounted
  <2>4. QED
    BY <1>5, <2>1, <2>2, <2>3
<1>8. CASE ClassifyFails
  BY <1>5, <1>8 DEF ClassifyFails, record
<1>9. ASSUME NEW i \in Answers, NEW s \in {"small_model", "fallback"}, Classify(i, s)
      PROVE  ReviewInv'
  BY <1>5, <1>9 DEF Classify, record
<1>10. ASSUME NEW k \in DOMAIN Reads, Load(k)
       PROVE  ReviewInv'
  <2>1. /\ k \in 1..7 /\ Reading(k) /\ UNCHANGED stored
        /\ pc' = IF Reads[k] = "compose" THEN "stream" ELSE StepAfter(k, turn.intent)
    BY <1>10 DEF Load, Reads, record
  <2>2. PoolsCounted'
    BY <1>1, <2>1, CountedRead
  <2>3. CASE k = 7
    <3>1. Composed(turn')
      BY <1>1, <2>1, <2>3, ComposedRead
    <3>2. QED
      BY <2>1, <2>2, <3>1 DEF ReviewInv, Composed
  <2>4. CASE k # 7
    <3>1. k \in 0..6 /\ Reads[k] # "compose"
      BY <2>1, <2>4 DEF Reads
    <3>2. pc' \in {Reads[i] : i \in 1..7}
      BY <2>1, <3>1, ReadsInOrder
    <3>3. pc' # "stream"
      BY <3>2 DEF Reads
    <3>4. QED
      BY <1>2, <2>1, <2>2, <3>3
  <2>5. QED
    BY <2>3, <2>4
<1>11. CASE ComposeFails
  <2>1. turn' = Blank /\ pc' = "idle" /\ UNCHANGED stored
    BY <1>11 DEF ComposeFails, record
  <2>2. QED
    BY <1>2, <2>1, BlankCounted DEF PoolsCounted
<1>12. ASSUME NEW raw \in Replies, NEW failed \in BOOLEAN, Finish(raw, failed)
       PROVE  ReviewInv'
  <2> DEFINE x == Packed(Content(raw, turn.personality), raw, failed)
  <2>1. pc = "stream" /\ stored' = x /\ turn' = Blank /\ pc' = "idle"
    BY <1>12 DEF Finish
  <2>2. /\ x.sections = turn.sections /\ x.picked = turn.picked
        /\ x.profiled = turn.profiled /\ x.recalled = turn.recalled
        /\ x.reply = Content(raw, turn.personality)
    BY DEF Packed
  <2>3. Composed(turn) /\ x.reply # <<>>
    BY <2>1, <2>2, ContentIsSomething DEF ReviewInv
  <2> HIDE DEF x
  <2>4. Composed(x)
    BY <2>2, <2>3 DEF Composed
  <2>5. PoolsCounted'
    BY <2>1, BlankCounted DEF PoolsCounted
  <2>6. QED
    BY <2>1, <2>3, <2>4, <2>5 DEF ReviewInv, Composed
<1>13. ASSUME NEW k \in DOMAIN cache, Expire(k)
       PROVE  ReviewInv'
  BY <1>3, <1>13 DEF Expire, record
<1>14. CASE \/ \E i \in Items : DeleteEpisodic(i) \/ Learn(i)
            \/ \E w \in Bannable : AddBanned(w) \/ Correct(w)
  BY <1>3, <1>14 DEF DeleteEpisodic, Learn, AddBanned, Correct, Editing, record
<1>15. CASE UNCHANGED vars
  BY <1>3, <1>15 DEF vars
<1>16. QED
  BY <1>4, <1>6, <1>7, <1>8, <1>9, <1>10, <1>11, <1>12, <1>13, <1>14, <1>15 DEF Next

LEMMA ReviewInvariant == Spec => [](ReplyInv /\ ReviewInv)
<1>1. Init => ReplyInv /\ ReviewInv
  BY ReplyInit, ReviewInit
<1>2. (ReplyInv /\ ReviewInv) /\ [Next]_vars => (ReplyInv /\ ReviewInv)'
  BY ReplyStep, ReviewStep
<1>3. QED
  BY <1>1, <1>2, PTL DEF Spec

-----------------------------------------------------------------------------
(* No stored turn fails a structural rule other than the background one.    *)
LEMMA Structure ==
  ASSUME ReplyInv, ReviewInv
  PROVE  StructureHolds
<1> SUFFICES ASSUME stored # NoTurn,
                    NEW r \in DOMAIN L0(stored) \ {"background_section"}
             PROVE  L0(stored)[r] # "fail"
  BY DEF StructureHolds
<1>1. /\ stored.intent \in Intent /\ stored.personality \in Personality
      /\ Composed(stored) /\ stored.reply # <<>>
  BY DEF ReplyInv, StoredInv, Stored, ReviewInv
<1>2. stored.sections # {}
  BY <1>1 DEF Composed
<1>3. ExplicitSection(stored) # "fail"
  BY <1>1 DEF Composed, ExplicitSection
<1>4. ActivatedConsistent(stored) # "fail"
  BY <1>1 DEF Composed, ActivatedConsistent, Ok
<1>5. QED
  BY <1>1, <1>2, <1>3, <1>4 DEF L0, Ok

(* A verdict other than good or ok needs a heuristic rule that has an       *)
(* attribution, when the structural rules are content.                      *)
LEMMA CauseOf ==
  ASSUME StructureHolds, stored # NoTurn, NEW before, NEW known, NEW bans,
         TurnVerdict(stored, before, known, bans).status \in {"bad", "suspicious"}
  PROVE  TurnVerdict(stored, before, known, bans).causes # {}
<1> DEFINE l0 == L0(stored)
           l1 == L1(stored, before, known, bans)
           S == {r \in DOMAIN l1 : l1[r] \in {"fail", "suspicious"}}
           v == TurnVerdict(stored, before, known, bans)
<1>1. v.status = FinalStatus(l0, l1) /\ v.causes = {Attribution(r) : r \in S}
  BY DEF TurnVerdict
<1>2. DOMAIN l0 \cap L0High \subseteq DOMAIN l0 \ {"background_section"}
  BY DEF L0High
<1>3. ~Some(l0, L0High, {"fail"})
  BY <1>2 DEF StructureHolds, Some
<1> HIDE DEF l0, l1
<1>4. FinalStatus(l0, l1) \in {"bad", "suspicious"}
      => Some(l1, L1High, {"fail"}) \/ Some(l1, DOMAIN l1, {"suspicious"})
  BY <1>3 DEF FinalStatus
<1>5. S # {}
  BY <1>1, <1>4 DEF Some
<1>6. QED
  BY <1>1, <1>5

(* The structural rules agree with the composer and the guard.              *)
THEOREM StructureAgrees == Spec => []StructureHolds
BY ReviewInvariant, Structure, PTL

(* What the review blames has an attribution.                               *)
THEOREM BlameIsExplained == Spec => []BlameHasACause
<1>1. ReplyInv /\ ReviewInv => BlameHasACause
  <2> SUFFICES ASSUME ReplyInv, ReviewInv, stored # NoTurn,
                      TurnVerdict(stored, stored.prevIntent, KnownEntities(active), banned).status
                        \in {"bad", "suspicious"}
               PROVE  TurnVerdict(stored, stored.prevIntent, KnownEntities(active), banned).causes # {}
    BY DEF BlameHasACause
  <2>1. StructureHolds
    BY Structure
  <2>2. QED
    BY <2>1, CauseOf
<1>2. QED
  BY <1>1, ReviewInvariant, PTL
=============================================================================
