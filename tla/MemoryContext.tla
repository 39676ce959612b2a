--------------------------- MODULE MemoryContext ---------------------------
(***************************************************************************)
(* What a turn puts before the model: how the loader turns the rows it has  *)
(* read into pools, and how the composer turns the pools into sections and  *)
(* picks the memories that may be quoted.  A pool is a set of items; where  *)
(* the code keeps the first n of an ordered list, any n may be the first.   *)
(***************************************************************************)
EXTENDS IntentRouter, FiniteSets

CONSTANTS
  Items,
  LayerOf,         (* "basic", "more", "relationship", "event" or "episodic" *)
  ItemWords,       (* the words of an item's text, as spelled                *)
  RelationshipLimit, EventLimit, SearchLimit   (* 6, 8 and 8 in the code     *)

ASSUME ContextAssumption ==
  /\ LayerOf \in [Items -> {"basic", "more", "relationship", "event", "episodic"}]
  /\ IsFiniteSet(Items)
  /\ RelationshipLimit \in Nat /\ EventLimit \in Nat /\ SearchLimit \in Nat

Of(S, layer) == {i \in S : LayerOf[i] = layer}

(* The first n of S, whatever the order they come in.                       *)
FirstOf(S, n) ==
  {T \in SUBSET S : Cardinality(T) = IF Cardinality(S) < n THEN Cardinality(S) ELSE n}

(* What a search over an approximate index (HNSW), filtered after the scan, *)
(* finds of S: any n of it at most.                                         *)
FoundIn(S, n) == {T \in SUBSET S : Cardinality(T) <= n}

(* _profile_items: the whole profile only when the full layer is routed.    *)
ProfileItems(active, intent) ==
  Of(active, "basic") \cup (IF "profile" \in Layers(intent) THEN Of(active, "more") ELSE {})

(* list_for_intent answers for three intents only.                          *)
RelationshipItems(active, intent) ==
  IF intent \in {"relationship_topic", "self_summary", "emotional_support"}
  THEN Of(active, "relationship") ELSE {}

(* Mutant: bans are not looked at.                                          *)
KeptUnlessDeprecated(hits, bans, deprecated) == hits \ deprecated

(* The filter on the search's hits: deprecated rows and texts that contain  *)
(* a banned entity, as it is spelled in the ban list, are dropped.          *)
Kept(hits, bans, deprecated) ==
  {i \in hits \ deprecated : ItemWords[i] \cap bans = {}}

(* kept[: max(1, max_explicit or 3)]                                        *)
MemoryLimit(intent) == IF MaxExplicit(intent) = 0 THEN 3 ELSE MaxExplicit(intent)

(* Mutant: memories are tagged without regard to the sensitive mode.        *)
UsageAlwaysQuotable(i, intent) == "FOLLOW_UP_ONCE"

(* The usage tag of an item: _episodic_usage, and the event policy.         *)
Usage(i, intent) ==
  CASE LayerOf[i] = "episodic" /\ Sensitive(intent) -> "BACKGROUND_ONLY"
    [] LayerOf[i] = "event" /\ EventPolicy(intent) = "background_pain_points"
         -> "BACKGROUND_ONLY"
    [] LayerOf[i] = "episodic" /\ ~Sensitive(intent)
         /\ intent \notin {"memory_challenge", "self_summary"} -> "FOLLOW_UP_ONCE"
    [] OTHER -> "EXPLICIT_OK"

(* The order of the pools in _pick_explicit, by intent.                     *)
Rank(i, intent) ==
  LET at(order) == CHOOSE k \in 1..4 : LayerOf[i] \in order[k]
      profile == {"basic", "more"}
  IN  CASE intent = "self_summary" ->
             at(<<profile, {"relationship"}, {"event"}, {"episodic"}>>)
        [] intent = "relationship_topic" ->
             at(<<{"relationship"}, {"episodic"}, profile, {"event"}>>)
        [] OTHER -> at(<<{"episodic"}, {"event"}, {"relationship"}, profile>>)

(* _pick_explicit: the first items, pool after pool, that may be quoted.    *)
Picks(pools, intent) ==
  LET usable == {i \in pools : Usage(i, intent) # "BACKGROUND_ONLY"}
  IN  {P \in FirstOf(usable, MaxExplicit(intent)) :
         \A i \in P, j \in usable \ P : Rank(i, intent) <= Rank(j, intent)}

(* Mutant: the explicit section is for episodic memories.                   *)
SectionsForMemories(pools, picked, intent) ==
  {"base"} \cup {s \in {"explicit"} : Of(picked, "episodic") # {}}

(* compose: the sections with something in them.  The persona, the rules    *)
(* and the guides are always there ("base").  Only events the policy hides  *)
(* reach the background section.                                            *)
Sections(pools, picked, intent) ==
  LET events == Of(pools, "event")
      hidden == {i \in events : Usage(i, intent) = "BACKGROUND_ONLY"}
  IN  {"base"}
      \cup {s \in {"profile"} : Of(pools, "basic") \cup Of(pools, "more") # {}}
      \cup {s \in {"relationships"} : Of(pools, "relationship") # {}}
      \cup {s \in {"events"} : events \ hidden # {}}
      \cup {s \in {"background"} : hidden # {}}
      \cup {s \in {"explicit"} : picked # {}}
=============================================================================
