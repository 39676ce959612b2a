------------------------- MODULE RelationshipGraph -------------------------
(***************************************************************************)
(* The relationship layer: the worker that turns one message into people    *)
(* the user knows, and through whom (via).  Each batch is the transaction   *)
(* of one task; tasks of different messages overlap.  A row's attributes    *)
(* are abstracted to the batches that contributed to them.  A name is one    *)
(* value: spelled with other case or white space it is another name here,   *)
(* while the code drops duplicates by the trimmed lower-case name, sorts by *)
(* the trimmed name and looks up the name as it is written.                 *)
(*                                                                         *)
(* people   the committed rows, by id                                       *)
(* batch    per task: where it is, the candidates it was given, by their    *)
(*          place in the answer, those still to do, how far it has gone     *)
(*          through them, its uncommitted writes, the ids it has given to   *)
(*          names, and the upsert it is about to do                         *)
(* alone    history: no other batch has been open at the same time          *)
(***************************************************************************)
EXTENDS Integers, Sequences, FiniteSets

CONSTANTS
  Batches, Names, Roles,
  Answers,      (* what the LLM may answer, for each batch                  *)
  MaxPerTurn,   (* RelationshipExtractor.max_per_turn                       *)
  MaxSeeds,     (* bound: how often the evaluation's persona is seeded      *)
  Seeded,       (* whom default_seed introduces                             *)
  Nobody

ASSUME RelationshipAssumption ==
  /\ MaxPerTurn \in Nat \ {0} /\ MaxSeeds \in Nat
  /\ Nobody \notin Names /\ Seeded \in Names
  /\ 0 \notin Batches

Candidate == [name : Names, role : Roles, via : Names \cup {Nobody}]

ASSUME AnswersAssumption ==
  DOMAIN Answers = Batches /\ \A b \in Batches : Answers[b] \subseteq Seq(Candidate)

VARIABLES people, batch, alone

peopleVars == <<people, batch, alone>>

NoId == <<>>
Idle == [pc |-> "idle", given |-> <<>>, todo |-> {}, at |-> 0, circle |-> FALSE,
         own |-> <<>>, cache |-> <<>>, put |-> [id |-> NoId, row |-> <<>>]]

PeopleInit ==
  /\ people = <<>>
  /\ batch = [b \in Batches |-> Idle]
  /\ alone = [b \in Batches |-> TRUE]

-----------------------------------------------------------------------------
(* Mutant: someone may be their own middleman.                              *)
AnyVia(cs) == TRUE

(* RelationshipCandidate's validator: one bad candidate spoils the answer.  *)
Valid(cs) == \A k \in DOMAIN cs : cs[k].via # cs[k].name

NewIn(cs) ==
  {k \in DOMAIN cs : \A j \in 1..(k - 1) : cs[j].name # cs[k].name \/ cs[j].role # cs[k].role}

(* RelationshipExtractor.extract: nothing when the answer does not parse;   *)
(* else the first candidate of each name and role, up to max_per_turn.      *)
Extract(cs) ==
  LET kept == {k \in NewIn(cs) : Cardinality({j \in NewIn(cs) : j < k}) < MaxPerTurn}
  IN  [k \in IF Valid(cs) THEN kept ELSE {} |-> cs[k]]

NamesOf(cs) == {cs[k].name : k \in DOMAIN cs}

(* The candidates to do whose middleman is not in the batch, and those      *)
(* whose middleman has been done.                                           *)
Outer(me) == {k \in me.todo : me.given[k].via \notin NamesOf(me.given) \ {me.given[k].name}}
Ready(me) ==
  {k \in me.todo : \E j \in DOMAIN me.given \ me.todo : me.given[j].name = me.given[k].via}

(* Mutant: the order of the answer.                                         *)
AsAnswered(me) == me.todo

(* _topo_sort_relationship_candidates, the order of the loop: first those   *)
(* whose middleman is not in the batch; then, round by round, those whose   *)
(* middleman has been placed; a circle comes last, in the order of the      *)
(* answer.  The next candidate is the least of these.                       *)
MiddlemenFirst(me) ==
  LET ahead == {k \in Ready(me) : me.at < k}
  IN  IF me.circle THEN me.todo
      ELSE IF Outer(me) # {} THEN Outer(me)
      ELSE IF ahead # {} THEN ahead
      ELSE IF Ready(me) # {} THEN Ready(me)
      ELSE me.todo

-----------------------------------------------------------------------------
Open(b) == batch[b].pc \in {"look", "put"}

(* The task has its candidates.                                             *)
BeginBatch(b) ==
  /\ batch[b].pc = "idle"
  /\ \E cs \in Answers[b] :
       batch' = [batch EXCEPT ![b] = [Idle EXCEPT !.pc = "look", !.given = Extract(cs),
                                                  !.todo = DOMAIN Extract(cs)]]
  /\ alone' = [a \in Batches |->
                 alone[a] /\ (a = b => \A o \in Batches : ~Open(o)) /\ (a # b => ~Open(a))]
  /\ UNCHANGED people

(* What a statement of the batch sees.                                      *)
View(b) == [i \in DOMAIN batch[b].own \cup DOMAIN people |->
              IF i \in DOMAIN batch[b].own THEN batch[b].own[i] ELSE people[i]]

(* find_by_name: which of several rows comes first is not defined.          *)
FindByName(b, name) == {i \in DOMAIN View(b) : View(b)[i].name = name}

OrNoId(ids) == IF ids = {} THEN {NoId} ELSE ids

(* Mutant: the later middleman wins.                                        *)
LatestVia(old, new) == IF new = NoId THEN old ELSE new

(* A middleman that is known is not replaced.                               *)
Via(old, new) == IF old = NoId THEN new ELSE old

(* The two look-ups for the next candidate: the row of that name, and the   *)
(* middleman, among the batch's own first.                                  *)
LookUp(b) ==
  LET me == batch[b]
      k == CHOOSE k \in MiddlemenFirst(me) : \A j \in MiddlemenFirst(me) : k <= j
      c == me.given[k]
      middlemen == IF c.via = Nobody THEN {NoId}
                   ELSE IF c.via \in DOMAIN me.cache THEN {me.cache[c.via]}
                   ELSE OrNoId(FindByName(b, c.via))
      row(i, via) ==
        IF i = NoId THEN [name |-> c.name, via |-> via, from |-> {b}]
        ELSE [name |-> c.name, via |-> Via(View(b)[i].via, via), from |-> View(b)[i].from \cup {b}]
  IN  /\ me.pc = "look" /\ me.todo # {}
      /\ \E i \in OrNoId(FindByName(b, c.name)), via \in middlemen :
           batch' = [batch EXCEPT
             ![b].pc = "put",
             ![b].todo = @ \ {k},
             ![b].at = IF k \in Outer(me) THEN 0 ELSE k,
             ![b].circle = @ \/ k \notin Outer(me) \cup Ready(me),
             ![b].put = [id |-> IF i = NoId THEN <<b, k>> ELSE i, row |-> row(i, via)]]
      /\ UNCHANGED <<people, alone>>

(* upsert: the whole row by its id.  It waits for a batch that has written  *)
(* the row, but does not read it again.                                     *)
Upsert(b) ==
  LET me == batch[b]
      write(f, x, y) == [i \in DOMAIN f \cup {x} |-> IF i = x THEN y ELSE f[i]]
  IN  /\ me.pc = "put"
      /\ \A a \in Batches \ {b} : me.put.id \notin DOMAIN batch[a].own
      /\ batch' = [batch EXCEPT
           ![b] = [me EXCEPT !.pc = "look",
                             !.own = write(@, me.put.id, me.put.row),
                             !.cache = write(@, me.put.row.name, me.put.id),
                             !.put = Idle.put]]
      /\ UNCHANGED <<people, alone>>

CommitBatch(b) ==
  /\ batch[b].pc = "look" /\ batch[b].todo = {}
  /\ people' = View(b)
  /\ batch' = [batch EXCEPT ![b] = [Idle EXCEPT !.pc = "done", !.given = batch[b].given]]
  /\ UNCHANGED alone

(* The database fails, or ends a deadlock of two batches that wait for each *)
(* other's rows: all of the batch is rolled back.                           *)
BatchFails(b) ==
  /\ Open(b)
  /\ batch' = [batch EXCEPT ![b] = [Idle EXCEPT !.pc = "done"]]
  /\ UNCHANGED <<people, alone>>

(* seed_persona: a row of a new id for the person of the seed, committed at *)
(* once.  No name is looked up, and nothing of what is there is wiped first.*)
SeedPersona(n) ==
  /\ <<0, n>> \notin DOMAIN people
  /\ people' = [i \in DOMAIN people \cup {<<0, n>>} |->
                  IF i = <<0, n>> THEN [name |-> Seeded, via |-> NoId, from |-> {}]
                  ELSE people[i]]
  /\ UNCHANGED <<batch, alone>>

PeopleNext ==
  \/ \E n \in 1..MaxSeeds : SeedPersona(n)
  \/ \E b \in Batches :
       BeginBatch(b) \/ LookUp(b) \/ Upsert(b) \/ CommitBatch(b) \/ BatchFails(b)

PeopleSpec == PeopleInit /\ [][PeopleNext]_peopleVars

-----------------------------------------------------------------------------
(* A batch never asks the database to make someone their own middleman,     *)
(* which its check constraint would answer by losing the whole batch.       *)
NeverOwnMiddleman ==
  \A b \in Batches : batch[b].pc = "put" => batch[b].put.row.via # batch[b].put.id

(* No set of names of the batch is known only through one another.          *)
NoCircle(cs) ==
  \A S \in (SUBSET NamesOf(cs)) \ {{}} :
    \E n \in S : \A k \in DOMAIN cs : cs[k].name = n => cs[k].via \notin S

(* When a batch had the tables to itself, everybody it introduces through   *)
(* somebody else it names is linked to a middleman, in whatever order the   *)
(* answer came (the lost second-degree links of lesson 4.3).                *)
ChainLinked ==
  \A b \in Batches :
    LET cs == batch[b].given
    IN  batch[b].pc = "done" /\ alone[b] /\ NoCircle(cs) =>
          \A k \in DOMAIN cs : cs[k].via \in NamesOf(cs) =>
            \E i \in DOMAIN people : people[i].name = cs[k].name /\ people[i].via # NoId

(* A link once committed is kept as it is, unless batches have overlapped   *)
(* (one that read the row earlier writes the whole of it back).             *)
ViaStays ==
  [][(\A b \in Batches : alone[b]) =>
       \A i \in DOMAIN people :
         people[i].via # NoId => i \in DOMAIN people' /\ people'[i].via = people[i].via]_peopleVars
=============================================================================
