---------------------------- MODULE MemoryTasks ----------------------------
(***************************************************************************)
(* The background half of the system: what the Celery workers do to the    *)
(* memory layers, concurrently, with the tasks the chat turns hand over.   *)
(*                                                                         *)
(* The chat side is taken at its contract (TurnContract): a turn's         *)
(* messages become visible in one transaction, its task is published at    *)
(* most once, and in either order.  The broker is TaskQueue.  Every worker *)
(* run is one READ COMMITTED transaction, so each of its reads is a step   *)
(* of its own and its writes appear together.                              *)
(*                                                                         *)
(* Modelled layers: episodic and event, the two that append rows.          *)
(*                                                                         *)
(* log, work  the contract's view of the turns                             *)
(* q, tries, losses   the broker                                           *)
(* pc[k]      where the run of task k is                                   *)
(*   idle      not being executed                                          *)
(*   publish   after_chat is publishing one message per layer              *)
(*   load      about to read the turn's message                            *)
(*   filter    facts extracted, the ban list not read                      *)
(*   write     facts are considered one by one                             *)
(*   scan      correction: about to search the episodic layer              *)
(*   scan2     correction: about to search the event layer                 *)
(*   judge     correction: candidates complete                             *)
(*   over      committed, skipped or failed; not acknowledged              *)
(* runs[k]    how often the task was delivered                             *)
(* todo[k]    layers still to publish, or facts still to consider          *)
(* bans[k]    the ban list as the run has read it                          *)
(* buf[k]     rows the run has inserted and not committed                  *)
(* target[k]  the entities the correction denies                           *)
(* cands[k]   the correction's candidate rows                              *)
(* rows, dead committed memory rows, and those soft-deleted                *)
(* audits     committed rows of memory_deprecations                        *)
(* banned     committed ban list                                           *)
(* aged       committed event rows that are older than the search's window *)
(* skipped    tasks that returned "message_not_found"                      *)
(* knownRows, knownBans   what was committed when the run was delivered    *)
(*            (history, read by no action)                                 *)
(***************************************************************************)
EXTENDS Naturals, FiniteSets, FiniteSetsExt

CONSTANTS
  Turns,           (* the chat turns of one conversation, numbered in order *)
  IntentOf,        (* the routed intent of a turn                           *)
  Facts, Entities,
  Says,            (* facts the extractor of a layer may find in a turn     *)
  Denies,          (* entities a correction turn may deny                   *)
  Mentions,        (* entities a fact mentions                              *)
  Bannable,        (* entities that survive the cleaning of the ban list    *)
  Verdicts,        (* actions the judge may return                          *)
  TypeOf,          (* the type a fact has as an event                       *)
  Alike,           (* per layer and fact, the facts its search takes for it *)
  EventLimit,      (* rows the search for similar events compares, 50       *)
  ScanLimit,       (* rows of a layer a correction looks through, 200       *)
  MessageLimit,    (* list_history's limit, in messages                     *)
  CandidateLimit,  (* correction_candidate_limit                            *)
  MaxRetries, MaxLosses

Layer == {"episodic", "event"}

(* EXTRACT_TARGETS_BY_INTENT, restricted to the modelled layers. *)
LayersFor(intent) ==
  {l \in Layer : \/ intent \in {"casual", "emotional_support", "plan_followup"}
                 \/ l = "episodic" /\ intent \in {"relationship_topic", "preference_request"}}

Correcting == {t \in Turns : IntentOf[t] = "correction"}

ASSUME MemoryAssumption ==
  /\ Turns \subseteq Nat
  /\ IsFiniteSet(Turns)
  /\ Says \in [Layer -> [Turns -> SUBSET Facts]]
  /\ Denies \in [Turns -> SUBSET Entities]
  /\ Mentions \in [Facts -> SUBSET Entities]
  /\ Bannable \subseteq Entities
  /\ Verdicts \subseteq {"deprecate", "update", "audit_only"}
  /\ Alike \in [Layer -> [Facts -> SUBSET Facts]]
  /\ EventLimit \in Nat /\ ScanLimit \in Nat
  /\ MessageLimit \in Nat /\ CandidateLimit \in Nat
  /\ MaxRetries \in Nat /\ MaxLosses \in Nat

(* A message of the broker.  after_chat publishes its messages anew every   *)
(* time it is delivered, hence the copy; the other two exist once per turn. *)
Task == [kind : {"after_chat", "correction"}, turn : Turns, copy : {1}]
        \cup [kind : Layer, turn : Turns, copy : 1..(MaxLosses + 1)]

(* A memory row: inserted by the run-th execution of a task. *)
Row == [task : Task, run : Nat, fact : Facts]

Audit == [row : Row, action : Verdicts, task : Task, run : Nat]

VARIABLES
  log, work, q, tries, losses,
  pc, runs, todo, bans, buf, target, cands,
  rows, dead, audits, banned, aged, skipped, knownRows, knownBans

chatVars   == <<log, work>>
queueVars  == <<q, tries, losses>>
runVars    == <<pc, runs, todo, bans, buf, target, cands>>
storeVars  == <<rows, dead, audits, banned, aged>>
knownVars  == <<knownRows, knownBans>>
memVars == <<log, work, q, tries, losses, pc, runs, todo, bans, buf, target, cands,
             rows, dead, audits, banned, aged, skipped, knownRows, knownBans>>

Chat  == INSTANCE TurnContract
Queue == INSTANCE TaskQueue WITH Tasks <- Task

MemTypeOK ==
  /\ Queue!QueueTypeOK
  /\ log \in [Turns -> {"absent", "question", "exchange"}]
  /\ work \in [Turns -> {"none", "after_chat", "correction"}]
  /\ pc \in [Task -> {"idle", "publish", "load", "filter", "write",
                      "scan", "scan2", "judge", "over"}]
  /\ runs \in [Task -> Nat]
  /\ todo \in [Task -> SUBSET (Layer \cup Facts)]
  /\ bans \in [Task -> SUBSET Entities]
  /\ buf \in [Task -> SUBSET Row]
  /\ target \in [Task -> SUBSET Entities]
  /\ cands \in [Task -> SUBSET Row]
  /\ rows \subseteq Row
  /\ dead \subseteq Row
  /\ audits \subseteq Audit
  /\ banned \subseteq Entities
  /\ aged \subseteq Row
  /\ skipped \subseteq Task
  /\ knownRows \in [Task -> SUBSET Row]
  /\ knownBans \in [Task -> SUBSET Entities]

MemInit ==
  /\ Chat!ContractInit
  /\ Queue!QueueInit
  /\ pc = [k \in Task |-> "idle"]
  /\ runs = [k \in Task |-> 0]
  /\ todo = [k \in Task |-> {}]
  /\ bans = [k \in Task |-> {}]
  /\ buf = [k \in Task |-> {}]
  /\ target = [k \in Task |-> {}]
  /\ cands = [k \in Task |-> {}]
  /\ rows = {} /\ dead = {} /\ audits = {} /\ banned = {} /\ aged = {}
  /\ skipped = {}
  /\ knownRows = [k \in Task |-> {}]
  /\ knownBans = [k \in Task |-> {}]

-----------------------------------------------------------------------------
(* Helpers *)

Goto(k, p) == pc' = [pc EXCEPT ![k] = p]

Active == rows \ dead

(* Whether a text mentions one of the entities. *)
Hits(fact, entities) == Mentions[fact] \cap entities # {}

(* No more than n rows. *)
AtMost(n, S) == kSubset(n + 1, S) = {}

(* What a query limited to n rows may return of S: all of it, or the latest *)
(* n, whichever they are.                                                   *)
Latest(n, S) == IF AtMost(n, S) THEN {S} ELSE kSubset(n, S)

MessagesOf(t) == CASE log[t] = "absent" -> 0
                   [] log[t] = "question" -> 1
                   [] log[t] = "exchange" -> 2

(* Mutant: the turn is taken from the broker's message, saved or not. *)
FoundUnsaved(t) == MapThenSumSet(MessagesOf, {u \in Turns : u >= t}) <= MessageLimit

(* The turn's question is committed and among the last MessageLimit         *)
(* messages of its conversation.  Turns are taken to follow one another:    *)
(* what is recorded for a later turn counts, whenever it was recorded.      *)
Found(t) ==
  /\ log[t] # "absent"
  /\ MapThenSumSet(MessagesOf, {u \in Turns : u >= t}) <= MessageLimit

-----------------------------------------------------------------------------
(* The chat side *)

Record(t, what) ==
  /\ Chat!Record(t, what)
  /\ UNCHANGED <<queueVars, runVars, storeVars, skipped, knownVars>>

HandOver(t) ==
  LET kind == IF t \in Correcting THEN "correction" ELSE "after_chat"
  IN  /\ Chat!HandOver(t, kind)
      /\ Queue!Publish([kind |-> kind, turn |-> t, copy |-> 1])
      /\ UNCHANGED <<runVars, storeVars, skipped, knownVars>>

-----------------------------------------------------------------------------
(* Delivery, end and loss of a run *)

Receive(k) ==
  /\ pc[k] = "idle"
  /\ Queue!Deliver(k)
  /\ Goto(k, IF k.kind = "after_chat" THEN "publish" ELSE "load")
  /\ runs' = [runs EXCEPT ![k] = @ + 1]
  /\ todo' = [todo EXCEPT ![k] = IF k.kind = "after_chat"
                                 THEN LayersFor(IntentOf[k.turn]) ELSE {}]
  /\ knownRows' = [knownRows EXCEPT ![k] = Active]
  /\ knownBans' = [knownBans EXCEPT ![k] = banned]
  /\ UNCHANGED <<chatVars, bans, buf, target, cands, storeVars, skipped>>

(* Everything the run held in memory and in its transaction is gone. *)
Forget(k, p) ==
  /\ Goto(k, p)
  /\ todo' = [todo EXCEPT ![k] = {}]
  /\ bans' = [bans EXCEPT ![k] = {}]
  /\ buf' = [buf EXCEPT ![k] = {}]
  /\ target' = [target EXCEPT ![k] = {}]
  /\ cands' = [cands EXCEPT ![k] = {}]
  /\ knownRows' = [knownRows EXCEPT ![k] = {}]
  /\ knownBans' = [knownBans EXCEPT ![k] = {}]
  /\ UNCHANGED runs

Finish(k) ==
  /\ pc[k] = "over"
  /\ Queue!Ack(k)
  /\ Forget(k, "idle")
  /\ UNCHANGED <<chatVars, storeVars, skipped>>

(* An exception: the session is closed without a commit and the task        *)
(* returns an error (after_chat: fails), having published what it has.      *)
Fails(k) ==
  /\ pc[k] \notin {"idle", "over"}
  /\ Forget(k, "over")
  /\ UNCHANGED <<chatVars, queueVars, storeVars, skipped>>

(* The embedder is rate-limited or times out while a fact is stored: of the *)
(* LLM-backed calls the only one whose transient errors reach the task.     *)
FailsTransiently(k) ==
  /\ k.kind = "episodic"
  /\ pc[k] = "write" /\ todo[k] # {}
  /\ Queue!Retry(k)
  /\ Forget(k, "idle")
  /\ UNCHANGED <<chatVars, storeVars, skipped>>

Killed(k) ==
  /\ pc[k] # "idle"
  /\ Queue!WorkerLost(k)
  /\ Forget(k, "idle")
  /\ UNCHANGED <<chatVars, storeVars, skipped>>

-----------------------------------------------------------------------------
(* after_chat: one message per layer, episodic before event *)

FanOut(k) ==
  /\ pc[k] = "publish"
  /\ \E l \in todo[k] :
       /\ l = "event" => "episodic" \notin todo[k]
       /\ Queue!Publish([kind |-> l, turn |-> k.turn, copy |-> runs[k]])
       /\ todo' = [todo EXCEPT ![k] = @ \ {l}]
  /\ UNCHANGED <<chatVars, pc, runs, bans, buf, target, cands, storeVars,
                 skipped, knownVars>>

FanOutEnds(k) ==
  /\ pc[k] = "publish"
  /\ todo[k] = {}
  /\ Goto(k, "over")
  /\ UNCHANGED <<chatVars, queueVars, runs, todo, bans, buf, target, cands,
                 storeVars, skipped, knownVars>>

-----------------------------------------------------------------------------
(* Loading the turn, the same for extraction and correction *)

Skip(k) ==
  /\ pc[k] = "load"
  /\ ~Found(k.turn)
  /\ Goto(k, "over")
  /\ skipped' = skipped \cup {k}
  /\ UNCHANGED <<chatVars, queueVars, runs, todo, bans, buf, target, cands,
                 storeVars, knownVars>>

(* What an extractor may make of the turn: some of what it says, or nothing *)
(* (an LLM error and an answer that does not parse count as nothing).       *)
FactSets(k) == SUBSET Says[k.kind][k.turn]

(* Only the episodic layer reads the ban list.                              *)
LoadForExtract(k) ==
  /\ pc[k] = "load"
  /\ k.kind \in Layer
  /\ Found(k.turn)
  /\ \E facts \in FactSets(k) :
       /\ todo' = [todo EXCEPT ![k] = facts]
       /\ Goto(k, IF facts = {} THEN "over"
                  ELSE IF k.kind = "episodic" THEN "filter" ELSE "write")
  /\ UNCHANGED <<chatVars, queueVars, runs, bans, buf, target, cands, storeVars,
                 skipped, knownVars>>

(* What the correction may be taken to deny, an LLM error denying nothing.  *)
DenialSets(t) == SUBSET Denies[t]

LoadForCorrection(k) ==
  /\ pc[k] = "load"
  /\ k.kind = "correction"
  /\ Found(k.turn)
  /\ \E denied \in DenialSets(k.turn) :
       /\ target' = [target EXCEPT ![k] = denied]
       /\ Goto(k, IF denied = {} THEN "over" ELSE "scan")
  /\ UNCHANGED <<chatVars, queueVars, runs, todo, bans, buf, cands, storeVars,
                 skipped, knownVars>>

-----------------------------------------------------------------------------
(* Extraction *)

(* Mutant: the run goes by an empty ban list. *)
ReadBansNever(k) ==
  /\ pc[k] = "filter"
  /\ Goto(k, "write")
  /\ UNCHANGED <<chatVars, queueVars, runs, todo, bans, buf, target, cands,
                 storeVars, skipped, knownVars>>

ReadBans(k) ==
  /\ pc[k] = "filter"
  /\ Goto(k, "write")
  /\ bans' = [bans EXCEPT ![k] = banned]
  /\ UNCHANGED <<chatVars, queueVars, runs, todo, buf, target, cands, storeVars,
                 skipped, knownVars>>

SameType(r, f) == r.task.kind = "event" /\ TypeOf[r.fact] = TypeOf[f]

(* Mutant: only the run's own rows are compared. *)
ComparedInBatch(k, f) ==
  IF k.kind = "event" THEN {{r \in buf[k] : SameType(r, f)}}
  ELSE {{}} \cup {{r} : r \in buf[k]}

(* The rows a fact is compared with, be they committed by anyone or         *)
(* inserted earlier in this run.  An event is compared with the latest ones *)
(* of its type in the window of days; an episodic memory with the one row   *)
(* the index finds for it, or with none: the index is approximate, its      *)
(* answer is filtered afterwards, and the search may raise.                 *)
Compared(k, f) ==
  IF k.kind = "event"
  THEN Latest(EventLimit, {r \in (Active \ aged) \cup buf[k] : SameType(r, f)})
  ELSE {{}} \cup {{r} : r \in {s \in Active \cup buf[k] : s.task.kind = "episodic"}}

Similar(k, f, seen) == \E r \in seen : r.fact \in Alike[k.kind][f]

Drop(k, f) ==
  /\ Hits(f, bans[k]) \/ \E seen \in Compared(k, f) : Similar(k, f, seen)
  /\ UNCHANGED buf

Add(k, f) ==
  /\ ~Hits(f, bans[k])
  /\ \E seen \in Compared(k, f) : ~Similar(k, f, seen)
  /\ buf' = [buf EXCEPT ![k] = @ \cup {[task |-> k, run |-> runs[k], fact |-> f]}]

Consider(k) ==
  /\ pc[k] = "write"
  /\ \E f \in todo[k] :
       /\ Drop(k, f) \/ Add(k, f)
       /\ todo' = [todo EXCEPT ![k] = @ \ {f}]
  /\ UNCHANGED <<chatVars, queueVars, pc, runs, bans, target, cands, storeVars,
                 skipped, knownVars>>

CommitRows(k) ==
  /\ pc[k] = "write"
  /\ todo[k] = {}
  /\ rows' = rows \cup buf[k]
  /\ Forget(k, "over")
  /\ UNCHANGED <<chatVars, queueVars, dead, audits, banned, aged, skipped>>

(* A committed event row falls out of the window. *)
DaysPass ==
  /\ \E r \in {s \in rows \ aged : s.task.kind = "event"} : aged' = aged \cup {r}
  /\ UNCHANGED <<chatVars, queueVars, runVars, rows, dead, audits, banned, skipped,
                 knownVars>>

-----------------------------------------------------------------------------
(* Correction *)

(* What a scan of a layer may find. *)
Matches(k, layer) ==
  {{r \in seen : Hits(r.fact, target[k])} :
     seen \in Latest(ScanLimit, {r \in Active : r.task.kind = layer})}

ScanEpisodic(k) ==
  /\ pc[k] = "scan"
  /\ Goto(k, "scan2")
  /\ \E found \in Matches(k, "episodic") : cands' = [cands EXCEPT ![k] = found]
  /\ UNCHANGED <<chatVars, queueVars, runs, todo, bans, buf, target, storeVars,
                 skipped, knownVars>>

(* The bundle is cut to the limit; which candidates survive depends on      *)
(* recency and on the order of the targets.                                 *)
ScanEvents(k) ==
  /\ pc[k] = "scan2"
  /\ Goto(k, "judge")
  /\ \E found \in Matches(k, "event") :
       \E kept \in Latest(CandidateLimit, cands[k] \cup found) :
         cands' = [cands EXCEPT ![k] = kept]
  /\ UNCHANGED <<chatVars, queueVars, runs, todo, bans, buf, target, storeVars,
                 skipped, knownVars>>

(* What is banned: what the LLM names, cleaned; or, when nothing of that is *)
(* left, the denied entities themselves, cleaned.                           *)
BanChoices(k) ==
  ((SUBSET Bannable) \ {{}}) \cup {target[k] \cap Bannable}

(* One verdict on each candidate: an LLM error or too little confidence     *)
(* makes it audit_only, an update without a text a deprecate.               *)
Judgements(k) == [cands[k] -> Verdicts]

(* Mutant: a verdict of audit_only deletes like the others. *)
ApplyCorrectionToAll(k) ==
  /\ pc[k] = "judge"
  /\ \E verdict \in Judgements(k), ban \in BanChoices(k) :
       /\ audits' = audits \cup
            {[row |-> r, action |-> verdict[r], task |-> k, run |-> runs[k]] : r \in cands[k]}
       /\ dead' = dead \cup cands[k]
       /\ banned' = banned \cup ban
  /\ Forget(k, "over")
  /\ UNCHANGED <<chatVars, queueVars, rows, aged, skipped>>

(* Every candidate is judged and audited, all but audit_only are            *)
(* soft-deleted (for these layers update does what deprecate does), and the *)
(* bans are added, in one transaction.                                      *)
ApplyCorrection(k) ==
  /\ pc[k] = "judge"
  /\ \E verdict \in Judgements(k), ban \in BanChoices(k) :
       /\ audits' = audits \cup
            {[row |-> r, action |-> verdict[r], task |-> k, run |-> runs[k]] : r \in cands[k]}
       /\ dead' = dead \cup {r \in cands[k] : verdict[r] # "audit_only"}
       /\ banned' = banned \cup ban
  /\ Forget(k, "over")
  /\ UNCHANGED <<chatVars, queueVars, rows, aged, skipped>>

-----------------------------------------------------------------------------
WorkerStep(k) ==
  \/ FanOut(k) \/ FanOutEnds(k)
  \/ Skip(k) \/ LoadForExtract(k) \/ LoadForCorrection(k)
  \/ ReadBans(k) \/ Consider(k) \/ CommitRows(k)
  \/ ScanEpisodic(k) \/ ScanEvents(k) \/ ApplyCorrection(k)

RunStep(k) == Receive(k) \/ WorkerStep(k) \/ Finish(k)

Trouble(k) == Fails(k) \/ FailsTransiently(k) \/ Killed(k)

ChatStep(t) == (\E what \in {"question", "exchange"} : Record(t, what)) \/ HandOver(t)

MemNext ==
  \/ \E t \in Turns : ChatStep(t)
  \/ \E k \in Task : RunStep(k) \/ Trouble(k)
  \/ DaysPass

(* A started worker takes what is in its queue, keeps running its task and  *)
(* acknowledges it.  No trouble is ever owed.                               *)
MemFairness == \A k \in Task : WF_memVars(RunStep(k))

MemSafety == MemInit /\ [][MemNext]_memVars
MemSpec == MemSafety /\ MemFairness

-----------------------------------------------------------------------------
(* Properties *)

(* A run that started after an entity was banned never adds an episodic     *)
(* memory that mentions it, whatever was redelivered or retried meanwhile   *)
(* (runners.py:103 and 122-130; 06-Subsystem-Correction.md:15).             *)
BannedNotRelearned ==
  [][\A r \in rows' \ rows :
       r.task.kind = "episodic" => ~Hits(r.fact, knownBans[r.task])]_memVars

(* A run never repeats an event that was committed when it started, is      *)
(* still active and within the window, unless there are more events of its  *)
(* type than the search compares: the redelivery of a task that had         *)
(* committed, the copy a repeated fan-out publishes and the next turn       *)
(* saying the same all find it (runners.py:238-240, event_repo.py:72-121,   *)
(* tasks_after_chat.py:7-8).  Of episodic memories nothing like it holds.   *)
NoSequentialDuplicate ==
  [][\A r \in rows' \ rows :
       /\ r.task.kind = "event"
       /\ AtMost(EventLimit, {s \in rows' : SameType(s, r.fact)})
       => ~\E s \in knownRows[r.task] \ (dead \cup aged) :
             SameType(s, r.fact) /\ s.fact \in Alike["event"][r.fact]]_memVars

(* What is soft-deleted stays so, and for each such row there is an audit   *)
(* row of a correction turn whose denied entity the row mentions, with a    *)
(* verdict other than audit_only (applier.py:139-164;                       *)
(* 06-Subsystem-Correction.md:16-17).                                       *)
RetractionJustified ==
  \A r \in dead : \E a \in audits :
    /\ a.row = r /\ a.action # "audit_only"
    /\ a.task.turn \in Correcting
    /\ Hits(r.fact, Denies[a.task.turn])

(* No memory without its source: a committed row comes from a turn that a   *)
(* reader of the database finds, that was not a correction, and that says   *)
(* the fact -- although the task was published before the turn was saved,   *)
(* if it ever was (runners.py:59-69, orchestrator.py:300-304).              *)
MemoryHasSource ==
  \A r \in rows :
    LET t == r.task.turn
    IN  log[t] # "absent" /\ t \notin Correcting /\ r.fact \in Says[r.task.kind][t]

(* The queues drain: whatever is published is acknowledged in the end,      *)
(* retries and redeliveries are bounded, and no run waits for another       *)
(* (celery_app.py:38-39, tasks_after_chat.py:179-236).                      *)
QueuesDrain == []<>(\A k \in Task : q[k] \in {"absent", "done"})

(* A worker skips a turn because "the chat path may have been cancelled     *)
(* before persistence" (runners.py:59-62): a turn whose task was skipped is *)
(* a turn that is not saved.                                                *)
SkippedMeansUnsaved == \A k \in skipped : log[k.turn] = "absent"

(* What the context loader takes from the two layers: active rows, less the *)
(* episodic ones that hit the ban list.                                     *)
Shown == {r \in Active : r.task.kind = "episodic" => ~Hits(r.fact, banned)}

(* Once a correction is through and no task is left, the memory no longer   *)
(* shows what it banned (06-Subsystem-Correction.md:14-15).                 *)
CorrectedStaysGone ==
  (\A k \in Task : q[k] \in {"absent", "done"})
    => \A r \in Shown : ~Hits(r.fact, banned)
=============================================================================
