------------------------- MODULE MemoryTasksProofs -------------------------
(***************************************************************************)
(* Proofs about MemoryTasks, for every set of turns, facts and entities,   *)
(* and any number of retries, redeliveries and killed workers.             *)
(***************************************************************************)
EXTENDS MemoryTasks, TLAPS

(* What is committed is never taken back. *)
Grow ==
  /\ rows \subseteq rows' /\ dead \subseteq dead'
  /\ audits \subseteq audits' /\ banned \subseteq banned' /\ aged \subseteq aged'
  /\ \A t \in Turns : log[t] # "absent" => log'[t] # "absent"

(* The runs of the other tasks are not touched. *)
Others(k) ==
  \A u \in Task \ {k} :
    /\ pc'[u] = pc[u] /\ todo'[u] = todo[u] /\ bans'[u] = bans[u]
    /\ buf'[u] = buf[u] /\ target'[u] = target[u] /\ cands'[u] = cands[u]
    /\ knownRows'[u] = knownRows[u] /\ knownBans'[u] = knownBans[u]

(* Fewer rows do not exceed a limit that more rows keep. *)
LEMMA FewerRows ==
  ASSUME NEW S, NEW T, S \subseteq T, AtMost(EventLimit, T)
  PROVE  AtMost(EventLimit, S)
BY DEF AtMost, kSubset

(* A limited query returns rows of the set it is asked about. *)
LEMMA LatestOf ==
  ASSUME NEW n, NEW S, NEW seen \in Latest(n, S)
  PROVE  seen \subseteq S
BY DEF Latest, kSubset

(* Extractors find facts. *)
LEMMA SaysFacts ==
  ASSUME NEW k \in Task, k.kind \in Layer
  PROVE  Says[k.kind][k.turn] \subseteq Facts
<1>1. k.turn \in Turns
  BY DEF Task
<1>2. Says[k.kind] \in [Turns -> SUBSET Facts]
  BY MemoryAssumption
<1>3. QED
  BY <1>1, <1>2

-----------------------------------------------------------------------------
(* Types *)

LEMMA QueueTypes ==
  ASSUME NEW k, Queue!QueueTypeOK, MaxRetries \in Nat, MaxLosses \in Nat,
         Queue!Publish(k) \/ Queue!Deliver(k) \/ Queue!Ack(k) \/ Queue!Retry(k)
           \/ Queue!WorkerLost(k)
  PROVE  Queue!QueueTypeOK'
<1> USE DEF Queue!QueueTypeOK
<1>1. CASE Queue!Publish(k)
  BY <1>1 DEF Queue!Publish
<1>2. CASE Queue!Deliver(k)
  BY <1>2 DEF Queue!Deliver
<1>3. CASE Queue!Ack(k)
  BY <1>3 DEF Queue!Ack
<1>4. CASE Queue!Retry(k)
  <2>1. ASSUME k \in Task PROVE tries[k] + 1 \in 0..MaxRetries
    BY <1>4, <2>1 DEF Queue!Retry
  <2>2. tries' \in [Task -> 0..MaxRetries]
    BY <1>4, <2>1 DEF Queue!Retry
  <2>3. QED
    BY <1>4, <2>2 DEF Queue!Retry
<1>5. CASE Queue!WorkerLost(k)
  <2>1. PICK outcome \in {"ready", "done"} : q' = [q EXCEPT ![k] = outcome]
    BY <1>5 DEF Queue!WorkerLost
  <2>2. losses' \in 0..MaxLosses
    BY <1>5 DEF Queue!WorkerLost
  <2>3. QED
    BY <1>5, <2>1, <2>2 DEF Queue!WorkerLost
<1>6. QED
  BY <1>1, <1>2, <1>3, <1>4, <1>5

(* A row as Add builds it is a row. *)
LEMMA NewRow ==
  ASSUME NEW k \in Task, NEW f \in Facts, MemTypeOK
  PROVE  [task |-> k, run |-> runs[k], fact |-> f] \in Row
BY DEF MemTypeOK, Row

LEMMA InitTypes == MemInit => MemTypeOK
BY MemoryAssumption
DEF MemInit, MemTypeOK, Chat!ContractInit, Queue!QueueInit, Queue!QueueTypeOK

LEMMA ForgetTypes ==
  ASSUME NEW k \in Task, NEW p \in {"idle", "over"}, MemTypeOK, Forget(k, p)
  PROVE  /\ pc' \in [Task -> {"idle", "publish", "load", "filter", "write",
                              "scan", "scan2", "judge", "over"}]
         /\ runs' \in [Task -> Nat]
         /\ todo' \in [Task -> SUBSET (Layer \cup Facts)]
         /\ bans' \in [Task -> SUBSET Entities]
         /\ buf' \in [Task -> SUBSET Row]
         /\ target' \in [Task -> SUBSET Entities]
         /\ cands' \in [Task -> SUBSET Row]
         /\ knownRows' \in [Task -> SUBSET Row]
         /\ knownBans' \in [Task -> SUBSET Entities]
         /\ Others(k)
         /\ pc'[k] = p /\ todo'[k] = {} /\ buf'[k] = {} /\ cands'[k] = {}
BY DEF Forget, Goto, MemTypeOK, Others

LEMMA TypeStep ==
  ASSUME NEW k \in Task, MemTypeOK, pc[k] = "write" => todo[k] \subseteq Facts,
         RunStep(k) \/ Trouble(k)
  PROVE  MemTypeOK' /\ Others(k) /\ Grow
<1> USE DEF Grow, Others, Goto, chatVars, queueVars, storeVars, knownVars
<1>1. CASE Receive(k)
  <2>1. LayersFor(IntentOf[k.turn]) \subseteq Layer
    BY DEF LayersFor
  <2>2. Queue!QueueTypeOK'
    BY <1>1, QueueTypes, MemoryAssumption DEF Receive, MemTypeOK
  <2>3. todo' \in [Task -> SUBSET (Layer \cup Facts)]
    <3> DEFINE first == IF k.kind = "after_chat" THEN LayersFor(IntentOf[k.turn]) ELSE {}
    <3>1. first \subseteq Layer \cup Facts
      BY <2>1
    <3>2. todo' = [todo EXCEPT ![k] = first] /\ todo \in [Task -> SUBSET (Layer \cup Facts)]
      BY <1>1 DEF Receive, MemTypeOK
    <3>3. QED
      BY <3>1, <3>2
  <2>4. /\ pc' \in [Task -> {"idle", "publish", "load", "filter", "write",
                             "scan", "scan2", "judge", "over"}]
        /\ runs' \in [Task -> Nat]
    BY <1>1 DEF Receive, MemTypeOK
  <2>5. /\ knownRows' \in [Task -> SUBSET Row]
        /\ knownBans' \in [Task -> SUBSET Entities]
    BY <1>1 DEF Receive, MemTypeOK, Active
  <2>6. MemTypeOK'
    BY <1>1, <2>2, <2>3, <2>4, <2>5 DEF Receive, MemTypeOK
  <2>7. QED
    BY <1>1, <2>6 DEF Receive, MemTypeOK
<1>2. CASE FanOut(k)
  BY <1>2, QueueTypes, MemoryAssumption DEF FanOut, MemTypeOK
<1>3. CASE FanOutEnds(k)
  BY <1>3 DEF FanOutEnds, MemTypeOK, Queue!QueueTypeOK
<1>4. CASE Skip(k)
  BY <1>4 DEF Skip, MemTypeOK, Queue!QueueTypeOK
<1>5. CASE LoadForExtract(k)
  <2>1. k.kind \in Layer => Says[k.kind][k.turn] \subseteq Facts
    BY SaysFacts
  <2>2. QED
    BY <1>5, <2>1 DEF LoadForExtract, FactSets, MemTypeOK, Queue!QueueTypeOK
<1>6. CASE LoadForCorrection(k)
  <2>1. Denies[k.turn] \subseteq Entities
    BY MemoryAssumption DEF Task
  <2>2. QED
    BY <1>6, <2>1 DEF LoadForCorrection, DenialSets, MemTypeOK, Queue!QueueTypeOK
<1>7. CASE ReadBans(k)
  BY <1>7 DEF ReadBans, MemTypeOK, Queue!QueueTypeOK
<1>8. CASE Consider(k)
  <2>1. PICK f \in todo[k] : /\ Drop(k, f) \/ Add(k, f)
                             /\ todo' = [todo EXCEPT ![k] = @ \ {f}]
    BY <1>8 DEF Consider
  <2>2. buf' \in [Task -> SUBSET Row] /\ \A u \in Task \ {k} : buf'[u] = buf[u]
    <3>1. CASE Drop(k, f)
      BY <3>1 DEF Drop, MemTypeOK
    <3>2. CASE Add(k, f)
      <4>1. f \in Facts
        BY <1>8, <2>1 DEF Consider
      <4>2. [task |-> k, run |-> runs[k], fact |-> f] \in Row
        BY <4>1, NewRow
      <4>3. QED
        BY <3>2, <4>2 DEF Add, MemTypeOK
    <3>3. QED
      BY <2>1, <3>1, <3>2
  <2>3. QED
    BY <1>8, <2>1, <2>2 DEF Consider, MemTypeOK, Queue!QueueTypeOK
<1>9. CASE CommitRows(k)
  BY <1>9, ForgetTypes DEF CommitRows, MemTypeOK, Queue!QueueTypeOK
<1>10. CASE ScanEpisodic(k)
  <2>1. PICK found \in Matches(k, "episodic") : cands' = [cands EXCEPT ![k] = found]
    BY <1>10 DEF ScanEpisodic
  <2>2. found \subseteq Row
    BY <2>1, LatestOf DEF Matches, Active, MemTypeOK
  <2>3. QED
    BY <1>10, <2>1, <2>2 DEF ScanEpisodic, MemTypeOK, Queue!QueueTypeOK
<1>11. CASE ScanEvents(k)
  <2>1. PICK found \in Matches(k, "event") :
          \E kept \in Latest(CandidateLimit, cands[k] \cup found) :
            cands' = [cands EXCEPT ![k] = kept]
    BY <1>11 DEF ScanEvents
  <2> PICK kept \in Latest(CandidateLimit, cands[k] \cup found) :
          cands' = [cands EXCEPT ![k] = kept]
    BY <2>1
  <2>2. found \subseteq Row
    BY LatestOf DEF Matches, Active, MemTypeOK
  <2>3. cands[k] \cup found \subseteq Row
    BY <2>2 DEF MemTypeOK
  <2>4. kept \subseteq Row
    BY <2>3, LatestOf
  <2>5. QED
    BY <1>11, <2>4 DEF ScanEvents, MemTypeOK, Queue!QueueTypeOK
<1>12. CASE ApplyCorrection(k)
  <2>1. PICK verdict \in [cands[k] -> Verdicts], ban \in BanChoices(k) :
          /\ audits' = audits \cup
               {[row |-> r, action |-> verdict[r], task |-> k, run |-> runs[k]] : r \in cands[k]}
          /\ dead' = dead \cup {r \in cands[k] : verdict[r] # "audit_only"}
          /\ banned' = banned \cup ban
    BY <1>12 DEF ApplyCorrection, Judgements
  <2>2. cands[k] \subseteq Row /\ runs[k] \in Nat
    BY <1>12 DEF MemTypeOK
  <2>3. audits' \subseteq Audit
    BY <2>1, <2>2 DEF MemTypeOK, Audit
  <2>4. ban \subseteq Entities
    BY MemoryAssumption DEF BanChoices
  <2>5. MemTypeOK' /\ Others(k)
    BY <1>12, <2>1, <2>2, <2>3, <2>4, ForgetTypes
    DEF ApplyCorrection, MemTypeOK, Queue!QueueTypeOK
  <2>6. QED
    BY <1>12, <2>1, <2>5 DEF ApplyCorrection
<1>13. CASE Finish(k)
  BY <1>13, ForgetTypes, QueueTypes, MemoryAssumption DEF Finish, MemTypeOK
<1>14. CASE Fails(k)
  BY <1>14, ForgetTypes DEF Fails, MemTypeOK, Queue!QueueTypeOK
<1>15. CASE FailsTransiently(k)
  BY <1>15, ForgetTypes, QueueTypes, MemoryAssumption DEF FailsTransiently, MemTypeOK
<1>16. CASE Killed(k)
  BY <1>16, ForgetTypes, QueueTypes, MemoryAssumption DEF Killed, MemTypeOK
<1>17. QED
  BY <1>1, <1>2, <1>3, <1>4, <1>5, <1>6, <1>7, <1>8, <1>9, <1>10, <1>11, <1>12,
     <1>13, <1>14, <1>15, <1>16 DEF RunStep, WorkerStep, Trouble

-----------------------------------------------------------------------------
(* The inductive invariant *)

(* A memory row whose source is saved, no correction, and says the fact. *)
Sourced(r) ==
  /\ log[r.task.turn] # "absent"
  /\ r.task.turn \notin Correcting
  /\ r.fact \in Says[r.task.kind][r.task.turn]

Justified(r) ==
  \E a \in audits :
    /\ a.row = r /\ a.action # "audit_only"
    /\ a.task.turn \in Correcting
    /\ Hits(r.fact, Denies[a.task.turn])

(* Only the task its intent calls for is ever published for a turn. *)
QueueInv(k) ==
  /\ k.kind \in Layer /\ q[k] # "absent" => k.turn \notin Correcting
  /\ k.kind = "correction" /\ q[k] # "absent" => k.turn \in Correcting
  /\ pc[k] # "idle" => q[k] # "absent"

(* No event the run could have found is taken for f, or there are too many. *)
New(k, f) ==
  AtMost(EventLimit, {s \in rows \cup buf[k] : SameType(s, f)})
    => \A s \in knownRows[k] \ (dead \cup aged) :
         ~(SameType(s, f) /\ s.fact \in Alike["event"][f])

(* What a run has read stays true enough to rely on, because nothing        *)
(* committed is taken back: the bans it was to respect are among those it   *)
(* has read, and what it has inserted so far respects them and repeats      *)
(* nothing it could have found.                                             *)
RunInv(k) ==
  /\ pc[k] # "idle" => knownBans[k] \subseteq banned /\ knownRows[k] \subseteq rows
  /\ pc[k] = "publish" => todo[k] \subseteq LayersFor(IntentOf[k.turn])
  /\ pc[k] \in {"filter", "write"} =>
       /\ k.kind \in Layer
       /\ log[k.turn] # "absent"
       /\ todo[k] \subseteq Says[k.kind][k.turn]
  /\ pc[k] = "write" /\ k.kind = "episodic" => knownBans[k] \subseteq bans[k]
  /\ pc[k] \in {"scan", "scan2", "judge"} =>
       k.kind = "correction" /\ target[k] \subseteq Denies[k.turn]
  /\ \A r \in buf[k] :
       /\ pc[k] = "write" /\ r.task = k /\ r.fact \in Says[k.kind][k.turn]
       /\ k.kind = "episodic" => ~Hits(r.fact, knownBans[k])
       /\ k.kind = "event" => New(k, r.fact)
  /\ \A r \in cands[k] : Hits(r.fact, Denies[k.turn])

MemInv ==
  /\ MemTypeOK
  /\ \A k \in Task : QueueInv(k) /\ RunInv(k)
  /\ \A r \in rows : Sourced(r)
  /\ \A r \in dead : Justified(r)

LEMMA InitInv == MemInit => MemInv
<1> SUFFICES ASSUME MemInit PROVE MemInv
  OBVIOUS
<1>1. MemTypeOK
  BY InitTypes
<1>2. ASSUME NEW k \in Task PROVE QueueInv(k) /\ RunInv(k)
  BY DEF MemInit, Queue!QueueInit, QueueInv, RunInv
<1>3. QED
  BY <1>1, <1>2 DEF MemInit, MemInv

(* Every intent is extracted from or corrected, not both. *)
LEMMA CorrectionsExtractNothing ==
  ASSUME NEW t \in Correcting PROVE LayersFor(IntentOf[t]) = {}
BY DEF Correcting, LayersFor

-----------------------------------------------------------------------------
(* The run that moves keeps its invariant. *)

(* A run that forgets, or has nothing of its own, satisfies RunInv. *)
LEMMA ForgetInv ==
  ASSUME NEW k \in Task, NEW p \in {"idle", "over"}, MemTypeOK, RunInv(k), Grow,
         Forget(k, p)
  PROVE  RunInv(k)'
<1>1. pc'[k] = p /\ buf'[k] = {} /\ cands'[k] = {}
  BY DEF Forget, Goto, MemTypeOK
<1>2. knownRows'[k] = {} /\ knownBans'[k] = {}
  BY DEF Forget, MemTypeOK
<1>3. QED
  BY <1>1, <1>2 DEF RunInv

(* The event that a run inserts is new: the search has compared it with all *)
(* there was of its type, or the limit is exceeded.                         *)
LEMMA AddedIsNew ==
  ASSUME NEW k \in Task, NEW f, k.kind = "event", Add(k, f),
         knownRows[k] \subseteq rows
  PROVE  New(k, f)
<1> DEFINE Of == {s \in (Active \ aged) \cup buf[k] : SameType(s, f)}
           All == {s \in rows \cup buf[k] : SameType(s, f)}
<1> SUFFICES ASSUME AtMost(EventLimit, All),
                    NEW s \in knownRows[k] \ (dead \cup aged),
                    SameType(s, f), s.fact \in Alike["event"][f]
             PROVE  FALSE
  BY DEF New
<1>1. Of \subseteq All
  BY DEF Active
<1>2. AtMost(EventLimit, Of)
  BY <1>1, FewerRows
<1>3. Compared(k, f) = {Of}
  BY <1>2 DEF Compared, Latest
<1>4. ~Similar(k, f, Of)
  BY <1>3 DEF Add
<1>5. s \in Of
  BY DEF Active
<1>6. QED
  BY <1>4, <1>5 DEF Similar

(* New stays true: rows are only added, deleted and outlived. *)
LEMMA StaysNew ==
  ASSUME NEW k \in Task, NEW f, New(k, f), Grow,
         buf[k] \subseteq buf'[k], knownRows'[k] = knownRows[k]
  PROVE  New(k, f)'
<1> SUFFICES ASSUME AtMost(EventLimit, {s \in rows' \cup buf'[k] : SameType(s, f)})
             PROVE  \A s \in knownRows[k] \ (dead' \cup aged') :
                      ~(SameType(s, f) /\ s.fact \in Alike["event"][f])
  BY DEF New, AtMost, SameType
<1>1. {s \in rows \cup buf[k] : SameType(s, f)}
        \subseteq {s \in rows' \cup buf'[k] : SameType(s, f)}
  BY DEF Grow
<1>2. AtMost(EventLimit, {s \in rows \cup buf[k] : SameType(s, f)})
  BY <1>1, FewerRows
<1>3. QED
  BY <1>2 DEF New, Grow

LEMMA RunStepInv ==
  ASSUME NEW k \in Task, MemInv, Grow, RunStep(k) \/ Trouble(k)
  PROVE  RunInv(k)'
<1> USE DEF Goto, chatVars, queueVars, storeVars, knownVars
<1>0. MemTypeOK /\ RunInv(k) /\ QueueInv(k)
  BY DEF MemInv
<1>1. CASE Receive(k)
  <2>1. buf[k] = {}
    BY <1>0, <1>1 DEF Receive, RunInv
  <2>2. QED
    BY <1>0, <1>1, <2>1 DEF Receive, MemTypeOK, RunInv, Active
<1>2. CASE FanOut(k)
  BY <1>0, <1>2 DEF FanOut, MemTypeOK, RunInv
<1>3. CASE FanOutEnds(k)
  BY <1>0, <1>3 DEF FanOutEnds, MemTypeOK, RunInv
<1>4. CASE Skip(k)
  BY <1>0, <1>4 DEF Skip, MemTypeOK, RunInv
<1>5. CASE LoadForExtract(k)
  BY <1>0, <1>5 DEF LoadForExtract, FactSets, MemTypeOK, RunInv, Found
<1>6. CASE LoadForCorrection(k)
  BY <1>0, <1>6 DEF LoadForCorrection, DenialSets, MemTypeOK, RunInv
<1>7. CASE ReadBans(k)
  BY <1>0, <1>7 DEF ReadBans, MemTypeOK, RunInv
<1>8. CASE Consider(k)
  <2>1. PICK f \in todo[k] : /\ Drop(k, f) \/ Add(k, f)
                             /\ todo' = [todo EXCEPT ![k] = @ \ {f}]
    BY <1>8 DEF Consider
  <2>2. /\ pc[k] = "write" /\ UNCHANGED <<log, pc, bans, target, cands, rows, dead>>
        /\ UNCHANGED <<banned, knownRows, knownBans>>
    BY <1>8 DEF Consider
  <2>3. todo'[k] = todo[k] \ {f} /\ f \in Says[k.kind][k.turn]
    BY <1>0, <2>1, <2>2 DEF MemTypeOK, RunInv
  <2>b. buf[k] \subseteq buf'[k]
    BY <1>0, <2>1 DEF Drop, Add, MemTypeOK
  <2>4. ASSUME NEW r \in buf'[k]
        PROVE  /\ r.task = k /\ r.fact \in Says[k.kind][k.turn]
               /\ k.kind = "episodic" => ~Hits(r.fact, knownBans[k])
               /\ k.kind = "event" => New(k, r.fact)
    <3>1. CASE r \in buf[k]
      BY <1>0, <3>1 DEF RunInv
    <3>2. CASE r \notin buf[k]
      <4>1. Add(k, f) /\ r = [task |-> k, run |-> runs[k], fact |-> f]
        BY <2>1, <2>4, <3>2 DEF Drop, Add, MemTypeOK, MemInv
      <4>2. r.task = k /\ r.fact = f
        BY <4>1
      <4>3. k.kind = "episodic" => ~Hits(f, knownBans[k])
        BY <1>0, <2>2, <4>1 DEF Add, RunInv, Hits
      <4>4. knownRows[k] \subseteq rows
        BY <1>0, <2>2 DEF RunInv
      <4>5. k.kind = "event" => New(k, f)
        BY <4>1, <4>4, AddedIsNew
      <4>6. QED
        BY <2>3, <4>2, <4>3, <4>5
    <3>3. QED
      BY <3>1, <3>2
  <2>5. ASSUME NEW r \in buf'[k], k.kind = "event" PROVE New(k, r.fact)'
    BY <2>2, <2>b, <2>4, <2>5, StaysNew
  <2>6. QED
    BY <1>0, <2>2, <2>3, <2>4, <2>5 DEF RunInv, Hits
<1>9. CASE CommitRows(k)
  BY <1>0, <1>9, ForgetInv DEF CommitRows
<1>10. CASE ScanEpisodic(k)
  <2>1. \A found \in Matches(k, "episodic") :
          \A r \in found : Hits(r.fact, Denies[k.turn])
    <3>1. target[k] \subseteq Denies[k.turn]
      BY <1>0, <1>10 DEF ScanEpisodic, RunInv
    <3>2. QED
      BY <3>1 DEF Matches, Hits
  <2>2. cands'[k] \in Matches(k, "episodic")
    BY <1>0, <1>10 DEF ScanEpisodic, MemTypeOK
  <2>3. QED
    BY <1>0, <1>10, <2>1, <2>2 DEF ScanEpisodic, MemTypeOK, RunInv, Hits
<1>11. CASE ScanEvents(k)
  <2>0. PICK found \in Matches(k, "event") :
          \E kept \in Latest(CandidateLimit, cands[k] \cup found) :
            cands' = [cands EXCEPT ![k] = kept]
    BY <1>11 DEF ScanEvents
  <2>1. \A r \in cands[k] \cup found : Hits(r.fact, Denies[k.turn])
    <3>1. target[k] \subseteq Denies[k.turn]
      BY <1>0, <1>11 DEF ScanEvents, RunInv
    <3>2. \A r \in found : Hits(r.fact, Denies[k.turn])
      BY <2>0, <3>1 DEF Matches, Hits
    <3>3. QED
      BY <1>0, <3>2 DEF RunInv
  <2>2. cands'[k] \subseteq cands[k] \cup found
    BY <1>0, <2>0, LatestOf DEF MemTypeOK
  <2>3. QED
    BY <1>0, <1>11, <2>1, <2>2 DEF ScanEvents, MemTypeOK, RunInv, Hits
<1>12. CASE ApplyCorrection(k)
  BY <1>0, <1>12, ForgetInv DEF ApplyCorrection
<1>13. CASE Finish(k)
  BY <1>0, <1>13, ForgetInv DEF Finish
<1>14. CASE Fails(k)
  BY <1>0, <1>14, ForgetInv DEF Fails
<1>15. CASE FailsTransiently(k)
  BY <1>0, <1>15, ForgetInv DEF FailsTransiently
<1>16. CASE Killed(k)
  BY <1>0, <1>16, ForgetInv DEF Killed
<1>17. QED
  BY <1>1, <1>2, <1>3, <1>4, <1>5, <1>6, <1>7, <1>8, <1>9, <1>10, <1>11, <1>12,
     <1>13, <1>14, <1>15, <1>16 DEF RunStep, WorkerStep, Trouble

-----------------------------------------------------------------------------
(* The rest of the invariant under a step of task k. *)

LEMMA RunFrame ==
  ASSUME NEW k \in Task, NEW u \in Task \ {k}, RunInv(u), Others(k), Grow
  PROVE  RunInv(u)'
<1>1. u.turn \in Turns
  BY DEF Task
<1>2. log[u.turn] # "absent" => log'[u.turn] # "absent"
  BY <1>1 DEF Grow
<1>3. ASSUME NEW r \in buf[u], u.kind = "event" PROVE New(u, r.fact)'
  BY <1>3, StaysNew DEF RunInv, Others
<1>4. QED
  BY <1>2, <1>3 DEF RunInv, Others, Grow, Hits

LEMMA QueueStep ==
  ASSUME NEW k \in Task, NEW u \in Task, MemInv, RunStep(k) \/ Trouble(k), Others(k)
  PROVE  QueueInv(u)'
<1>0. MemTypeOK /\ QueueInv(k) /\ QueueInv(u) /\ RunInv(k)
  BY DEF MemInv
<1> USE DEF QueueInv, queueVars
<1>1. CASE FanOut(k)
  <2>1. PICK l \in todo[k] :
          /\ Queue!Publish([kind |-> l, turn |-> k.turn, copy |-> runs[k]])
          /\ pc[k] = "publish"
    BY <1>1 DEF FanOut
  <2>2. todo[k] \subseteq LayersFor(IntentOf[k.turn]) /\ k.turn \in Turns
    BY <1>0, <2>1 DEF RunInv, Task
  <2>3. l \in Layer /\ k.turn \notin Correcting
    BY <2>2, CorrectionsExtractNothing DEF LayersFor
  <2>4. UNCHANGED pc
    BY <1>1 DEF FanOut
  <2>5. CASE u = [kind |-> l, turn |-> k.turn, copy |-> runs[k]]
    BY <1>0, <2>1, <2>3, <2>4, <2>5 DEF Queue!Publish, Layer, MemTypeOK, Queue!QueueTypeOK
  <2>6. CASE u # [kind |-> l, turn |-> k.turn, copy |-> runs[k]]
    BY <1>0, <2>1, <2>4, <2>6 DEF Queue!Publish, MemTypeOK, Queue!QueueTypeOK
  <2>7. QED
    BY <2>5, <2>6
<1>2. CASE Receive(k) \/ Finish(k) \/ FailsTransiently(k) \/ Killed(k)
  <2>1. q[k] # "absent" /\ \A v \in Task \ {k} : q'[v] = q[v]
    BY <1>0, <1>2 DEF Receive, Finish, FailsTransiently, Killed, Queue!Deliver,
       Queue!Ack, Queue!Retry, Queue!WorkerLost, MemTypeOK, Queue!QueueTypeOK
  <2>2. q'[k] # "absent"
    BY <1>0, <1>2 DEF Receive, Finish, FailsTransiently, Killed, Queue!Deliver,
       Queue!Ack, Queue!Retry, Queue!WorkerLost, MemTypeOK, Queue!QueueTypeOK
  <2>3. QED
    BY <1>0, <2>1, <2>2 DEF Others
<1>3. CASE UNCHANGED q /\ pc[k] # "idle"
  BY <1>0, <1>3 DEF Others
<1>4. QED
  BY <1>1, <1>2, <1>3
  DEF RunStep, WorkerStep, Trouble, FanOutEnds, Skip, LoadForExtract, LoadForCorrection,
      ReadBans, Consider, CommitRows, ScanEpisodic, ScanEvents, ApplyCorrection, Fails

(* Rows appear only in CommitRows, from the run's own buffer. *)
LEMMA RowsFromBuffer ==
  ASSUME NEW k \in Task, RunStep(k) \/ Trouble(k)
  PROVE  rows' = rows \/ (CommitRows(k) /\ rows' = rows \cup buf[k])
BY DEF RunStep, WorkerStep, Trouble, storeVars, Receive, FanOut, FanOutEnds, Skip,
   LoadForExtract, LoadForCorrection, ReadBans, Consider, CommitRows, ScanEpisodic,
   ScanEvents, ApplyCorrection, Finish, Fails, FailsTransiently, Killed

LEMMA SourcedStep ==
  ASSUME NEW k \in Task, MemInv, Grow, RunStep(k) \/ Trouble(k), NEW r \in rows'
  PROVE  Sourced(r)'
<1>1. r \in rows => Sourced(r) /\ r.task.turn \in Turns
  BY DEF MemInv, MemTypeOK, Row, Task
<1>2. r \notin rows => Sourced(r) /\ r.task.turn \in Turns
  <2> SUFFICES ASSUME r \notin rows PROVE Sourced(r) /\ r.task.turn \in Turns
    OBVIOUS
  <2>1. r \in buf[k]
    BY RowsFromBuffer
  <2>2. r.task = k /\ pc[k] = "write" /\ r.fact \in Says[k.kind][k.turn]
    BY <2>1 DEF MemInv, RunInv
  <2>3. k.kind \in Layer /\ log[k.turn] # "absent" /\ q[k] # "absent"
    BY <2>2 DEF MemInv, RunInv, QueueInv
  <2>4. k.turn \notin Correcting
    BY <2>3 DEF MemInv, QueueInv
  <2>5. QED
    BY <2>2, <2>3, <2>4 DEF Sourced, Task
<1>3. QED
  BY <1>1, <1>2 DEF Sourced, Grow

LEMMA JustifiedStep ==
  ASSUME NEW k \in Task, MemInv, Grow, RunStep(k) \/ Trouble(k), NEW r \in dead'
  PROVE  Justified(r)'
<1>1. CASE r \in dead
  BY <1>1 DEF MemInv, Justified, Grow
<1>2. CASE r \notin dead
  <2>1. ApplyCorrection(k)
    BY <1>2 DEF RunStep, WorkerStep, Trouble, storeVars, Receive, FanOut, FanOutEnds,
       Skip, LoadForExtract, LoadForCorrection, ReadBans, Consider, CommitRows,
       ScanEpisodic, ScanEvents, Finish, Fails, FailsTransiently, Killed
  <2>2. PICK verdict \in [cands[k] -> Verdicts] :
          /\ audits' = audits \cup
               {[row |-> x, action |-> verdict[x], task |-> k, run |-> runs[k]] : x \in cands[k]}
          /\ dead' = dead \cup {x \in cands[k] : verdict[x] # "audit_only"}
    BY <2>1 DEF ApplyCorrection, Judgements
  <2>3. r \in cands[k] /\ verdict[r] # "audit_only"
    BY <1>2, <2>2
  <2>4. pc[k] = "judge"
    BY <2>1 DEF ApplyCorrection
  <2>5. k.kind = "correction" /\ Hits(r.fact, Denies[k.turn])
    BY <2>3, <2>4 DEF MemInv, RunInv
  <2>6. k.turn \in Correcting
    BY <2>4, <2>5 DEF MemInv, QueueInv
  <2> DEFINE a == [row |-> r, action |-> verdict[r], task |-> k, run |-> runs[k]]
  <2>7. a \in audits'
    BY <2>2, <2>3
  <2>8. a.row = r /\ a.action # "audit_only" /\ a.task = k
    BY <2>3
  <2>9. QED
    BY <2>5, <2>6, <2>7, <2>8 DEF Justified, Hits
<1>3. QED
  BY <1>1, <1>2

-----------------------------------------------------------------------------
(* Inductiveness *)

LEMMA WorkStep ==
  ASSUME MemInv, NEW k \in Task, RunStep(k) \/ Trouble(k)
  PROVE  MemInv'
<1>1. pc[k] = "write" => todo[k] \subseteq Facts
  <2>1. k.kind \in Layer => Says[k.kind][k.turn] \subseteq Facts
    BY SaysFacts
  <2>2. QED
    BY <2>1 DEF MemInv, RunInv
<1>2. MemTypeOK' /\ Others(k) /\ Grow
  BY <1>1, TypeStep DEF MemInv
<1>3. ASSUME NEW u \in Task PROVE QueueInv(u)'
  BY <1>2, QueueStep
<1>4. ASSUME NEW u \in Task PROVE RunInv(u)'
  <2>1. CASE u = k
    BY <1>2, <2>1, RunStepInv
  <2>2. CASE u # k
    BY <1>2, <2>2, RunFrame DEF MemInv
  <2>3. QED
    BY <2>1, <2>2
<1>5. \A r \in rows' : Sourced(r)'
  BY <1>2, SourcedStep
<1>6. \A r \in dead' : Justified(r)'
  BY <1>2, JustifiedStep
<1>7. QED
  BY <1>2, <1>3, <1>4, <1>5, <1>6 DEF MemInv

LEMMA ChatStepInv ==
  ASSUME MemInv, NEW t \in Turns, ChatStep(t)
  PROVE  MemInv'
<1> USE DEF queueVars, runVars, storeVars, knownVars
<1>1. CASE \E what \in {"question", "exchange"} : Record(t, what)
  <2>1. PICK what \in {"question", "exchange"} : Record(t, what)
    BY <1>1
  <2>2. /\ log' = [log EXCEPT ![t] = what] /\ log[t] = "absent"
        /\ UNCHANGED <<work, q, tries, losses, pc, runs, todo, bans, buf, target, cands>>
        /\ UNCHANGED <<rows, dead, audits, banned, aged, skipped, knownRows, knownBans>>
    BY <2>1 DEF Record, Chat!Record
  <2>3. MemTypeOK' /\ \A u \in Turns : log[u] # "absent" => log'[u] = log[u]
    BY <2>2 DEF MemInv, MemTypeOK, Queue!QueueTypeOK
  <2>n. ASSUME NEW k \in Task, NEW f PROVE New(k, f)' <=> New(k, f)
    BY <2>2 DEF New, SameType, AtMost
  <2>4. ASSUME NEW k \in Task PROVE QueueInv(k)' /\ RunInv(k)'
    BY <2>2, <2>3, <2>n DEF MemInv, QueueInv, RunInv, Task, Hits
  <2>5. ASSUME NEW r \in rows' PROVE Sourced(r)'
    BY <2>2, <2>3 DEF MemInv, MemTypeOK, Row, Task, Sourced
  <2>6. \A r \in dead' : Justified(r)'
    BY <2>2 DEF MemInv, Justified, Hits
  <2>7. QED
    BY <2>3, <2>4, <2>5, <2>6 DEF MemInv
<1>2. CASE HandOver(t)
  <2>1. PICK kind \in {"after_chat", "correction"} :
          /\ kind = "correction" => t \in Correcting
          /\ Chat!HandOver(t, kind)
          /\ Queue!Publish([kind |-> kind, turn |-> t, copy |-> 1])
    BY <1>2 DEF HandOver
  <2>2. /\ UNCHANGED <<log, pc, runs, todo, bans, buf, target, cands>>
        /\ UNCHANGED <<rows, dead, audits, banned, aged, skipped, knownRows, knownBans>>
    BY <1>2, <2>1 DEF HandOver, Chat!HandOver
  <2>3. Queue!QueueTypeOK'
    BY <2>1, QueueTypes, MemoryAssumption DEF MemInv, MemTypeOK
  <2>4. work' \in [Turns -> {"none", "after_chat", "correction"}]
    BY <2>1 DEF Chat!HandOver, MemInv, MemTypeOK
  <2>5. MemTypeOK'
    BY <2>2, <2>3, <2>4 DEF MemInv, MemTypeOK
  <2>6. ASSUME NEW k \in Task PROVE QueueInv(k)'
    BY <2>1, <2>2 DEF MemInv, MemTypeOK, Queue!QueueTypeOK, QueueInv, Queue!Publish, Layer
  <2>n. ASSUME NEW k \in Task, NEW f PROVE New(k, f)' <=> New(k, f)
    BY <2>2 DEF New, SameType, AtMost
  <2>7. ASSUME NEW k \in Task PROVE RunInv(k)'
    BY <2>2, <2>n DEF MemInv, RunInv, Hits
  <2>8. QED
    BY <2>2, <2>5, <2>6, <2>7 DEF MemInv, Sourced, Justified, Hits
<1>3. QED
  BY <1>1, <1>2 DEF ChatStep

(* Days pass: nothing but the window moves. *)
LEMMA DaysPassInv == MemInv /\ DaysPass => MemInv'
<1> SUFFICES ASSUME MemInv, DaysPass PROVE MemInv'
  OBVIOUS
<1> USE DEF chatVars, queueVars, runVars, knownVars
<1>1. Grow
  BY DEF DaysPass, Grow
<1>2. MemTypeOK'
  BY DEF DaysPass, MemInv, MemTypeOK, Queue!QueueTypeOK
<1>3. ASSUME NEW k \in Task PROVE QueueInv(k)' /\ RunInv(k)'
  <2>1. ASSUME NEW r \in buf[k], k.kind = "event" PROVE New(k, r.fact)'
    BY <1>1, <2>1, StaysNew DEF DaysPass, MemInv, RunInv
  <2>2. QED
    BY <2>1 DEF DaysPass, MemInv, QueueInv, RunInv, Hits
<1>4. QED
  BY <1>2, <1>3 DEF DaysPass, MemInv, Sourced, Justified, Hits

LEMMA StepInv == MemInv /\ [MemNext]_memVars => MemInv'
<1> SUFFICES ASSUME MemInv, [MemNext]_memVars PROVE MemInv'
  OBVIOUS
<1>1. CASE UNCHANGED memVars
  <2>1. ASSUME NEW k \in Task, NEW f PROVE New(k, f)' <=> New(k, f)
    BY <1>1 DEF memVars, New, SameType, AtMost
  <2>2. QED
    BY <1>1, <2>1 DEF memVars, MemInv, MemTypeOK, Queue!QueueTypeOK, QueueInv, RunInv,
       Sourced, Justified, Hits
<1>2. QED
  BY <1>1, WorkStep, ChatStepInv, DaysPassInv DEF MemNext

-----------------------------------------------------------------------------
(* Every reachable state satisfies the inductive invariant. *)
THEOREM MemInvariance == MemSafety => []MemInv
BY InitInv, StepInv, PTL DEF MemSafety

(* No interleaving of runs, retries, redeliveries and kills takes a         *)
(* variable out of its type; a task is never retried beyond max_retries.    *)
THEOREM MemTypeCorrect == MemSafety => []MemTypeOK
<1>1. MemInv => MemTypeOK
  BY DEF MemInv
<1>2. QED
  BY <1>1, MemInvariance, PTL

(* No committed memory without a saved turn that says it and that is no     *)
(* correction (runners.py:59-69, orchestrator.py:300-304).                  *)
THEOREM MemorySourced == MemSafety => []MemoryHasSource
<1>1. MemInv => MemoryHasSource
  BY DEF MemInv, MemoryHasSource, Sourced
<1>2. QED
  BY <1>1, MemInvariance, PTL

(* Whatever is soft-deleted was denied by a correction turn, and that       *)
(* correction's audit row says so (applier.py:139-164).                     *)
THEOREM RetractionsJustified == MemSafety => []RetractionJustified
<1>1. MemInv => RetractionJustified
  BY DEF MemInv, RetractionJustified, Justified
<1>2. QED
  BY <1>1, MemInvariance, PTL

(* A new row comes out of the buffer of the run that commits it. *)
LEMMA NewRowInBuffer ==
  ASSUME MemInv, [MemNext]_memVars, NEW r \in rows' \ rows
  PROVE  \E k \in Task : r \in buf[k] /\ rows' = rows \cup buf[k]
<1>1. ~UNCHANGED memVars
  BY DEF memVars
<1>2. ASSUME NEW t \in Turns, ChatStep(t) PROVE FALSE
  BY <1>2 DEF ChatStep, Record, HandOver, storeVars
<1>3. ~DaysPass
  BY DEF DaysPass
<1>4. PICK k \in Task : RunStep(k) \/ Trouble(k)
  BY <1>1, <1>2, <1>3 DEF MemNext
<1>5. rows' = rows \cup buf[k] /\ r \in buf[k]
  BY <1>4, RowsFromBuffer
<1>6. QED
  BY <1>5

(* A run that started after an entity was banned never adds an episodic     *)
(* memory that mentions it (runners.py:122-130).                            *)
THEOREM BansRespected == MemSafety => BannedNotRelearned
<1>1. ASSUME MemInv, [MemNext]_memVars, NEW r \in rows' \ rows,
             r.task.kind = "episodic"
      PROVE  ~Hits(r.fact, knownBans[r.task])
  <2>1. PICK k \in Task : r \in buf[k]
    BY <1>1, NewRowInBuffer
  <2>2. QED
    BY <1>1, <2>1 DEF MemInv, RunInv
<1>2. MemInv /\ [MemNext]_memVars =>
        [\A r \in rows' \ rows :
           r.task.kind = "episodic" => ~Hits(r.fact, knownBans[r.task])]_memVars
  BY <1>1
<1>3. QED
  BY <1>2, MemInvariance, PTL DEF MemSafety, BannedNotRelearned

(* A run never repeats an event that was committed when it started, is      *)
(* still active and in the window of days, as long as the events of its     *)
(* type are no more than the search compares, redeliveries and repeated     *)
(* fan-outs included (runners.py:268-278, event_repo.py:94-121).            *)
THEOREM NothingLearnedTwice == MemSafety => NoSequentialDuplicate
<1>1. ASSUME MemInv, [MemNext]_memVars, NEW r \in rows' \ rows,
             r.task.kind = "event",
             AtMost(EventLimit, {s \in rows' : SameType(s, r.fact)})
      PROVE  ~\E s \in knownRows[r.task] \ (dead \cup aged) :
                SameType(s, r.fact) /\ s.fact \in Alike["event"][r.fact]
  <2>1. PICK k \in Task : r \in buf[k] /\ rows' = rows \cup buf[k]
    BY <1>1, NewRowInBuffer
  <2>2. r.task = k /\ (k.kind = "event" => New(k, r.fact))
    BY <1>1, <2>1 DEF MemInv, RunInv
  <2>3. QED
    BY <1>1, <2>1, <2>2 DEF New
<1>2. MemInv /\ [MemNext]_memVars =>
        [\A r \in rows' \ rows :
           /\ r.task.kind = "event"
           /\ AtMost(EventLimit, {s \in rows' : SameType(s, r.fact)})
           => ~\E s \in knownRows[r.task] \ (dead \cup aged) :
                 SameType(s, r.fact) /\ s.fact \in Alike["event"][r.fact]]_memVars
  BY <1>1
<1>3. QED
  BY <1>2, MemInvariance, PTL DEF MemSafety, NoSequentialDuplicate
=============================================================================
