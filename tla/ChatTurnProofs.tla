--------------------------- MODULE ChatTurnProofs ---------------------------
(***************************************************************************)
(* Proofs about ChatTurn, for every set of turns and intents and any       *)
(* number of crashes.                                                      *)
(***************************************************************************)
EXTENDS ChatTurn, TLAPS

(* The phases in which the generator still runs under the request. *)
Serving == {"routing", "streaming", "flushing", "touching", "sending"}

(* While the request is served nothing is detached yet and its transaction  *)
(* is open; an open transaction holds the question and has made nothing     *)
(* visible; and whoever is still going to publish finds nothing published.  *)
TurnInv(t) ==
  /\ phase[t] \in Serving \cup {"idle"} => bg[t] = "none"
  /\ phase[t] \in Serving => tx[t] = "open"
  /\ phase[t] = "idle" => tx[t] = "none" /\ flushed[t] = {}
  /\ tx[t] = "open" => "user" \in flushed[t]
  /\ tx[t] \in {"none", "open", "failed"} => durable[t] = {}
  /\ "assistant" \in durable[t] => "user" \in durable[t]
  /\ phase[t] \in Serving \cup {"idle"} \/ bg[t] \in {"todo", "flushing", "touching", "sending"}
       => sent[t]["after_chat"] = 0 /\ sent[t]["correction"] = 0
  /\ sent[t]["after_chat"] + sent[t]["correction"] <= 1
  /\ sent[t]["after_chat"] = 1 => intent[t] # "correction"
  /\ sent[t]["correction"] = 1 => intent[t] = "correction"

ChatInv == ChatTypeOK /\ \A t \in Turns : TurnInv(t)

-----------------------------------------------------------------------------
(* Every step of one turn leaves the other turns alone, so the invariant is *)
(* proved for the turn that moves and carried over for the others.          *)
Others(t) ==
  \A u \in Turns \ {t} :
    /\ phase'[u] = phase[u] /\ intent'[u] = intent[u] /\ tx'[u] = tx[u]
    /\ flushed'[u] = flushed[u] /\ durable'[u] = durable[u]
    /\ bg'[u] = bg[u] /\ sent'[u] = sent[u]

(* Publishing keeps the type of sent and counts one task of the turn's kind *)
(* or none.                                                                 *)
LEMMA PublishFacts ==
  ASSUME NEW t \in Turns, ChatTypeOK, Publish(t)
  PROVE  /\ sent' \in [Turns -> [Kind -> Nat]]
         /\ \A u \in Turns \ {t} : sent'[u] = sent[u]
         /\ \/ sent'[t] = sent[t]
            \/ /\ intent[t] = "correction"
               /\ sent'[t]["correction"] = sent[t]["correction"] + 1
               /\ sent'[t]["after_chat"] = sent[t]["after_chat"]
            \/ /\ intent[t] # "correction"
               /\ sent'[t]["after_chat"] = sent[t]["after_chat"] + 1
               /\ sent'[t]["correction"] = sent[t]["correction"]
<1>1. CASE UNCHANGED sent
  BY <1>1 DEF ChatTypeOK
<1>2. CASE sent' = [sent EXCEPT ![t][TaskFor(intent[t])] = @ + 1]
  <2>1. PICK k \in Kind : k = TaskFor(intent[t])
    BY DEF TaskFor, Kind
  <2>2. k = "correction" <=> intent[t] = "correction"
    BY <2>1 DEF TaskFor
  <2>3. sent[t] \in [Kind -> Nat] /\ sent \in [Turns -> [Kind -> Nat]]
    BY DEF ChatTypeOK
  <2>4. sent' = [sent EXCEPT ![t] = [sent[t] EXCEPT ![k] = sent[t][k] + 1]]
    BY <1>2, <2>1
  <2>5. [sent[t] EXCEPT ![k] = sent[t][k] + 1] \in [Kind -> Nat]
    BY <2>1, <2>3
  <2>6. sent'[t] = [sent[t] EXCEPT ![k] = sent[t][k] + 1]
    BY <2>3, <2>4
  <2>7. /\ sent' \in [Turns -> [Kind -> Nat]]
        /\ \A u \in Turns \ {t} : sent'[u] = sent[u]
    BY <2>3, <2>4, <2>5
  <2>8. CASE k = "correction"
    BY <2>2, <2>3, <2>6, <2>7, <2>8 DEF Kind
  <2>9. CASE k = "after_chat"
    BY <2>2, <2>3, <2>6, <2>7, <2>9 DEF Kind
  <2>10. QED
    BY <2>1, <2>8, <2>9 DEF Kind
<1>3. QED
  BY <1>1, <1>2 DEF Publish

-----------------------------------------------------------------------------
(* The type invariant and the per-turn invariant are inductive. *)
LEMMA InitInv == ChatInit => ChatInv
<1> SUFFICES ASSUME ChatInit PROVE ChatInv
  OBVIOUS
<1>1. ChatTypeOK
  BY ChatAssumption DEF ChatInit, ChatTypeOK, Phase, Row, Kind
<1>2. ASSUME NEW t \in Turns PROVE TurnInv(t)
  <2>1. sent[t] = [k \in Kind |-> 0]
    BY DEF ChatInit
  <2>2. sent[t]["after_chat"] = 0 /\ sent[t]["correction"] = 0
    BY <2>1 DEF Kind
  <2>3. QED
    BY <2>2 DEF ChatInit, TurnInv, Serving
<1>3. QED
  BY <1>1, <1>2 DEF ChatInv

LEMMA TypeStep ==
  ASSUME NEW t \in Turns, ChatTypeOK, TurnStep(t)
  PROVE  ChatTypeOK' /\ Others(t)
<1> USE DEF ChatTypeOK, Others, Goto, Phase, Row
<1>1. CASE Begin(t)
  BY <1>1 DEF Begin
<1>2. CASE BeginFails(t)
  BY <1>2 DEF BeginFails
<1>3. CASE Compose(t)
  BY <1>3 DEF Compose
<1>4. CASE ComposeFails(t)
  BY <1>4 DEF ComposeFails
<1>5. CASE Token(t)
  BY <1>5 DEF Token
<1>6. CASE StreamEnds(t)
  BY <1>6 DEF StreamEnds
<1>7. CASE InsertAssistant(t)
  BY <1>7 DEF InsertAssistant
<1>8. CASE InsertFails(t)
  BY <1>8 DEF InsertFails
<1>9. CASE Dispatch(t)
  BY <1>9, PublishFacts DEF Dispatch
<1>10. CASE LeaveRouting(t)
  BY <1>10 DEF LeaveRouting
<1>11. CASE LeaveStreaming(t)
  BY <1>11 DEF LeaveStreaming
<1>12. CASE LeaveFlushing(t)
  BY <1>12 DEF LeaveFlushing
<1>13. CASE LeaveSending(t)
  BY <1>13, PublishFacts DEF LeaveSending
<1>14. CASE LeaveAtPing(t)
  BY <1>14 DEF LeaveAtPing
<1>15. CASE BgStart(t)
  BY <1>15 DEF BgStart
<1>16. CASE BgInsertAssistant(t)
  <2>1. CASE Closed(t)
    BY <1>16, <2>1 DEF BgInsertAssistant
  <2>2. CASE ~Closed(t)
    BY <1>16, <2>2 DEF BgInsertAssistant
  <2>3. QED
    BY <2>1, <2>2
<1>17. CASE BgInsertFails(t)
  BY <1>17 DEF BgInsertFails
<1>18. CASE BgDispatch(t)
  BY <1>18, PublishFacts DEF BgDispatch
<1>19. CASE Commit(t)
  BY <1>19 DEF Commit
<1>20. CASE Rollback(t)
  BY <1>20 DEF Rollback
<1>21. CASE Touch(t)
  BY <1>21 DEF Touch
<1>22. CASE BgTouch(t)
  BY <1>22 DEF BgTouch
<1>23. CASE Collect(t)
  BY <1>23 DEF Collect
<1>24. QED
  BY <1>1, <1>2, <1>3, <1>4, <1>5, <1>6, <1>7, <1>8, <1>9, <1>10, <1>11, <1>12,
     <1>13, <1>14, <1>15, <1>16, <1>17, <1>18, <1>19, <1>20, <1>21, <1>22, <1>23
  DEF TurnStep, Generator, Leave, Detached, CloseSession

(* The moving turn keeps its invariant, one action at a time. *)
LEMMA TurnStepInv ==
  ASSUME NEW t \in Turns, ChatTypeOK, TurnInv(t), TurnStep(t)
  PROVE  TurnInv(t)'
<1> USE DEF ChatTypeOK, TurnInv, Goto, Serving
<1>1. CASE Begin(t)
  BY <1>1 DEF Begin
<1>2. CASE BeginFails(t)
  BY <1>2 DEF BeginFails
<1>3. CASE Compose(t)
  BY <1>3 DEF Compose
<1>4. CASE ComposeFails(t)
  BY <1>4 DEF ComposeFails
<1>5. CASE Token(t)
  BY <1>5 DEF Token
<1>6. CASE StreamEnds(t)
  BY <1>6 DEF StreamEnds
<1>7. CASE InsertAssistant(t)
  BY <1>7 DEF InsertAssistant
<1>8. CASE InsertFails(t)
  BY <1>8 DEF InsertFails
<1>9. CASE Dispatch(t)
  <2>1. sent[t]["after_chat"] = 0 /\ sent[t]["correction"] = 0
    BY <1>9 DEF Dispatch
  <2>2. phase'[t] = "closing" /\ bg'[t] = "none" /\ intent'[t] = intent[t]
    BY <1>9 DEF Dispatch
  <2>3. Publish(t) /\ UNCHANGED <<tx, flushed, durable>>
    BY <1>9 DEF Dispatch
  <2>4. /\ sent'[t]["after_chat"] + sent'[t]["correction"] <= 1
        /\ sent'[t]["after_chat"] = 1 => intent'[t] # "correction"
        /\ sent'[t]["correction"] = 1 => intent'[t] = "correction"
    <3> HIDE DEF ChatTypeOK, TurnInv
    <3> QED
      BY <2>1, <2>2, <2>3, PublishFacts
  <2>5. QED
    BY <2>2, <2>3, <2>4
<1>10. CASE LeaveRouting(t)
  BY <1>10 DEF LeaveRouting
<1>11. CASE LeaveStreaming(t)
  BY <1>11 DEF LeaveStreaming
<1>12. CASE LeaveFlushing(t)
  BY <1>12 DEF LeaveFlushing
<1>13. CASE LeaveSending(t)
  <2>1. sent[t]["after_chat"] = 0 /\ sent[t]["correction"] = 0
    BY <1>13 DEF LeaveSending
  <2>2. phase'[t] = "closing" /\ bg'[t] = "none" /\ intent'[t] = intent[t]
    BY <1>13 DEF LeaveSending
  <2>3. Publish(t) /\ UNCHANGED <<tx, flushed, durable>>
    BY <1>13 DEF LeaveSending
  <2>4. /\ sent'[t]["after_chat"] + sent'[t]["correction"] <= 1
        /\ sent'[t]["after_chat"] = 1 => intent'[t] # "correction"
        /\ sent'[t]["correction"] = 1 => intent'[t] = "correction"
    <3> HIDE DEF ChatTypeOK, TurnInv
    <3> QED
      BY <2>1, <2>2, <2>3, PublishFacts
  <2>5. QED
    BY <2>2, <2>3, <2>4
<1>14. CASE LeaveAtPing(t)
  BY <1>14 DEF LeaveAtPing
<1>15. CASE BgStart(t)
  BY <1>15 DEF BgStart
<1>16. CASE BgInsertAssistant(t)
  BY <1>16 DEF BgInsertAssistant
<1>17. CASE BgInsertFails(t)
  BY <1>17 DEF BgInsertFails
<1>18. CASE BgDispatch(t)
  BY <1>18, PublishFacts DEF BgDispatch
<1>19. CASE Commit(t)
  BY <1>19 DEF Commit
<1>20. CASE Rollback(t)
  BY <1>20 DEF Rollback
<1>21. CASE Touch(t)
  BY <1>21 DEF Touch
<1>22. CASE BgTouch(t)
  BY <1>22 DEF BgTouch
<1>23. CASE Collect(t)
  BY <1>23 DEF Collect
<1>24. QED
  BY <1>1, <1>2, <1>3, <1>4, <1>5, <1>6, <1>7, <1>8, <1>9, <1>10, <1>11, <1>12,
     <1>13, <1>14, <1>15, <1>16, <1>17, <1>18, <1>19, <1>20, <1>21, <1>22, <1>23
  DEF TurnStep, Generator, Leave, Detached, CloseSession

(* A crash ends every turn that was begun and makes nothing visible. *)
LEMMA CrashInv == ChatInv /\ Crash => ChatInv'
<1> SUFFICES ASSUME ChatInv, Crash PROVE ChatInv'
  OBVIOUS
<1> USE DEF ChatInv, Crash
<1>1. ChatTypeOK'
  BY ChatAssumption DEF ChatTypeOK, Phase, Row
<1>2. ASSUME NEW t \in Turns PROVE TurnInv(t)'
  BY <1>2 DEF ChatTypeOK, TurnInv, Serving
<1>3. QED
  BY <1>1, <1>2

(* The invariant is inductive. *)
LEMMA StepInv == ChatInv /\ [ChatNext]_chatVars => ChatInv'
<1> SUFFICES ASSUME ChatInv, [ChatNext]_chatVars PROVE ChatInv'
  OBVIOUS
<1>1. ASSUME NEW t \in Turns, TurnStep(t) PROVE ChatInv'
  <2>1. ChatTypeOK' /\ Others(t)
    BY <1>1, TypeStep DEF ChatInv
  <2>2. TurnInv(t)'
    BY <1>1, TurnStepInv DEF ChatInv
  <2>3. ASSUME NEW u \in Turns \ {t} PROVE TurnInv(u)'
    BY <2>1 DEF Others, ChatInv, TurnInv
  <2>4. QED
    BY <2>1, <2>2, <2>3 DEF ChatInv
<1>2. CASE Crash
  BY <1>2, CrashInv
<1>3. CASE UNCHANGED chatVars
  BY <1>3 DEF chatVars, ChatInv, ChatTypeOK, TurnInv
<1>4. QED
  BY <1>1, <1>2, <1>3 DEF ChatNext

-----------------------------------------------------------------------------
(* Every reachable state satisfies the inductive invariant. *)
THEOREM ChatInvariance == ChatSafety => []ChatInv
  BY InitInv, StepInv, PTL DEF ChatSafety

(* No interleaving of generator, detached persister, session close and      *)
(* crash takes a variable out of its type; in particular every turn that    *)
(* was routed carries an intent the router may answer.                      *)
THEOREM ChatTypeCorrect == ChatSafety => []ChatTypeOK
<1>1. ChatInv => ChatTypeOK
  BY DEF ChatInv
<1>2. QED
  BY <1>1, ChatInvariance, PTL

(* A committed answer always stands beside its committed question           *)
(* (orchestrator.py:110 and 270 write through one session).                 *)
THEOREM AnswerNeverAlone == ChatSafety => []AnswerHasQuestion
<1>1. ChatInv => AnswerHasQuestion
  BY DEF ChatInv, TurnInv, AnswerHasQuestion
<1>2. QED
  BY <1>1, ChatInvariance, PTL

(* However the turn ends, at most one task is published for it, and it is   *)
(* the one its intent calls for (orchestrator.py:300-317).                  *)
THEOREM DispatchExclusive == ChatSafety => []OneTaskPerTurn
<1>1. ChatInv => OneTaskPerTurn
  BY DEF ChatInv, TurnInv, OneTaskPerTurn
<1>2. QED
  BY <1>1, ChatInvariance, PTL

-----------------------------------------------------------------------------
(* The refinement: the turn as the contract sees it. *)
Log  == [t \in Turns |-> LogOf(durable[t])]
Work == [t \in Turns |-> WorkOf(sent[t])]

LEMMA RefineInit == ChatInit => Contract!ContractInit
<1> SUFFICES ASSUME ChatInit PROVE Contract!ContractInit
  OBVIOUS
<1>1. ASSUME NEW t \in Turns PROVE LogOf(durable[t]) = "absent"
  BY DEF ChatInit, LogOf
<1>2. ASSUME NEW t \in Turns PROVE WorkOf(sent[t]) = "none"
  <2>1. sent[t] = [k \in Kind |-> 0]
    BY DEF ChatInit
  <2>2. sent[t]["after_chat"] = 0 /\ sent[t]["correction"] = 0
    BY <2>1 DEF Kind
  <2>3. QED
    BY <2>2 DEF WorkOf
<1>3. QED
  BY <1>1, <1>2 DEF Contract!ContractInit

(* A step that publishes for t is a HandOver of the contract or a stutter. *)
LEMMA PublishRefines ==
  ASSUME NEW t \in Turns, ChatTypeOK, Publish(t), UNCHANGED durable,
         sent[t]["after_chat"] = 0, sent[t]["correction"] = 0
  PROVE  [Contract!ContractNext]_Contract!contractVars
<1>1. Log' = Log
  BY DEF Log
<1>2. \A u \in Turns \ {t} : sent'[u] = sent[u]
  BY PublishFacts
<1>3. WorkOf(sent[t]) = "none"
  BY DEF WorkOf
<1>4. CASE sent'[t] = sent[t]
  <2>1. Work' = Work
    BY <1>2, <1>4 DEF Work
  <2>2. QED
    BY <1>1, <2>1 DEF Log, Work, Contract!contractVars
<1>5. CASE sent'[t] # sent[t]
  <2>1. PICK kind \in {"after_chat", "correction"} : WorkOf(sent'[t]) = kind
    BY <1>5, PublishFacts DEF WorkOf
  <2>2. Work[t] = "none" /\ Work' = [Work EXCEPT ![t] = kind]
    BY <1>2, <1>3, <2>1 DEF Work
  <2>3. Contract!HandOver(t, kind)
    BY <1>1, <2>2 DEF Contract!HandOver, Log, Work
  <2>4. QED
    BY <2>3, <2>1 DEF Contract!ContractNext, Contract!TaskKind
<1>6. QED
  BY <1>4, <1>5

(* The commit is the contract's Record; it finds nothing visible yet and    *)
(* the question among the flushed rows.                                     *)
LEMMA CommitRefines ==
  ASSUME NEW t \in Turns, ChatTypeOK, TurnInv(t), Commit(t)
  PROVE  Contract!ContractNext
<1>1. durable[t] = {} /\ "user" \in flushed[t] /\ UNCHANGED sent
  BY DEF TurnInv, Commit
<1>2. durable' = [durable EXCEPT ![t] = flushed[t]] /\ durable \in [Turns -> SUBSET Row]
  BY DEF Commit, ChatTypeOK
<1>3. PICK what \in {"question", "exchange"} : LogOf(flushed[t]) = what
  BY <1>1 DEF LogOf
<1>4. LogOf(durable[t]) = "absent"
  BY <1>1 DEF LogOf
<1>5. Log[t] = "absent" /\ Log' = [Log EXCEPT ![t] = what]
  BY <1>2, <1>3, <1>4 DEF Log
<1>6. Work' = Work
  BY <1>1 DEF Work
<1>7. Contract!Record(t, what)
  BY <1>5, <1>6 DEF Contract!Record, Log, Work
<1>8. QED
  BY <1>3, <1>7 DEF Contract!ContractNext

LEMMA RefineStep ==
  ChatInv /\ [ChatNext]_chatVars => [Contract!ContractNext]_Contract!contractVars
<1> SUFFICES ASSUME ChatInv, [ChatNext]_chatVars
             PROVE  [Contract!ContractNext]_Contract!contractVars
  OBVIOUS
<1>1. CASE UNCHANGED <<durable, sent>>
  BY <1>1 DEF Contract!contractVars
<1>2. ASSUME NEW t \in Turns, Dispatch(t) \/ LeaveSending(t) \/ BgDispatch(t)
      PROVE  [Contract!ContractNext]_Contract!contractVars
  <2>1. Publish(t) /\ UNCHANGED durable
    BY <1>2 DEF Dispatch, LeaveSending, BgDispatch
  <2>2. sent[t]["after_chat"] = 0 /\ sent[t]["correction"] = 0
    BY <1>2 DEF ChatInv, TurnInv, Serving, Dispatch, LeaveSending, BgDispatch
  <2>3. QED
    BY <2>1, <2>2, PublishRefines DEF ChatInv
<1>3. ASSUME NEW t \in Turns, Commit(t)
      PROVE  [Contract!ContractNext]_Contract!contractVars
  BY <1>3, CommitRefines DEF ChatInv
<1>4. ASSUME NEW t \in Turns, TurnStep(t)
      PROVE  \/ UNCHANGED <<durable, sent>>
             \/ Dispatch(t) \/ LeaveSending(t) \/ BgDispatch(t) \/ Commit(t)
  <2>1. Generator(t) => UNCHANGED <<durable, sent>> \/ Dispatch(t)
    BY DEF Generator, Begin, BeginFails, Compose, ComposeFails, Token,
           StreamEnds, InsertAssistant, Touch, InsertFails
  <2>2. Leave(t) => UNCHANGED <<durable, sent>> \/ LeaveSending(t)
    BY DEF Leave, LeaveRouting, LeaveStreaming, LeaveFlushing, LeaveAtPing
  <2>3. Detached(t) => UNCHANGED <<durable, sent>> \/ BgDispatch(t)
    BY DEF Detached, BgStart, BgInsertAssistant, BgTouch, BgInsertFails
  <2>4. CloseSession(t) => UNCHANGED <<durable, sent>> \/ Commit(t)
    BY DEF CloseSession, Rollback
  <2>5. Collect(t) => UNCHANGED <<durable, sent>>
    BY DEF Collect
  <2>6. QED
    BY <1>4, <2>1, <2>2, <2>3, <2>4, <2>5 DEF TurnStep
<1>5. Crash \/ UNCHANGED chatVars => UNCHANGED <<durable, sent>>
  BY DEF Crash, chatVars
<1>6. QED
  BY <1>1, <1>2, <1>3, <1>4, <1>5 DEF ChatNext

(* The turn implements the contract: visible in one transaction, never      *)
(* taken back, at most one task handed over -- for any number of turns and  *)
(* of crashes, with every statement free to fail.                           *)
THEOREM TurnImplementsContract == ChatSafety => KeepsContract
<1>1. KeepsContract <=> Contract!ContractInit
                        /\ [][Contract!ContractNext]_Contract!contractVars
  BY DEF KeepsContract, Contract!ContractSpec
<1>2. QED
  BY <1>1, RefineInit, RefineStep, ChatInvariance, PTL DEF ChatSafety
=============================================================================
