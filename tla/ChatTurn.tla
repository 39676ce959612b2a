------------------------------ MODULE ChatTurn ------------------------------
(***************************************************************************)
(* The life of a chat turn inside the API process.                         *)
(*                                                                         *)
(* A turn is served by three things that share ONE database session:       *)
(*   - the orchestrator's async generator (ChatOrchestrator.stream_chat),  *)
(*   - the request that owns the session and commits it after the SSE      *)
(*     response is over (get_session / session_scope),                     *)
(*   - when the client leaves while tokens are being streamed, a detached  *)
(*     asyncio task that still wants to save the answer.                   *)
(* The generator also publishes one Celery task for the turn.              *)
(*                                                                         *)
(* phase   where the generator and its request are                         *)
(*           idle       the turn has not been asked                        *)
(*           routing    question flushed; router, loader, composer run     *)
(*           streaming  the LLM stream is being relayed                    *)
(*           flushing   the answer's INSERT is in flight                   *)
(*           touching   the conversation is read again, to be touched      *)
(*           sending    the answer is flushed; the task is being published *)
(*           closing    the generator is over, the session is to be closed *)
(*           done       the session is closed                              *)
(* intent  the routed intent ("none" until the router has decided)         *)
(* tokens  whether the LLM has produced a chunk                            *)
(* tx      the request's transaction                                       *)
(* flushed the turn's message rows written in that transaction             *)
(* durable the turn's message rows that are committed                      *)
(* bg      the detached persister                                          *)
(* late    the transaction that the detached persister begins when the     *)
(*         request has already closed the session: nobody commits it and   *)
(*         nobody closes the session again, so that it holds a pooled      *)
(*         connection until the session is garbage collected               *)
(* sent    how often each task was published for the turn                  *)
(* crashes API process crashes so far                                      *)
(***************************************************************************)
EXTENDS Naturals

CONSTANTS
  Turns,       (* the chat turns                                            *)
  Intents,     (* the intents the router may answer                         *)
  DbFails,     (* whether a database statement may fail by itself           *)
  MaxCrashes   (* bound on API process crashes                              *)

ASSUME ChatAssumption ==
  /\ DbFails \in BOOLEAN
  /\ MaxCrashes \in Nat
  /\ "none" \notin Intents

VARIABLES phase, intent, tokens, tx, flushed, durable, bg, late, sent, crashes

chatVars == <<phase, intent, tokens, tx, flushed, durable, bg, late, sent, crashes>>

Phase == {"idle", "routing", "streaming", "flushing", "touching", "sending",
          "closing", "done"}
Row   == {"user", "assistant"}
Kind  == {"after_chat", "correction"}

ChatTypeOK ==
  /\ phase \in [Turns -> Phase]
  /\ intent \in [Turns -> Intents \cup {"none"}]
  /\ tokens \in [Turns -> BOOLEAN]
  /\ tx \in [Turns -> {"none", "open", "failed", "committed", "rolledback"}]
  /\ flushed \in [Turns -> SUBSET Row]
  /\ durable \in [Turns -> SUBSET Row]
  /\ bg \in [Turns -> {"none", "todo", "flushing", "touching", "sending", "over"}]
  /\ late \in [Turns -> {"none", "open", "dropped"}]
  /\ sent \in [Turns -> [Kind -> Nat]]
  /\ crashes \in 0..MaxCrashes

ChatInit ==
  /\ phase = [t \in Turns |-> "idle"]
  /\ intent = [t \in Turns |-> "none"]
  /\ tokens = [t \in Turns |-> FALSE]
  /\ tx = [t \in Turns |-> "none"]
  /\ flushed = [t \in Turns |-> {}]
  /\ durable = [t \in Turns |-> {}]
  /\ bg = [t \in Turns |-> "none"]
  /\ late = [t \in Turns |-> "none"]
  /\ sent = [t \in Turns |-> [k \in Kind |-> 0]]
  /\ crashes = 0

-----------------------------------------------------------------------------
(* Helpers *)

Goto(t, p) == phase' = [phase EXCEPT ![t] = p]

(* The two dispatches exclude each other: a correction never fans out. *)
TaskFor(i) == IF i = "correction" THEN "correction" ELSE "after_chat"

(* send_task in a thread; a broker failure is logged and swallowed. *)
Publish(t) ==
  \/ sent' = [sent EXCEPT ![t][TaskFor(intent[t])] = @ + 1]
  \/ UNCHANGED sent

-----------------------------------------------------------------------------
(* The generator *)

(* Conversation ensured, question inserted and flushed, history read. *)
Begin(t) ==
  /\ phase[t] = "idle"
  /\ Goto(t, "routing")
  /\ tx' = [tx EXCEPT ![t] = "open"]
  /\ flushed' = [flushed EXCEPT ![t] = {"user"}]
  /\ UNCHANGED <<intent, tokens, durable, bg, late, sent, crashes>>

(* The conversation belongs to someone else, was created meanwhile by a     *)
(* concurrent turn, or the database fails: the exception leaves the         *)
(* generator before anything is caught.                                     *)
BeginFails(t) ==
  /\ DbFails
  /\ phase[t] = "idle"
  /\ Goto(t, "closing")
  /\ tx' = [tx EXCEPT ![t] = "failed"]
  /\ UNCHANGED <<intent, tokens, flushed, durable, bg, late, sent, crashes>>

(* Mutant: the question is committed at once, apart from the answer. *)
ComposeCommitsFirst(t) ==
  /\ phase[t] = "routing"
  /\ Goto(t, "streaming")
  /\ \E i \in Intents : intent' = [intent EXCEPT ![t] = i]
  /\ durable' = [durable EXCEPT ![t] = flushed[t]]
  /\ UNCHANGED <<tokens, tx, flushed, bg, late, sent, crashes>>

(* Mutant: a classifier label outside the enum is let through. *)
ComposeUnvalidated(t) ==
  /\ phase[t] = "routing"
  /\ Goto(t, "streaming")
  /\ \E i \in Intents \cup {"unrouted"} : intent' = [intent EXCEPT ![t] = i]
  /\ UNCHANGED <<tokens, tx, flushed, durable, bg, late, sent, crashes>>

(* Router, loader and composer succeed; the meta event goes out. *)
Compose(t) ==
  /\ phase[t] = "routing"
  /\ Goto(t, "streaming")
  /\ \E i \in Intents : intent' = [intent EXCEPT ![t] = i]
  /\ UNCHANGED <<tokens, tx, flushed, durable, bg, late, sent, crashes>>

(* One of them raises: error event, and the generator returns.  A failed    *)
(* statement also aborts the transaction the question was written in.       *)
ComposeFails(t) ==
  /\ phase[t] = "routing"
  /\ Goto(t, "closing")
  /\ \/ UNCHANGED tx
     \/ DbFails /\ tx' = [tx EXCEPT ![t] = "failed"]
  /\ UNCHANGED <<intent, tokens, flushed, durable, bg, late, sent, crashes>>

(* The first chunk; later chunks change nothing that is modelled. *)
Token(t) ==
  /\ phase[t] = "streaming"
  /\ ~tokens[t]
  /\ tokens' = [tokens EXCEPT ![t] = TRUE]
  /\ UNCHANGED <<phase, intent, tx, flushed, durable, bg, late, sent, crashes>>

(* The stream ends, completed or with an LLMError; either way the finally   *)
(* block awaits the persister inline.                                       *)
StreamEnds(t) ==
  /\ phase[t] = "streaming"
  /\ Goto(t, "flushing")
  /\ UNCHANGED <<intent, tokens, tx, flushed, durable, bg, late, sent, crashes>>

InsertAssistant(t) ==
  /\ phase[t] = "flushing"
  /\ Goto(t, "touching")
  /\ flushed' = [flushed EXCEPT ![t] = @ \cup {"assistant"}]
  /\ UNCHANGED <<intent, tokens, tx, durable, bg, late, sent, crashes>>

(* The conversation's updated_at; its UPDATE goes out with the commit. *)
Touch(t) ==
  /\ phase[t] = "touching"
  /\ Goto(t, "sending")
  /\ UNCHANGED <<intent, tokens, tx, flushed, durable, bg, late, sent, crashes>>

(* One of the two fails; the exception is swallowed and nothing is          *)
(* dispatched, but the session is left in a failed transaction.             *)
InsertFails(t) ==
  /\ DbFails
  /\ phase[t] \in {"flushing", "touching"}
  /\ Goto(t, "closing")
  /\ tx' = [tx EXCEPT ![t] = "failed"]
  /\ UNCHANGED <<intent, tokens, flushed, durable, bg, late, sent, crashes>>

Dispatch(t) ==
  /\ phase[t] = "sending"
  /\ Goto(t, "closing")
  /\ Publish(t)
  /\ UNCHANGED <<intent, tokens, tx, flushed, durable, bg, late, crashes>>

-----------------------------------------------------------------------------
(* The client leaves *)

(* While a statement is in flight the cancellation also breaks the          *)
(* connection, hence the two outcomes for tx.                               *)
LeaveRouting(t) ==
  /\ phase[t] = "routing"
  /\ Goto(t, "closing")
  /\ \E x \in {"open", "failed"} : tx' = [tx EXCEPT ![t] = x]
  /\ UNCHANGED <<intent, tokens, flushed, durable, bg, late, sent, crashes>>

(* CancelledError at the LLM, or GeneratorExit at a delta once the abandoned *)
(* generator is finalised: the persister runs detached.  At the meta event  *)
(* the generator is not yet inside the try, and nothing is persisted.       *)
LeaveStreaming(t) ==
  /\ phase[t] = "streaming"
  /\ Goto(t, "closing")
  /\ \/ bg' = [bg EXCEPT ![t] = "todo"]
     \/ ~tokens[t] /\ UNCHANGED bg
  /\ UNCHANGED <<intent, tokens, tx, flushed, durable, late, sent, crashes>>

(* Cancelled inside the inline INSERT, or while touching: CancelledError is *)
(* not an Exception, so nothing in the persister catches it.                *)
LeaveFlushing(t) ==
  /\ phase[t] \in {"flushing", "touching"}
  /\ Goto(t, "closing")
  /\ tx' = [tx EXCEPT ![t] = "failed"]
  /\ UNCHANGED <<intent, tokens, flushed, durable, bg, late, sent, crashes>>

(* Mutant: a cancelled inline persister is started again, detached. *)
LeaveSendingRetries(t) ==
  /\ phase[t] = "sending"
  /\ Goto(t, "closing")
  /\ Publish(t)
  /\ bg' = [bg EXCEPT ![t] = "todo"]
  /\ UNCHANGED <<intent, tokens, tx, flushed, durable, late, crashes>>

(* Cancelled while archiving or publishing: the publishing thread may or    *)
(* may not have been started.                                               *)
LeaveSending(t) ==
  /\ phase[t] = "sending"
  /\ Goto(t, "closing")
  /\ Publish(t)
  /\ UNCHANGED <<intent, tokens, tx, flushed, durable, bg, late, crashes>>

(* The response is cancelled while it sends a heartbeat: the task that waits *)
(* for the next event is not cancelled and goes on by itself, as far as the *)
(* next yield -- where it is abandoned -- or through the persister.         *)
LeaveAtPing(t) ==
  /\ phase[t] \in {"streaming", "flushing", "touching", "sending"}
  /\ Goto(t, "closing")
  /\ bg' = [bg EXCEPT ![t] = IF phase[t] = "streaming" THEN "todo" ELSE phase[t]]
  /\ tokens' \in {tokens, [tokens EXCEPT ![t] = phase[t] = "streaming" \/ @]}
  /\ UNCHANGED <<intent, tx, flushed, durable, late, sent, crashes>>

-----------------------------------------------------------------------------
(* The detached persister, on the request's session *)

(* Whether the request is through with the session. *)
Closed(t) == tx[t] \in {"committed", "rolledback"}

BgStart(t) ==
  /\ bg[t] = "todo"
  /\ bg' = [bg EXCEPT ![t] = "flushing"]
  /\ UNCHANGED <<phase, intent, tokens, tx, flushed, durable, late, sent, crashes>>

(* Mutant: the detached persister commits on a session of its own. *)
BgInsertOwnSession(t) ==
  /\ bg[t] = "flushing"
  /\ bg' = [bg EXCEPT ![t] = "touching"]
  /\ durable' = [durable EXCEPT ![t] = @ \cup {"assistant"}]
  /\ UNCHANGED <<phase, intent, tokens, tx, flushed, late, sent, crashes>>

(* Before the request has closed the session the row joins the request's    *)
(* transaction; afterwards the session begins the late transaction, and the *)
(* row is never seen.                                                       *)
BgInsertAssistant(t) ==
  /\ bg[t] = "flushing"
  /\ tx[t] # "failed"
  /\ bg' = [bg EXCEPT ![t] = "touching"]
  /\ IF Closed(t)
     THEN /\ late' = [late EXCEPT ![t] = "open"]
          /\ UNCHANGED flushed
     ELSE /\ flushed' = [flushed EXCEPT ![t] = @ \cup {"assistant"}]
          /\ UNCHANGED late
  /\ UNCHANGED <<phase, intent, tokens, tx, durable, sent, crashes>>

(* The same for its SELECT of the conversation. *)
BgTouch(t) ==
  /\ bg[t] = "touching"
  /\ tx[t] # "failed"
  /\ bg' = [bg EXCEPT ![t] = "sending"]
  /\ late' = IF Closed(t) THEN [late EXCEPT ![t] = "open"] ELSE late
  /\ UNCHANGED <<phase, intent, tokens, tx, flushed, durable, sent, crashes>>

(* A statement fails: by itself, in the failed transaction, or because the  *)
(* conversation that it refers to was rolled back.  After a late failure    *)
(* the session keeps its connection, if it had got one.                     *)
BgInsertFails(t) ==
  /\ DbFails \/ tx[t] \in {"failed", "rolledback"}
  /\ bg[t] \in {"flushing", "touching"}
  /\ bg' = [bg EXCEPT ![t] = "over"]
  /\ tx' = [tx EXCEPT ![t] = IF @ = "open" THEN "failed" ELSE @]
  /\ \/ UNCHANGED late
     \/ Closed(t) /\ late' = [late EXCEPT ![t] = "open"]
  /\ UNCHANGED <<phase, intent, tokens, flushed, durable, sent, crashes>>

BgDispatch(t) ==
  /\ bg[t] = "sending"
  /\ bg' = [bg EXCEPT ![t] = "over"]
  /\ Publish(t)
  /\ UNCHANGED <<phase, intent, tokens, tx, flushed, durable, late, crashes>>

(* Nothing refers to the session any more and it is garbage collected: the  *)
(* connection is terminated.  When that happens is the collector's affair.  *)
Collect(t) ==
  /\ bg[t] = "over"
  /\ late[t] = "open"
  /\ late' = [late EXCEPT ![t] = "dropped"]
  /\ UNCHANGED <<phase, intent, tokens, tx, flushed, durable, bg, sent, crashes>>

-----------------------------------------------------------------------------
(* The request closes its session *)

(* A statement of the detached persister is in flight on the session. *)
InFlight(t) == bg[t] \in {"flushing", "touching"}

Commit(t) ==
  /\ phase[t] = "closing"
  /\ tx[t] = "open"
  /\ ~InFlight(t)
  /\ Goto(t, "done")
  /\ tx' = [tx EXCEPT ![t] = "committed"]
  /\ durable' = [durable EXCEPT ![t] = flushed[t]]
  /\ flushed' = [flushed EXCEPT ![t] = {}]
  /\ UNCHANGED <<intent, tokens, bg, late, sent, crashes>>

(* Mutant: a session whose transaction has failed is never closed. *)
RollbackLeaksFailed(t) ==
  /\ phase[t] = "closing"
  /\ tx[t] # "failed" /\ (InFlight(t) \/ DbFails)
  /\ Goto(t, "done")
  /\ tx' = [tx EXCEPT ![t] = "rolledback"]
  /\ flushed' = [flushed EXCEPT ![t] = {}]
  /\ UNCHANGED <<intent, tokens, durable, bg, late, sent, crashes>>

(* The transaction has failed, the detached persister has a statement in    *)
(* flight on the same session and commit() refuses, or the commit itself    *)
(* fails: everything flushed is rolled back.                                *)
Rollback(t) ==
  /\ phase[t] = "closing"
  /\ tx[t] = "failed" \/ InFlight(t) \/ DbFails
  /\ Goto(t, "done")
  /\ tx' = [tx EXCEPT ![t] = "rolledback"]
  /\ flushed' = [flushed EXCEPT ![t] = {}]
  /\ UNCHANGED <<intent, tokens, durable, bg, late, sent, crashes>>

(* The API process dies: open transactions, generators and detached         *)
(* persisters are gone; what is committed or published stays.               *)
Crash ==
  /\ crashes < MaxCrashes
  /\ crashes' = crashes + 1
  /\ phase' = [t \in Turns |-> IF phase[t] = "idle" THEN "idle" ELSE "done"]
  /\ tx' = [t \in Turns |-> IF tx[t] \in {"open", "failed"} THEN "rolledback" ELSE tx[t]]
  /\ flushed' = [t \in Turns |-> {}]
  /\ bg' = [t \in Turns |-> IF bg[t] = "none" THEN "none" ELSE "over"]
  /\ late' = [t \in Turns |-> IF late[t] = "open" THEN "dropped" ELSE late[t]]
  /\ UNCHANGED <<intent, tokens, durable, sent>>

-----------------------------------------------------------------------------
Generator(t) ==
  \/ Begin(t) \/ BeginFails(t) \/ Compose(t) \/ ComposeFails(t)
  \/ Token(t) \/ StreamEnds(t)
  \/ InsertAssistant(t) \/ Touch(t) \/ InsertFails(t) \/ Dispatch(t)

Leave(t) ==
  \/ LeaveRouting(t) \/ LeaveStreaming(t) \/ LeaveFlushing(t)
  \/ LeaveSending(t) \/ LeaveAtPing(t)

Detached(t) ==
  \/ BgStart(t) \/ BgInsertAssistant(t) \/ BgTouch(t) \/ BgInsertFails(t)
  \/ BgDispatch(t)

CloseSession(t) == Commit(t) \/ Rollback(t)

TurnStep(t) ==
  Generator(t) \/ Leave(t) \/ Detached(t) \/ CloseSession(t) \/ Collect(t)

ChatNext == (\E t \in Turns : TurnStep(t)) \/ Crash

(* The event loop keeps running every coroutine that can run, and the LLM   *)
(* client's own timeout ends every stream.  Nobody has to ask or to leave,  *)
(* and the garbage collector need not come.                                 *)
ChatFairness ==
  \A t \in Turns :
    /\ WF_chatVars(Compose(t) \/ ComposeFails(t))
    /\ WF_chatVars(StreamEnds(t))
    /\ WF_chatVars(InsertAssistant(t) \/ Touch(t) \/ InsertFails(t))
    /\ WF_chatVars(Dispatch(t))
    /\ WF_chatVars(Detached(t))
    /\ WF_chatVars(CloseSession(t))

ChatSafety == ChatInit /\ [][ChatNext]_chatVars
ChatSpec == ChatSafety /\ ChatFairness

-----------------------------------------------------------------------------
(* Properties *)

(* Whatever interleaving of generator, detached persister, commit and       *)
(* crash: a committed answer always stands beside its committed question    *)
(* (they are written through one session, orchestrator.py:110 and 270).     *)
AnswerHasQuestion ==
  \A t \in Turns : "assistant" \in durable[t] => "user" \in durable[t]

(* Inline persister, cancelled inline persister and detached persister      *)
(* together publish at most one task for a turn, and a turn that was routed *)
(* as a correction never reaches the extractors ("the two paths must be     *)
(* mutually exclusive", orchestrator.py:300-304).                           *)
OneTaskPerTurn ==
  \A t \in Turns :
    /\ sent[t]["after_chat"] + sent[t]["correction"] <= 1
    /\ sent[t]["after_chat"] = 1 => intent[t] # "correction"
    /\ sent[t]["correction"] = 1 => intent[t] = "correction"

(* What a turn keeps of the database: the request's transaction, or the     *)
(* late one; either holds a connection of the pool.                         *)
Holds(t) == tx[t] \in {"open", "failed"} \/ late[t] = "open"

(* Every turn that was asked comes to an end and stays there: the request   *)
(* closes its transaction (session.py:21-27) and the detached persister is  *)
(* over; and a turn that detached nothing holds nothing ever after.  Of a   *)
(* turn that did detach its persister only this much holds: the transaction *)
(* which a late statement begins on the closed session (orchestrator.py:247 *)
(* and 270) is left open until the session is garbage collected.            *)
TurnTerminates ==
  \A t \in Turns :
    phase[t] # "idle" ~>
      [](/\ phase[t] = "done" /\ tx[t] \notin {"open", "failed"}
         /\ bg[t] \in {"none", "over"}
         /\ bg[t] = "none" => ~Holds(t))

(* How the contract sees a turn: its committed rows, its published task. *)
LogOf(rows) ==
  IF rows = {} THEN "absent"
  ELSE IF "assistant" \in rows THEN "exchange" ELSE "question"

WorkOf(n) ==
  IF n["correction"] > 0 THEN "correction"
  ELSE IF n["after_chat"] > 0 THEN "after_chat" ELSE "none"

Contract == INSTANCE TurnContract WITH
  log  <- [t \in Turns |-> LogOf(durable[t])],
  work <- [t \in Turns |-> WorkOf(sent[t])]

(* The detailed turn implements the contract: a turn becomes visible in one *)
(* transaction, is never taken back, and hands over at most one task.       *)
KeepsContract == Contract!ContractSpec

(* The invariant the design document states for the stream (02-TDD.md:131,  *)
(* repeated in api/chat.py:9-11): once the LLM has produced a token, an     *)
(* assistant message is saved.  Asked of a turn only when its question is   *)
(* saved and its detached persister has run to its end.                     *)
DetachedAnswerSaved ==
  \A t \in Turns :
    "user" \in durable[t] /\ bg[t] = "over" /\ tokens[t]
      => "assistant" \in durable[t]
=============================================================================
