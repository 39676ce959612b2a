--------------------------- MODULE Conversations ---------------------------
(***************************************************************************)
(* The conversations of one user on the server: the rows, and the requests  *)
(* that create, title, list, read and archive them.  A request is a         *)
(* transaction under READ COMMITTED.  The INSERT or UPDATE of a row holds   *)
(* the row's lock until the transaction ends, for a turn that is the end    *)
(* of its stream.  FastAPI runs the commit of a request after its response  *)
(* has been sent, but for the archive, which commits itself.                *)
(*                                                                         *)
(* rows   the committed rows; a title is the number of the request it came  *)
(*        with or was derived from, 0 for none                              *)
(* req    the requests in the order they were sent                          *)
(* lock   which request has an uncommitted write of the row                 *)
(***************************************************************************)
EXTENDS Integers, Sequences, FiniteSets

CONSTANTS Convs, InitialConvs

ASSUME ConversationsAssumption == InitialConvs \subseteq Convs /\ Convs # {}

VARIABLES rows, req, lock

serverVars == <<rows, req, lock>>

(* A conversation is inserted by its first turn or on request, with or      *)
(* without a title.                                                         *)
Inserting == {"turn", "create", "named"}

Kind == Inserting \cup {"archive", "list", "messages"}

Row == [there : BOOLEAN, title : Nat, archived : BOOLEAN]

Request == [kind : Kind, conv : Convs, pc : {"start", "insert", "settitle",
              "stream", "commit", "done"},
            answer : {"none", "ok", "failed"},
            listed : SUBSET Convs, titled : SUBSET Convs,
            inserts : BOOLEAN, titles : BOOLEAN, late : BOOLEAN]

(* The type invariant.  A row is written by at most one open request.       *)
ConvTypeOK ==
  /\ rows \in [Convs -> Row]
  /\ req \in Seq(Request)
  /\ lock \in [Convs -> 0..Len(req)]
  /\ \A r \in DOMAIN req :
       req[r].inserts \/ req[r].titles <=>
         lock[req[r].conv] = r /\ req[r].pc # "done"

ServerInit ==
  /\ rows = [c \in Convs |-> [there |-> c \in InitialConvs, title |-> 0,
                              archived |-> FALSE]]
  /\ req = <<>>
  /\ lock = [c \in Convs |-> 0]

(* A finished request nobody waits for; only its number matters.            *)
Over == [kind |-> "list", conv |-> CHOOSE c \in Convs : TRUE, pc |-> "done",
         answer |-> "ok", listed |-> {}, titled |-> {}, inserts |-> FALSE,
         titles |-> FALSE, late |-> FALSE]

(* The requests, without those that are finished and not waited for.        *)
Remembered(awaited) ==
  [r \in DOMAIN req |->
     IF r \notin awaited /\ (req[r].pc = "done" \/ req[r].kind = "messages")
     THEN Over ELSE req[r]]

(* A request arrives.  "late": its conversation has a title by now.         *)
Sent(kind, c, awaited) ==
  Append(Remembered(awaited), [kind |-> kind, conv |-> c, pc |-> "start", answer |-> "none",
               listed |-> {}, titled |-> {}, inserts |-> FALSE,
               titles |-> FALSE, late |-> rows[c].title # 0])

-----------------------------------------------------------------------------
At(r, kinds, pc) ==
  r \in DOMAIN req /\ req[r].kind \in kinds /\ req[r].pc = pc

Conv(r) == req[r].conv
Free(r) == lock[Conv(r)] \in {0, r}

Goes(r, pc) == req' = [req EXCEPT ![r] = [@ EXCEPT !.pc = pc]]

Ends(r, answer) ==
  /\ req' = [req EXCEPT ![r] =
                [@ EXCEPT !.pc = "done", !.inserts = FALSE, !.titles = FALSE,
                          !.answer = IF req[r].answer = "none" THEN answer ELSE req[r].answer]]
  /\ lock' = [lock EXCEPT ![Conv(r)] = IF @ = r THEN 0 ELSE @]

(* _ensure_conversation, or create_conversation, finds no row.              *)
Begin(r) ==
  /\ At(r, Inserting, "start")
  /\ ~rows[Conv(r)].there
  /\ Goes(r, "insert")
  /\ UNCHANGED <<rows, lock>>

(* create_conversation refuses an id that exists.                           *)
Refuse(r) ==
  /\ At(r, {"create", "named"}, "start")
  /\ rows[Conv(r)].there
  /\ Ends(r, "failed")
  /\ UNCHANGED rows

(* ConversationRepo.create: the INSERT waits for another one of the same    *)
(* id and fails when that one has been committed.  A request may bring a    *)
(* title; a turn titles the row afterwards, which nobody else can see yet.  *)
Insert(r) ==
  LET turn == req[r].kind = "turn"
  IN  /\ At(r, Inserting, "insert")
      /\ Free(r)
      /\ IF rows[Conv(r)].there THEN Ends(r, "failed")
         ELSE /\ req' = [req EXCEPT ![r] =
                           [@ EXCEPT !.inserts = TRUE, !.titles = req[r].kind # "create",
                                     !.pc = IF turn THEN "stream" ELSE "commit",
                                     !.answer = IF turn THEN "none" ELSE "ok"]]
              /\ lock' = [lock EXCEPT ![Conv(r)] = r]
      /\ UNCHANGED rows

(* Mutant: the title is set whether or not there is one.                    *)
ReadNoTitle(r) ==
  /\ At(r, {"turn"}, "start") /\ rows[Conv(r)].there
  /\ Goes(r, "settitle")
  /\ UNCHANGED <<rows, lock>>

(* In a conversation that is there set_title_if_empty reads the row ...     *)
ReadTitle(r) ==
  /\ At(r, {"turn"}, "start") /\ rows[Conv(r)].there
  /\ Goes(r, IF rows[Conv(r)].title = 0 THEN "settitle" ELSE "stream")
  /\ UNCHANGED <<rows, lock>>

(* ... and its UPDATE, flushed before the history is read, waits for the    *)
(* row's lock.                                                              *)
SetTitle(r) ==
  /\ At(r, {"turn"}, "settitle")
  /\ Free(r)
  /\ req' = [req EXCEPT ![r] = [@ EXCEPT !.titles = TRUE, !.pc = "stream"]]
  /\ lock' = [lock EXCEPT ![Conv(r)] = r]
  /\ UNCHANGED rows

(* The stream ends, well or with an error event: the client sees its end.   *)
StreamEnds(r) ==
  /\ At(r, {"turn"}, "stream")
  /\ req' = [req EXCEPT ![r] = [@ EXCEPT !.pc = "commit", !.answer = "ok"]]
  /\ UNCHANGED <<rows, lock>>

(* Mutant: the whole row is written, as the turn read it.                   *)
CommitWholeRow(r) ==
  /\ At(r, Inserting, "commit")
  /\ Free(r)
  /\ rows' = [rows EXCEPT ![Conv(r)] =
                [there |-> TRUE, archived |-> FALSE,
                 title |-> IF req[r].titles THEN r ELSE @.title]]
  /\ Ends(r, "ok")

(* The request's commit.  A turn also touches updated_at, with or without   *)
(* an earlier write of its own; each UPDATE names the changed columns only. *)
Commit(r) ==
  /\ At(r, Inserting, "commit")
  /\ Free(r)
  /\ rows' = [rows EXCEPT ![Conv(r)] =
                [@ EXCEPT !.there = TRUE,
                          !.title = IF req[r].titles THEN r ELSE rows[Conv(r)].title]]
  /\ Ends(r, "ok")

(* delete_conversation: waits for the lock, commits, answers.               *)
Archive(r) ==
  /\ At(r, {"archive"}, "start")
  /\ IF ~rows[Conv(r)].there THEN UNCHANGED rows /\ Ends(r, "failed")
     ELSE /\ Free(r)
          /\ rows' = [rows EXCEPT ![Conv(r)] = [@ EXCEPT !.archived = TRUE]]
          /\ Ends(r, "ok")

(* list_conversations: what is not archived, and which of them have titles. *)
List(r) ==
  LET seen == {c \in Convs : rows[c].there /\ ~rows[c].archived}
  IN  /\ At(r, {"list"}, "start")
      /\ req' = [req EXCEPT ![r] =
                   [@ EXCEPT !.pc = "done", !.answer = "ok", !.listed = seen,
                             !.titled = {c \in seen : rows[c].title # 0}]]
      /\ UNCHANGED <<rows, lock>>

(* list_messages answers for archived conversations too.  Its answer is     *)
(* about a row that, once there, stays: it is read when it arrives.         *)
Answered(r) == req[r].answer # "none" \/ req[r].kind = "messages"
Ok(r) == IF req[r].kind = "messages" /\ req[r].answer = "none"
         THEN rows[Conv(r)].there ELSE req[r].answer = "ok"

(* Mutant: the transaction of a request that fails is left open.            *)
FailsOpen(r) ==
  /\ r \in DOMAIN req /\ req[r].pc # "done"
  /\ req' = [req EXCEPT ![r].pc = "done", ![r].answer = IF @ = "none" THEN "failed" ELSE @]
  /\ UNCHANGED <<rows, lock>>

(* The request fails, or its commit does after it was answered: rolled back.*)
Fails(r) ==
  /\ r \in DOMAIN req /\ req[r].pc # "done"
  /\ Ends(r, "failed")
  /\ UNCHANGED rows

Serve(r) ==
  \/ Begin(r) \/ Refuse(r) \/ Insert(r) \/ ReadTitle(r) \/ SetTitle(r)
  \/ StreamEnds(r) \/ Commit(r) \/ Archive(r) \/ List(r)

-----------------------------------------------------------------------------
(* Nobody waits in a circle: who has a row's lock is not waiting for one,   *)
(* so that the longest wait is for a stream to end.                         *)
NoWaitInCircle ==
  \A c \in Convs : lock[c] # 0 =>
    Conv(lock[c]) = c /\ req[lock[c]].pc \in {"stream", "commit"}

(* A turn that was sent when the conversation had a title never changes it, *)
(* whatever else is under way: set_title_if_empty's promise, as far as      *)
(* turns do not overlap.                                                    *)
TitleKept ==
  [][\A c \in Convs :
       rows[c].title # 0 /\ rows'[c].title # rows[c].title
         => ~req[rows'[c].title].late]_serverVars

(* An archived conversation stays archived, although turns that began       *)
(* before go on writing its row.                                            *)
ArchivedStays ==
  [][\A c \in Convs : rows[c].archived => rows'[c].archived]_serverVars
=============================================================================
