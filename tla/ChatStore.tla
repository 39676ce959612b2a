----------------------------- MODULE ChatStore -----------------------------
(***************************************************************************)
(* The web client's chat store over the conversations of the server, with   *)
(* another device of the same user beside it.  The store's actions are      *)
(* coroutines: each awaits one request at a time, and several may be under  *)
(* way; answers come in any order.                                          *)
(*                                                                         *)
(* active    activeId                                                       *)
(* list      conversations: the listed ones and which of them have titles   *)
(* shown     the conversation the turns on the screen are of                *)
(* sending   the flag that disables the input                               *)
(* waits     what each outstanding request resumes                          *)
(* failed, overtaken   history: a request failed; the messages of a         *)
(*           conversation arrived before those asked for earlier            *)
(***************************************************************************)
EXTENDS Conversations

CONSTANTS NoConv, MaxActs, MaxSurprises

ASSUME StoreAssumption ==
  NoConv \notin Convs /\ MaxActs \in Nat /\ MaxSurprises \in Nat

VARIABLES active, list, shown, sending, waits, failed, overtaken, acts, surprises

clientVars == <<active, list, shown, sending, waits, failed, overtaken, acts>>
vars == <<serverVars, clientVars, surprises>>

Resumes == {"mount", "mounted", "view", "created", "dropped", "stream", "reload", "titles"}

Init ==
  /\ ServerInit
  /\ active = NoConv /\ shown = NoConv /\ sending = FALSE
  /\ list = [listed |-> {}, titled |-> {}]
  /\ waits = {} /\ failed = FALSE /\ overtaken = FALSE
  /\ acts = 0 /\ surprises = 0

(* A request is sent and its answer awaited, beside the others.             *)
Await(kind, c, resume, others) ==
  /\ req' = Sent(kind, c, {w.req : w \in others})
  /\ waits' = others \cup {[req |-> Len(req) + 1, resume |-> resume]}
  /\ UNCHANGED <<rows, lock>>

(* A list request is about no conversation in particular.                   *)
Any == CHOOSE c \in Convs : TRUE

(* Nothing further is awaited by this action.                               *)
Returns(others) ==
  /\ waits' = others
  /\ req' = Remembered({w.req : w \in others})
  /\ UNCHANGED <<rows, lock>>

-----------------------------------------------------------------------------
(* The user                                                                 *)
Acts ==
  /\ acts < MaxActs /\ acts' = acts + 1
  /\ UNCHANGED <<failed, overtaken, surprises>>

(* An id nobody uses.                                                       *)
Fresh == {c \in Convs : ~rows[c].there /\ \A r \in DOMAIN req : Conv(r) # c}

(* onMounted, refreshList.                                                  *)
Mount ==
  /\ Acts /\ acts = 0
  /\ Await("list", Any, "mount", waits)
  /\ UNCHANGED <<active, list, shown, sending>>

NewConversation ==
  /\ Acts /\ acts > 0
  /\ \E c \in Fresh : Await("create", c, "created", waits)
  /\ UNCHANGED <<active, list, shown, sending>>

Select(c) ==
  /\ Acts /\ c \in list.listed
  /\ active' = c
  /\ Await("messages", c, "view", waits)
  /\ UNCHANGED <<list, shown, sending>>

DropConversation(c) ==
  /\ Acts /\ c \in list.listed
  /\ Await("archive", c, "dropped", waits)
  /\ UNCHANGED <<active, list, shown, sending>>

Send ==
  /\ Acts /\ active # NoConv /\ ~sending
  /\ sending' = TRUE
  /\ Await("turn", active, "stream", waits)
  /\ UNCHANGED <<active, list, shown>>

-----------------------------------------------------------------------------
(* What an answer resumes                                                   *)

(* The answer of request r is taken; it may be one nobody counted on.       *)
Takes(r, resume) ==
  /\ [req |-> r, resume |-> resume] \in waits
  /\ Answered(r)
  /\ failed' = (failed \/ ~Ok(r))
  /\ overtaken' = (overtaken \/
       /\ req[r].kind = "messages"
       /\ \E w \in waits : w.req < r /\ req[w.req].kind = "messages")
  /\ UNCHANGED <<acts, surprises>>

Others(r) == {w \in waits : w.req # r}

(* The action throws: the view reports it, the store stays as it is.        *)
Rejected(r, resume) ==
  /\ resume \in {"mount", "mounted", "view", "created", "dropped"}
  /\ Takes(r, resume) /\ ~Ok(r)
  /\ Returns(Others(r))
  /\ UNCHANGED <<active, list, shown, sending>>

(* The list's limit, 50 conversations, is not reached.                      *)
Listed(r) == [listed |-> req[r].listed, titled |-> req[r].titled]

OnMount(r) ==
  /\ Takes(r, "mount") /\ Ok(r)
  /\ list' = Listed(r)
  /\ \/ /\ active = NoConv
        /\ \E c \in req[r].listed :
             active' = c /\ Await("messages", c, "mounted", Others(r))
     \/ /\ active = NoConv /\ req[r].listed = {}
        /\ \E c \in Fresh : Await("create", c, "created", Others(r))
        /\ UNCHANGED active
     \/ /\ active # NoConv
        /\ Returns(Others(r)) /\ UNCHANGED active
  /\ UNCHANGED <<shown, sending>>

OnCreated(r) ==
  /\ Takes(r, "created") /\ Ok(r)
  /\ list' = [list EXCEPT !.listed = @ \cup {Conv(r)}]
  /\ active' = Conv(r)
  /\ Await("messages", Conv(r), "view", Others(r))
  /\ UNCHANGED <<shown, sending>>

OnView(r) ==
  /\ Takes(r, "view") /\ Ok(r)
  /\ shown' = Conv(r)
  /\ Returns(Others(r))
  /\ UNCHANGED <<active, list, sending>>

(* onMounted goes on: where everything was dropped meanwhile, it begins a   *)
(* conversation.                                                            *)
OnMounted(r) ==
  /\ Takes(r, "mounted") /\ Ok(r)
  /\ shown' = Conv(r)
  /\ \/ /\ active = NoConv /\ list.listed = {}
        /\ \E c \in Fresh : Await("create", c, "created", Others(r))
     \/ /\ active # NoConv \/ list.listed # {}
        /\ Returns(Others(r))
  /\ UNCHANGED <<active, list, sending>>

OnDropped(r) ==
  LET left == list.listed \ {Conv(r)}
  IN  /\ Takes(r, "dropped") /\ Ok(r)
      /\ list' = [listed |-> left, titled |-> list.titled \ {Conv(r)}]
      /\ \/ /\ active = Conv(r)
            /\ shown' = NoConv
            /\ \/ \E c \in left : active' = c /\ Await("messages", c, "view", Others(r))
               \/ left = {} /\ active' = NoConv /\ Returns(Others(r))
         \/ /\ active # Conv(r)
            /\ Returns(Others(r)) /\ UNCHANGED <<active, shown>>
      /\ UNCHANGED sending

(* Mutant: what was sent to is reloaded, not what is active.                *)
OnStreamSentTo(r) ==
  /\ Takes(r, "stream")
  /\ Await("messages", Conv(r), "reload", Others(r)) /\ UNCHANGED sending
  /\ UNCHANGED <<active, list, shown>>

(* The stream is over; an error status is an event like others, a broken    *)
(* connection throws.  reloadCurrent asks for what is active now.           *)
OnStream(r) ==
  /\ Takes(r, "stream")
  /\ \/ active # NoConv /\ Await("messages", active, "reload", Others(r))
                        /\ UNCHANGED sending
     \/ (~Ok(r) \/ active = NoConv) /\ Returns(Others(r)) /\ sending' = FALSE
  /\ UNCHANGED <<active, list, shown>>

(* Mutant: a failed reload does not reach the end of send.                  *)
OnReloadStuck(r) ==
  /\ Takes(r, "reload")
  /\ shown' = IF Ok(r) THEN Conv(r) ELSE shown
  /\ IF Ok(r) /\ active \in list.listed \ list.titled
     THEN Await("list", Any, "titles", Others(r)) /\ UNCHANGED sending
     ELSE Returns(Others(r)) /\ sending' = ~Ok(r)
  /\ UNCHANGED <<active, list>>

OnReload(r) ==
  /\ Takes(r, "reload")
  /\ shown' = IF Ok(r) THEN Conv(r) ELSE shown
  /\ IF Ok(r) /\ active \in list.listed \ list.titled
     THEN Await("list", Any, "titles", Others(r)) /\ UNCHANGED sending
     ELSE Returns(Others(r)) /\ sending' = FALSE
  /\ UNCHANGED <<active, list>>

OnTitles(r) ==
  /\ Takes(r, "titles")
  /\ list' = IF Ok(r) THEN Listed(r) ELSE list
  /\ sending' = FALSE
  /\ Returns(Others(r))
  /\ UNCHANGED <<active, shown>>

Resume(r) ==
  \/ \E resume \in Resumes : Rejected(r, resume)
  \/ OnMount(r) \/ OnMounted(r) \/ OnCreated(r) \/ OnView(r) \/ OnDropped(r)
  \/ OnStream(r) \/ OnReload(r) \/ OnTitles(r)

Surprise == surprises < MaxSurprises /\ surprises' = surprises + 1

(* The other device: a turn in a conversation it knows, its archive, or a   *)
(* new conversation with an id, and perhaps a title, of its own choice.     *)
Elsewhere(kind, c) ==
  /\ Surprise
  /\ kind \in IF rows[c].there THEN {"turn", "archive", "create"}
                                   ELSE {"create", "named"}
  /\ req' = Sent(kind, c, {w.req : w \in waits})
  /\ UNCHANGED <<rows, lock, clientVars>>

Next ==
  \/ Mount \/ NewConversation \/ Send
  \/ \E c \in Convs : Select(c) \/ DropConversation(c)
                      \/ \E kind \in Kind : Elsewhere(kind, c)
  \/ \E r \in DOMAIN req : Resume(r)
  \/ \E r \in DOMAIN req : Serve(r) /\ UNCHANGED <<clientVars, surprises>>
  \/ \E r \in DOMAIN req : Fails(r) /\ Surprise /\ UNCHANGED clientVars

Spec == Init /\ [][Next]_vars

-----------------------------------------------------------------------------
(* When nothing is awaited, the messages on the screen are those of the     *)
(* conversation that is marked active, provided no request failed and no    *)
(* messages overtook others (chat.ts:48 assigns whatever comes last).       *)
SettledViewIsActive ==
  waits = {} /\ ~failed /\ ~overtaken /\ active # NoConv => shown = active

(* The input is disabled exactly while one answer is awaited that leads to  *)
(* its being enabled again: send has one continuation, whatever fails in it *)
(* and whatever is selected or dropped meanwhile.                           *)
Sends == {w \in waits : w.resume \in {"stream", "reload", "titles"}}

SendingIsAwaited ==
  /\ sending <=> Sends # {}
  /\ \A v, w \in Sends : v = w
=============================================================================
