-------------------------- MODULE WorkspaceProofs --------------------------
(***************************************************************************)
(* The conversations and the client's store, for any set of conversations   *)
(* and any number of acts and surprises; and the accounts, for any          *)
(* addresses, passwords and number of requests.                             *)
(***************************************************************************)
EXTENDS ChatStore, Accounts, TLAPS

-----------------------------------------------------------------------------
(* The conversations and the chat store.  The server's half of the invariant *)
(* says who may hold a row's lock and what a request that was sent late can *)
(* no longer do; the client's half that every outstanding request resumes   *)
(* one thing.                                                               *)
-----------------------------------------------------------------------------

(* A lock belongs to a turn or a creation that only has to end its stream   *)
(* and to commit.                                                           *)
Holds(c, r) ==
  /\ r \in DOMAIN req /\ req[r].conv = c
  /\ req[r].kind \in Inserting /\ req[r].pc \in {"stream", "commit"}

LockInv ==
  /\ \A c \in Convs : lock[c] # 0 => Holds(c, lock[c])
  /\ \A r \in DOMAIN req :
       req[r].pc \in {"insert", "settitle", "stream", "commit"} => req[r].kind \in Inserting

(* A request that was sent when there was a title has found the row, or     *)
(* will, and does not set the title.                                        *)
TitleInv ==
  /\ \A c \in Convs : rows[c].title # 0 => rows[c].there
  /\ \A r \in DOMAIN req : req[r].late =>
       /\ ~req[r].titles /\ req[r].pc \notin {"insert", "settitle"}
       /\ rows[req[r].conv].title # 0

ServerInv == ConvTypeOK /\ LockInv /\ TitleInv

(* What is awaited has been sent, and resumes one thing.                    *)
WaitsInv ==
  /\ \A w \in waits : w \in [req : 1..Len(req), resume : Resumes]
  /\ \A v, w \in waits : v.req = w.req => v = w

StoreTypes == active \in Convs \cup {NoConv} /\ list.listed \subseteq Convs

StoreInv == ServerInv /\ WaitsInv /\ StoreTypes /\ SendingIsAwaited

-----------------------------------------------------------------------------
LEMMA StoreInit == Init => StoreInv
BY ConversationsAssumption
DEF Init, ServerInit, StoreInv, ServerInv, ConvTypeOK, LockInv, TitleInv, Row, WaitsInv,
    StoreTypes, SendingIsAwaited, Sends

(* Forgetting finished requests leaves the others, and their numbers.       *)
LEMMA RememberedFacts ==
  ASSUME ConvTypeOK, NEW S
  PROVE  /\ Remembered(S) \in Seq(Request) /\ Len(Remembered(S)) = Len(req)
         /\ DOMAIN Remembered(S) = DOMAIN req
         /\ Over \in Request /\ Over.pc = "done" /\ ~Over.inserts /\ ~Over.titles /\ ~Over.late
         /\ \A r \in DOMAIN req :
              \/ Remembered(S)[r] = req[r]
              \/ Remembered(S)[r] = Over /\ (req[r].pc = "done" \/ req[r].kind = "messages")
<1>1. req \in Seq(Request)
  BY DEF ConvTypeOK
<1>2. (CHOOSE c \in Convs : TRUE) \in Convs
  BY ConversationsAssumption
<1>3. Over \in Request /\ Over.pc = "done" /\ ~Over.inserts /\ ~Over.titles /\ ~Over.late
  BY <1>2 DEF Over, Request, Kind
<1>4. DOMAIN req = 1..Len(req) /\ Len(req) \in Nat
  BY <1>1
<1>5. \A r \in DOMAIN req : Remembered(S)[r] \in Request
  BY <1>1, <1>3 DEF Remembered
<1>6. Remembered(S) \in [1..Len(req) -> Request]
  BY <1>4, <1>5 DEF Remembered
<1>7. Remembered(S) \in Seq(Request) /\ Len(Remembered(S)) = Len(req)
  BY <1>4, <1>6
<1>8. QED
  BY <1>3, <1>4, <1>7 DEF Remembered

(* So it disturbs no invariant of the server.                               *)
LEMMA RememberStep ==
  ASSUME ServerInv, NEW S, req' = Remembered(S), UNCHANGED <<rows, lock>>
  PROVE  ServerInv'
<1>1. ConvTypeOK'
  <2>1. /\ req' \in Seq(Request) /\ Len(req') = Len(req) /\ DOMAIN req' = DOMAIN req
        /\ Over.pc = "done" /\ ~Over.inserts /\ ~Over.titles
        /\ \A r \in DOMAIN req :
             req'[r] = req[r] \/ (req'[r] = Over /\ (req[r].pc = "done" \/ req[r].kind = "messages"))
    BY RememberedFacts DEF ServerInv
  <2>2. rows' \in [Convs -> Row] /\ lock' \in [Convs -> 0..Len(req')]
    BY <2>1 DEF ServerInv, ConvTypeOK
  <2>3. ASSUME NEW r \in DOMAIN req'
        PROVE  req'[r].inserts \/ req'[r].titles <=>
                 lock'[req'[r].conv] = r /\ req'[r].pc # "done"
    BY <2>1 DEF ServerInv, ConvTypeOK
  <2>4. QED
    BY <2>1, <2>2, <2>3 DEF ConvTypeOK
<1>2. LockInv'
  BY RememberedFacts DEF ServerInv, LockInv, Holds, Inserting
<1>3. TitleInv'
  BY RememberedFacts DEF ServerInv, TitleInv
<1>4. QED
  BY <1>1, <1>2, <1>3 DEF ServerInv

LEMMA RequestFacts ==
  ASSUME ConvTypeOK, NEW r \in DOMAIN req
  PROVE  req[r] \in Request /\ req[r].conv \in Convs /\ r \in Nat \ {0}
<1>1. req[r] \in Request /\ r \in Nat \ {0}
  <2>1. req \in Seq(Request)
    BY DEF ConvTypeOK
  <2>2. QED
    BY <2>1
<1>2. QED
  BY <1>1 DEF Request

LEMMA SentStep ==
  ASSUME ServerInv, NEW S, NEW c \in Convs, NEW kind \in Kind,
         req' = Sent(kind, c, S), UNCHANGED <<rows, lock>>
  PROVE  ServerInv' /\ Len(req') = Len(req) + 1
<1> DEFINE new == [kind |-> kind, conv |-> c, pc |-> "start", answer |-> "none",
                   listed |-> {}, titled |-> {}, inserts |-> FALSE, titles |-> FALSE,
                   late |-> rows[c].title # 0]
           old == Remembered(S)
           n == Len(req) + 1
<1>1. /\ new \in Request /\ new.pc = "start" /\ new.conv = c /\ ~new.inserts /\ ~new.titles
      /\ new.late => rows[c].title # 0
  BY DEF Request
<1>2. req' = Append(old, new)
  BY DEF Sent
<1> HIDE DEF new
<1>3. /\ old \in Seq(Request) /\ Len(old) = Len(req) /\ DOMAIN old = DOMAIN req
      /\ Over.pc = "done" /\ ~Over.inserts /\ ~Over.titles /\ ~Over.late
      /\ \A r \in DOMAIN req :
           old[r] = req[r] \/ (old[r] = Over /\ (req[r].pc = "done" \/ req[r].kind = "messages"))
  BY RememberedFacts DEF ServerInv
<1>4. req \in Seq(Request) /\ lock \in [Convs -> 0..Len(req)] /\ rows \in [Convs -> Row]
  BY DEF ServerInv, ConvTypeOK
<1> HIDE DEF old
<1>5. /\ req' \in Seq(Request) /\ Len(req') = n /\ n \in Nat /\ n \notin DOMAIN req
      /\ DOMAIN req' = DOMAIN req \cup {n}
      /\ req'[n] = new
      /\ \A r \in DOMAIN req : req'[r] = old[r]
      /\ \A d \in Convs : lock[d] # n /\ lock[d] \in 0..n
  BY <1>1, <1>2, <1>3, <1>4
<1>6. ConvTypeOK'
  <2>1. rows' \in [Convs -> Row] /\ lock' \in [Convs -> 0..Len(req')]
    BY <1>4, <1>5
  <2>2. ASSUME NEW r \in DOMAIN req'
        PROVE  req'[r].inserts \/ req'[r].titles <=>
                 lock'[req'[r].conv] = r /\ req'[r].pc # "done"
    <3>1. CASE r = n
      BY <1>1, <1>5, <3>1
    <3>2. CASE r \in DOMAIN req
      BY <1>3, <1>5, <3>2 DEF ServerInv, ConvTypeOK
    <3>3. QED
      BY <1>5, <3>1, <3>2
  <2>3. QED
    BY <1>5, <2>1, <2>2 DEF ConvTypeOK
<1>7. LockInv'
  <2>1. ASSUME NEW d \in Convs, lock'[d] # 0 PROVE Holds(d, lock[d])'
    <3>1. lock'[d] = lock[d] /\ Holds(d, lock[d])
      BY <2>1 DEF ServerInv, LockInv
    <3>2. old[lock[d]] = req[lock[d]]
      BY <1>3, <3>1 DEF Holds, Inserting
    <3>3. QED
      BY <1>5, <3>1, <3>2 DEF Holds
  <2>2. ASSUME NEW q \in DOMAIN req',
               req'[q].pc \in {"insert", "settitle", "stream", "commit"}
        PROVE  req'[q].kind \in Inserting
    BY <1>1, <1>3, <1>5, <2>2 DEF ServerInv, LockInv
  <2>3. QED
    BY <2>1, <2>2 DEF LockInv
<1>8. TitleInv'
  BY <1>1, <1>3, <1>5 DEF ServerInv, TitleInv
<1>9. QED
  BY <1>5, <1>6, <1>7, <1>8 DEF ServerInv

-----------------------------------------------------------------------------
(* The requests of the server: a request that moves on by itself.           *)
LEMMA MoveStep ==
  ASSUME ServerInv, NEW r \in DOMAIN req, NEW x \in Request,
         req' = [req EXCEPT ![r] = x], UNCHANGED <<rows, lock>>,
         x.kind = req[r].kind, x.conv = req[r].conv, x.late = req[r].late,
         x.inserts = req[r].inserts, x.titles = req[r].titles,
         x.pc = "done" => lock[x.conv] # r,
         req[r].pc # "done",
         lock[x.conv] = r => x.pc \in {"stream", "commit"},
         x.pc \in {"insert", "settitle"} => ~x.late,
         x.pc \in {"insert", "settitle", "stream", "commit"} => x.kind \in Inserting
  PROVE  ServerInv'
<1>1. /\ req' \in Seq(Request) /\ Len(req') = Len(req) /\ DOMAIN req' = DOMAIN req
      /\ req'[r] = x /\ \A q \in DOMAIN req : q # r => req'[q] = req[q]
  BY DEF ServerInv, ConvTypeOK
<1>2. ConvTypeOK'
  <2>1. rows' \in [Convs -> Row] /\ lock' \in [Convs -> 0..Len(req')]
    BY <1>1 DEF ServerInv, ConvTypeOK
  <2>2. ASSUME NEW q \in DOMAIN req
        PROVE  req'[q].inserts \/ req'[q].titles <=>
                 lock'[req'[q].conv] = q /\ req'[q].pc # "done"
    BY <1>1 DEF ServerInv, ConvTypeOK
  <2>3. QED
    BY <1>1, <2>1, <2>2 DEF ConvTypeOK
<1>3. LockInv'
  BY <1>1 DEF ServerInv, LockInv, Holds
<1>4. TitleInv'
  BY <1>1 DEF ServerInv, TitleInv
<1>5. QED
  BY <1>2, <1>3, <1>4 DEF ServerInv

(* The end of a request, with or without its write, releases its lock.      *)
LEMMA EndStep ==
  ASSUME ServerInv, NEW r \in DOMAIN req, NEW a \in {"ok", "failed"}, Ends(r, a),
         rows' \in [Convs -> Row],
         \A c \in Convs : /\ rows[c].title # 0 => rows'[c].title # 0
                          /\ rows'[c].title # 0 => rows'[c].there
  PROVE  ServerInv'
<1> DEFINE x == [req[r] EXCEPT !.pc = "done", !.inserts = FALSE, !.titles = FALSE,
                               !.answer = IF req[r].answer = "none" THEN a ELSE req[r].answer]
<1>1. req \in Seq(Request) /\ req[r] \in Request /\ lock \in [Convs -> 0..Len(req)]
  BY DEF ServerInv, ConvTypeOK
<1>2. /\ x \in Request /\ x.pc = "done" /\ ~x.inserts /\ ~x.titles
      /\ x.conv = req[r].conv /\ x.late = req[r].late
  BY <1>1 DEF Request
<1>3. req' = [req EXCEPT ![r] = x]
  BY DEF Ends
<1> HIDE DEF x
<1>4. /\ req' \in Seq(Request) /\ Len(req') = Len(req) /\ DOMAIN req' = DOMAIN req
      /\ req'[r] = x /\ \A q \in DOMAIN req : q # r => req'[q] = req[q]
  BY <1>1, <1>2, <1>3
<1>5. /\ lock' \in [Convs -> 0..Len(req)]
      /\ \A c \in Convs : lock'[c] = IF lock[c] = r THEN 0 ELSE lock[c]
  <2>1. req[r].conv \in Convs /\ r # 0
    BY RequestFacts DEF ServerInv
  <2>2. \A c \in Convs : lock[c] = r => c = req[r].conv
    BY <2>1 DEF ServerInv, LockInv, Holds
  <2>3. QED
    BY <1>1, <2>1, <2>2 DEF Ends, Conv
<1>6. ConvTypeOK'
  <2>1. ASSUME NEW q \in DOMAIN req
        PROVE  req'[q].inserts \/ req'[q].titles <=>
                 lock'[req'[q].conv] = q /\ req'[q].pc # "done"
    <3>1. req[q].conv \in Convs
      BY RequestFacts DEF ServerInv
    <3>2. QED
      BY <1>2, <1>4, <1>5, <3>1 DEF ServerInv, ConvTypeOK
  <2>2. QED
    BY <1>4, <1>5, <2>1 DEF ConvTypeOK
<1>7. LockInv'
  <2>1. ASSUME NEW c \in Convs, lock'[c] # 0 PROVE Holds(c, lock[c])'
    <3>1. lock'[c] = lock[c] /\ lock[c] # r /\ Holds(c, lock[c])
      BY <1>5, <2>1 DEF ServerInv, LockInv
    <3>2. QED
      BY <1>4, <3>1 DEF Holds
  <2>2. \A q \in DOMAIN req' :
          req'[q].pc \in {"insert", "settitle", "stream", "commit"}
            => req'[q].kind \in Inserting
    BY <1>2, <1>4 DEF ServerInv, LockInv
  <2>3. QED
    BY <2>1, <2>2 DEF LockInv
<1>8. TitleInv'
  <2>1. \A q \in DOMAIN req : req[q].conv \in Convs
    BY RequestFacts DEF ServerInv
  <2>2. QED
    BY <1>2, <1>4, <2>1 DEF ServerInv, TitleInv
<1>9. QED
  BY <1>6, <1>7, <1>8 DEF ServerInv

(* A request takes the lock of its row when that is free, or keeps it.      *)
LEMMA LockStep ==
  ASSUME ServerInv, NEW r \in DOMAIN req, NEW x \in Request, UNCHANGED rows,
         req' = [req EXCEPT ![r] = x], lock' = [lock EXCEPT ![x.conv] = r],
         lock[x.conv] \in {0, r}, x.kind = req[r].kind, x.conv = req[r].conv,
         x.late = req[r].late, x.inserts \/ x.titles, x.late => ~x.titles,
         x.kind \in Inserting, x.pc \in {"stream", "commit"}
  PROVE  ServerInv'
<1>0. /\ req \in Seq(Request) /\ lock \in [Convs -> 0..Len(req)]
      /\ x.conv \in Convs /\ r \in Nat \ {0}
  BY RequestFacts DEF ServerInv, ConvTypeOK
<1>1. /\ req' \in Seq(Request) /\ Len(req') = Len(req) /\ DOMAIN req' = DOMAIN req
      /\ req'[r] = x /\ \A q \in DOMAIN req : q # r => req'[q] = req[q]
      /\ lock' \in [Convs -> 0..Len(req)]
      /\ \A c \in Convs : lock'[c] = IF c = x.conv THEN r ELSE lock[c]
  BY <1>0
<1>2. ConvTypeOK'
  <2>1. ASSUME NEW q \in DOMAIN req
        PROVE  req'[q].inserts \/ req'[q].titles <=>
                 lock'[req'[q].conv] = q /\ req'[q].pc # "done"
    <3>1. req[q].conv \in Convs /\ q # 0
      BY RequestFacts DEF ServerInv
    <3>2. QED
      BY <1>0, <1>1, <3>1 DEF ServerInv, ConvTypeOK
  <2>2. QED
    BY <1>1, <2>1 DEF ServerInv, ConvTypeOK
<1>3. LockInv'
  <2>1. ASSUME NEW d \in Convs, lock'[d] # 0 PROVE Holds(d, lock[d])'
    <3>1. CASE d = x.conv
      BY <1>1, <3>1 DEF Holds
    <3>2. CASE d # x.conv
      <4>1. lock'[d] = lock[d] /\ Holds(d, lock[d])
        BY <1>1, <2>1, <3>2 DEF ServerInv, LockInv
      <4>2. lock[d] # r
        BY <3>2, <4>1 DEF Holds
      <4>3. QED
        BY <1>1, <4>1, <4>2 DEF Holds
    <3>3. QED
      BY <3>1, <3>2
  <2>2. \A q \in DOMAIN req' :
          req'[q].pc \in {"insert", "settitle", "stream", "commit"}
            => req'[q].kind \in Inserting
    BY <1>1 DEF ServerInv, LockInv
  <2>3. QED
    BY <2>1, <2>2 DEF LockInv
<1>4. TitleInv'
  BY <1>1 DEF ServerInv, TitleInv
<1>5. QED
  BY <1>2, <1>3, <1>4 DEF ServerInv

(* A request that does nothing yet: it reads, or its answer is made.        *)
LEMMA GoesStep ==
  ASSUME ServerInv, NEW r \in DOMAIN req, NEW p \in {"insert", "settitle", "stream"},
         Goes(r, p), UNCHANGED <<rows, lock>>,
         req[r].kind \in Inserting, req[r].pc = "start",
         p \in {"insert", "settitle"} => ~req[r].late
  PROVE  ServerInv'
<1> DEFINE x == [req[r] EXCEPT !.pc = p]
<1>1. req[r] \in Request /\ req[r].conv \in Convs /\ r # 0
  BY RequestFacts DEF ServerInv
<1>2. /\ x \in Request /\ x.kind = req[r].kind /\ x.conv = req[r].conv
      /\ x.late = req[r].late /\ x.inserts = req[r].inserts /\ x.titles = req[r].titles
      /\ x.pc = p
  BY <1>1 DEF Request
<1>3. req' = [req EXCEPT ![r] = x]
  BY DEF Goes
<1>4. lock[req[r].conv] # r
  BY <1>1 DEF ServerInv, LockInv, Holds
<1> HIDE DEF x
<1>5. QED
  BY <1>2, <1>3, <1>4, MoveStep

LEMMA EndsQuietly ==
  ASSUME ServerInv, NEW r \in DOMAIN req, NEW a \in {"ok", "failed"}, Ends(r, a),
         UNCHANGED rows
  PROVE  ServerInv'
<1>1. /\ rows \in [Convs -> Row]
      /\ \A c \in Convs : rows[c].title # 0 => rows[c].there
  BY DEF ServerInv, ConvTypeOK, TitleInv
<1>2. QED
  BY <1>1, EndStep

(* Every step of the server preserves its half of the invariant.            *)
LEMMA ServeStep ==
  ASSUME ServerInv, NEW r \in DOMAIN req, Serve(r) \/ Fails(r)
  PROVE  ServerInv'
<1>0. /\ req[r] \in Request /\ Conv(r) = req[r].conv /\ Conv(r) \in Convs
      /\ r \in Nat \ {0} /\ rows \in [Convs -> Row]
      /\ req[r].late => rows[Conv(r)].there
  BY RequestFacts DEF ServerInv, Conv, ConvTypeOK, TitleInv
<1>1. CASE Begin(r)
  BY <1>0, <1>1, GoesStep DEF Begin, At
<1>2. CASE Refuse(r)
  BY <1>2, EndsQuietly DEF Refuse
<1>3. CASE Insert(r)
  <2> DEFINE turn == req[r].kind = "turn"
             x == [req[r] EXCEPT !.inserts = TRUE, !.titles = req[r].kind # "create",
                                 !.pc = IF turn THEN "stream" ELSE "commit",
                                 !.answer = IF turn THEN "none" ELSE "ok"]
  <2>1. req[r].kind \in Inserting /\ req[r].pc = "insert" /\ Free(r) /\ ~req[r].late
    BY <1>3 DEF Insert, At, ServerInv, TitleInv
  <2>2. CASE rows[Conv(r)].there
    BY <1>3, <2>2, EndsQuietly DEF Insert
  <2>3. CASE ~rows[Conv(r)].there
    <3>1. /\ x \in Request /\ x.kind = req[r].kind /\ x.conv = req[r].conv
          /\ x.late = req[r].late /\ x.inserts /\ x.pc \in {"stream", "commit"}
      BY <1>0 DEF Request
    <3>2. req' = [req EXCEPT ![r] = x] /\ lock' = [lock EXCEPT ![Conv(r)] = r]
          /\ UNCHANGED rows
      BY <1>3, <2>3 DEF Insert
    <3> HIDE DEF x
    <3>3. QED
      BY <1>0, <2>1, <3>1, <3>2, LockStep DEF Free
  <2>4. QED
    BY <2>2, <2>3
<1>4. CASE ReadTitle(r)
  <2>1. req[r].late => rows[Conv(r)].title # 0
    BY <1>0 DEF ServerInv, TitleInv
  <2>2. QED
    BY <1>0, <1>4, <2>1, GoesStep DEF ReadTitle, At, Inserting
<1>5. CASE SetTitle(r)
  <2> DEFINE x == [req[r] EXCEPT !.titles = TRUE, !.pc = "stream"]
  <2>1. req[r].kind = "turn" /\ req[r].pc = "settitle" /\ Free(r) /\ ~req[r].late
    BY <1>5 DEF SetTitle, At, ServerInv, TitleInv
  <2>2. /\ x \in Request /\ x.kind = req[r].kind /\ x.conv = req[r].conv
        /\ x.late = req[r].late /\ x.titles /\ x.pc = "stream"
    BY <1>0 DEF Request
  <2>3. req' = [req EXCEPT ![r] = x] /\ lock' = [lock EXCEPT ![Conv(r)] = r] /\ UNCHANGED rows
    BY <1>5 DEF SetTitle
  <2> HIDE DEF x
  <2>4. QED
    BY <1>0, <2>1, <2>2, <2>3, LockStep DEF Free, Inserting
<1>6. CASE StreamEnds(r)
  <2> DEFINE x == [req[r] EXCEPT !.pc = "commit", !.answer = "ok"]
  <2>1. /\ x \in Request /\ x.kind = req[r].kind /\ x.conv = req[r].conv /\ x.late = req[r].late
        /\ x.inserts = req[r].inserts /\ x.titles = req[r].titles /\ x.pc = "commit"
    BY <1>0 DEF Request
  <2>2. req' = [req EXCEPT ![r] = x] /\ UNCHANGED <<rows, lock>> /\ req[r].kind = "turn"
        /\ req[r].pc = "stream"
    BY <1>6 DEF StreamEnds, At
  <2> HIDE DEF x
  <2>3. QED
    BY <2>1, <2>2, MoveStep DEF Inserting
<1>7. CASE Commit(r)
  <2> DEFINE x == [rows[Conv(r)] EXCEPT
                     !.there = TRUE, !.title = IF req[r].titles THEN r ELSE rows[Conv(r)].title]
  <2>1. Ends(r, "ok") /\ rows' = [rows EXCEPT ![Conv(r)] = x]
    BY <1>7 DEF Commit
  <2>2. rows[Conv(r)] \in Row
    BY <1>0
  <2>3. x \in Row /\ x.there /\ (rows[Conv(r)].title # 0 => x.title # 0)
    BY <1>0, <2>2 DEF Row
  <2> HIDE DEF x
  <2>4. /\ rows' \in [Convs -> Row] /\ rows'[Conv(r)] = x
        /\ \A c \in Convs : c # Conv(r) => rows'[c] = rows[c]
    BY <1>0, <2>1, <2>3
  <2>5. QED
    BY <2>1, <2>3, <2>4, EndStep DEF ServerInv, TitleInv
<1>8. CASE Archive(r)
  <2>1. CASE ~rows[Conv(r)].there
    BY <1>8, <2>1, EndsQuietly DEF Archive
  <2>2. CASE rows[Conv(r)].there
    <3> DEFINE x == [rows[Conv(r)] EXCEPT !.archived = TRUE]
    <3>1. Ends(r, "ok") /\ rows' = [rows EXCEPT ![Conv(r)] = x]
      BY <1>8, <2>2 DEF Archive
    <3>2. rows[Conv(r)] \in Row
      BY <1>0
    <3>3. x \in Row /\ x.title = rows[Conv(r)].title /\ x.there = rows[Conv(r)].there
      BY <3>2 DEF Row
    <3> HIDE DEF x
    <3>4. /\ rows' \in [Convs -> Row]
          /\ \A c \in Convs : rows'[c].title = rows[c].title /\ rows'[c].there = rows[c].there
      BY <1>0, <3>1, <3>3
    <3>5. QED
      BY <3>1, <3>4, EndStep DEF ServerInv, TitleInv
  <2>3. QED
    BY <2>1, <2>2
<1>9. CASE List(r)
  <2> DEFINE seen == {c \in Convs : rows[c].there /\ ~rows[c].archived}
             x == [req[r] EXCEPT !.pc = "done", !.answer = "ok", !.listed = seen,
                                 !.titled = {c \in seen : rows[c].title # 0}]
  <2>1. /\ x \in Request /\ x.kind = req[r].kind /\ x.conv = req[r].conv /\ x.late = req[r].late
        /\ x.inserts = req[r].inserts /\ x.titles = req[r].titles /\ x.pc = "done"
    BY <1>0 DEF Request
  <2>2. req' = [req EXCEPT ![r] = x] /\ UNCHANGED <<rows, lock>> /\ req[r].kind = "list"
        /\ req[r].pc = "start"
    BY <1>9 DEF List, At
  <2>3. lock[req[r].conv] # r
    BY <1>0, <2>2 DEF ServerInv, LockInv, Holds
  <2> HIDE DEF x
  <2>4. QED
    BY <2>1, <2>2, <2>3, MoveStep
<1>10. CASE Fails(r)
  BY <1>10, EndsQuietly DEF Fails
<1>11. QED
  BY <1>1, <1>2, <1>3, <1>4, <1>5, <1>6, <1>7, <1>8, <1>9, <1>10 DEF Serve

(* Serving numbers no request anew.                                         *)
LEMMA ServeKeepsLength ==
  ASSUME ServerInv, NEW r \in DOMAIN req, Serve(r) \/ Fails(r)
  PROVE  Len(req') = Len(req)
<1>1. req \in Seq(Request)
  BY DEF ServerInv, ConvTypeOK
<1>2. \E x : req' = [req EXCEPT ![r] = x]
  BY DEF Serve, Begin, Refuse, Insert, ReadTitle, SetTitle, StreamEnds, Commit, Archive, List,
         Fails, Goes, Ends
<1>3. QED
  BY <1>1, <1>2

-----------------------------------------------------------------------------
(* The client: a request is sent, beside others that are still awaited.     *)
SendPath == {"stream", "reload", "titles"}

LEMMA AwaitStep ==
  ASSUME ServerInv, WaitsInv, NEW kind \in Kind, NEW c \in Convs, NEW resume \in Resumes,
         NEW others \in SUBSET waits, Await(kind, c, resume, others)
  PROVE  /\ ServerInv' /\ WaitsInv'
         /\ waits' = others \cup {[req |-> Len(req) + 1, resume |-> resume]}
<1>1. ServerInv' /\ Len(req') = Len(req) + 1
  <2> DEFINE S == {w.req : w \in others}
  <2>1. req' = Sent(kind, c, S) /\ UNCHANGED <<rows, lock>>
    BY DEF Await
  <2> HIDE DEF S
  <2>2. QED
    BY <2>1, SentStep
<1>2. Len(req) \in Nat
  BY DEF ServerInv, ConvTypeOK
<1>3. waits' = others \cup {[req |-> Len(req) + 1, resume |-> resume]}
  BY DEF Await
<1>4. WaitsInv'
  <2>1. \A w \in others : w \in [req : 1..Len(req), resume : Resumes]
    BY DEF WaitsInv
  <2>2. \A w \in others : w.req \in 1..Len(req) /\ w \in [req : 1..Len(req'), resume : Resumes]
    BY <1>1, <1>2, <2>1
  <2>3. [req |-> Len(req) + 1, resume |-> resume] \in [req : 1..Len(req'), resume : Resumes]
    BY <1>1, <1>2
  <2>4. \A w \in others : w.req # Len(req) + 1
    BY <1>2, <2>2
  <2>5. QED
    BY <1>3, <2>2, <2>3, <2>4 DEF WaitsInv
<1>5. QED
  BY <1>1, <1>3, <1>4

(* Nothing more is awaited.                                                 *)
LEMMA ReturnStep ==
  ASSUME ServerInv, WaitsInv, NEW others \in SUBSET waits, Returns(others)
  PROVE  ServerInv' /\ WaitsInv' /\ waits' = others
<1> DEFINE S == {w.req : w \in others}
<1>1. req' = Remembered(S) /\ UNCHANGED <<rows, lock>> /\ waits' = others
  BY DEF Returns
<1> HIDE DEF S
<1>2. Len(req') = Len(req)
  BY <1>1, RememberedFacts DEF ServerInv
<1>3. QED
  BY <1>1, <1>2, RememberStep DEF WaitsInv

(* The answer that is taken was awaited for one thing.                      *)
LEMMA TakenFacts ==
  ASSUME WaitsInv, NEW r, NEW resume, Takes(r, resume)
  PROVE  /\ [req |-> r, resume |-> resume] \in waits
         /\ Others(r) = waits \ {[req |-> r, resume |-> resume]}
<1> DEFINE w == [req |-> r, resume |-> resume]
<1>1. w \in waits /\ w.req = r
  BY DEF Takes
<1>2. \A v \in waits : v.req = r => v = w
  BY <1>1 DEF WaitsInv
<1>3. QED
  BY <1>1, <1>2 DEF Others

(* Sending is awaited: by the one that is added, by those that are left, or *)
(* not at all.                                                              *)
LEMMA StillSending ==
  ASSUME SendingIsAwaited, UNCHANGED sending,
         \A w : w \in waits' /\ w.resume \in SendPath <=> w \in waits /\ w.resume \in SendPath
  PROVE  SendingIsAwaited'
<1>1. Sends' = Sends
  BY DEF Sends, SendPath
<1>2. QED
  BY <1>1 DEF SendingIsAwaited

LEMMA SendGoesOn ==
  ASSUME SendingIsAwaited, NEW new, new.resume \in SendPath, sending' = TRUE,
         NEW others, \A w \in others : w.resume \notin SendPath, waits' = others \cup {new}
  PROVE  SendingIsAwaited'
BY DEF SendingIsAwaited, Sends, SendPath

LEMMA SendEnds ==
  ASSUME sending' = FALSE, \A w \in waits' : w.resume \notin SendPath
  PROVE  SendingIsAwaited'
BY DEF SendingIsAwaited, Sends, SendPath

(* The four ways a step of the client goes: it asks or returns, on the way  *)
(* of a turn that is sent or beside it.                                     *)
LEMMA AsksBeside ==
  ASSUME StoreInv, NEW kind \in Kind, NEW c \in Convs, NEW resume \in Resumes \ SendPath,
         NEW others \in SUBSET waits, Await(kind, c, resume, others), UNCHANGED sending,
         \A w \in waits \ others : w.resume \notin SendPath
  PROVE  ServerInv' /\ WaitsInv' /\ SendingIsAwaited'
<1>1. /\ ServerInv' /\ WaitsInv'
      /\ waits' = others \cup {[req |-> Len(req) + 1, resume |-> resume]}
  BY AwaitStep DEF StoreInv
<1>2. \A w : w \in waits' /\ w.resume \in SendPath <=> w \in waits /\ w.resume \in SendPath
  BY <1>1
<1>3. QED
  BY <1>1, <1>2, StillSending DEF StoreInv

LEMMA ReturnsBeside ==
  ASSUME StoreInv, NEW others \in SUBSET waits, Returns(others), UNCHANGED sending,
         \A w \in waits \ others : w.resume \notin SendPath
  PROVE  ServerInv' /\ WaitsInv' /\ SendingIsAwaited'
<1>1. ServerInv' /\ WaitsInv' /\ waits' = others
  BY ReturnStep DEF StoreInv
<1>2. \A w : w \in waits' /\ w.resume \in SendPath <=> w \in waits /\ w.resume \in SendPath
  BY <1>1
<1>3. QED
  BY <1>1, <1>2, StillSending DEF StoreInv

LEMMA AsksOnTheWay ==
  ASSUME StoreInv, NEW kind \in Kind, NEW c \in Convs, NEW resume \in SendPath,
         NEW others \in SUBSET waits, Await(kind, c, resume, others), sending' = TRUE,
         \A w \in others : w.resume \notin SendPath
  PROVE  ServerInv' /\ WaitsInv' /\ SendingIsAwaited'
<1> DEFINE new == [req |-> Len(req) + 1, resume |-> resume]
<1>1. resume \in Resumes /\ new.resume = resume
  BY DEF SendPath, Resumes
<1>2. ServerInv' /\ WaitsInv' /\ waits' = others \cup {new}
  BY <1>1, AwaitStep DEF StoreInv
<1> HIDE DEF new
<1>3. QED
  BY <1>1, <1>2, SendGoesOn DEF StoreInv

LEMMA ReturnsAtTheEnd ==
  ASSUME StoreInv, NEW others \in SUBSET waits, Returns(others), sending' = FALSE,
         \A w \in others : w.resume \notin SendPath
  PROVE  ServerInv' /\ WaitsInv' /\ SendingIsAwaited'
<1>1. ServerInv' /\ WaitsInv' /\ waits' = others
  BY ReturnStep DEF StoreInv
<1>2. QED
  BY <1>1, SendEnds

(* An answer on the way of a turn is the only one awaited there.            *)
LEMMA TakenOnTheWay ==
  ASSUME StoreInv, NEW r, NEW resume \in SendPath, Takes(r, resume)
  PROVE  /\ sending = TRUE /\ Others(r) \in SUBSET waits /\ r \in DOMAIN req
         /\ \A w \in Others(r) : w.resume \notin SendPath
<1> DEFINE v == [req |-> r, resume |-> resume]
<1>1. v \in waits /\ Others(r) = waits \ {v} /\ v.resume = resume /\ v.req = r
  BY TakenFacts DEF StoreInv
<1>2. r \in DOMAIN req
  BY <1>1 DEF StoreInv, WaitsInv, ServerInv, ConvTypeOK
<1> HIDE DEF v
<1>3. v \in Sends
  BY <1>1 DEF Sends, SendPath
<1>4. sending /\ \A w \in Sends : w = v
  BY <1>3 DEF StoreInv, SendingIsAwaited
<1>5. \A w \in Others(r) : w.resume \notin SendPath
  BY <1>1, <1>4 DEF Sends, SendPath
<1>6. sending = TRUE
  BY <1>4 DEF StoreInv, SendingIsAwaited
<1>7. QED
  BY <1>1, <1>2, <1>5, <1>6

LEMMA TakenBeside ==
  ASSUME StoreInv, NEW r, NEW resume, resume \notin SendPath, Takes(r, resume)
  PROVE  /\ Others(r) \in SUBSET waits /\ r \in DOMAIN req
         /\ \A w \in waits \ Others(r) : w.resume \notin SendPath
<1> DEFINE v == [req |-> r, resume |-> resume]
<1>1. v \in waits /\ Others(r) = waits \ {v} /\ v.resume = resume /\ v.req = r
  BY TakenFacts DEF StoreInv
<1>2. r \in DOMAIN req
  BY <1>1 DEF StoreInv, WaitsInv, ServerInv, ConvTypeOK
<1> HIDE DEF v
<1>3. QED
  BY <1>1, <1>2

(* Every step of the user, of an answer, of the other device or of the      *)
(* server preserves the invariant.                                          *)
LEMMA UserStep ==
  ASSUME StoreInv,
         \/ Mount \/ NewConversation \/ Send
         \/ \E c \in Convs : Select(c) \/ DropConversation(c)
  PROVE  StoreInv'
<1>1. /\ waits \in SUBSET waits /\ waits \ waits = {} /\ Any \in Convs
      /\ {"mount", "mounted", "created", "view", "dropped"} \subseteq Resumes \ SendPath
      /\ {"list", "create", "messages", "archive", "turn"} \subseteq Kind
  BY ConversationsAssumption DEF Any, Resumes, SendPath, Kind, Inserting
<1>2. CASE Mount
  <2>1. Await("list", Any, "mount", waits) /\ UNCHANGED <<active, list, sending>>
    BY <1>2 DEF Mount
  <2>2. QED
    BY <1>1, <2>1, AsksBeside DEF StoreInv, StoreTypes
<1>3. CASE NewConversation
  <2>1. PICK c \in Fresh : Await("create", c, "created", waits) /\ UNCHANGED <<active, list, sending>>
    BY <1>3 DEF NewConversation
  <2>2. c \in Convs
    BY <2>1 DEF Fresh
  <2>3. QED
    BY <1>1, <2>1, <2>2, AsksBeside DEF StoreInv, StoreTypes
<1>4. CASE Send
  <2>1. /\ Await("turn", active, "stream", waits) /\ sending' = TRUE /\ ~sending
        /\ active # NoConv /\ UNCHANGED <<active, list>>
    BY <1>4 DEF Send
  <2>2. active \in Convs /\ "stream" \in SendPath
    BY <2>1 DEF StoreInv, StoreTypes, SendPath
  <2>3. \A w \in waits : w.resume \notin SendPath
    BY <2>1 DEF StoreInv, SendingIsAwaited, Sends, SendPath
  <2>4. QED
    BY <1>1, <2>1, <2>2, <2>3, AsksOnTheWay DEF StoreInv, StoreTypes
<1>5. ASSUME NEW c \in Convs, Select(c)
      PROVE  StoreInv'
  <2>1. Await("messages", c, "view", waits) /\ active' = c /\ UNCHANGED <<list, sending>>
    BY <1>5 DEF Select
  <2>2. QED
    BY <1>1, <2>1, AsksBeside DEF StoreInv, StoreTypes
<1>6. ASSUME NEW c \in Convs, DropConversation(c)
      PROVE  StoreInv'
  <2>1. Await("archive", c, "dropped", waits) /\ UNCHANGED <<active, list, sending>>
    BY <1>6 DEF DropConversation
  <2>2. QED
    BY <1>1, <2>1, AsksBeside DEF StoreInv, StoreTypes
<1>7. QED
  BY <1>2, <1>3, <1>4, <1>5, <1>6

LEMMA AnswerStep ==
  ASSUME StoreInv, NEW r, Resume(r)
  PROVE  StoreInv'
<1>1. /\ Any \in Convs
      /\ {"mount", "mounted", "created", "view", "dropped"} \subseteq Resumes \ SendPath
      /\ {"stream", "reload", "titles"} = SendPath
      /\ {"list", "create", "messages", "archive", "turn"} \subseteq Kind
  BY ConversationsAssumption DEF Any, Resumes, SendPath, Kind, Inserting
<1>2. ASSUME r \in DOMAIN req
      PROVE  Conv(r) \in Convs /\ Listed(r).listed \subseteq Convs /\ Listed(r).listed = req[r].listed
  <2>1. req[r] \in Request
    BY <1>2, RequestFacts DEF StoreInv, ServerInv
  <2>2. QED
    BY <2>1 DEF Conv, Listed, Request
<1>3. ASSUME NEW resume \in Resumes, Rejected(r, resume)
      PROVE  StoreInv'
  <2>1. /\ Takes(r, resume) /\ resume \notin SendPath /\ Returns(Others(r))
        /\ UNCHANGED <<active, list, sending>>
    BY <1>3 DEF Rejected, SendPath
  <2>2. QED
    BY <2>1, TakenBeside, ReturnsBeside DEF StoreInv, StoreTypes
<1>4. CASE OnMount(r)
  <2>1. Takes(r, "mount") /\ list' = Listed(r) /\ UNCHANGED sending
    BY <1>4 DEF OnMount
  <2>2. /\ Others(r) \in SUBSET waits /\ r \in DOMAIN req
        /\ \A w \in waits \ Others(r) : w.resume \notin SendPath
    BY <1>1, <2>1, TakenBeside
  <2>3. CASE active = NoConv /\ \E c \in req[r].listed :
               active' = c /\ Await("messages", c, "mounted", Others(r))
    <3>1. PICK c \in req[r].listed : active' = c /\ Await("messages", c, "mounted", Others(r))
      BY <2>3
    <3>2. c \in Convs
      BY <1>2, <2>2
    <3>3. QED
      BY <1>1, <1>2, <2>1, <2>2, <3>1, <3>2, AsksBeside DEF StoreInv, StoreTypes
  <2>4. CASE (\E c \in Fresh : Await("create", c, "created", Others(r))) /\ UNCHANGED active
    <3>1. PICK c \in Fresh : Await("create", c, "created", Others(r))
      BY <2>4
    <3>2. c \in Convs
      BY <3>1 DEF Fresh
    <3>3. QED
      BY <1>1, <1>2, <2>1, <2>2, <2>4, <3>1, <3>2, AsksBeside DEF StoreInv, StoreTypes
  <2>5. CASE Returns(Others(r)) /\ UNCHANGED active
    BY <1>2, <2>1, <2>2, <2>5, ReturnsBeside DEF StoreInv, StoreTypes
  <2>6. QED
    BY <1>4, <2>3, <2>4, <2>5 DEF OnMount
<1>5. CASE OnCreated(r)
  <2>1. /\ Takes(r, "created") /\ list' = [list EXCEPT !.listed = @ \cup {Conv(r)}]
        /\ active' = Conv(r) /\ UNCHANGED sending
        /\ Await("messages", Conv(r), "view", Others(r))
    BY <1>5 DEF OnCreated
  <2>2. /\ Others(r) \in SUBSET waits /\ r \in DOMAIN req
        /\ \A w \in waits \ Others(r) : w.resume \notin SendPath
    BY <1>1, <2>1, TakenBeside
  <2>3. ServerInv' /\ WaitsInv' /\ SendingIsAwaited'
    BY <1>1, <1>2, <2>1, <2>2, AsksBeside
  <2>4. list'.listed \subseteq Convs
    <3>1. list'.listed \subseteq list.listed \cup {Conv(r)}
      BY <2>1
    <3>2. QED
      BY <1>2, <2>2, <3>1 DEF StoreInv, StoreTypes
  <2>5. QED
    BY <1>2, <2>1, <2>2, <2>3, <2>4 DEF StoreInv, StoreTypes
<1>6. CASE OnView(r)
  <2>1. Takes(r, "view") /\ Returns(Others(r)) /\ UNCHANGED <<active, list, sending>>
    BY <1>6 DEF OnView
  <2>2. QED
    BY <1>1, <2>1, TakenBeside, ReturnsBeside DEF StoreInv, StoreTypes
<1>7. CASE OnDropped(r)
  <2> DEFINE left == list.listed \ {Conv(r)}
  <2>1. Takes(r, "dropped") /\ list'.listed = left /\ left \subseteq Convs /\ UNCHANGED sending
    BY <1>7 DEF OnDropped, StoreInv, StoreTypes
  <2>2. /\ Others(r) \in SUBSET waits /\ r \in DOMAIN req
        /\ \A w \in waits \ Others(r) : w.resume \notin SendPath
    BY <1>1, <2>1, TakenBeside
  <2>3. \/ \E c \in left : active' = c /\ Await("messages", c, "view", Others(r))
        \/ Returns(Others(r)) /\ active' \in {active, NoConv}
    BY <1>7 DEF OnDropped
  <2> HIDE DEF left
  <2>4. CASE \E c \in left : active' = c /\ Await("messages", c, "view", Others(r))
    <3>1. PICK c \in left : active' = c /\ Await("messages", c, "view", Others(r))
      BY <2>4
    <3>2. QED
      BY <1>1, <2>1, <2>2, <3>1, AsksBeside DEF StoreInv, StoreTypes
  <2>5. CASE Returns(Others(r)) /\ active' \in {active, NoConv}
    BY <2>1, <2>2, <2>5, ReturnsBeside DEF StoreInv, StoreTypes
  <2>6. QED
    BY <2>3, <2>4, <2>5
<1>8. CASE OnStream(r)
  <2>1. Takes(r, "stream") /\ UNCHANGED <<active, list>>
    BY <1>8 DEF OnStream
  <2>2. /\ sending = TRUE /\ Others(r) \in SUBSET waits
        /\ \A w \in Others(r) : w.resume \notin SendPath
    BY <1>1, <2>1, TakenOnTheWay
  <2>3. CASE active # NoConv /\ Await("messages", active, "reload", Others(r)) /\ UNCHANGED sending
    <3>1. active \in Convs
      BY <2>3 DEF StoreInv, StoreTypes
    <3>2. QED
      BY <1>1, <2>1, <2>2, <2>3, <3>1, AsksOnTheWay DEF StoreInv, StoreTypes
  <2>4. CASE Returns(Others(r)) /\ sending' = FALSE
    BY <2>1, <2>2, <2>4, ReturnsAtTheEnd DEF StoreInv, StoreTypes
  <2>5. QED
    BY <1>8, <2>3, <2>4 DEF OnStream
<1>9. CASE OnReload(r)
  <2>1. Takes(r, "reload") /\ UNCHANGED <<active, list>>
    BY <1>9 DEF OnReload
  <2>2. /\ sending = TRUE /\ Others(r) \in SUBSET waits
        /\ \A w \in Others(r) : w.resume \notin SendPath
    BY <1>1, <2>1, TakenOnTheWay
  <2>3. CASE Await("list", Any, "titles", Others(r)) /\ UNCHANGED sending
    BY <1>1, <2>1, <2>2, <2>3, AsksOnTheWay DEF StoreInv, StoreTypes
  <2>4. CASE Returns(Others(r)) /\ sending' = FALSE
    BY <2>1, <2>2, <2>4, ReturnsAtTheEnd DEF StoreInv, StoreTypes
  <2>5. QED
    BY <1>9, <2>3, <2>4 DEF OnReload
<1>10. CASE OnTitles(r)
  <2>1. /\ Takes(r, "titles") /\ list' \in {Listed(r), list} /\ UNCHANGED active
        /\ sending' = FALSE /\ Returns(Others(r))
    BY <1>10 DEF OnTitles
  <2>2. /\ r \in DOMAIN req /\ Others(r) \in SUBSET waits
        /\ \A w \in Others(r) : w.resume \notin SendPath
    BY <1>1, <2>1, TakenOnTheWay
  <2>3. QED
    BY <1>2, <2>1, <2>2, ReturnsAtTheEnd DEF StoreInv, StoreTypes
<1>11. CASE OnMounted(r)
  <2>1. Takes(r, "mounted") /\ UNCHANGED <<active, list, sending>>
    BY <1>11 DEF OnMounted
  <2>2. /\ Others(r) \in SUBSET waits /\ r \in DOMAIN req
        /\ \A w \in waits \ Others(r) : w.resume \notin SendPath
    BY <1>1, <2>1, TakenBeside
  <2>3. CASE \E c \in Fresh : Await("create", c, "created", Others(r))
    <3>1. PICK c \in Fresh : Await("create", c, "created", Others(r))
      BY <2>3
    <3>2. c \in Convs
      BY <3>1 DEF Fresh
    <3>3. QED
      BY <1>1, <2>1, <2>2, <3>1, <3>2, AsksBeside DEF StoreInv, StoreTypes
  <2>4. CASE Returns(Others(r))
    BY <2>1, <2>2, <2>4, ReturnsBeside DEF StoreInv, StoreTypes
  <2>5. QED
    BY <1>11, <2>3, <2>4 DEF OnMounted
<1>12. QED
  BY <1>3, <1>4, <1>5, <1>6, <1>7, <1>8, <1>9, <1>10, <1>11 DEF Resume

LEMMA StoreStep == StoreInv /\ [Next]_vars => StoreInv'
<1> SUFFICES ASSUME StoreInv, [Next]_vars PROVE StoreInv'
  OBVIOUS
<1>1. CASE \/ Mount \/ NewConversation \/ Send
           \/ \E c \in Convs : Select(c) \/ DropConversation(c)
  BY <1>1, UserStep
<1>2. CASE \E r \in DOMAIN req : Resume(r)
  BY <1>2, AnswerStep
<1>3. ASSUME NEW c \in Convs, NEW kind \in Kind, Elsewhere(kind, c)
      PROVE  StoreInv'
  <2> DEFINE S == {w.req : w \in waits}
  <2>1. /\ req' = Sent(kind, c, S) /\ UNCHANGED <<rows, lock>>
        /\ UNCHANGED <<active, list, sending, waits>>
    BY <1>3 DEF Elsewhere, clientVars
  <2> HIDE DEF S
  <2>2. ServerInv' /\ Len(req') = Len(req) + 1 /\ Len(req) \in Nat
    BY <2>1, SentStep DEF StoreInv, ServerInv, ConvTypeOK
  <2>3. WaitsInv'
    BY <2>1, <2>2 DEF StoreInv, WaitsInv
  <2>4. QED
    BY <2>1, <2>2, <2>3 DEF StoreInv, StoreTypes, SendingIsAwaited, Sends
<1>4. ASSUME NEW r \in DOMAIN req, Serve(r) \/ Fails(r), UNCHANGED clientVars
      PROVE  StoreInv'
  <2>1. ServerInv' /\ Len(req') = Len(req) /\ UNCHANGED <<active, list, sending, waits>>
    BY <1>4, ServeStep, ServeKeepsLength DEF StoreInv, clientVars
  <2>2. QED
    BY <2>1 DEF StoreInv, WaitsInv, StoreTypes, SendingIsAwaited, Sends
<1>5. CASE UNCHANGED vars
  BY <1>5 DEF vars, serverVars, clientVars, StoreInv, ServerInv, ConvTypeOK, LockInv, Holds,
              TitleInv, WaitsInv, StoreTypes, SendingIsAwaited, Sends
<1>6. QED
  BY <1>1, <1>2, <1>3, <1>4, <1>5 DEF Next

(* The invariant holds throughout.                                          *)
THEOREM StoreInvariant == Spec => []StoreInv
BY StoreInit, StoreStep, PTL DEF Spec

-----------------------------------------------------------------------------
(* The rows and their locks are what the type invariant says.               *)
THEOREM ConversationTypes == Spec => []ConvTypeOK
<1>1. StoreInv => ConvTypeOK
  BY DEF StoreInv, ServerInv
<1>2. QED
  BY <1>1, StoreInvariant, PTL

(* Who holds a conversation's lock waits for no other: transactions of      *)
(* turns and creations never deadlock, and wait for a stream at the longest.*)
THEOREM NoCircles == Spec => []NoWaitInCircle
<1>1. StoreInv => NoWaitInCircle
  BY DEF StoreInv, ServerInv, LockInv, Holds, NoWaitInCircle, Conv
<1>2. QED
  BY <1>1, StoreInvariant, PTL

(* The input is disabled exactly while one answer is awaited that enables   *)
(* it again: whatever fails, is selected, dropped or archived meanwhile.    *)
THEOREM SendingComesBack == Spec => []SendingIsAwaited
<1>1. StoreInv => SendingIsAwaited
  BY DEF StoreInv
<1>2. QED
  BY <1>1, StoreInvariant, PTL

(* Only a commit and an archive change what is committed.                   *)
LEMMA RowsStep ==
  ASSUME [Next]_vars, UNCHANGED rows => FALSE
  PROVE  \E r \in DOMAIN req : Commit(r) \/ Archive(r)
BY DEF Next, vars, serverVars, Mount, NewConversation, Send, Select, DropConversation, Elsewhere,
       Await, Returns, Resume, Rejected, OnMount, OnMounted, OnCreated, OnView, OnDropped, OnStream,
       OnReload, OnTitles, Serve, Fails, Begin, Refuse, Insert, ReadTitle, SetTitle, StreamEnds,
       List

LEMMA RowChange ==
  ASSUME StoreInv, NEW r \in DOMAIN req, Commit(r) \/ Archive(r), NEW c \in Convs
  PROVE  /\ rows[c].archived => rows'[c].archived
         /\ rows'[c].title # rows[c].title => rows'[c].title = r /\ req[r].titles
<1>1. rows \in [Convs -> Row] /\ Conv(r) \in Convs
  BY RequestFacts DEF StoreInv, ServerInv, ConvTypeOK, Conv
<1>2. CASE c # Conv(r)
  BY <1>1, <1>2 DEF Commit, Archive
<1>3. CASE c = Conv(r)
  <2>1. rows[c] \in Row
    BY <1>1
  <2>2. CASE Commit(r)
    BY <1>1, <1>3, <2>1, <2>2 DEF Commit, Row
  <2>3. CASE Archive(r)
    BY <1>1, <1>3, <2>1, <2>3 DEF Archive, Row
  <2>4. QED
    BY <2>2, <2>3
<1>4. QED
  BY <1>2, <1>3

(* A title is never changed by a turn that was sent when there was one.     *)
THEOREM TitlesAreKept == Spec => TitleKept
<1>1. StoreInv /\ [Next]_vars =>
        [\A c \in Convs : rows[c].title # 0 /\ rows'[c].title # rows[c].title
           => ~req[rows'[c].title].late]_serverVars
  <2> SUFFICES ASSUME StoreInv, [Next]_vars, NEW c \in Convs,
                      rows[c].title # 0, rows'[c].title # rows[c].title
               PROVE  ~req[rows'[c].title].late
    OBVIOUS
  <2>1. PICK r \in DOMAIN req : Commit(r) \/ Archive(r)
    BY RowsStep
  <2>2. rows'[c].title = r /\ req[r].titles
    BY <2>1, RowChange
  <2>3. QED
    BY <2>1, <2>2 DEF StoreInv, ServerInv, TitleInv
<1>2. QED
  BY <1>1, StoreInvariant, PTL DEF Spec, TitleKept

(* An archived conversation stays archived under turns that write its row.  *)
THEOREM ArchivesAreKept == Spec => ArchivedStays
<1>1. StoreInv /\ [Next]_vars =>
        [\A c \in Convs : rows[c].archived => rows'[c].archived]_serverVars
  <2> SUFFICES ASSUME StoreInv, [Next]_vars, NEW c \in Convs, rows[c].archived
               PROVE  rows'[c].archived
    OBVIOUS
  <2>1. CASE UNCHANGED rows
    BY <2>1
  <2>2. CASE ~UNCHANGED rows
    <3>1. PICK r \in DOMAIN req : Commit(r) \/ Archive(r)
      BY <2>2, RowsStep
    <3>2. QED
      BY <3>1, RowChange
  <2>3. QED
    BY <2>1, <2>2
<1>2. QED
  BY <1>1, StoreInvariant, PTL DEF Spec, ArchivedStays

-----------------------------------------------------------------------------
(* The messages on the screen: those that were asked for last are those of  *)
(* the active conversation, and nothing else is shown once they are there.  *)
-----------------------------------------------------------------------------

Views == {w \in waits : w.resume \in {"view", "mounted", "reload"}}

WaitKinds ==
  \A w \in waits : req[w.req].kind = "messages" <=> w.resume \in {"view", "mounted", "reload"}

LastView ==
  ~failed /\ ~overtaken /\ active # NoConv =>
    /\ Views = {} => shown = active
    /\ \A v \in Views : (\A w \in Views : w.req <= v.req) => req[v.req].conv = active

ViewInv == WaitKinds /\ LastView

LEMMA ViewInit == Init => ViewInv
  BY DEF Init, ViewInv, WaitKinds, LastView

(* A request that is sent leaves the awaited ones as they are.              *)
LEMMA AskFacts ==
  ASSUME StoreInv, NEW kind, NEW c, NEW resume,
         NEW others \in SUBSET waits, Await(kind, c, resume, others),
         NEW new, new = [req |-> Len(req) + 1, resume |-> resume]
  PROVE  /\ waits' = others \cup {new}
         /\ req'[new.req].kind = kind /\ req'[new.req].conv = c
         /\ \A w \in others : req'[w.req] = req[w.req] /\ w.req < new.req
         /\ new.req \in Nat /\ \A w \in others : w.req \in Nat
<1> DEFINE S == {w.req : w \in others}
           old == Remembered(S)
           x == [kind |-> kind, conv |-> c, pc |-> "start", answer |-> "none",
                 listed |-> {}, titled |-> {}, inserts |-> FALSE, titles |-> FALSE,
                 late |-> rows[c].title # 0]
<1>1. req' = Append(old, x) /\ waits' = others \cup {[req |-> Len(req) + 1, resume |-> resume]}
  BY DEF Await, Sent
<1>2. x.kind = kind /\ x.conv = c
  OBVIOUS
<1>3. \A w \in others : w.req \in 1..Len(req) /\ w.req \in S
  BY DEF StoreInv, WaitsInv
<1>4. Len(req) \in Nat /\ DOMAIN req = 1..Len(req)
  BY DEF StoreInv, ServerInv, ConvTypeOK
<1>5. old \in Seq(Request) /\ Len(old) = Len(req)
  BY RememberedFacts DEF StoreInv, ServerInv
<1>6. \A w \in others : old[w.req] = req[w.req]
  BY <1>3, <1>4 DEF Remembered
<1> HIDE DEF S, old, x
<1>7. /\ req'[Len(req) + 1] = x
      /\ \A r \in 1..Len(req) : req'[r] = old[r]
  BY <1>1, <1>4, <1>5
<1>8. new.req = Len(req) + 1
  OBVIOUS
<1>9. \A w \in others : req'[w.req] = req[w.req] /\ w.req < Len(req) + 1 /\ w.req \in Nat
  BY <1>3, <1>4, <1>6, <1>7
<1>10. waits' = others \cup {new}
  BY <1>1
<1>11. req'[new.req].kind = kind /\ req'[new.req].conv = c
  BY <1>2, <1>7, <1>8
<1>12. \A w \in others : req'[w.req] = req[w.req] /\ w.req < new.req /\ w.req \in Nat
  BY <1>8, <1>9
<1>13. new.req \in Nat
  BY <1>4, <1>8
<1>14. QED
  BY <1>10, <1>11, <1>12, <1>13

LEMMA ReturnFacts ==
  ASSUME StoreInv, NEW others \in SUBSET waits, Returns(others)
  PROVE  waits' = others /\ \A w \in others : req'[w.req] = req[w.req]
<1> DEFINE S == {w.req : w \in others}
<1>1. req' = Remembered(S) /\ waits' = others
  BY DEF Returns
<1>2. \A w \in others : w.req \in DOMAIN req /\ w.req \in S
  BY DEF StoreInv, WaitsInv, ServerInv, ConvTypeOK
<1> HIDE DEF S
<1>3. QED
  BY <1>1, <1>2 DEF Remembered

(* The views a step leaves alone stay the last ones.                        *)
LEMMA ViewsStay ==
  ASSUME ViewInv, WaitKinds', Views' = Views, UNCHANGED <<active, shown>>,
         \A v \in Views : req'[v.req].conv = req[v.req].conv,
         failed => failed', overtaken => overtaken'
  PROVE  ViewInv'
  BY DEF ViewInv, LastView

(* The messages of what is active are asked for.                            *)
LEMMA AsksForView ==
  ASSUME StoreInv, ViewInv, NEW c, NEW resume \in {"view", "mounted", "reload"},
         NEW others \in SUBSET waits, Await("messages", c, resume, others), active' = c
  PROVE  ViewInv'
<1> DEFINE new == [req |-> Len(req) + 1, resume |-> resume]
<1>0. new = [req |-> Len(req) + 1, resume |-> resume]
  OBVIOUS
<1> HIDE DEF new
<1>1. /\ waits' = others \cup {new} /\ new.resume = resume
      /\ req'[new.req].kind = "messages" /\ req'[new.req].conv = c
      /\ \A w \in others : req'[w.req] = req[w.req] /\ w.req < new.req
      /\ new.req \in Nat /\ \A w \in others : w.req \in Nat
  BY <1>0, AskFacts
<1>2. WaitKinds'
  BY <1>1 DEF ViewInv, WaitKinds
<1>3. new \in Views' /\ \A v \in Views' : v = new \/ ~(new.req <= v.req)
  BY <1>1 DEF Views
<1>4. LastView'
  BY <1>1, <1>3 DEF LastView
<1>5. QED
  BY <1>2, <1>4 DEF ViewInv

(* Something else is asked, beside the views that are awaited.              *)
LEMMA AsksForOther ==
  ASSUME StoreInv, ViewInv, NEW kind, kind # "messages", NEW c, NEW resume,
         resume \notin {"view", "mounted", "reload"},
         NEW others \in SUBSET waits, Await(kind, c, resume, others)
  PROVE  /\ WaitKinds' /\ Views' = Views \cap others
         /\ \A v \in Views' : req'[v.req] = req[v.req]
<1> DEFINE new == [req |-> Len(req) + 1, resume |-> resume]
<1>0. new = [req |-> Len(req) + 1, resume |-> resume]
  OBVIOUS
<1> HIDE DEF new
<1>1. /\ waits' = others \cup {new} /\ new.resume = resume
      /\ req'[new.req].kind = kind
      /\ \A w \in others : req'[w.req] = req[w.req]
  BY <1>0, AskFacts
<1>2. WaitKinds'
  BY <1>1 DEF ViewInv, WaitKinds
<1>3. Views' = Views \cap others
  BY <1>1 DEF Views
<1>4. QED
  BY <1>1, <1>2, <1>3

LEMMA ReturnsView ==
  ASSUME StoreInv, ViewInv, NEW others \in SUBSET waits, Returns(others)
  PROVE  /\ WaitKinds' /\ Views' = Views \cap others
         /\ \A v \in Views' : req'[v.req] = req[v.req]
<1>1. waits' = others /\ \A w \in others : req'[w.req] = req[w.req]
  BY ReturnFacts
<1>2. WaitKinds'
  BY <1>1 DEF ViewInv, WaitKinds
<1>3. Views' = Views \cap others
  BY <1>1 DEF Views
<1>4. QED
  BY <1>1, <1>2, <1>3

(* A view that is taken was the last, or a later one is still awaited.      *)
LEMMA ViewTaken ==
  ASSUME StoreInv, ViewInv, NEW r, NEW resume \in {"view", "mounted", "reload"}, Takes(r, resume),
         UNCHANGED active, shown' = IF Ok(r) THEN Conv(r) ELSE shown,
         WaitKinds', Views' = Views \cap Others(r),
         \A v \in Views' : req'[v.req] = req[v.req]
  PROVE  ViewInv'
<1> DEFINE t == [req |-> r, resume |-> resume]
<1>1. t \in waits /\ Others(r) = waits \ {t} /\ t.req = r /\ t.resume = resume
  BY TakenFacts DEF StoreInv
<1>2. /\ failed' = (failed \/ ~Ok(r))
      /\ overtaken' = (overtaken \/
           /\ req[r].kind = "messages"
           /\ \E w \in waits : w.req < r /\ req[w.req].kind = "messages")
  BY DEF Takes
<1> HIDE DEF t
<1>3. t \in Views /\ Views' = Views \ {t} /\ req[r].kind = "messages"
  BY <1>1 DEF Views, ViewInv, WaitKinds
<1>4. SUFFICES ASSUME ~failed', ~overtaken', active' # NoConv
               PROVE  /\ Views' = {} => shown' = active'
                      /\ \A v \in Views' : (\A w \in Views' : w.req <= v.req) => req'[v.req].conv = active'
  BY DEF ViewInv, LastView
<1>5. ~failed /\ ~overtaken /\ active # NoConv /\ Ok(r)
  BY <1>2, <1>4
<1>6. \A w \in Views : w \in waits /\ w.req \in Nat /\ ~(w.req < r) /\ r \in Nat
  <2>1. \A w \in waits : w.req \in Nat
    BY DEF StoreInv, WaitsInv
  <2>2. \A w \in Views : ~(w.req < r)
    BY <1>2, <1>3, <1>4 DEF Views, ViewInv, WaitKinds
  <2>3. QED
    BY <1>1, <2>1, <2>2 DEF Views
<1>7. \A v \in Views : (\A w \in Views : w.req <= v.req) => req[v.req].conv = active
  BY <1>5 DEF ViewInv, LastView
<1>8. Views' = {} => shown' = active'
  <2>1. SUFFICES ASSUME Views' = {} PROVE req[r].conv = active
    BY <1>5 DEF Conv
  <2>2. \A w \in Views : w = t
    BY <1>3, <2>1
  <2>3. QED
    BY <1>1, <1>3, <1>6, <1>7, <2>2
<1>9. ASSUME NEW v \in Views', \A w \in Views' : w.req <= v.req
      PROVE  req'[v.req].conv = active'
  <2>1. v \in Views /\ r <= v.req
    BY <1>3, <1>6, <1>9
  <2>2. \A w \in Views : w.req <= v.req
    BY <1>1, <1>3, <1>9, <2>1
  <2>3. QED
    BY <1>7, <1>9, <2>1, <2>2
<1>10. QED
  BY <1>8, <1>9

(* An answer about something else.                                          *)
LEMMA OtherTaken ==
  ASSUME StoreInv, NEW r, NEW resume, resume \notin {"view", "mounted", "reload"}, Takes(r, resume)
  PROVE  /\ Views \cap Others(r) = Views /\ Others(r) \in SUBSET waits
         /\ failed => failed'
         /\ overtaken => overtaken'
<1> DEFINE t == [req |-> r, resume |-> resume]
<1>1. t \in waits /\ Others(r) = waits \ {t} /\ t.resume = resume
  BY TakenFacts DEF StoreInv
<1>2. (failed => failed') /\ (overtaken => overtaken')
  BY DEF Takes
<1> HIDE DEF t
<1>3. QED
  BY <1>1, <1>2 DEF Views

LEMMA ViewUser ==
  ASSUME StoreInv, ViewInv,
         \/ Mount \/ NewConversation \/ Send
         \/ \E c \in Convs : Select(c) \/ DropConversation(c)
  PROVE  ViewInv'
<1>1. ASSUME NEW kind, kind # "messages", NEW c, NEW resume, resume \notin {"view", "mounted", "reload"},
             Await(kind, c, resume, waits), UNCHANGED <<active, shown, failed, overtaken>>
      PROVE  ViewInv'
  <2>1. /\ WaitKinds' /\ Views' = Views \cap waits
        /\ \A v \in Views' : req'[v.req] = req[v.req]
    BY <1>1, AsksForOther
  <2>2. Views' = Views
    BY <2>1 DEF Views
  <2>3. QED
    BY <1>1, <2>1, <2>2, ViewsStay
<1>2. CASE Mount
  <2>1. Await("list", Any, "mount", waits) /\ UNCHANGED <<active, shown, failed, overtaken>>
    BY <1>2 DEF Mount, Acts
  <2>2. QED
    BY <1>1, <2>1
<1>3. CASE NewConversation
  <2>1. PICK c \in Fresh : /\ Await("create", c, "created", waits)
                           /\ UNCHANGED <<active, shown, failed, overtaken>>
    BY <1>3 DEF NewConversation, Acts
  <2>2. QED
    BY <1>1, <2>1
<1>4. CASE Send
  <2>1. Await("turn", active, "stream", waits) /\ UNCHANGED <<active, shown, failed, overtaken>>
    BY <1>4 DEF Send, Acts
  <2>2. QED
    BY <1>1, <2>1
<1>5. ASSUME NEW c \in Convs, Select(c)
      PROVE  ViewInv'
  <2>1. Await("messages", c, "view", waits) /\ active' = c
    BY <1>5 DEF Select
  <2>2. QED
    BY <2>1, AsksForView
<1>6. ASSUME NEW c \in Convs, DropConversation(c)
      PROVE  ViewInv'
  <2>1. Await("archive", c, "dropped", waits) /\ UNCHANGED <<active, shown, failed, overtaken>>
    BY <1>6 DEF DropConversation, Acts
  <2>2. QED
    BY <1>1, <2>1
<1>7. QED
  BY <1>2, <1>3, <1>4, <1>5, <1>6

LEMMA ViewAnswer ==
  ASSUME StoreInv, ViewInv, NEW r, Resume(r)
  PROVE  ViewInv'
<1>1. ASSUME NEW resume, resume \notin {"view", "mounted", "reload"}, Takes(r, resume),
             UNCHANGED <<active, shown>>,
             \/ Returns(Others(r))
             \/ \E kind, c, next : /\ kind # "messages" /\ next \notin {"view", "mounted", "reload"}
                                   /\ Await(kind, c, next, Others(r))
      PROVE  ViewInv'
  <2>1. /\ Views \cap Others(r) = Views /\ Others(r) \in SUBSET waits
        /\ failed => failed'
        /\ overtaken => overtaken'
    BY <1>1, OtherTaken
  <2>2. /\ WaitKinds' /\ Views' = Views \cap Others(r)
        /\ \A v \in Views' : req'[v.req] = req[v.req]
    BY <1>1, <2>1, ReturnsView, AsksForOther
  <2>3. Views' = Views
    BY <2>1, <2>2
  <2>4. \A v \in Views : req'[v.req].conv = req[v.req].conv
    BY <2>2, <2>3
  <2>5. QED
    BY <1>1, <2>1, <2>2, <2>3, <2>4, ViewsStay
<1>2. ASSUME NEW resume \in Resumes, Rejected(r, resume)
      PROVE  ViewInv'
  <2>1. Takes(r, resume) /\ ~Ok(r) /\ Returns(Others(r)) /\ Others(r) \in SUBSET waits
    BY <1>2 DEF Rejected, Others
  <2>2. WaitKinds' /\ failed'
    BY <2>1, ReturnsView DEF Takes
  <2>3. QED
    BY <2>2 DEF ViewInv, LastView
<1>3. CASE OnMount(r)
  <2>1. Takes(r, "mount") /\ UNCHANGED shown /\ Others(r) \in SUBSET waits
    BY <1>3 DEF OnMount, Others
  <2>2. CASE \E c \in req[r].listed : active' = c /\ Await("messages", c, "mounted", Others(r))
    BY <2>1, <2>2, AsksForView
  <2>3. CASE (\E c \in Fresh : Await("create", c, "created", Others(r))) /\ UNCHANGED active
    BY <1>1, <2>1, <2>3
  <2>4. CASE Returns(Others(r)) /\ UNCHANGED active
    BY <1>1, <2>1, <2>4
  <2>5. QED
    BY <1>3, <2>2, <2>3, <2>4 DEF OnMount
<1>4. CASE OnCreated(r)
  <2>1. Await("messages", Conv(r), "view", Others(r)) /\ active' = Conv(r) /\ Others(r) \in SUBSET waits
    BY <1>4 DEF OnCreated, Others
  <2>2. QED
    BY <2>1, AsksForView
<1>5. CASE OnView(r)
  <2>1. /\ Takes(r, "view") /\ Ok(r) /\ shown' = Conv(r) /\ Returns(Others(r)) /\ UNCHANGED active
        /\ Others(r) \in SUBSET waits
    BY <1>5 DEF OnView, Others
  <2>2. /\ WaitKinds' /\ Views' = Views \cap Others(r)
        /\ \A v \in Views' : req'[v.req] = req[v.req]
    BY <2>1, ReturnsView
  <2>3. QED
    BY <2>1, <2>2, ViewTaken
<1>6. CASE OnDropped(r)
  <2>1. Takes(r, "dropped") /\ Others(r) \in SUBSET waits
    BY <1>6 DEF OnDropped, Others
  <2>2. CASE \E c : active' = c /\ Await("messages", c, "view", Others(r))
    BY <2>1, <2>2, AsksForView
  <2>3. CASE active' = NoConv /\ Returns(Others(r))
    <3>1. WaitKinds'
      BY <2>1, <2>3, ReturnsView
    <3>2. QED
      BY <2>3, <3>1 DEF ViewInv, LastView
  <2>4. CASE Returns(Others(r)) /\ UNCHANGED <<active, shown>>
    BY <1>1, <2>1, <2>4
  <2>5. QED
    BY <1>6, <2>2, <2>3, <2>4 DEF OnDropped
<1>7. CASE OnStream(r)
  <2>1. Takes(r, "stream") /\ UNCHANGED <<active, shown>> /\ Others(r) \in SUBSET waits
    BY <1>7 DEF OnStream, Others
  <2>2. CASE Await("messages", active, "reload", Others(r))
    BY <2>1, <2>2, AsksForView
  <2>3. CASE Returns(Others(r))
    BY <1>1, <2>1, <2>3
  <2>4. QED
    BY <1>7, <2>2, <2>3 DEF OnStream
<1>8. CASE OnReload(r)
  <2>1. /\ Takes(r, "reload") /\ UNCHANGED active /\ shown' = (IF Ok(r) THEN Conv(r) ELSE shown)
        /\ Others(r) \in SUBSET waits
        /\ Await("list", Any, "titles", Others(r)) \/ Returns(Others(r))
    BY <1>8 DEF OnReload, Others
  <2>2. /\ WaitKinds' /\ Views' = Views \cap Others(r)
        /\ \A v \in Views' : req'[v.req] = req[v.req]
    BY <2>1, ReturnsView, AsksForOther
  <2>3. QED
    BY <2>1, <2>2, ViewTaken
<1>9. CASE OnTitles(r)
  <2>1. Takes(r, "titles") /\ UNCHANGED <<active, shown>> /\ Returns(Others(r))
    BY <1>9 DEF OnTitles
  <2>2. QED
    BY <1>1, <2>1
<1>10. CASE OnMounted(r)
  <2>1. /\ Takes(r, "mounted") /\ Ok(r) /\ shown' = Conv(r) /\ UNCHANGED active
        /\ Others(r) \in SUBSET waits
        /\ (\E c \in Fresh : Await("create", c, "created", Others(r))) \/ Returns(Others(r))
    BY <1>10 DEF OnMounted, Others
  <2>2. /\ WaitKinds' /\ Views' = Views \cap Others(r)
        /\ \A v \in Views' : req'[v.req] = req[v.req]
    BY <2>1, ReturnsView, AsksForOther
  <2>3. QED
    BY <2>1, <2>2, ViewTaken
<1>11. QED
  BY <1>2, <1>3, <1>4, <1>5, <1>6, <1>7, <1>8, <1>9, <1>10 DEF Resume

(* Serving a request does not make it another one.                          *)
LEMMA ServeKeepsKinds ==
  ASSUME ServerInv, NEW r \in DOMAIN req, Serve(r) \/ Fails(r), NEW q \in DOMAIN req
  PROVE  req'[q].kind = req[q].kind /\ req'[q].conv = req[q].conv
<1>1. req \in Seq(Request)
  BY DEF ServerInv, ConvTypeOK
<1>2. \E x : req' = [req EXCEPT ![r] = x] /\ x.kind = req[r].kind /\ x.conv = req[r].conv
  <2>1. req[r] \in Request
    BY <1>1
  <2>2. ASSUME NEW a, Ends(r, a)
        PROVE  \E x : req' = [req EXCEPT ![r] = x] /\ x.kind = req[r].kind /\ x.conv = req[r].conv
    <3> DEFINE x == [req[r] EXCEPT !.pc = "done", !.inserts = FALSE, !.titles = FALSE,
                                   !.answer = IF req[r].answer = "none" THEN a ELSE req[r].answer]
    <3>1. x.kind = req[r].kind /\ x.conv = req[r].conv
      BY <2>1 DEF Request
    <3>2. req' = [req EXCEPT ![r] = x]
      BY <2>2 DEF Ends
    <3> HIDE DEF x
    <3>3. QED
      BY <3>1, <3>2
  <2>3. ASSUME NEW pc, Goes(r, pc)
        PROVE  \E x : req' = [req EXCEPT ![r] = x] /\ x.kind = req[r].kind /\ x.conv = req[r].conv
    <3> DEFINE x == [req[r] EXCEPT !.pc = pc]
    <3>1. x.kind = req[r].kind /\ x.conv = req[r].conv
      BY <2>1 DEF Request
    <3>2. req' = [req EXCEPT ![r] = x]
      BY <2>3 DEF Goes
    <3> HIDE DEF x
    <3>3. QED
      BY <3>1, <3>2
  <2>4. CASE Begin(r) \/ ReadTitle(r)
    BY <2>3, <2>4 DEF Begin, ReadTitle
  <2>5. CASE Refuse(r) \/ Commit(r) \/ Archive(r) \/ Fails(r)
    BY <2>2, <2>5 DEF Refuse, Commit, Archive, Fails
  <2>6. CASE Insert(r)
    <3> DEFINE turn == req[r].kind = "turn"
               x == [req[r] EXCEPT !.inserts = TRUE, !.titles = req[r].kind # "create",
                                   !.pc = IF turn THEN "stream" ELSE "commit",
                                   !.answer = IF turn THEN "none" ELSE "ok"]
    <3>1. x.kind = req[r].kind /\ x.conv = req[r].conv
      BY <2>1 DEF Request
    <3>2. Ends(r, "failed") \/ req' = [req EXCEPT ![r] = x]
      BY <2>6 DEF Insert
    <3> HIDE DEF x
    <3>3. QED
      BY <2>2, <3>1, <3>2
  <2>7. CASE SetTitle(r) \/ StreamEnds(r) \/ List(r)
    BY <2>1, <2>7 DEF SetTitle, StreamEnds, List, Request
  <2>8. QED
    BY <2>4, <2>5, <2>6, <2>7 DEF Serve
<1>3. QED
  BY <1>1, <1>2

LEMMA ViewStep == StoreInv /\ ViewInv /\ [Next]_vars => ViewInv'
<1> SUFFICES ASSUME StoreInv, ViewInv, [Next]_vars PROVE ViewInv'
  OBVIOUS
<1>1. CASE \/ Mount \/ NewConversation \/ Send
           \/ \E c \in Convs : Select(c) \/ DropConversation(c)
  BY <1>1, ViewUser
<1>2. CASE \E r \in DOMAIN req : Resume(r)
  BY <1>2, ViewAnswer
<1>3. ASSUME UNCHANGED clientVars,
             \A w \in waits : req'[w.req].kind = req[w.req].kind /\ req'[w.req].conv = req[w.req].conv
      PROVE  ViewInv'
  <2>1. UNCHANGED <<active, shown, waits, failed, overtaken>>
    BY <1>3 DEF clientVars
  <2>2. WaitKinds' /\ Views' = Views
    BY <1>3, <2>1 DEF ViewInv, WaitKinds, Views
  <2>3. \A v \in Views : req'[v.req].conv = req[v.req].conv
    BY <1>3 DEF Views
  <2>4. QED
    BY <2>1, <2>2, <2>3, ViewsStay
<1>4. \A w \in waits : w.req \in DOMAIN req
  BY DEF StoreInv, WaitsInv, ServerInv, ConvTypeOK
<1>5. ASSUME NEW c \in Convs, NEW kind \in Kind, Elsewhere(kind, c)
      PROVE  ViewInv'
  <2> DEFINE S == {w.req : w \in waits}
  <2>1. /\ \E x : req' = Append(Remembered(S), x)
        /\ UNCHANGED clientVars
    BY <1>5 DEF Elsewhere, Sent
  <2>2. \A w \in waits : w.req \in S
    OBVIOUS
  <2> HIDE DEF S
  <2>3. /\ Remembered(S) \in Seq(Request) /\ Len(Remembered(S)) = Len(req)
        /\ DOMAIN req = 1..Len(req)
    BY RememberedFacts DEF StoreInv, ServerInv, ConvTypeOK
  <2>4. \A w \in waits : Remembered(S)[w.req] = req[w.req]
    BY <1>4, <2>2 DEF Remembered
  <2>5. \A q \in DOMAIN req : req'[q] = Remembered(S)[q]
    BY <2>1, <2>3
  <2>6. QED
    BY <1>3, <1>4, <2>1, <2>4, <2>5
<1>6. ASSUME NEW r \in DOMAIN req, Serve(r) \/ Fails(r), UNCHANGED clientVars
      PROVE  ViewInv'
  BY <1>3, <1>4, <1>6, ServeKeepsKinds DEF StoreInv
<1>7. CASE UNCHANGED vars
  BY <1>3, <1>7 DEF vars, serverVars
<1>8. QED
  BY <1>1, <1>2, <1>5, <1>6, <1>7 DEF Next

(* Nothing is left on the screen of a conversation that is not the active   *)
(* one, however many views, drops and turns were under way at once.         *)
THEOREM SettledViews == Spec => []SettledViewIsActive
<1>1. StoreInv /\ ViewInv => SettledViewIsActive
  BY DEF ViewInv, LastView, Views, SettledViewIsActive
<1>2. QED
  BY <1>1, ViewInit, ViewStep, StoreInvariant, PTL DEF Spec

-----------------------------------------------------------------------------
(* The accounts: one per address, and no password in force that nobody      *)
(* entitled chose.  The first rests on what the unique index waits for, the *)
(* second on every pending write carrying a password that has been proved   *)
(* or is about to be chosen.                                                *)
-----------------------------------------------------------------------------

AskKind == {"register", "login", "change", "reset"}
AskPc == {"find", "insert", "write", "commit", "done"}
AskState == [kind : AskKind, email : Spellings, id : Nat, current : Passwords,
             new : Passwords, pc : AskPc]
User == [email : Spellings, password : Passwords, outdated : BOOLEAN]

AccountTypes ==
  /\ asks \in Seq(AskState) /\ Len(asks) <= MaxAsks
  /\ DOMAIN users \subseteq 0..Len(asks)
  /\ \A i \in DOMAIN users : users[i] \in User
  /\ chosen \in [0..MaxAsks -> SUBSET Passwords]

(* Addresses are stored normalized; a registration about to commit has its  *)
(* address, and its number, to itself.                                      *)
AddressInv ==
  /\ \A i \in DOMAIN users : Norm[users[i].email] = users[i].email
  /\ \A i, j \in DOMAIN users : users[i].email = users[j].email => i = j
  /\ \A r \in DOMAIN asks : asks[r].kind = "register" /\ asks[r].pc # "done" =>
       r \notin DOMAIN users
  /\ \A r \in DOMAIN asks : asks[r].kind = "register" /\ asks[r].pc = "commit" =>
       /\ \A i \in DOMAIN users : users[i].email # Norm[asks[r].email]
       /\ \A q \in DOMAIN asks :
            asks[q].kind = "register" /\ asks[q].pc = "commit"
              /\ Norm[asks[q].email] = Norm[asks[r].email] => q = r

(* A pending write is of an account that is there, and what a login writes  *)
(* has been in force.                                                       *)
PasswordInv ==
  /\ \A i \in DOMAIN users : users[i].password \in chosen[i]
  /\ \A r \in DOMAIN asks : asks[r].kind \in Writers /\ asks[r].pc \in {"write", "commit"} =>
       /\ asks[r].id \in DOMAIN users
       /\ asks[r].kind = "login" => asks[r].new \in chosen[asks[r].id]

AccountInv == AccountTypes /\ AddressInv /\ PasswordInv

-----------------------------------------------------------------------------
LEMMA AccountsStart == AccountsInit => AccountInv
BY AccountsAssumption DEF AccountsInit, AccountInv, AccountTypes, AddressInv, PasswordInv, User

(* A request moves on: the others stay, and of it only pc and id change,    *)
(* until it is done.                                                        *)
LEMMA GoesFacts ==
  ASSUME AccountTypes, NEW r \in DOMAIN asks, NEW p \in AskPc, NEW i \in Nat, Proceeds(r, p, i)
  PROVE  /\ asks' \in Seq(AskState) /\ Len(asks') = Len(asks) /\ DOMAIN asks' = DOMAIN asks
         /\ \A q \in DOMAIN asks : q # r => asks'[q] = asks[q]
         /\ asks'[r].pc = p
         /\ p # "done" =>
              /\ asks'[r].id = i /\ asks'[r].kind = asks[r].kind
              /\ asks'[r].email = asks[r].email /\ asks'[r].new = asks[r].new
<1>1. asks \in Seq(AskState) /\ asks[r] \in AskState
  BY DEF AccountTypes
<1> DEFINE going == [asks[r] EXCEPT !.pc = p, !.id = i]
           next == IF p = "done" THEN Closed ELSE going
<1>2. going \in AskState
  BY <1>1 DEF AskState
<1>3. Closed \in AskState /\ Closed.pc = "done"
  BY AccountsAssumption DEF Closed, AskState, AskKind, AskPc
<1>4. /\ going.pc = p /\ going.id = i /\ going.kind = asks[r].kind
      /\ going.email = asks[r].email /\ going.new = asks[r].new
  BY <1>1 DEF AskState
<1>5. asks' = [asks EXCEPT ![r] = next]
  BY DEF Proceeds
<1> HIDE DEF going
<1>6. next \in AskState /\ next.pc = p /\ (p # "done" => next = going)
  BY <1>2, <1>3, <1>4
<1> HIDE DEF next
<1>7. asks' \in Seq(AskState) /\ Len(asks') = Len(asks) /\ DOMAIN asks' = DOMAIN asks
  BY <1>1, <1>5, <1>6
<1>8. asks'[r] = next /\ \A q \in DOMAIN asks : q # r => asks'[q] = asks[q]
  BY <1>1, <1>5
<1>9. QED
  BY <1>4, <1>6, <1>7, <1>8

(* Whoever leaves the accounts alone and does not set out to write or to    *)
(* insert preserves the invariant.                                          *)
LEMMA QuietStep ==
  ASSUME AccountInv, NEW r \in DOMAIN asks, NEW p \in {"insert", "done"}, NEW i \in Nat,
         Proceeds(r, p, i), UNCHANGED <<users, chosen>>, asks[r].pc # "done",
         p = "insert" => asks[r].kind = "register"
  PROVE  AccountInv'
<1>1. /\ asks' \in Seq(AskState) /\ Len(asks') = Len(asks) /\ DOMAIN asks' = DOMAIN asks
      /\ \A q \in DOMAIN asks : q # r => asks'[q] = asks[q]
      /\ asks'[r].pc = p /\ (p = "insert" => asks'[r].kind = asks[r].kind)
  BY GoesFacts DEF AccountInv, AskPc
<1>2. AccountTypes'
  BY <1>1 DEF AccountInv, AccountTypes
<1>3. AddressInv'
  BY <1>1 DEF AccountInv, AddressInv
<1>4. PasswordInv'
  BY <1>1 DEF AccountInv, PasswordInv, Writers
<1>5. QED
  BY <1>2, <1>3, <1>4 DEF AccountInv

(* A request sets out to write for an account that is there, a login with   *)
(* the password in force.                                                   *)
LEMMA WillingStep ==
  ASSUME AccountInv, NEW r \in DOMAIN asks, NEW p \in {"write", "commit"},
         NEW i \in DOMAIN users, Proceeds(r, p, i), UNCHANGED <<users, chosen>>,
         asks[r].kind \in Writers, asks[r].kind = "login" => asks[r].new \in chosen[i]
  PROVE  AccountInv'
<1>0. i \in Nat
  BY AccountsAssumption DEF AccountInv, AccountTypes
<1>1. /\ asks' \in Seq(AskState) /\ Len(asks') = Len(asks) /\ DOMAIN asks' = DOMAIN asks
      /\ \A q \in DOMAIN asks : q # r => asks'[q] = asks[q]
      /\ asks'[r].pc = p /\ asks'[r].id = i /\ asks'[r].kind = asks[r].kind
      /\ asks'[r].new = asks[r].new
  BY <1>0, GoesFacts DEF AccountInv, AskPc
<1>2. AccountTypes'
  BY <1>1 DEF AccountInv, AccountTypes
<1>3. AddressInv'
  BY <1>1 DEF AccountInv, AddressInv, Writers
<1>4. PasswordInv'
  BY <1>1 DEF AccountInv, PasswordInv
<1>5. QED
  BY <1>2, <1>3, <1>4 DEF AccountInv

LEMMA AskStep ==
  ASSUME AccountInv, NEW k \in AskKind, NEW s \in Spellings, NEW i \in Nat,
         NEW c \in Passwords, NEW n \in Passwords, Ask(k, s, i, c, n)
  PROVE  AccountInv'
<1> DEFINE x == [kind |-> k, email |-> s, id |-> i, current |-> c, new |-> n, pc |-> "find"]
<1>1. x \in AskState /\ x.pc = "find" /\ x.kind = k
  BY DEF AskState, AskPc
<1>2. asks' = Append(asks, x) /\ Len(asks) < MaxAsks /\ UNCHANGED <<users, chosen>>
  BY DEF Ask
<1> HIDE DEF x
<1>3. asks \in Seq(AskState) /\ MaxAsks \in Nat /\ Len(asks) \in Nat
  BY AccountsAssumption DEF AccountInv, AccountTypes
<1>4. /\ asks' \in Seq(AskState) /\ Len(asks') = Len(asks) + 1
      /\ DOMAIN asks' = DOMAIN asks \cup {Len(asks) + 1}
      /\ \A q \in DOMAIN asks : asks'[q] = asks[q]
      /\ asks'[Len(asks) + 1] = x
  BY <1>1, <1>2, <1>3
<1>5. AccountTypes'
  BY <1>2, <1>3, <1>4 DEF AccountInv, AccountTypes
<1>6. AddressInv'
  <2>1. Len(asks) + 1 \notin DOMAIN users
    BY <1>3 DEF AccountInv, AccountTypes
  <2>2. QED
    BY <1>1, <1>2, <1>4, <2>1 DEF AccountInv, AddressInv
<1>7. PasswordInv'
  BY <1>1, <1>2, <1>4 DEF AccountInv, PasswordInv
<1>8. QED
  BY <1>5, <1>6, <1>7 DEF AccountInv

-----------------------------------------------------------------------------
(* The unique index: who inserts has waited for every other insertion of    *)
(* the address, and found none of them committed.                           *)
LEMMA InsertStep ==
  ASSUME AccountInv, NEW r \in DOMAIN asks, InsertUser(r)
  PROVE  AccountInv'
<1>1. asks[r] \in AskState /\ asks[r].kind = "register" /\ asks[r].pc = "insert"
  BY DEF AccountInv, AccountTypes, InsertUser, Asking
<1>2. CASE Named(asks[r].email) # {}
  BY <1>1, <1>2, QuietStep DEF InsertUser, Refused, AskState
<1>3. CASE Named(asks[r].email) = {}
  <2>1. Proceeds(r, "commit", r) /\ UNCHANGED <<users, chosen>> /\ r \in Nat
    BY <1>3 DEF InsertUser, AccountInv, AccountTypes
  <2>2. /\ asks' \in Seq(AskState) /\ Len(asks') = Len(asks) /\ DOMAIN asks' = DOMAIN asks
        /\ \A q \in DOMAIN asks : q # r => asks'[q] = asks[q]
        /\ asks'[r].pc = "commit" /\ asks'[r].kind = "register"
        /\ asks'[r].email = asks[r].email
    BY <1>1, <2>1, GoesFacts DEF AccountInv, AskPc
  <2>3. \A i \in DOMAIN users : users[i].email # Norm[asks[r].email]
    BY <1>3 DEF Named, Normal
  <2>4. \A q \in DOMAIN asks : asks[q].kind = "register" /\ asks[q].pc = "commit" =>
          Norm[asks[q].email] # Norm[asks[r].email]
    BY DEF InsertUser, Asking, Normal
  <2>5. AddressInv'
    BY <1>1, <2>1, <2>2, <2>3, <2>4 DEF AccountInv, AddressInv
  <2>6. AccountTypes' /\ PasswordInv'
    BY <2>1, <2>2 DEF AccountInv, AccountTypes, PasswordInv, Writers
  <2>7. QED
    BY <2>5, <2>6 DEF AccountInv
<1>4. QED
  BY <1>2, <1>3

LEMMA CommitUserStep ==
  ASSUME AccountInv, NEW r \in DOMAIN asks, CommitUser(r)
  PROVE  AccountInv'
<1> DEFINE u == [email |-> Normal(asks[r].email), password |-> asks[r].new,
                 outdated |-> FALSE]
<1>1. /\ asks[r] \in AskState /\ asks[r].kind = "register" /\ asks[r].pc = "commit"
      /\ r \notin DOMAIN users /\ r \in 0..Len(asks) /\ r \in 0..MaxAsks /\ r \in Nat
  BY AccountsAssumption DEF AccountInv, AccountTypes, AddressInv, CommitUser, Asking
<1>2. /\ u \in User /\ u.email = Norm[asks[r].email] /\ Norm[u.email] = u.email
      /\ u.password = asks[r].new
  BY <1>1, AccountsAssumption DEF User, AskState, Normal
<1>3. /\ DOMAIN users' = DOMAIN users \cup {r} /\ users'[r] = u
      /\ \A i \in DOMAIN users : users'[i] = users[i]
  BY <1>1 DEF CommitUser
<1>4. /\ chosen' \in [0..MaxAsks -> SUBSET Passwords] /\ chosen'[r] = {asks[r].new}
      /\ \A i \in DOMAIN users : chosen'[i] = chosen[i]
  BY <1>1 DEF CommitUser, AccountInv, AccountTypes, AskState
<1>5. /\ asks' \in Seq(AskState) /\ Len(asks') = Len(asks) /\ DOMAIN asks' = DOMAIN asks
      /\ \A q \in DOMAIN asks : q # r => asks'[q] = asks[q]
      /\ asks'[r].pc = "done"
  BY <1>1, GoesFacts DEF CommitUser, AccountInv, AskPc
<1> HIDE DEF u
<1>6. AccountTypes'
  BY <1>1, <1>2, <1>3, <1>4, <1>5 DEF AccountInv, AccountTypes
<1>7. AddressInv'
  <2>1. \A i \in DOMAIN users : users[i].email # u.email
    BY <1>1, <1>2 DEF AccountInv, AddressInv
  <2>2. \A q \in DOMAIN asks : q # r /\ asks[q].kind = "register" /\ asks[q].pc = "commit" =>
          Norm[asks[q].email] # u.email
    BY <1>1, <1>2 DEF AccountInv, AddressInv
  <2>3. QED
    BY <1>1, <1>2, <1>3, <1>5, <2>1, <2>2 DEF AccountInv, AddressInv
<1>8. PasswordInv'
  BY <1>1, <1>2, <1>3, <1>4, <1>5 DEF AccountInv, PasswordInv
<1>9. QED
  BY <1>6, <1>7, <1>8 DEF AccountInv

LEMMA CommitPasswordStep ==
  ASSUME AccountInv, NEW r \in DOMAIN asks, CommitPassword(r)
  PROVE  AccountInv'
<1> DEFINE i == asks[r].id
<1>1. /\ asks[r] \in AskState /\ asks[r].kind \in Writers /\ asks[r].pc = "commit"
      /\ i \in DOMAIN users /\ i \in Nat /\ i \in 0..MaxAsks
  <2>1. asks[r] \in AskState /\ asks[r].kind \in Writers /\ asks[r].pc = "commit"
    BY DEF AccountInv, AccountTypes, CommitPassword, Asking
  <2>2. i \in DOMAIN users
    BY <2>1 DEF AccountInv, PasswordInv
  <2>3. QED
    BY <2>1, <2>2, AccountsAssumption DEF AccountInv, AccountTypes
<1>2. /\ DOMAIN users' = DOMAIN users
      /\ \A j \in DOMAIN users : j # i => users'[j] = users[j]
      /\ users'[i] \in User /\ users'[i].email = users[i].email
      /\ users'[i].password = asks[r].new
  BY <1>1 DEF CommitPassword, AccountInv, AccountTypes, AskState, User
<1>3. /\ chosen' \in [0..MaxAsks -> SUBSET Passwords]
      /\ \A j \in 0..MaxAsks : chosen[j] \subseteq chosen'[j]
      /\ asks[r].kind # "login" => asks[r].new \in chosen'[i]
  BY <1>1 DEF CommitPassword, AccountInv, AccountTypes, AskState
<1>4. /\ asks' \in Seq(AskState) /\ Len(asks') = Len(asks) /\ DOMAIN asks' = DOMAIN asks
      /\ \A q \in DOMAIN asks : q # r => asks'[q] = asks[q]
      /\ asks'[r].pc = "done"
  BY <1>1, GoesFacts DEF CommitPassword, AccountInv, AskPc
<1>5. DOMAIN users \subseteq 0..MaxAsks
  BY AccountsAssumption DEF AccountInv, AccountTypes
<1>6. AccountTypes'
  BY <1>1, <1>2, <1>3, <1>4 DEF AccountInv, AccountTypes
<1>7. AddressInv'
  BY <1>1, <1>2, <1>4 DEF AccountInv, AddressInv, Writers
<1>8. PasswordInv'
  BY <1>1, <1>2, <1>3, <1>4, <1>5 DEF AccountInv, PasswordInv
<1>9. QED
  BY <1>6, <1>7, <1>8 DEF AccountInv

-----------------------------------------------------------------------------
LEMMA AccountStep == AccountInv /\ [AccountsNext]_accountVars => AccountInv'
<1> SUFFICES ASSUME AccountInv, AccountsNext PROVE AccountInv'
  BY DEF AccountInv, AccountTypes, AddressInv, PasswordInv, accountVars
<1>1. ASSUME NEW s \in Spellings, NEW p \in Passwords, NEW k \in AskKind,
             Ask(k, s, 0, p, p)
      PROVE  AccountInv'
  BY <1>1, AskStep
<1>2. ASSUME NEW i \in DOMAIN users, NEW p \in Passwords, NEW q \in Passwords,
             Ask("change", users[i].email, i, p, q)
      PROVE  AccountInv'
  <2>1. users[i].email \in Spellings /\ i \in Nat
    BY DEF AccountInv, AccountTypes, User
  <2>2. QED
    BY <1>2, <2>1, AskStep DEF AskKind
<1>3. ASSUME NEW r \in DOMAIN asks,
             \/ FindFree(r) \/ InsertUser(r) \/ CommitUser(r) \/ Login(r)
             \/ ChangePassword(r) \/ ResetPassword(r) \/ Write(r) \/ CommitPassword(r)
             \/ AskFails(r)
      PROVE  AccountInv'
  <2>0. asks[r] \in AskState /\ asks[r].id \in Nat /\ r \in Nat
    <3>1. asks \in Seq(AskState)
      BY DEF AccountInv, AccountTypes
    <3>2. asks[r] \in AskState /\ r \in Nat
      BY <3>1
    <3>3. QED
      BY <3>2 DEF AskState
  <2>1. ASSUME Refused(r), asks[r].pc # "done" PROVE AccountInv'
    BY <2>0, <2>1, QuietStep DEF Refused
  <2>2. CASE FindFree(r)
    BY <2>0, <2>1, <2>2, QuietStep DEF FindFree, Asking
  <2>3. CASE Login(r)
    <3>1. CASE Refused(r)
      BY <2>1, <2>3, <3>1 DEF Login, Asking
    <3>2. ASSUME NEW i \in DOMAIN users, users[i].password = asks[r].new,
                 Proceeds(r, IF users[i].outdated THEN "write" ELSE "done", i),
                 UNCHANGED <<users, chosen>>
          PROVE  AccountInv'
      <4>1. asks[r].new \in chosen[i] /\ i \in Nat
        BY <3>2 DEF AccountInv, PasswordInv, AccountTypes
      <4>2. asks[r].kind = "login" /\ asks[r].pc = "find"
        BY <2>3 DEF Login, Asking
      <4>3. QED
        BY <3>2, <4>1, <4>2, WillingStep, QuietStep DEF Writers
    <3>3. QED
      BY <2>3, <3>1, <3>2 DEF Login, Named
  <2>4. CASE ChangePassword(r)
    BY <2>1, <2>4, WillingStep DEF ChangePassword, Asking, Writers
  <2>5. CASE ResetPassword(r)
    BY <2>1, <2>5, WillingStep DEF ResetPassword, Asking, Writers, Named
  <2>6. CASE Write(r)
    <3>1. /\ asks[r].kind \in Writers /\ asks[r].id \in DOMAIN users
          /\ asks[r].kind = "login" => asks[r].new \in chosen[asks[r].id]
      BY <2>6 DEF Write, Asking, AccountInv, PasswordInv
    <3>2. QED
      BY <2>6, <3>1, WillingStep DEF Write
  <2>7. CASE AskFails(r)
    BY <2>1, <2>7 DEF AskFails
  <2>8. QED
    BY <1>3, <2>2, <2>3, <2>4, <2>5, <2>6, <2>7, InsertStep, CommitUserStep,
       CommitPasswordStep
<1>4. QED
  BY <1>1, <1>2, <1>3 DEF AccountsNext, AskKind

(* Nobody has two accounts, however the address is typed and however many   *)
(* registrations overlap (service.py:81-95, the unique index of users).     *)
THEOREM AddressesUnique == AccountsSpec => []OneAccountPerEmail
<1>1. AccountInv => OneAccountPerEmail
  BY DEF AccountInv, AddressInv, OneAccountPerEmail
<1>2. QED
  BY AccountsStart, AccountStep, <1>1, PTL DEF AccountsSpec

(* The password in force is one that somebody entitled chose, whatever      *)
(* logins renew hashes meanwhile (service.py:97-125).                       *)
THEOREM PasswordsChosen == AccountsSpec => []OnlyChosenPasswords
<1>1. AccountInv => OnlyChosenPasswords
  BY DEF AccountInv, PasswordInv, OnlyChosenPasswords
<1>2. QED
  BY AccountsStart, AccountStep, <1>1, PTL DEF AccountsSpec
=============================================================================
