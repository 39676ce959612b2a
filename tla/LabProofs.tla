----------------------------- MODULE LabProofs -----------------------------
(* What the chat audit and the synthetic evaluation say is so, for any      *)
(* conversation, cases, prompts and numbers of requests, runs and crashes.  *)
EXTENDS EvalLab, SyntheticLab, TLAPS, FiniteSetTheorems

-----------------------------------------------------------------------------
(* The chat audit                                                           *)
-----------------------------------------------------------------------------

Written == [role : {"user", "assistant"}, turn : TurnIds, at : Nat]
Pack == [reply : Written, user : SUBSET TurnIds, before : SUBSET Written]
Turn == [pc : {"idle", "asked", "composed", "ended"}, asked : Nat, bans : SUBSET Entities]
Audit == [pc : {"idle", "read", "done"}, step : 1..3, packs : SUBSET Pack, bans : SUBSET Entities]
Review == [kind : {"none", "whole", "torn"}, packs : SUBSET Pack, bans : SUBSET Entities]

EvalTypes ==
  /\ messages \in SUBSET Written /\ IsFiniteSet(messages)
  /\ turns \in [TurnIds -> Turn]
  /\ bans \in SUBSET Entities
  /\ audits \in [Audits -> Audit]
  /\ file \in Review
  /\ clock \in Nat /\ crossed \in BOOLEAN

(* Times do not run ahead of the clock, and what is written is of a turn    *)
(* that is over.                                                            *)
TimeInv ==
  /\ \A m \in messages : m.at <= clock /\ turns[m.turn].pc = "ended"
  /\ \A t \in TurnIds : turns[t].asked <= clock

Asked(t) == Message("user", t, turns[t].asked)

(* While no two turns have overlapped, a question comes right before its    *)
(* reply.                                                                   *)
AloneInv ==
  /\ \A m, n \in messages : m.at = n.at => m = n
  /\ \A t \in TurnIds : turns[t].pc \in {"asked", "composed"} =>
       /\ \A u \in TurnIds : turns[u].pc \in {"asked", "composed"} => u = t
       /\ \A m \in messages : m.at < turns[t].asked
  /\ \A m \in Replies(messages) :
       /\ Asked(m.turn) \in messages /\ turns[m.turn].asked < m.at
       /\ \A n \in messages : n.at <= turns[m.turn].asked \/ m.at <= n.at

(* What a pack says of the messages, of those that came after it too.       *)
WellPaired(pack) ==
  /\ pack.user \subseteq {pack.reply.turn}
  /\ pack.user # {} =>
       /\ Asked(pack.reply.turn) \in messages
       /\ pack.before # {} =>
            \A m \in messages : m.at < turns[pack.reply.turn].asked
                                   <=> \E n \in pack.before : m.at <= n.at

PairInv ==
  \A a \in Audits : \A pack \in audits[a].packs :
    /\ WellPaired(pack)
    /\ pack.user = {} => \A p \in audits[a].packs : pack.reply.at <= p.reply.at

PacksWritten(packs) ==
  \A pack \in packs : pack.reply \in messages /\ pack.before \subseteq messages

(* The bans of a turn are among the bans, and those of the turns of a       *)
(* review are among the ones it is judged by.                               *)
BanInv ==
  /\ \A t \in TurnIds : turns[t].bans \subseteq bans
  /\ \A a \in Audits : audits[a].step = 3 =>
       \A pack \in audits[a].packs : turns[pack.reply.turn].bans \subseteq audits[a].bans
  /\ \A pack \in file.packs : turns[pack.reply.turn].bans \subseteq file.bans

EvalInv ==
  /\ EvalTypes /\ TimeInv /\ BanInv
  /\ \A a \in Audits : PacksWritten(audits[a].packs)
  /\ PacksWritten(file.packs)
  /\ ~crossed => AloneInv /\ PairInv

LEMMA EvalStart == EvalInit => EvalInv
<1> SUFFICES ASSUME EvalInit PROVE EvalInv
  OBVIOUS
<1>1. EvalTypes
  <2>1. messages \in SUBSET Written /\ IsFiniteSet(messages)
    BY FS_EmptySet DEF EvalInit
  <2>2. turns \in [TurnIds -> Turn]
    BY DEF EvalInit, Turn
  <2>3. audits \in [Audits -> Audit]
    BY DEF EvalInit, Audit, Answered
  <2>4. file \in Review
    BY DEF EvalInit, Review, None
  <2>5. QED
    BY <2>1, <2>2, <2>3, <2>4 DEF EvalInit, EvalTypes
<1>2. TimeInv /\ BanInv
  BY DEF EvalInit, TimeInv, BanInv, Answered, None
<1>3. /\ \A a \in Audits : PacksWritten(audits[a].packs)
      /\ PacksWritten(file.packs)
  BY DEF EvalInit, PacksWritten, Answered, None
<1>4. AloneInv /\ PairInv
  BY DEF EvalInit, AloneInv, PairInv, Answered, Replies
<1>5. QED
  BY <1>1, <1>2, <1>3, <1>4 DEF EvalInv

(* The history has every message that is as late as one it has.             *)
LEMMA HistoryIsLatest ==
  ASSUME EvalTypes, NEW m \in History, NEW n \in messages, m.at <= n.at
  PROVE  n \in History
<1> DEFINE After(x) == {k \in messages : x.at < k.at}
<1>1. m \in messages /\ Cardinality(After(m)) < Limit
  BY DEF History
<1>2. After(n) \in SUBSET After(m)
  <2>1. \A k \in messages : k.at \in Nat
    BY DEF EvalTypes, Written
  <2>2. QED
    BY <1>1, <2>1
<1>3. IsFiniteSet(After(m)) /\ IsFiniteSet(After(n))
  BY FS_Subset DEF EvalTypes
<1>4. Cardinality(After(n)) <= Cardinality(After(m))
  BY <1>2, <1>3, FS_Subset
<1>5. Cardinality(After(n)) \in Nat /\ Cardinality(After(m)) \in Nat /\ Limit \in Nat
  BY <1>3, FS_CardinalityType, EvalAssumption
<1>6. Cardinality(After(n)) < Limit
  BY <1>1, <1>4, <1>5
<1>7. QED
  BY <1>6 DEF History

(* The packs of an audit are right when they are made.                      *)
LEMMA PacksAreRight ==
  ASSUME EvalInv, NEW pack \in Packed(History)
  PROVE  /\ pack \in Pack
         /\ pack.reply \in messages /\ pack.before \subseteq messages
         /\ ~crossed => /\ WellPaired(pack)
                        /\ pack.user = {} => \A n \in History : pack.reply.at <= n.at
<1> DEFINE H(x) == Heard(History, x)
<1>1. PICK m \in Replies(History) :
        pack = [reply |-> m, user |-> Questions(Latest(H(m))), before |-> H(m) \ Latest(H(m))]
  BY DEF Packed
<1>2. History \subseteq messages /\ messages \subseteq Written
  BY DEF History, EvalInv, EvalTypes
<1>3. m \in History /\ m \in messages /\ m \in Written /\ m.role = "assistant"
  BY <1>1, <1>2 DEF Replies
<1>4. H(m) \subseteq History /\ Latest(H(m)) \subseteq H(m)
  BY DEF Heard, Latest
<1>5. Questions(Latest(H(m))) \subseteq TurnIds
  BY <1>2, <1>4 DEF Questions, Written
<1>6. pack \in Pack /\ pack.reply = m /\ pack.before \subseteq messages
  BY <1>1, <1>2, <1>3, <1>4, <1>5 DEF Pack
<1>7. ASSUME ~crossed
      PROVE  /\ WellPaired(pack)
             /\ pack.user = {} => \A n \in History : m.at <= n.at
  <2> DEFINE q == Asked(m.turn)
  <2>1. AloneInv /\ EvalTypes
    BY <1>7 DEF EvalInv
  <2>2. q \in messages /\ q.at < m.at /\ \A n \in messages : n.at <= q.at \/ m.at <= n.at
    BY <1>3, <2>1 DEF AloneInv, Replies, Asked, Message
  <2>3. \A n \in messages : n.at \in Nat
    BY <1>2 DEF Written
  <2>4. CASE q \in History
    <3>1. q \in H(m)
      BY <2>2, <2>4 DEF Heard
    <3>2. \A n \in H(m) : n.at <= q.at
      <4>1. \A n \in H(m) : n \in messages /\ n.at < m.at
        BY <1>2 DEF Heard
      <4>2. QED
        BY <2>2, <2>3, <4>1, <1>3
    <3>3. Latest(H(m)) = {q}
      <4>1. q \in Latest(H(m))
        BY <3>1, <3>2 DEF Latest
      <4>2. ASSUME NEW n \in Latest(H(m)) PROVE n = q
        <5>1. n.at <= q.at /\ q.at <= n.at /\ n \in messages
          BY <1>2, <1>4, <3>1, <3>2, <4>2 DEF Latest
        <5>2. n.at = q.at
          BY <2>2, <2>3, <5>1
        <5>3. QED
          BY <2>1, <2>2, <5>1, <5>2 DEF AloneInv
      <4>3. QED
        BY <4>1, <4>2
    <3>4. Questions(Latest(H(m))) = {m.turn}
      <4>1. q.role = "user" /\ q.turn = m.turn
        BY DEF Asked, Message
      <4> HIDE DEF q
      <4>2. QED
        BY <3>3, <4>1 DEF Questions
    <3>5. pack.user = {m.turn} /\ pack.before = H(m) \ {q}
      BY <1>1, <3>3, <3>4
    <3>6. q.at = turns[m.turn].asked
      BY DEF Asked, Message
    <3>7. ASSUME pack.before # {}, NEW n \in messages
          PROVE  n.at < q.at <=> \E b \in pack.before : n.at <= b.at
      <4>1. ASSUME NEW b \in pack.before PROVE b.at < q.at /\ b \in History
        <5>1. b \in H(m) /\ b # q /\ b \in messages /\ b \in History
          BY <1>2, <1>4, <3>5
        <5>2. b.at <= q.at /\ b.at # q.at
          BY <2>1, <2>2, <3>2, <5>1 DEF AloneInv
        <5>3. QED
          BY <2>2, <2>3, <5>1, <5>2
      <4>2. ASSUME n.at < q.at PROVE \E b \in pack.before : n.at <= b.at
        <5>1. CASE n \in History
          <6>1. n.at < m.at /\ n # q
            BY <2>2, <2>3, <1>3, <4>2
          <6>2. n \in pack.before /\ n.at <= n.at
            BY <2>3, <3>5, <5>1, <6>1 DEF Heard
          <6>3. QED
            BY <6>2
        <5>2. CASE n \notin History
          <6>1. PICK b \in pack.before : TRUE
            BY <3>7
          <6>2. ~(b.at <= n.at)
            BY <2>1, <4>1, <5>2, HistoryIsLatest
          <6>3. n.at <= b.at
            BY <1>2, <2>3, <4>1, <6>2
          <6>4. QED
            BY <6>3
        <5>3. QED
          BY <5>1, <5>2
      <4>3. ASSUME NEW b \in pack.before, n.at <= b.at PROVE n.at < q.at
        <5>1. b.at < q.at /\ b \in messages
          BY <1>2, <4>1
        <5>2. QED
          BY <2>2, <2>3, <4>3, <5>1
      <4>4. QED
        BY <4>2, <4>3
    <3>8. WellPaired(pack)
      BY <1>6, <2>2, <3>5, <3>6, <3>7 DEF WellPaired
    <3>9. QED
      BY <3>5, <3>8
  <2>5. CASE q \notin History
    <3>1. H(m) = {}
      <4>1. SUFFICES ASSUME NEW n \in H(m) PROVE FALSE
        OBVIOUS
      <4>2. n \in History /\ n \in messages /\ n.at < m.at
        BY <1>2 DEF Heard
      <4>3. n.at <= q.at
        BY <1>3, <2>2, <2>3, <4>2
      <4>4. QED
        BY <2>1, <2>2, <2>5, <4>2, <4>3, HistoryIsLatest
    <3>2. pack.user = {}
      BY <1>1, <3>1 DEF Latest, Questions
    <3>3. \A n \in History : m.at <= n.at
      <4>1. \A n \in History : ~(n.at < m.at)
        BY <3>1 DEF Heard
      <4>2. QED
        BY <1>2, <1>3, <2>3, <4>1
    <3>4. QED
      BY <3>2, <3>3 DEF WellPaired
  <2>6. QED
    BY <2>4, <2>5
<1>8. QED
  BY <1>3, <1>6, <1>7

(* A step that leaves the messages, the turns' times and the packs alone    *)
(* leaves what the packs say alone.                                         *)
LEMMA PacksStay ==
  ASSUME EvalInv, messages' = messages, crossed' \in BOOLEAN, crossed => crossed',
         \A t \in TurnIds : turns[t].pc = "ended" => turns'[t].asked = turns[t].asked,
         \A a \in Audits : audits'[a].packs \in {audits[a].packs, {}},
         file'.packs \in {file.packs, {}} \cup {audits[a].packs : a \in Audits}
  PROVE  /\ \A a \in Audits : PacksWritten(audits[a].packs)'
         /\ PacksWritten(file.packs)'
         /\ ~crossed' => PairInv'
<1>1. /\ \A a \in Audits : PacksWritten(audits[a].packs)'
      /\ PacksWritten(file.packs)'
  BY DEF EvalInv, PacksWritten
<1>2. ASSUME ~crossed' PROVE PairInv'
  <2>1. PairInv
    BY <1>2 DEF EvalInv
  <2>2. ASSUME NEW a \in Audits, NEW pack \in audits'[a].packs
        PROVE  /\ WellPaired(pack)'
               /\ pack.user = {} => \A p \in audits'[a].packs : pack.reply.at <= p.reply.at
    <3>1. audits'[a].packs = audits[a].packs /\ pack \in audits[a].packs
      BY <2>2
    <3>2. pack.reply \in messages /\ pack.reply.turn \in TurnIds
      BY <3>1 DEF EvalInv, EvalTypes, PacksWritten, Written
    <3>3. turns'[pack.reply.turn].asked = turns[pack.reply.turn].asked
      BY <3>2 DEF EvalInv, TimeInv
    <3>4. WellPaired(pack)
      BY <2>1, <3>1 DEF PairInv
    <3>5. WellPaired(pack)'
      BY <3>3, <3>4 DEF WellPaired, Asked, Message
    <3>6. QED
      BY <2>1, <3>1, <3>5 DEF PairInv
  <2>3. QED
    BY <2>2 DEF PairInv
<1>3. QED
  BY <1>1, <1>2

LEMMA AskTurnStep == ASSUME EvalInv, NEW t \in TurnIds, AskTurn(t) PROVE EvalInv'
<1> USE DEF AskTurn
<1>1. EvalTypes'
  <2>1. turns' \in [TurnIds -> Turn] /\ clock' \in Nat
    <3>1. clock \in Nat /\ clock + 1 \in Nat /\ turns \in [TurnIds -> Turn]
      BY DEF EvalInv, EvalTypes
    <3>2. [turns[t] EXCEPT !.pc = "asked", !.asked = clock + 1] \in Turn
      BY <3>1 DEF Turn
    <3>3. QED
      BY <3>1, <3>2
  <2>2. crossed' \in BOOLEAN
    BY DEF EvalInv, EvalTypes
  <2>3. QED
    BY <2>1, <2>2 DEF EvalInv, EvalTypes
<1>2. \A u \in TurnIds : turns'[u] = IF u = t THEN [turns[t] EXCEPT !.pc = "asked", !.asked = clock + 1]
                                     ELSE turns[u]
  BY DEF EvalInv, EvalTypes
<1>3. turns[t] \in Turn /\ turns[t].pc = "idle" /\ turns'[t].pc = "asked"
      /\ turns'[t].asked = clock + 1 /\ turns'[t].bans = turns[t].bans
  BY <1>2 DEF EvalInv, EvalTypes, Turn
<1>4. \A m \in messages : m.turn # t /\ m.turn \in TurnIds /\ m.at \in Nat
  BY <1>3 DEF EvalInv, EvalTypes, TimeInv, Written
<1>5. clock \in Nat /\ \A u \in TurnIds : turns[u].asked \in Nat
  BY DEF EvalInv, EvalTypes, Turn
<1>6. TimeInv'
  <2>1. ASSUME NEW m \in messages PROVE m.at <= clock' /\ turns'[m.turn].pc = "ended"
    <3>1. m.at <= clock /\ turns[m.turn].pc = "ended" /\ m.at \in Nat
      BY <1>4 DEF EvalInv, TimeInv
    <3>2. turns'[m.turn] = turns[m.turn] /\ clock' = clock + 1
      BY <1>2, <1>4
    <3>3. QED
      BY <1>5, <3>1, <3>2
  <2>2. ASSUME NEW u \in TurnIds PROVE turns'[u].asked <= clock'
    <3>1. turns[u].asked <= clock /\ turns[u].asked \in Nat /\ clock' = clock + 1
      BY <1>5 DEF EvalInv, TimeInv
    <3>2. turns'[u].asked \in {turns[u].asked, clock + 1}
      BY <1>2, <1>3
    <3>3. QED
      BY <1>5, <3>1, <3>2
  <2>3. QED
    BY <2>1, <2>2 DEF TimeInv
<1>7. BanInv'
  <2>1. \A u \in TurnIds : turns'[u].bans = turns[u].bans
    BY <1>2, <1>3
  <2>2. \A a \in Audits : \A pack \in audits[a].packs : pack.reply.turn \in TurnIds
    BY <1>4 DEF EvalInv, PacksWritten
  <2>3. \A pack \in file.packs : pack.reply.turn \in TurnIds
    BY <1>4 DEF EvalInv, PacksWritten
  <2>4. QED
    BY <2>1, <2>2, <2>3 DEF EvalInv, BanInv
<1>8. ASSUME ~crossed' PROVE AloneInv'
  <2>1. AloneInv /\ \A u \in TurnIds : turns[u].pc \notin {"asked", "composed"}
    BY <1>8 DEF EvalInv
  <2>2. \A m \in messages : m.at < clock + 1
    BY <1>4, <1>5 DEF EvalInv, TimeInv
  <2>3. \A u \in TurnIds : turns'[u].pc \in {"asked", "composed"} => u = t
    BY <1>2, <2>1
  <2>4. ASSUME NEW m \in Replies(messages)
        PROVE  /\ Asked(m.turn)' \in messages /\ turns'[m.turn].asked < m.at
               /\ \A n \in messages : n.at <= turns'[m.turn].asked \/ m.at <= n.at
    <3>1. turns'[m.turn] = turns[m.turn]
      BY <1>2, <1>4 DEF Replies
    <3>2. QED
      BY <2>1, <3>1 DEF AloneInv, Asked, Message
  <2>5. Replies(messages)' = Replies(messages)
    BY DEF Replies
  <2>6. QED
    BY <1>3, <2>1, <2>2, <2>3, <2>4, <2>5 DEF AloneInv
<1>9. \A u \in TurnIds : turns[u].pc = "ended" => turns'[u].asked = turns[u].asked
  BY <1>2, <1>3
<1>10. crossed => crossed'
  OBVIOUS
<1>11. /\ \A a \in Audits : PacksWritten(audits[a].packs)'
       /\ PacksWritten(file.packs)' /\ (~crossed' => PairInv')
  BY <1>1, <1>9, <1>10, PacksStay DEF EvalTypes
<1>12. QED
  BY <1>1, <1>6, <1>7, <1>8, <1>11 DEF EvalInv

LEMMA ComposeTurnStep == ASSUME EvalInv, NEW t \in TurnIds, ComposeTurn(t) PROVE EvalInv'
<1> USE DEF ComposeTurn
<1>1. EvalTypes'
  BY DEF EvalInv, EvalTypes, Turn
<1>2. \A u \in TurnIds : turns'[u] = IF u = t THEN [turns[t] EXCEPT !.pc = "composed", !.bans = bans]
                                     ELSE turns[u]
  BY DEF EvalInv, EvalTypes
<1>3. turns[t] \in Turn /\ turns[t].pc = "asked" /\ turns'[t].pc = "composed"
      /\ turns'[t].asked = turns[t].asked /\ turns'[t].bans = bans
  BY <1>2 DEF EvalInv, EvalTypes, Turn
<1>4. \A m \in messages : m.turn # t /\ m.turn \in TurnIds
  BY <1>3 DEF EvalInv, EvalTypes, TimeInv, Written
<1>5. TimeInv'
  BY <1>2, <1>3, <1>4 DEF EvalInv, TimeInv
<1>6. BanInv'
  <2>1. \A u \in TurnIds : turns'[u].bans \subseteq bans
    BY <1>2, <1>3 DEF EvalInv, BanInv
  <2>2. \A a \in Audits : \A pack \in audits[a].packs : turns'[pack.reply.turn] = turns[pack.reply.turn]
    BY <1>2, <1>4 DEF EvalInv, PacksWritten
  <2>3. \A pack \in file.packs : turns'[pack.reply.turn] = turns[pack.reply.turn]
    BY <1>2, <1>4 DEF EvalInv, PacksWritten
  <2>4. QED
    BY <2>1, <2>2, <2>3 DEF EvalInv, BanInv
<1>7. ASSUME ~crossed' PROVE AloneInv'
  <2>1. AloneInv
    BY <1>7 DEF EvalInv
  <2>2. \A u \in TurnIds : /\ turns'[u].asked = turns[u].asked
                           /\ turns'[u].pc \in {"asked", "composed"} => turns[u].pc \in {"asked", "composed"}
    BY <1>2, <1>3
  <2>3. ASSUME NEW m \in Replies(messages)
        PROVE  /\ Asked(m.turn)' \in messages /\ turns'[m.turn].asked < m.at
               /\ \A n \in messages : n.at <= turns'[m.turn].asked \/ m.at <= n.at
    <3>1. turns'[m.turn].asked = turns[m.turn].asked
      BY <1>4, <2>2 DEF Replies
    <3>2. QED
      BY <2>1, <3>1 DEF AloneInv, Asked, Message
  <2>4. Replies(messages)' = Replies(messages)
    BY DEF Replies
  <2>5. QED
    BY <2>1, <2>2, <2>3, <2>4 DEF AloneInv
<1>8. \A u \in TurnIds : turns[u].pc = "ended" => turns'[u].asked = turns[u].asked
  BY <1>2, <1>3
<1>9. /\ \A a \in Audits : PacksWritten(audits[a].packs)'
      /\ PacksWritten(file.packs)' /\ (~crossed' => PairInv')
  BY <1>1, <1>8, PacksStay DEF EvalTypes
<1>10. QED
  BY <1>1, <1>5, <1>6, <1>7, <1>9 DEF EvalInv

LEMMA EndTurnStep == ASSUME EvalInv, NEW t \in TurnIds, EndTurn(t) PROVE EvalInv'
<1> DEFINE q == Message("user", t, turns[t].asked)
           r == Message("assistant", t, clock + 1)
           new == {q} \cup IF turns[t].pc = "composed" THEN {r} ELSE {}
<1>1. turns[t].pc \in {"asked", "composed"} /\ messages' = messages \cup new /\ clock' = clock + 1
      /\ UNCHANGED <<bans, audits, file, crossed, crashes>>
  BY DEF EndTurn
<1>2. turns[t] \in Turn /\ clock \in Nat /\ clock' \in Nat
  BY <1>1 DEF EvalInv, EvalTypes
<1>3. \A u \in TurnIds : turns'[u] = IF u = t THEN [turns[t] EXCEPT !.pc = "ended"] ELSE turns[u]
  BY DEF EndTurn, EvalInv, EvalTypes
<1>4. turns'[t].pc = "ended" /\ turns'[t].asked = turns[t].asked /\ turns'[t].bans = turns[t].bans
  BY <1>2, <1>3 DEF Turn
<1>5. q \in Written /\ r \in Written
  BY <1>2 DEF Written, Turn, Message
<1>6. q.at = turns[t].asked /\ q.turn = t /\ q.role = "user"
      /\ r.at = clock + 1 /\ r.turn = t /\ r.role = "assistant"
  BY DEF Message
<1>7. turns[t].asked <= clock /\ turns[t].asked \in Nat /\ q # r
  BY <1>2, <1>6 DEF EvalInv, TimeInv, Turn
<1>8. \A m \in messages : m.at <= clock /\ m.at \in Nat /\ m.turn \in TurnIds /\ m.turn # t
  BY <1>1 DEF EvalInv, TimeInv, EvalTypes, Written
<1>9. q \in messages' /\ \A m \in messages' : m \in messages \/ m = q \/ m = r
  BY <1>1
<1> HIDE DEF q, r
<1>10. EvalTypes'
  <2>1. messages' \in SUBSET Written
    BY <1>1, <1>5 DEF EvalInv, EvalTypes
  <2>2. IsFiniteSet(messages')
    <3>1. IsFiniteSet(new)
      BY FS_Singleton, FS_EmptySet, FS_Union
    <3>2. QED
      BY <1>1, <3>1, FS_Union DEF EvalInv, EvalTypes
  <2>3. turns' \in [TurnIds -> Turn]
    BY DEF EndTurn, EvalInv, EvalTypes, Turn
  <2>4. QED
    BY <1>1, <1>2, <2>1, <2>2, <2>3 DEF EvalInv, EvalTypes
<1>11. TimeInv'
  <2>1. ASSUME NEW m \in messages' PROVE m.at <= clock' /\ turns'[m.turn].pc = "ended"
    <3>1. CASE m \in messages
      BY <1>1, <1>2, <1>3, <1>8, <3>1 DEF EvalInv, TimeInv
    <3>2. CASE m = q \/ m = r
      BY <1>1, <1>2, <1>4, <1>6, <1>7, <3>2
    <3>3. QED
      BY <1>9, <3>1, <3>2
  <2>2. \A u \in TurnIds : turns'[u].asked <= clock'
    <3>1. ASSUME NEW u \in TurnIds PROVE turns'[u].asked <= clock'
      <4>1. turns'[u].asked = turns[u].asked /\ turns[u].asked <= clock /\ turns[u].asked \in Nat
        BY <1>3, <1>4 DEF EvalInv, TimeInv, EvalTypes, Turn
      <4>2. QED
        BY <1>1, <1>2, <4>1
    <3>2. QED
      BY <3>1
  <2>3. QED
    BY <2>1, <2>2 DEF TimeInv
<1>12. \A u \in TurnIds : turns'[u].bans = turns[u].bans /\ turns'[u].asked = turns[u].asked
  BY <1>3, <1>4
<1>13. (\A a \in Audits : PacksWritten(audits[a].packs)') /\ PacksWritten(file.packs)'
  BY <1>1 DEF EvalInv, PacksWritten
<1>14. BanInv'
  <2>1. \A a \in Audits : \A pack \in audits[a].packs : pack.reply.turn \in TurnIds
    BY <1>8 DEF EvalInv, PacksWritten
  <2>2. \A pack \in file.packs : pack.reply.turn \in TurnIds
    BY <1>8 DEF EvalInv, PacksWritten
  <2>3. QED
    BY <1>1, <1>12, <2>1, <2>2 DEF EvalInv, BanInv
<1>15. ASSUME ~crossed' PROVE AloneInv' /\ PairInv'
  <2>1. AloneInv /\ PairInv
    BY <1>1, <1>15 DEF EvalInv
  <2>2. \A m \in messages : m.at < q.at
    BY <1>1, <1>6, <2>1 DEF AloneInv
  <2>3. q.at < r.at /\ q.at \in Nat /\ r.at \in Nat
    BY <1>2, <1>6, <1>7
  <2>4. \A m \in messages : m.at < r.at
    BY <1>2, <1>6, <1>8
  <2>5. \A m, n \in messages' : m.at = n.at => m = n
    <3>1. ASSUME NEW m \in messages', NEW n \in messages', m.at = n.at PROVE m = n
      <4>1. CASE m \in messages /\ n \in messages
        BY <2>1, <3>1, <4>1 DEF AloneInv
      <4>2. CASE m \in messages /\ n \notin messages
        BY <1>8, <1>9, <2>2, <2>3, <2>4, <3>1, <4>2
      <4>3. CASE m \notin messages /\ n \in messages
        BY <1>8, <1>9, <2>2, <2>3, <2>4, <3>1, <4>3
      <4>4. CASE m \notin messages /\ n \notin messages
        BY <1>9, <2>3, <3>1, <4>4
      <4>5. QED
        BY <4>1, <4>2, <4>3, <4>4
    <3>2. QED
      BY <3>1
  <2>6. \A u \in TurnIds : turns'[u].pc \notin {"asked", "composed"}
    BY <1>1, <1>3, <1>4, <2>1 DEF AloneInv
  <2>7. ASSUME NEW m \in Replies(messages')
        PROVE  /\ Asked(m.turn)' \in messages' /\ turns'[m.turn].asked < m.at
               /\ \A n \in messages' : n.at <= turns'[m.turn].asked \/ m.at <= n.at
    <3>1. CASE m \in messages
      <4>1. m \in Replies(messages) /\ turns'[m.turn].asked = turns[m.turn].asked
        BY <1>8, <1>12, <3>1 DEF Replies
      <4>2. /\ Asked(m.turn) \in messages /\ turns[m.turn].asked < m.at
            /\ \A n \in messages : n.at <= turns[m.turn].asked \/ m.at <= n.at
        BY <2>1, <4>1 DEF AloneInv
      <4>3. m.at <= q.at /\ m.at <= r.at
        BY <1>8, <2>2, <2>3, <2>4, <3>1
      <4>4. Asked(m.turn)' = Asked(m.turn)
        BY <4>1 DEF Asked
      <4>5. QED
        BY <1>1, <1>9, <4>1, <4>2, <4>3, <4>4
    <3>2. CASE m = r
      <4>1. Asked(m.turn)' = q /\ turns'[m.turn].asked = q.at
        BY <1>4, <1>6, <3>2 DEF Asked, q
      <4>2. \A n \in messages : n.at <= q.at
        BY <1>8, <2>2, <2>3
      <4>3. QED
        BY <1>9, <2>3, <3>2, <4>1, <4>2
    <3>3. QED
      BY <1>6, <1>9, <3>1, <3>2 DEF Replies
  <2>8. AloneInv'
    <3>1. Replies(messages)' = Replies(messages')
      BY DEF Replies
    <3>2. QED
      BY <2>5, <2>6, <2>7, <3>1 DEF AloneInv
  <2>9. ASSUME NEW a \in Audits, NEW pack \in audits[a].packs PROVE WellPaired(pack)'
    <3>1. WellPaired(pack) /\ pack.reply \in messages /\ pack.before \subseteq messages
      BY <2>1, <2>9 DEF PairInv, EvalInv, PacksWritten
    <3> DEFINE u == pack.reply.turn
    <3>2. u \in TurnIds /\ turns'[u].asked = turns[u].asked
      BY <1>8, <1>12, <3>1
    <3>3. Asked(u)' = Asked(u) /\ Asked(u).at = turns[u].asked
      BY <3>2 DEF Asked, Message
    <3>4. ASSUME pack.user # {}, pack.before # {}, NEW m \in messages'
          PROVE  m.at < turns[u].asked <=> \E n \in pack.before : m.at <= n.at
      <4>1. CASE m \in messages
        BY <3>1, <3>4, <4>1 DEF WellPaired
      <4>2. CASE m = q \/ m = r
        <5>1. Asked(u) \in messages
          BY <3>1, <3>4 DEF WellPaired
        <5>2. turns[u].asked < m.at /\ turns[u].asked \in Nat
          BY <1>8, <2>2, <2>4, <3>3, <4>2, <5>1
        <5>3. \A n \in pack.before : n.at < m.at /\ n.at \in Nat
          BY <1>8, <2>2, <2>4, <3>1, <4>2
        <5>4. m.at \in Nat
          BY <2>3, <4>2
        <5>5. QED
          BY <5>2, <5>3, <5>4
      <4>3. QED
        BY <1>9, <4>1, <4>2
    <3>5. QED
      BY <1>1, <3>1, <3>2, <3>3, <3>4 DEF WellPaired
  <2>10. PairInv'
    BY <1>1, <2>1, <2>9 DEF PairInv
  <2>11. QED
    BY <2>8, <2>10
<1>16. QED
  BY <1>10, <1>11, <1>13, <1>14, <1>15 DEF EvalInv

LEMMA BanEntityStep == ASSUME EvalInv, NEW e \in Entities, BanEntity(e) PROVE EvalInv'
<1> USE DEF BanEntity
<1>1. EvalTypes' /\ TimeInv' /\ BanInv'
  BY DEF EvalInv, EvalTypes, TimeInv, BanInv
<1>2. ~crossed' => AloneInv'
  BY DEF EvalInv, AloneInv, Asked, Replies
<1>3. /\ \A a \in Audits : PacksWritten(audits[a].packs)'
      /\ PacksWritten(file.packs)' /\ (~crossed' => PairInv')
  BY PacksStay DEF EvalInv, EvalTypes
<1>4. QED
  BY <1>1, <1>2, <1>3 DEF EvalInv

(* A step of an audit that leaves the conversation alone.                   *)
LEMMA AuditStep ==
  ASSUME EvalInv, UNCHANGED <<messages, turns, bans, clock, crossed>>,
         audits' \in [Audits -> Audit], file' \in Review,
         \A a \in Audits : audits'[a].packs \in {audits[a].packs, {}},
         \A a \in Audits : audits'[a].step = 3 =>
           \/ audits'[a].packs = {} \/ audits'[a].bans = bans
           \/ audits[a].step = 3 /\ audits'[a].bans = audits[a].bans,
         \/ file'.packs = {}
         \/ file' = file
         \/ \E a \in Audits : /\ audits[a].step = 3 /\ file'.bans = audits[a].bans
                              /\ file'.packs = audits[a].packs
  PROVE  EvalInv'
<1>1. EvalTypes' /\ TimeInv'
  BY DEF EvalInv, EvalTypes, TimeInv
<1>2. ~crossed' => AloneInv'
  BY DEF EvalInv, AloneInv, Asked, Replies
<1>3. crossed' \in BOOLEAN /\ (crossed => crossed')
  BY <1>1 DEF EvalTypes
<1>4. /\ \A a \in Audits : PacksWritten(audits[a].packs)'
      /\ PacksWritten(file.packs)' /\ (~crossed' => PairInv')
  BY <1>3, PacksStay
<1>5. \A a \in Audits : \A pack \in audits[a].packs : turns[pack.reply.turn].bans \subseteq bans
  <2>1. \A a \in Audits : \A pack \in audits[a].packs : pack.reply.turn \in TurnIds
    BY DEF EvalInv, EvalTypes, PacksWritten, Written
  <2>2. QED
    BY <2>1 DEF EvalInv, BanInv
<1>6. BanInv'
  <2>1. ASSUME NEW a \in Audits, audits'[a].step = 3, NEW pack \in audits'[a].packs
        PROVE  turns[pack.reply.turn].bans \subseteq audits'[a].bans
    BY <1>5, <2>1 DEF EvalInv, BanInv
  <2>2. ASSUME NEW pack \in file'.packs PROVE turns[pack.reply.turn].bans \subseteq file'.bans
    BY <2>2 DEF EvalInv, BanInv
  <2>3. QED
    BY <2>1, <2>2 DEF EvalInv, BanInv
<1>7. QED
  BY <1>1, <1>2, <1>4, <1>6 DEF EvalInv

LEMMA AskAuditStep ==
  ASSUME EvalInv, NEW a \in Audits, NEW force \in BOOLEAN, AskAudit(a, force)
  PROVE  EvalInv'
<1> USE DEF AskAudit
<1>1. audits[a] \in Audit /\ audits \in [Audits -> Audit] /\ file \in Review
  BY DEF EvalInv, EvalTypes
<1>2. PICK pc \in {"read", "done"} : audits' = [audits EXCEPT ![a].pc = pc]
  OBVIOUS
<1>3. audits' \in [Audits -> Audit]
  BY <1>1, <1>2 DEF Audit
<1>4. \A b \in Audits : audits'[b].packs = audits[b].packs /\ audits'[b].step = audits[b].step
                        /\ audits'[b].bans = audits[b].bans
  BY <1>1, <1>2 DEF Audit
<1>5. UNCHANGED <<messages, turns, bans, clock, crossed, file>>
  OBVIOUS
<1> HIDE DEF AskAudit
<1>6. QED
  BY <1>1, <1>3, <1>4, <1>5, AuditStep

LEMMA ReadTurnsStep == ASSUME EvalInv, NEW a \in Audits, ReadTurns(a) PROVE EvalInv'
<1> DEFINE packs == Packed(History)
<1>1. UNCHANGED <<messages, turns, bans, clock, crossed, file>>
  BY DEF ReadTurns
<1>2. audits[a].step = 1 /\ audits[a].pc = "read"
  <2>1. audits[a].step \in {1, 2} /\ Reads[audits[a].step] = "turns"
    BY DEF ReadTurns, Reading, Reads
  <2>2. QED
    BY <2>1 DEF ReadTurns, Reading, Reads
<1>3. audits[a] \in Audit /\ audits \in [Audits -> Audit] /\ file \in Review
  BY DEF EvalInv, EvalTypes
<1>4. CASE packs = {}
  <2>1. audits' = [audits EXCEPT ![a] = Answered]
    BY <1>4 DEF ReadTurns
  <2>2. audits' \in [Audits -> Audit]
    BY <1>3, <2>1 DEF Answered, Audit
  <2>3. \A b \in Audits : \/ audits'[b] = audits[b]
                          \/ audits'[b].packs = {} /\ audits'[b].step = 1
    BY <1>3, <2>1 DEF Answered
  <2>4. QED
    BY <1>1, <1>3, <2>2, <2>3, AuditStep
<1>5. CASE packs # {}
  <2>1. audits' = [audits EXCEPT ![a] = [audits[a] EXCEPT !.packs = packs, !.step = audits[a].step + 1]]
    BY <1>5 DEF ReadTurns
  <2>2. packs \in SUBSET Pack /\ PacksWritten(packs)
    BY PacksAreRight DEF PacksWritten
  <2>3. audits' \in [Audits -> Audit]
    <3> HIDE DEF packs
    <3>1. [audits[a] EXCEPT !.packs = packs, !.step = audits[a].step + 1]
            = [[audits[a] EXCEPT !.packs = packs] EXCEPT !.step = 2]
      BY <1>2
    <3>2. [audits[a] EXCEPT !.packs = packs] \in Audit
      BY <1>3, <2>2 DEF Audit
    <3>3. \A r \in Audit : [r EXCEPT !.step = 2] \in Audit
      BY DEF Audit
    <3>4. QED
      BY <1>3, <2>1, <3>1, <3>2, <3>3
  <2>4. \A b \in Audits : b # a => audits'[b] = audits[b]
    BY <1>3, <2>1
  <2>5. audits'[a].packs = packs /\ audits'[a].step = 2
    BY <1>2, <1>3, <2>1 DEF Audit
  <2> HIDE DEF packs
  <2>6. EvalTypes' /\ TimeInv'
    BY <1>1, <2>3 DEF EvalInv, EvalTypes, TimeInv
  <2>7. BanInv'
    BY <1>1, <2>4, <2>5 DEF EvalInv, BanInv
  <2>8. (\A b \in Audits : PacksWritten(audits[b].packs)') /\ PacksWritten(file.packs)'
    <3>1. ASSUME NEW b \in Audits PROVE PacksWritten(audits[b].packs)'
      <4>1. CASE b = a
        BY <1>1, <2>2, <2>5, <4>1 DEF PacksWritten
      <4>2. CASE b # a
        BY <1>1, <2>4, <4>2 DEF EvalInv, PacksWritten
      <4>3. QED
        BY <4>1, <4>2
    <3>2. QED
      BY <1>1, <3>1 DEF EvalInv, PacksWritten
  <2>9. ASSUME ~crossed' PROVE AloneInv' /\ PairInv'
    <3>1. AloneInv /\ PairInv /\ ~crossed
      BY <1>1, <2>9 DEF EvalInv
    <3>2. AloneInv'
      BY <1>1, <3>1 DEF AloneInv, Asked, Replies
    <3>3. \A pack : WellPaired(pack)' <=> WellPaired(pack)
      BY <1>1 DEF WellPaired, Asked
    <3>4. \A pack \in packs : WellPaired(pack)
      BY <3>1, PacksAreRight DEF packs
    <3>5. \A pack \in packs : pack.reply \in History
      BY DEF packs, Packed, Replies
    <3>6. \A pack \in packs : pack.user = {} => \A p \in packs : pack.reply.at <= p.reply.at
      BY <3>1, <3>5, PacksAreRight DEF packs
    <3>7. ASSUME NEW b \in Audits, NEW pack \in audits'[b].packs
          PROVE  /\ WellPaired(pack)
                 /\ pack.user = {} => \A p \in audits'[b].packs : pack.reply.at <= p.reply.at
      <4>1. CASE b = a
        BY <2>5, <3>4, <3>6, <3>7, <4>1
      <4>2. CASE b # a
        BY <2>4, <3>1, <3>7, <4>2 DEF PairInv
      <4>3. QED
        BY <4>1, <4>2
    <3>8. PairInv'
      BY <3>3, <3>7 DEF PairInv
    <3>9. QED
      BY <3>2, <3>8
  <2>10. QED
    BY <2>6, <2>7, <2>8, <2>9 DEF EvalInv
<1>6. QED
  BY <1>4, <1>5

LEMMA ReadContextStep == ASSUME EvalInv, NEW a \in Audits, ReadContext(a) PROVE EvalInv'
<1>1. UNCHANGED <<messages, turns, bans, clock, crossed, file>>
  BY DEF ReadContext
<1>2. audits[a].step = 2
  <2>1. audits[a].step \in {1, 2} /\ Reads[audits[a].step] = "context"
    BY DEF ReadContext, Reading, Reads
  <2>2. QED
    BY <2>1 DEF Reads
<1>3. audits[a] \in Audit /\ audits \in [Audits -> Audit] /\ file \in Review /\ bans \in SUBSET Entities
  BY DEF EvalInv, EvalTypes
<1>4. audits' = [audits EXCEPT ![a] = [audits[a] EXCEPT !.bans = bans, !.step = 3]]
  BY <1>2, <1>3 DEF ReadContext, Audit
<1>5. audits' \in [Audits -> Audit]
  <2>1. [audits[a] EXCEPT !.bans = bans, !.step = 3]
          = [[audits[a] EXCEPT !.bans = bans] EXCEPT !.step = 3]
    OBVIOUS
  <2>2. [audits[a] EXCEPT !.bans = bans] \in Audit
    BY <1>3 DEF Audit
  <2>3. \A r \in Audit : [r EXCEPT !.step = 3] \in Audit
    BY DEF Audit
  <2>4. QED
    BY <1>3, <1>4, <2>1, <2>2, <2>3
<1>6. \A b \in Audits : audits'[b].packs = audits[b].packs
                        /\ (b # a => audits'[b] = audits[b])
  BY <1>3, <1>4 DEF Audit
<1>7. audits'[a].bans = bans
  BY <1>3, <1>4 DEF Audit
<1>8. QED
  <2>1. \A b \in Audits : audits'[b].step = 3 =>
          audits'[b].bans = bans \/ (audits[b].step = 3 /\ audits'[b].bans = audits[b].bans)
    BY <1>6, <1>7
  <2>2. QED
    <3>1. \A b \in Audits : audits'[b].step = 3 =>
            \/ audits'[b].packs = {} \/ audits'[b].bans = bans
            \/ audits[b].step = 3 /\ audits'[b].bans = audits[b].bans
      BY <2>1
    <3>2. \A b \in Audits : audits'[b].packs \in {audits[b].packs, {}}
      BY <1>6
    <3>3. UNCHANGED <<messages, turns, bans, clock, crossed>> /\ file' = file /\ file' \in Review
      BY <1>1, <1>3
    <3>4. QED
      BY <1>5, <3>1, <3>2, <3>3, AuditStep

LEMMA SaveReviewStep == ASSUME EvalInv, NEW a \in Audits, SaveReview(a) PROVE EvalInv'
<1>1. UNCHANGED <<messages, turns, bans, clock, crossed>>
  BY DEF SaveReview
<1>2. audits[a] \in Audit /\ audits \in [Audits -> Audit]
  BY DEF EvalInv, EvalTypes
<1>3. audits[a].step = 3
  BY <1>2 DEF SaveReview, Reads, Audit
<1>4. file' = [kind |-> "whole", packs |-> audits[a].packs, bans |-> audits[a].bans]
  BY DEF SaveReview
<1>5. file' \in Review
  BY <1>2, <1>4 DEF Review, Audit
<1>6. audits' = [audits EXCEPT ![a] = Answered]
  BY DEF SaveReview
<1>7. audits' \in [Audits -> Audit]
  BY <1>2, <1>6 DEF Answered, Audit
<1>8. \A b \in Audits : audits'[b] = audits[b] \/ (audits'[b].packs = {} /\ audits'[b].step = 1)
  <2>1. Answered.packs = {} /\ Answered.step = 1
    BY DEF Answered
  <2>2. \A b \in Audits : audits'[b] = IF b = a THEN Answered ELSE audits[b]
    BY <1>2, <1>6
  <2>3. QED
    BY <2>1, <2>2
<1>9. file'.packs = audits[a].packs /\ file'.bans = audits[a].bans
  BY <1>4
<1>10. QED
  BY <1>1, <1>3, <1>5, <1>7, <1>8, <1>9, AuditStep

LEMMA DeleteReviewStep == ASSUME EvalInv, DeleteReview PROVE EvalInv'
<1>1. file' = None /\ UNCHANGED <<messages, turns, bans, clock, crossed, audits>>
  BY DEF DeleteReview
<1>2. file' \in Review /\ file'.packs = {}
  BY <1>1 DEF None, Review
<1>3. audits' \in [Audits -> Audit]
  BY <1>1 DEF EvalInv, EvalTypes
<1>4. QED
  BY <1>1, <1>2, <1>3, AuditStep

LEMMA CrashOfLabStep == ASSUME EvalInv, CrashOfLab PROVE EvalInv'
<1>1. UNCHANGED <<messages, bans, clock, crossed>>
  BY DEF CrashOfLab
<1>2. turns \in [TurnIds -> Turn] /\ audits \in [Audits -> Audit] /\ file \in Review
  BY DEF EvalInv, EvalTypes
<1>3. turns' = [t \in TurnIds |->
                  IF turns[t].pc = "idle" THEN turns[t] ELSE [turns[t] EXCEPT !.pc = "ended"]]
  BY DEF CrashOfLab
<1>4. turns' \in [TurnIds -> Turn]
  BY <1>2, <1>3 DEF Turn
<1>5. \A t \in TurnIds : /\ turns'[t].asked = turns[t].asked /\ turns'[t].bans = turns[t].bans
                         /\ turns[t].pc = "ended" => turns'[t].pc = "ended"
                         /\ turns'[t].pc \in {"idle", "ended"}
  BY <1>2, <1>3 DEF Turn
<1>6. \A a \in Audits : audits'[a] = audits[a] \/ audits'[a] = Answered
  BY DEF CrashOfLab
<1>7. Answered \in Audit /\ Answered.packs = {} /\ Answered.step = 1
  BY DEF Answered, Audit
<1>8. audits' \in [Audits -> Audit]
  BY <1>2, <1>7 DEF CrashOfLab
<1>9. file' = file \/ (file' \in Review /\ file'.packs = {})
  <2>1. [None EXCEPT !.kind = "torn"] = [kind |-> "torn", packs |-> {}, bans |-> {}]
    BY DEF None
  <2>2. [None EXCEPT !.kind = "torn"] \in Review /\ [None EXCEPT !.kind = "torn"].packs = {}
    BY <2>1 DEF Review
  <2>3. QED
    BY <2>2 DEF CrashOfLab
<1>10. EvalTypes'
  BY <1>1, <1>2, <1>4, <1>8, <1>9 DEF EvalInv, EvalTypes
<1>11. \A m \in messages : m.turn \in TurnIds
  BY DEF EvalInv, EvalTypes, Written
<1>12. TimeInv'
  BY <1>1, <1>5, <1>11 DEF EvalInv, TimeInv
<1>13. /\ \A a \in Audits : PacksWritten(audits[a].packs)'
       /\ PacksWritten(file.packs)' /\ (~crossed' => PairInv')
  <2>1. \A a \in Audits : audits'[a].packs \in {audits[a].packs, {}}
    BY <1>6, <1>7
  <2>2. file'.packs \in {file.packs, {}}
    BY <1>9
  <2>3. crossed' \in BOOLEAN /\ (crossed => crossed')
    BY <1>1, <1>10 DEF EvalTypes
  <2>4. QED
    BY <1>1, <1>5, <2>1, <2>2, <2>3, PacksStay
<1>14. BanInv'
  <2>1. \A a \in Audits : \A pack \in audits'[a].packs : pack.reply.turn \in TurnIds
    BY <1>6, <1>7, <1>11 DEF EvalInv, PacksWritten
  <2>2. \A pack \in file'.packs : pack.reply.turn \in TurnIds
    BY <1>9, <1>11 DEF EvalInv, PacksWritten
  <2>3. \A a \in Audits : audits'[a].step = 3 => audits'[a] = audits[a]
    BY <1>6, <1>7
  <2>4. QED
    BY <1>1, <1>5, <1>9, <2>1, <2>2, <2>3 DEF EvalInv, BanInv
<1>15. ASSUME ~crossed' PROVE AloneInv'
  <2>1. AloneInv
    BY <1>1, <1>15 DEF EvalInv
  <2>2. \A t \in TurnIds : Asked(t)' = Asked(t)
    BY <1>5 DEF Asked, Message
  <2>3. Replies(messages)' = Replies(messages) /\ Replies(messages) \subseteq messages
    BY <1>1 DEF Replies
  <2>4. \A m \in Replies(messages) : m.turn \in TurnIds
    BY <1>11, <2>3
  <2>5. QED
    BY <1>1, <1>5, <2>1, <2>2, <2>3, <2>4 DEF AloneInv
<1>16. QED
  BY <1>10, <1>12, <1>13, <1>14, <1>15 DEF EvalInv

THEOREM EvalInvariant == EvalSpec => []EvalInv
<1>1. EvalInv /\ [EvalNext]_evalVars => EvalInv'
  <2> SUFFICES ASSUME EvalInv, [EvalNext]_evalVars PROVE EvalInv'
    OBVIOUS
  <2>1. ASSUME NEW t \in TurnIds, AskTurn(t) \/ ComposeTurn(t) \/ EndTurn(t) PROVE EvalInv'
    BY <2>1, AskTurnStep, ComposeTurnStep, EndTurnStep
  <2>2. ASSUME NEW e \in Entities, BanEntity(e) PROVE EvalInv'
    BY <2>2, BanEntityStep
  <2>3. ASSUME NEW a \in Audits, AskAudit(a, TRUE) \/ AskAudit(a, FALSE) PROVE EvalInv'
    BY <2>3, AskAuditStep
  <2>4. ASSUME NEW a \in Audits, ReadTurns(a) \/ ReadContext(a) \/ SaveReview(a) PROVE EvalInv'
    BY <2>4, ReadTurnsStep, ReadContextStep, SaveReviewStep
  <2>5. CASE DeleteReview \/ CrashOfLab
    BY <2>5, DeleteReviewStep, CrashOfLabStep
  <2>6. CASE UNCHANGED evalVars
    <3>1. audits' \in [Audits -> Audit] /\ file' \in Review
      BY <2>6 DEF evalVars, EvalInv, EvalTypes
    <3>2. UNCHANGED <<messages, turns, bans, clock, crossed, audits, file>>
      BY <2>6 DEF evalVars
    <3>3. QED
      BY <3>1, <3>2, AuditStep
  <2>7. QED
    BY <2>1, <2>2, <2>3, <2>4, <2>5, <2>6 DEF EvalNext
<1>2. QED
  BY <1>1, EvalStart, PTL DEF EvalSpec

(* A reply is judged with the question it answers and what came before it,  *)
(* as long as no two turns overlapped, whatever the limit cuts off.         *)
THEOREM RepliesKeepTheirQuestions == EvalSpec => []PairedWithOwn
<1>1. EvalInv => PairedWithOwn
  BY DEF EvalInv, PairInv, WellPaired, PairedWithOwn
<1>2. QED
  BY <1>1, EvalInvariant, PTL

(* A stored review judges every reply with the bans of its prompt.          *)
THEOREM ReviewsKnowTheBans == EvalSpec => []BansJudged
<1>1. EvalInv => BansJudged
  BY DEF EvalInv, BanInv, BansJudged
<1>2. QED
  BY <1>1, EvalInvariant, PTL

-----------------------------------------------------------------------------
(* The synthetic evaluation                                                 *)
-----------------------------------------------------------------------------

(* No cache entry stems from a fallback, hence no route does that was taken *)
(* from the cache, hence no result.                                         *)
EarnedResult == {x \in [passed : BOOLEAN, error : BOOLEAN, stale : {FALSE}] :
                   x.passed => ~x.error}
FreshRoute == [intent : Intent \cup {"none"}, source : Source, stale : {FALSE}]
ModelEntry == [intent : Intent, fallback : {FALSE}]
File == [kind : {"none", "whole", "torn"}, results : Seq(EarnedResult)]
Pc == {"idle", "route", "classify", "stream", "save", "done"}
RunState == [pc : Pc, route : FreshRoute, results : Seq(EarnedResult)]

(* The inductive invariant.                                                 *)
EarnedInv ==
  /\ runs \in [RunIds -> RunState]
  /\ files \in [RunIds -> File]
  /\ \A k \in DOMAIN cache : cache[k] \in ModelEntry

LEMMA EmptyState ==
  /\ NotRun \in RunState /\ [NotRun EXCEPT !.pc = "done"] \in RunState
  /\ <<>> \in Seq(EarnedResult)
<1>1. <<>> \in Seq(EarnedResult)
  OBVIOUS
<1>2. NoRoute \in FreshRoute
  BY DEF NoRoute, FreshRoute, Source
<1>3. [NotRun EXCEPT !.pc = "done"] = [pc |-> "done", route |-> NoRoute, results |-> <<>>]
  BY DEF NotRun
<1>4. QED
  BY <1>1, <1>2, <1>3 DEF NotRun, RunState, Pc

LEMMA EarnedInit == SynInit => EarnedInv
BY EmptyState DEF SynInit, EarnedInv, File

(* Whatever the cases expect, the intent of a hard rule is an intent.       *)
LEMMA RuleIntents ==
  ASSUME NEW m, Matching(m) # {}
  PROVE  HardIntent(m) \in Intent
<1>1. \A i \in DOMAIN HardRules : HardRules[i].intent \in Intent
  BY DEF HardRules, Intent
<1>2. Matching(m) \subseteq 1..7
  BY DEF Matching, HardRules
<1>3. \E i \in Matching(m) : \A j \in Matching(m) : i <= j
  BY <1>2
<1>4. QED
  BY <1>1, <1>3 DEF HardIntent, Matching

(* A result that is scored is earned: a check that passed saw no error, and *)
(* the route was fresh.                                                     *)
LEMMA ScoredEarned ==
  ASSUME EarnedInv, NEW r \in RunIds, NEW o, o.error \in BOOLEAN, Scored(r, o)
  PROVE  runs' \in [RunIds -> RunState]
<1> DEFINE x == [passed |-> Passed(Case(r), o), error |-> o.error,
                 stale |-> runs[r].route.stale]
<1>1. runs[r] \in RunState
  BY DEF EarnedInv
<1>2. x \in EarnedResult
  BY <1>1 DEF EarnedResult, Passed, RunState, FreshRoute
<1>3. Append(runs[r].results, x) \in Seq(EarnedResult)
  BY <1>1, <1>2 DEF RunState
<1>4. NoRoute \in FreshRoute
  BY DEF NoRoute, FreshRoute, Source
<1> DEFINE p == IF Len(runs[r].results) + 1 = Len(Cases) THEN "save" ELSE "route"
           next == [pc |-> p, route |-> NoRoute, results |-> Append(runs[r].results, x)]
<1>5. runs' = [runs EXCEPT ![r] = next]
  <2>1. DOMAIN runs = RunIds /\ runs[r] = [pc |-> runs[r].pc, route |-> runs[r].route,
                                          results |-> runs[r].results]
    BY <1>1 DEF RunState, EarnedInv
  <2>2. QED
    BY <2>1 DEF Scored
<1>6. next \in RunState
  BY <1>3, <1>4 DEF RunState, Pc
<1>7. QED
  BY <1>5, <1>6 DEF EarnedInv

LEMMA RoutedFresh ==
  ASSUME EarnedInv, NEW r \in RunIds, NEW p \in Pc, NEW i \in Intent \cup {"none"},
         NEW s \in Source, Routes(r, p, i, s, FALSE)
  PROVE  runs' \in [RunIds -> RunState]
<1> DEFINE route == [intent |-> i, source |-> s, stale |-> FALSE]
           next == [pc |-> p, route |-> route, results |-> runs[r].results]
<1>1. runs[r] \in RunState /\ runs \in [RunIds -> RunState]
  BY DEF EarnedInv
<1>2. next \in RunState
  BY <1>1 DEF RunState, FreshRoute
<1>3. runs' = [runs EXCEPT ![r] = next]
  BY DEF Routes
<1>4. QED
  BY <1>1, <1>2, <1>3

LEMMA EarnedStep == EarnedInv /\ [SynNext]_synVars => EarnedInv'
<1> SUFFICES ASSUME EarnedInv, SynNext PROVE EarnedInv'
  BY DEF EarnedInv, synVars
<1>1. ASSUME NEW r \in RunIds, StartRun(r) PROVE EarnedInv'
  BY <1>1 DEF StartRun, EarnedInv, RunState, Pc
<1>2. ASSUME NEW r \in RunIds, RouteCase(r) PROVE EarnedInv'
  <2> DEFINE c == Case(r)
  <2>1. CASE Matching(c.message) # {}
    BY <1>2, <2>1, RuleIntents, RoutedFresh DEF RouteCase, Pc, Source, EarnedInv
  <2>2. CASE Matching(c.message) = {} /\ KeyOf(c) \in DOMAIN cache
    <3>1. cache[KeyOf(c)].intent \in Intent /\ cache[KeyOf(c)].fallback = FALSE
      BY <2>2 DEF EarnedInv, ModelEntry
    <3>2. QED
      BY <1>2, <2>2, <3>1, RoutedFresh DEF RouteCase, Pc, Source, EarnedInv
  <2>3. CASE Matching(c.message) = {} /\ KeyOf(c) \notin DOMAIN cache
    BY <1>2, <2>3, RoutedFresh DEF RouteCase, Pc, Source, EarnedInv
  <2>4. QED
    BY <2>1, <2>2, <2>3
<1>3. ASSUME NEW r \in RunIds, ClassifyCase(r) PROVE EarnedInv'
  <2>1. PICK i \in Verdicts :
          /\ Routes(r, "stream", i, "small_model", FALSE)
          /\ cache' = Cached(KeyOf(Case(r)), [intent |-> i, fallback |-> FALSE])
    BY <1>3 DEF ClassifyCase
  <2>2. i \in Intent
    BY SyntheticAssumption
  <2>3. \A k \in DOMAIN cache' : cache'[k] \in ModelEntry
    BY <2>1, <2>2 DEF Cached, EarnedInv, ModelEntry
  <2>4. runs' \in [RunIds -> RunState]
    BY <2>1, <2>2, RoutedFresh DEF Pc, Source
  <2>5. QED
    BY <1>3, <2>3, <2>4 DEF ClassifyCase, EarnedInv
<1>4. ASSUME NEW r \in RunIds, Fallback(r) PROVE EarnedInv'
  BY <1>4, RoutedFresh DEF Fallback, EarnedInv, Pc, Source, Intent
<1>5. ASSUME NEW r \in RunIds, StreamCase(r) PROVE EarnedInv'
  <2>1. PICK reply \in SUBSET Words :
          Scored(r, [intent |-> runs[r].route.intent, reply |-> reply,
                     prompt |-> Prompt[runs[r].route.intent], error |-> FALSE])
    BY <1>5 DEF StreamCase
  <2>2. runs' \in [RunIds -> RunState]
    <3> DEFINE o == [intent |-> runs[r].route.intent, reply |-> reply,
                     prompt |-> Prompt[runs[r].route.intent], error |-> FALSE]
    <3>1. o.error \in BOOLEAN /\ Scored(r, o)
      BY <2>1
    <3> HIDE DEF o
    <3>2. QED
      BY <3>1, ScoredEarned
  <2>3. QED
    BY <1>5, <2>2 DEF StreamCase, EarnedInv
<1>6. ASSUME NEW r \in RunIds, CaseFails(r) PROVE EarnedInv'
  <2>1. Scored(r, ErrorOutcome) /\ ErrorOutcome.error \in BOOLEAN
    BY <1>6 DEF CaseFails, ErrorOutcome
  <2>2. runs' \in [RunIds -> RunState]
    BY <2>1, ScoredEarned
  <2>3. QED
    BY <1>6, <2>2 DEF CaseFails, EarnedInv
<1>7. ASSUME NEW r \in RunIds, SaveReport(r) PROVE EarnedInv'
  <2>1. runs[r].results \in Seq(EarnedResult)
    BY DEF EarnedInv, RunState
  <2>2. runs' \in [RunIds -> RunState]
    BY <1>7, EmptyState DEF SaveReport, EarnedInv
  <2>3. files' \in [RunIds -> File]
    <3>1. [kind |-> "whole", results |-> runs[r].results] \in File
      BY <2>1 DEF File
    <3>2. QED
      BY <1>7, <3>1 DEF SaveReport, EarnedInv
  <2>4. QED
    BY <1>7, <2>2, <2>3 DEF SaveReport, EarnedInv
<1>8. ASSUME NEW r \in RunIds, DeleteReport(r) PROVE EarnedInv'
  BY <1>8, EmptyState DEF DeleteReport, EarnedInv, File
<1>9. ASSUME NEW k \in DOMAIN Cases, ExpireCase(KeyOf(Cases[k])) PROVE EarnedInv'
  BY <1>9 DEF ExpireCase, EarnedInv
<1>10. ASSUME CrashOfRuns PROVE EarnedInv'
  <2>1. runs' \in [RunIds -> RunState]
    BY <1>10, EmptyState DEF CrashOfRuns, EarnedInv
  <2>2. files' \in [RunIds -> File]
    <3>1. [kind |-> "torn", results |-> <<>>] \in File
      BY EmptyState DEF File
    <3>2. QED
      BY <1>10, <3>1 DEF CrashOfRuns, EarnedInv
  <2>3. QED
    BY <1>10, <2>1, <2>2 DEF CrashOfRuns, EarnedInv
<1>11. QED
  BY <1>1, <1>2, <1>3, <1>4, <1>5, <1>6, <1>7, <1>8, <1>9, <1>10 DEF SynNext

(* A case that passes was answered to the end, and no result was scored     *)
(* with an intent that an outage had left in the cache (check_case of       *)
(* runner.py, router.py:89-91).  The fallback of a case's own routing is    *)
(* not excluded: it passes where it is what the case expects.               *)
THEOREM PassesAreEarned == SynSpec => []PassIsEarned
<1>1. EarnedInv => PassIsEarned
  <2> SUFFICES ASSUME EarnedInv, NEW r \in RunIds,
                      NEW results \in {runs[r].results, files[r].results},
                      NEW k \in DOMAIN results
               PROVE  ~results[k].stale /\ (results[k].passed => ~results[k].error)
    BY DEF PassIsEarned
  <2>1. results \in Seq(EarnedResult)
    BY DEF EarnedInv, RunState, File
  <2>2. results[k] \in EarnedResult
    BY <2>1
  <2>3. QED
    BY <2>2 DEF EarnedResult
<1>2. QED
  BY EarnedInit, EarnedStep, <1>1, PTL DEF SynSpec
=============================================================================
