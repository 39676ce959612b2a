--------------------------- MODULE MCMemoryTasks ---------------------------
(* Instances of MemoryTasks: a turn that says something, then a correction  *)
(* that denies the entity it mentions; or a turn alone that says two things *)
(* which the search takes for the same event.                               *)
EXTENDS MemoryTasks, TLC

CONSTANTS f1, f2, e1, first

MCTurns == {1, 2}
MCIntentOf == 1 :> first @@ 2 :> "correction"
MCFacts == {f1, f2}
MCSays == [l \in Layer |-> [t \in Turns |-> {f1}]]
MCEventSays == [l \in Layer |->
                  [t \in Turns |-> IF l = "event" THEN MCFacts ELSE {}]]
MCDenies == [t \in Turns |-> {e1}]
MCMentions == [f \in MCFacts |-> {e1}]
MCTypeOf == [f \in MCFacts |-> "work"]
MCAlike == [l \in Layer |-> [f \in MCFacts |-> MCFacts]]
=============================================================================
