----------------------------- MODULE MCChatTurn -----------------------------
(* Model-checking instance of ChatTurn: two concurrent turns, one API crash. *)
EXTENDS ChatTurn, TLC

CONSTANTS t1, t2

MCTurns == {t1, t2}
MCIntents == {"correction", "casual"}
=============================================================================
