----------------------------- MODULE TaskQueue -----------------------------
(***************************************************************************)
(* The broker as the workers use it: Celery over Redis with late           *)
(* acknowledgement and no prefetching.  A message may be executed more than*)
(* once and in any order, but never by two workers at a time: tasks end    *)
(* well within Redis' visibility timeout of an hour, and a retry's publish *)
(* and the acknowledgement that follows it are one step.                   *)
(*                                                                         *)
(* q[k]     absent, ready (waiting, or in its retry countdown), running    *)
(*          (delivered, not acknowledged) or done (acknowledged)           *)
(* tries[k] retries the task has asked for                                 *)
(* losses   worker processes killed so far                                 *)
(***************************************************************************)
EXTENDS Naturals

CONSTANTS
  Tasks,       (* the messages                                              *)
  MaxRetries,  (* the tasks' max_retries                                    *)
  MaxLosses    (* bound on killed workers                                   *)

VARIABLES q, tries, losses

QueueTypeOK ==
  /\ q \in [Tasks -> {"absent", "ready", "running", "done"}]
  /\ tries \in [Tasks -> 0..MaxRetries]
  /\ losses \in 0..MaxLosses

QueueInit ==
  /\ q = [k \in Tasks |-> "absent"]
  /\ tries = [k \in Tasks |-> 0]
  /\ losses = 0

Publish(k) ==
  /\ q[k] = "absent"
  /\ q' = [q EXCEPT ![k] = "ready"]
  /\ UNCHANGED <<tries, losses>>

(* Mutant: a retried message goes to a queue that no worker consumes. *)
DeliverFirstOnly(k) ==
  /\ q[k] = "ready" /\ tries[k] = 0
  /\ q' = [q EXCEPT ![k] = "running"]
  /\ UNCHANGED <<tries, losses>>

Deliver(k) ==
  /\ q[k] = "ready"
  /\ q' = [q EXCEPT ![k] = "running"]
  /\ UNCHANGED <<tries, losses>>

(* The message is acknowledged after the task has returned or failed. *)
Ack(k) ==
  /\ q[k] = "running"
  /\ q' = [q EXCEPT ![k] = "done"]
  /\ UNCHANGED <<tries, losses>>

(* Mutant: one retry too many. *)
RetryOneMore(k) ==
  /\ q[k] = "running"
  /\ tries[k] <= MaxRetries
  /\ q' = [q EXCEPT ![k] = "ready"]
  /\ tries' = [tries EXCEPT ![k] = @ + 1]
  /\ UNCHANGED losses

(* self.retry(): the message goes back with a countdown.  Once max_retries  *)
(* is used up the task fails instead, and is acknowledged like any other.   *)
Retry(k) ==
  /\ q[k] = "running"
  /\ tries[k] < MaxRetries
  /\ q' = [q EXCEPT ![k] = "ready"]
  /\ tries' = [tries EXCEPT ![k] = @ + 1]
  /\ UNCHANGED losses

(* Mutant: the message of a dead worker is never delivered again. *)
WorkerLostUnnoticed(k) ==
  /\ q[k] = "running"
  /\ losses < MaxLosses
  /\ losses' = losses + 1
  /\ UNCHANGED <<q, tries>>

(* The worker dies.  When the whole worker is gone the unacknowledged       *)
(* message is delivered again; when only a pool process is killed the       *)
(* parent acknowledges the message and the task is lost.                    *)
WorkerLost(k) ==
  /\ q[k] = "running"
  /\ losses < MaxLosses
  /\ losses' = losses + 1
  /\ \E outcome \in {"ready", "done"} : q' = [q EXCEPT ![k] = outcome]
  /\ UNCHANGED tries
=============================================================================
