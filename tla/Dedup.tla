------------------------------- MODULE Dedup -------------------------------
(***************************************************************************)
(* scripts/dedup_memories.py: the sweep that deprecates the duplicates of   *)
(* one user in one layer, run again and again, dry or for real, while the   *)
(* application goes on.  A sweep is one transaction.  Rows are numbered in  *)
(* the order of (created_at, id).  Two episodic rows are similar enough or  *)
(* not, two events have titles that are equal or contain one another;       *)
(* neither relation is transitive.                                          *)
(*                                                                         *)
(* layer, at, like, title   the rows as they are written, chosen at the     *)
(*          start: created_at, the pairs that are as similar as the         *)
(*          threshold asks, the (type, normalized title)                    *)
(* cutoff   the first created_at within the window of days, for events      *)
(* status   per row: "none" until it is inserted, "active", "deprecated"    *)
(* sweep    the sweep under way: the rows it has read, those still to be    *)
(*          looked at, and the pairs <<dup, keep>> it has found             *)
(* last     what the sweep before found, forgotten as soon as anybody else  *)
(*          changes a row                                                   *)
(***************************************************************************)
EXTENDS Integers

CONSTANTS
  MaxRow,
  Titles, Untitled,
  Within,        (* pairs: the first title, of four characters or more, is  *)
                 (* part of the second                                      *)
  MaxSweeps, MaxOthers

ASSUME DedupAssumption ==
  /\ MaxRow \in Nat \ {0}
  /\ Within \subseteq Titles \X Titles
  /\ MaxSweeps \in Nat /\ MaxOthers \in Nat

VARIABLES layer, at, like, title, cutoff, status, sweep, last, sweeps, others

rowVars == <<layer, at, like, title>>
dedupVars == <<rowVars, cutoff, status, sweep, last, sweeps, others>>

Rows == 1..MaxRow

NoSweep ==
  [pc |-> "idle", dry |-> FALSE, rows |-> {}, todo |-> {}, pairs |-> {}, quiet |-> TRUE]
NoReport == [dry |-> FALSE, known |-> FALSE, dups |-> {}]

(* A time is the number of the first row that has it.                       *)
DedupInit ==
  /\ layer \in {"episodic", "event"}
  /\ at \in {f \in [Rows -> Rows] :
               \A i \in Rows : f[i] <= i /\ f[f[i]] = f[i] /\ \A j \in i..MaxRow : f[i] <= f[j]}
  /\ IF layer = "episodic"
     THEN /\ like \in SUBSET {p \in Rows \X Rows : p[1] < p[2]}
          /\ title = <<>>
     ELSE /\ like = {}
          /\ title \in [Rows -> Titles]
  /\ \E n \in Rows \cup {0} :
       status = [i \in Rows |-> IF i <= n THEN "active" ELSE "none"]
  /\ cutoff = 1 /\ sweep = NoSweep /\ last = NoReport
  /\ sweeps = 0 /\ others = 0

-----------------------------------------------------------------------------
Similar(i, j) == <<i, j>> \in like \/ <<j, i>> \in like

TitlesMeet(i, k) ==
  \/ title[k] = title[i]
  \/ <<title[k], title[i]>> \in Within \/ <<title[i], title[k]>> \in Within

Dups(pairs) == {p[1] : p \in pairs}

(* The rows the search for a duplicate of i ranges over: active, created    *)
(* strictly earlier, and not deprecated by this sweep.                      *)
Earlier(i) ==
  {j \in Rows : j # i /\ status[j] = "active" /\ at[j] < at[i] /\ j \notin Dups(sweep.pairs)}

(* The events the plan has kept when it comes to a row.                     *)
Keepers ==
  {k \in sweep.rows \ sweep.todo : title[k] # Untitled /\ k \notin Dups(sweep.pairs)}

(* Mutant: the newest row first.                                            *)
LastOf(rows) == CHOOSE i \in rows : \A j \in rows : j <= i

(* A loop over rows begins with the first of them, by created_at and id.    *)
FirstOf(rows) == CHOOSE i \in rows : \A j \in rows : i <= j

(* Row i is looked at: it is deprecated for one of keeps, if any.           *)
Collapse(i, keeps) ==
  \E found \in IF keeps = {} THEN {{}} ELSE {{<<i, k>>} : k \in keeps} :
    sweep' = [sweep EXCEPT !.todo = @ \ {i}, !.pairs = @ \cup found]

-----------------------------------------------------------------------------
StartSweep(dry) ==
  /\ sweep.pc = "idle" /\ sweeps < MaxSweeps
  /\ sweeps' = sweeps + 1
  /\ sweep' = [NoSweep EXCEPT !.pc = "sweeping", !.dry = dry]
  /\ UNCHANGED <<rowVars, cutoff, status, last, others>>

(* The sweep has rows to look at.                                           *)
TakesRows(rows) ==
  /\ sweep.pc = "sweeping"
  /\ sweep' = [sweep EXCEPT !.pc = "search", !.rows = rows, !.todo = rows]
  /\ UNCHANGED <<rowVars, cutoff, status, last, sweeps, others>>

(* Mutant: rows that an earlier sweep deprecated are read again.            *)
ReadAnyStatus ==
  TakesRows({i \in Rows : status[i] # "none" /\ (layer = "event" => cutoff <= at[i])})

(* Both layers read the active rows in order, the events within the window  *)
(* of days.                                                                 *)
ReadRows ==
  TakesRows({i \in Rows : status[i] = "active" /\ (layer = "event" => cutoff <= at[i])})

(* _dedup_episodic_for_user searches the nearest earlier row of each, by    *)
(* what is committed at that moment.  The vector index answers roughly, and *)
(* what it answers is filtered afterwards: the hit is some similar row, or  *)
(* none although there is one.  (A real sweep's own updates are among the   *)
(* rows that the search excludes anyway.)                                   *)
Search ==
  LET i == FirstOf(sweep.todo)
  IN  /\ layer = "episodic" /\ sweep.pc = "search" /\ sweep.todo # {}
      /\ \E hits \in {{}, {j \in Earlier(i) : Similar(i, j)}} : Collapse(i, hits)
      /\ UNCHANGED <<rowVars, cutoff, status, last, sweeps, others>>

(* plan_event_dedup: a row collapses on the first keeper with its very      *)
(* title, or else on the first whose title contains its own or is contained *)
(* in it, or else is a keeper itself.                                       *)
PlanRow ==
  LET i == FirstOf(sweep.todo)
      parts == {k \in Keepers : title[i] # Untitled /\ TitlesMeet(i, k)}
      exact == {k \in parts : title[k] = title[i]}
      first(keeps) == {k \in keeps : k = FirstOf(keeps)}
  IN  /\ layer = "event" /\ sweep.pc = "search" /\ sweep.todo # {}
      /\ Collapse(i, IF exact # {} THEN first(exact) ELSE first(parts))
      /\ UNCHANGED <<rowVars, cutoff, status, last, sweeps, others>>

(* The end of the transaction: commit, or rollback of a dry run.            *)
EndSweep ==
  /\ sweep.pc = "search" /\ sweep.todo = {}
  /\ status' = [i \in Rows |-> IF ~sweep.dry /\ i \in Dups(sweep.pairs)
                               THEN "deprecated" ELSE status[i]]
  /\ last' = IF sweep.quiet
             THEN [dry |-> sweep.dry, known |-> TRUE, dups |-> Dups(sweep.pairs)]
             ELSE NoReport
  /\ sweep' = NoSweep
  /\ UNCHANGED <<rowVars, cutoff, sweeps, others>>

SweepFails ==
  /\ sweep.pc # "idle"
  /\ sweep' = NoSweep
  /\ UNCHANGED <<rowVars, cutoff, status, last, sweeps, others>>

(* The application inserts the next row or deprecates one; an update of a   *)
(* row that a real sweep has updated waits for the sweep.                   *)
Other ==
  /\ others < MaxOthers /\ others' = others + 1
  /\ \E i \in Rows :
       \/ /\ status[i] = "none" /\ \A j \in 1..(i - 1) : status[j] # "none"
          /\ status' = [status EXCEPT ![i] = "active"]
       \/ /\ status[i] = "active" /\ (sweep.dry \/ i \notin Dups(sweep.pairs))
          /\ status' = [status EXCEPT ![i] = "deprecated"]
  /\ sweep' = [sweep EXCEPT !.quiet = FALSE]
  /\ last' = NoReport
  /\ UNCHANGED <<rowVars, cutoff, sweeps>>

(* Days pass: an event leaves the window.  A forecast is out of date.       *)
DaysPass ==
  /\ layer = "event" /\ cutoff < MaxRow
  /\ others < MaxOthers /\ others' = others + 1
  /\ cutoff' = cutoff + 1
  /\ sweep' = [sweep EXCEPT !.quiet = @ /\ ~sweep.dry]
  /\ last' = IF last.dry THEN NoReport ELSE last
  /\ UNCHANGED <<rowVars, status, sweeps>>

DedupNext ==
  \/ StartSweep(TRUE) \/ StartSweep(FALSE) \/ ReadRows \/ Search \/ PlanRow
  \/ EndSweep \/ SweepFails \/ Other \/ DaysPass

DedupSpec == DedupInit /\ [][DedupNext]_dedupVars

-----------------------------------------------------------------------------
(* What a row collapses on is never deprecated by the same sweep, so that   *)
(* no chain of similar rows vanishes altogether, and it is the earlier one. *)
KeeperSurvives ==
  \A p \in sweep.pairs : p[2] \notin Dups(sweep.pairs) /\ p[2] < p[1]

(* While nobody else changes a row, a sweep of events finds what the dry    *)
(* run before it reported, and nothing after a real one ("idempotent:       *)
(* re-running ... does no work").  Of episodic rows, which an approximate   *)
(* search finds or misses, the script can promise neither.                  *)
SweepsAgree ==
  layer = "event" /\ sweep.pc = "search" /\ sweep.todo = {} /\ sweep.quiet /\ last.known =>
    Dups(sweep.pairs) = IF last.dry THEN last.dups ELSE {}
=============================================================================
