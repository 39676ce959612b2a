---------------------------- MODULE UpkeepProofs ----------------------------
(* What a deduplication sweep and a relationship task do, for any number of *)
(* rows, tasks and names.                                                   *)
EXTENDS RelationshipGraph, Dedup, Induction

-----------------------------------------------------------------------------
(* The deduplication sweep                                                  *)
-----------------------------------------------------------------------------

(* j is an earlier event that i would collapse on.                          *)
Near(j, i) == j < i /\ title[i] # Untitled /\ title[j] # Untitled /\ TitlesMeet(i, j)

(* The rows that a sweep would read.                                        *)
ActiveNow == {i \in Rows : status[i] = "active" /\ (layer = "event" => cutoff <= at[i])}

(* Among the rows of R, those of D collapse on one that is not in D, and    *)
(* the others have none to collapse on.                                     *)
Collapsed(R, D) == \A i \in R : i \in D <=> \E j \in R \ D : Near(j, i)

DedupTypes ==
  /\ layer \in {"episodic", "event"}
  /\ at \in [Rows -> Nat] /\ \A i, j \in Rows : i <= j => at[i] <= at[j]
  /\ cutoff \in Nat
  /\ status \in [Rows -> {"none", "active", "deprecated"}]
  /\ sweep \in [pc : {"idle", "sweeping", "search"}, dry : BOOLEAN, rows : SUBSET Rows,
                todo : SUBSET Rows, pairs : SUBSET (Rows \X Rows), quiet : BOOLEAN]
  /\ last \in [dry : BOOLEAN, known : BOOLEAN, dups : SUBSET Rows]

(* The loop: the rows looked at come before the others, and a pair is one   *)
(* of them and an earlier row that the sweep does not deprecate.            *)
LoopInv ==
  /\ sweep.pc # "search" => sweep.rows = {} /\ sweep.pairs = {}
  /\ sweep.todo \subseteq sweep.rows
  /\ \A i \in sweep.rows \ sweep.todo, j \in sweep.todo : i < j
  /\ \A p \in sweep.pairs :
       p[1] \in sweep.rows \ sweep.todo /\ p[2] < p[1] /\ p[2] \notin Dups(sweep.pairs)

(* What a sweep of events that nobody disturbs has read, and what it has    *)
(* decided.                                                                 *)
QuietInv ==
  layer = "event" /\ sweep.pc = "search" /\ sweep.quiet =>
    /\ ActiveNow \subseteq sweep.rows /\ \A i \in sweep.rows : status[i] = "active"
    /\ sweep.dry \/ (last.known /\ last.dry) => sweep.rows = ActiveNow
    /\ Collapsed(sweep.rows \ sweep.todo, Dups(sweep.pairs))
    /\ last.known /\ ~last.dry => \A i, j \in sweep.rows : ~Near(j, i)

(* What the report before says of the events as they are.                   *)
ReportInv ==
  layer = "event" /\ last.known =>
    IF last.dry
    THEN last.dups \subseteq ActiveNow /\ Collapsed(ActiveNow, last.dups)
    ELSE \A i, j \in ActiveNow : ~Near(j, i)

DedupInv == DedupTypes /\ LoopInv /\ QuietInv /\ ReportInv

(* FirstOf gives the first row.                                             *)
LEMMA FirstOfIsFirst ==
  ASSUME NEW S \in SUBSET Rows, S # {}
  PROVE  FirstOf(S) \in S /\ \A j \in S : FirstOf(S) <= j
<1>1. S \in SUBSET Nat
  BY DedupAssumption DEF Rows
<1>2. \E i \in S : \A j \in S : i <= j
  BY <1>1, LeastNumber
<1>3. QED
  BY <1>2 DEF FirstOf

(* There is one way only to collapse a set of rows: two that differ would   *)
(* differ at a first row, and what that row collapses on comes before it.   *)
LEMMA OneWayToCollapse ==
  ASSUME NEW R \in SUBSET Rows, NEW D \in SUBSET R, NEW E \in SUBSET R,
         Collapsed(R, D), Collapsed(R, E)
  PROVE  D = E
<1> DEFINE S == (D \ E) \cup (E \ D)
<1>1. SUFFICES ASSUME S # {} PROVE FALSE
  OBVIOUS
<1>2. PICK i \in S : \A n \in S : i <= n
  <2>1. S \in SUBSET Nat
    BY DedupAssumption DEF Rows
  <2>2. QED
    BY <1>1, <2>1, LeastNumber
<1>3. ASSUME NEW j \in R, Near(j, i) PROVE j \in D <=> j \in E
  <2>1. i \in Nat /\ j \in Nat
    BY DedupAssumption DEF Rows
  <2>2. j < i
    BY <1>3 DEF Near
  <2>3. QED
    BY <1>2, <2>1, <2>2
<1>4. (\E j \in R \ D : Near(j, i)) <=> (\E j \in R \ E : Near(j, i))
  BY <1>3
<1>5. i \in D <=> i \in E
  BY <1>4 DEF Collapsed
<1>6. QED
  BY <1>5

(* A step that leaves the rows as they are written leaves what is near.     *)
LEMMA NearStays ==
  ASSUME UNCHANGED rowVars, NEW i, NEW j
  PROVE  Near(j, i)' <=> Near(j, i)
BY DEF rowVars, Near, TitlesMeet

(* One turn of the loop: a row is deprecated for an earlier one that is     *)
(* kept; an event, if nobody interferes, exactly when one is near.          *)
LEMMA LoopStep ==
  ASSUME DedupInv, sweep.pc = "search", sweep.todo # {}, NEW keeps \in SUBSET Rows,
         \A k \in keeps : k < FirstOf(sweep.todo) /\ k \notin Dups(sweep.pairs),
         layer = "event" /\ sweep.quiet =>
           (keeps # {} <=> \E j \in (sweep.rows \ sweep.todo) \ Dups(sweep.pairs) :
                             Near(j, FirstOf(sweep.todo))),
         Collapse(FirstOf(sweep.todo), keeps),
         UNCHANGED <<rowVars, cutoff, status, last, sweeps, others>>
  PROVE  DedupInv'
<1> DEFINE i == FirstOf(sweep.todo)
           D == Dups(sweep.pairs)
           R == sweep.rows \ sweep.todo
<1>1. i \in sweep.todo /\ \A j \in sweep.todo : i <= j
  BY FirstOfIsFirst DEF DedupInv, DedupTypes
<1>2. i \in Rows /\ i \in sweep.rows /\ i \notin R /\ R \in SUBSET Rows /\ Rows \subseteq Nat
  BY <1>1, DedupAssumption DEF DedupInv, DedupTypes, LoopInv, Rows
<1>3. \A j \in R : j < i
  BY <1>1 DEF DedupInv, LoopInv
<1>4. D \in SUBSET R
  BY DEF DedupInv, LoopInv, Dups
<1> HIDE DEF i
<1>5. PICK found \in IF keeps = {} THEN {{}} ELSE {{<<i, k>>} : k \in keeps} :
        sweep' = [sweep EXCEPT !.todo = @ \ {i}, !.pairs = @ \cup found]
  BY DEF Collapse, i
<1>6. (keeps = {} /\ found = {}) \/ \E k \in keeps : found = {<<i, k>>}
  BY <1>5
<1>7. /\ sweep'.pc = "search" /\ sweep'.rows = sweep.rows /\ sweep'.quiet = sweep.quiet
      /\ sweep'.dry = sweep.dry /\ sweep'.todo = sweep.todo \ {i}
      /\ sweep'.pairs = sweep.pairs \cup found
  BY <1>5 DEF DedupInv, DedupTypes
<1>8. Dups(sweep'.pairs) = IF keeps = {} THEN D ELSE D \cup {i}
  <2>1. CASE keeps = {}
    BY <1>6, <1>7, <2>1 DEF Dups
  <2>2. ASSUME NEW k \in keeps, found = {<<i, k>>} PROVE Dups(sweep'.pairs) = D \cup {i}
    <3>1. sweep'.pairs = sweep.pairs \cup {<<i, k>>} /\ <<i, k>>[1] = i
      BY <1>7, <2>2
    <3>2. \A x : x \in Dups(sweep'.pairs) <=> \E p \in sweep'.pairs : x = p[1]
      BY DEF Dups
    <3>3. \A x : x \in D <=> \E p \in sweep.pairs : x = p[1]
      BY DEF Dups
    <3>4. \A x : x \in Dups(sweep'.pairs) <=> x \in D \/ x = i
      BY <3>1, <3>2, <3>3
    <3>5. QED
      BY <3>4
  <2>3. QED
    BY <1>6, <2>1, <2>2
<1>9. sweep'.rows \ sweep'.todo = R \cup {i}
  BY <1>2, <1>7
<1>10. DedupTypes'
  <2>1. found \in SUBSET (Rows \X Rows)
    BY <1>2, <1>6
  <2>2. sweep' \in [pc : {"idle", "sweeping", "search"}, dry : BOOLEAN, rows : SUBSET Rows,
                    todo : SUBSET Rows, pairs : SUBSET (Rows \X Rows), quiet : BOOLEAN]
    BY <1>5, <2>1 DEF DedupInv, DedupTypes
  <2>3. QED
    BY <2>2 DEF DedupInv, DedupTypes, rowVars
<1>11. LoopInv'
  <2>1. \A a \in R \cup {i}, b \in sweep.todo \ {i} : a < b
    <3>1. \A b \in sweep.todo \ {i} : i < b
      <4>1. sweep.todo \subseteq Nat
        BY <1>2 DEF DedupInv, DedupTypes
      <4>2. QED
        BY <1>1, <1>2, <4>1
    <3>2. QED
      BY <3>1 DEF DedupInv, LoopInv
  <2>2. ASSUME NEW p \in sweep'.pairs
        PROVE  p[1] \in R \cup {i} /\ p[2] < p[1] /\ p[2] \notin Dups(sweep'.pairs)
    <3>1. CASE p \in sweep.pairs
      <4>1. p[1] \in R /\ p[2] < p[1] /\ p[2] \notin D
        BY <3>1 DEF DedupInv, LoopInv
      <4>2. p[2] # i
        <5>1. p[1] \in Nat /\ p[2] \in Nat /\ p[1] < i
          BY <1>2, <1>3, <3>1, <4>1 DEF DedupInv, DedupTypes
        <5>2. QED
          BY <1>2, <4>1, <5>1
      <4>3. QED
        BY <1>8, <4>1, <4>2
    <3>2. CASE p \notin sweep.pairs
      <4>1. PICK k \in keeps : p = <<i, k>>
        BY <1>6, <1>7, <3>2
      <4>2. k < i /\ k \notin D
        BY DEF i
      <4>3. k # i
        BY <1>2, <4>2
      <4>4. QED
        BY <1>8, <4>1, <4>2, <4>3
    <3>3. QED
      BY <3>1, <3>2
  <2>3. sweep'.todo \subseteq sweep'.rows
    BY <1>7 DEF DedupInv, LoopInv
  <2>4. QED
    BY <1>7, <1>9, <2>1, <2>2, <2>3 DEF LoopInv
<1>12. ActiveNow' = ActiveNow
  BY DEF ActiveNow, rowVars
<1>13. \A a, b : Near(a, b)' <=> Near(a, b)
  BY NearStays
<1>14. QuietInv'
  <2>1. SUFFICES ASSUME layer = "event", sweep.quiet PROVE QuietInv'
    BY <1>7 DEF QuietInv, rowVars
  <2>2. QuietInv
    BY DEF DedupInv
  <2>3. Collapsed(R \cup {i}, Dups(sweep'.pairs))
    <3> DEFINE E == Dups(sweep'.pairs)
    <3>1. ASSUME NEW a \in R PROVE a \in E <=> \E j \in (R \cup {i}) \ E : Near(j, a)
      <4>1. ~Near(i, a)
        <5>1. a < i /\ a \in Nat /\ i \in Nat
          BY <1>2, <1>3
        <5>2. QED
          BY <5>1 DEF Near
      <4>2. a \in E <=> a \in D
        BY <1>2, <1>8
      <4>3. a \in D <=> \E j \in R \ D : Near(j, a)
        BY <2>1, <2>2 DEF QuietInv, Collapsed
      <4>4. (R \cup {i}) \ E \subseteq (R \ D) \cup {i} /\ R \ D \subseteq (R \cup {i}) \ E
        BY <1>2, <1>8
      <4>5. QED
        BY <4>1, <4>2, <4>3, <4>4
    <3>2. i \in E <=> \E j \in (R \cup {i}) \ E : Near(j, i)
      <4>1. ~Near(i, i)
        BY <1>2 DEF Near
      <4>2. i \in E <=> keeps # {}
        BY <1>2, <1>4, <1>8
      <4>3. keeps # {} <=> \E j \in R \ D : Near(j, i)
        BY <2>1 DEF i
      <4>4. (R \cup {i}) \ E \subseteq (R \ D) \cup {i} /\ R \ D \subseteq (R \cup {i}) \ E
        BY <1>2, <1>8
      <4>5. QED
        BY <4>1, <4>2, <4>3, <4>4
    <3>3. QED
      BY <3>1, <3>2 DEF Collapsed
  <2>4. Collapsed(sweep'.rows \ sweep'.todo, Dups(sweep'.pairs))
    BY <1>9, <2>3
  <2>5. Collapsed(sweep.rows \ sweep.todo, Dups(sweep.pairs))'
    BY <1>13, <2>4 DEF Collapsed, Dups
  <2>6. QED
    BY <1>7, <1>12, <1>13, <2>1, <2>2, <2>5 DEF QuietInv
<1>15. ReportInv'
  BY <1>12, <1>13 DEF rowVars, DedupInv, ReportInv, Collapsed
<1>16. QED
  BY <1>10, <1>11, <1>14, <1>15 DEF DedupInv

-----------------------------------------------------------------------------
LEMMA DedupStart == DedupInit => DedupInv
<1> SUFFICES ASSUME DedupInit PROVE DedupInv
  OBVIOUS
<1>1. Rows \in SUBSET Nat
  BY DedupAssumption DEF Rows
<1>2. DedupTypes
  <2>1. at \in [Rows -> Nat]
    BY <1>1 DEF DedupInit
  <2>2. ASSUME NEW i \in Rows, NEW j \in Rows, i <= j PROVE at[i] <= at[j]
    <3>1. j \in i..MaxRow
      BY <2>2, DedupAssumption DEF Rows
    <3>2. QED
      BY <3>1 DEF DedupInit
  <2>3. status \in [Rows -> {"none", "active", "deprecated"}]
    BY DEF DedupInit
  <2>4. QED
    BY <2>1, <2>2, <2>3 DEF DedupInit, DedupTypes, NoSweep, NoReport
<1>3. LoopInv /\ QuietInv /\ ReportInv
  BY DEF DedupInit, LoopInv, QuietInv, ReportInv, NoSweep, NoReport
<1>4. QED
  BY <1>2, <1>3 DEF DedupInv

LEMMA StartSweepStep == ASSUME DedupInv, NEW dry \in BOOLEAN, StartSweep(dry) PROVE DedupInv'
<1>1. ActiveNow' = ActiveNow
  BY DEF StartSweep, ActiveNow, rowVars
<1>2. \A a, b : Near(a, b)' <=> Near(a, b)
  BY NearStays DEF StartSweep
<1>3. sweep' = [NoSweep EXCEPT !.pc = "sweeping", !.dry = dry]
  BY DEF StartSweep
<1>4. DedupTypes'
  BY <1>3 DEF StartSweep, DedupInv, DedupTypes, rowVars, NoSweep
<1>5. LoopInv' /\ QuietInv'
  BY <1>3 DEF LoopInv, QuietInv, NoSweep
<1>6. ReportInv'
  BY <1>1, <1>2 DEF StartSweep, rowVars, DedupInv, ReportInv, Collapsed
<1>7. QED
  BY <1>4, <1>5, <1>6 DEF DedupInv

LEMMA ReadRowsStep == ASSUME DedupInv, ReadRows PROVE DedupInv'
<1>1. ActiveNow' = ActiveNow
  BY DEF ReadRows, TakesRows, ActiveNow, rowVars
<1>2. \A a, b : Near(a, b)' <=> Near(a, b)
  BY NearStays DEF ReadRows, TakesRows
<1>3. sweep' = [sweep EXCEPT !.pc = "search", !.rows = ActiveNow, !.todo = ActiveNow]
  BY DEF ReadRows, TakesRows, ActiveNow
<1>4. ActiveNow \in SUBSET Rows
  BY DEF ActiveNow
<1>5. DedupTypes'
  BY <1>3, <1>4 DEF ReadRows, TakesRows, DedupInv, DedupTypes, rowVars
<1>6. sweep.pairs = {} /\ sweep.pc = "sweeping"
  BY DEF ReadRows, TakesRows, DedupInv, LoopInv
<1>7. /\ sweep'.rows = ActiveNow /\ sweep'.todo = ActiveNow /\ sweep'.pairs = {}
      /\ sweep'.pc = "search"
  BY <1>3, <1>6 DEF DedupInv, DedupTypes
<1>8. LoopInv'
  BY <1>7 DEF LoopInv
<1>9. QuietInv'
  <2>1. \A i \in ActiveNow : status[i] = "active"
    BY DEF ActiveNow
  <2>2. Collapsed(sweep.rows \ sweep.todo, Dups(sweep.pairs))'
    BY <1>7 DEF Collapsed
  <2>3. layer = "event" /\ last.known /\ ~last.dry => \A i, j \in ActiveNow : ~Near(j, i)
    BY DEF DedupInv, ReportInv
  <2>4. last' = last /\ status' = status /\ layer' = layer
    BY DEF ReadRows, TakesRows, rowVars
  <2>5. QED
    BY <1>1, <1>2, <1>7, <2>1, <2>2, <2>3, <2>4 DEF QuietInv
<1>10. ReportInv'
  BY <1>1, <1>2 DEF ReadRows, TakesRows, rowVars, DedupInv, ReportInv, Collapsed
<1>11. QED
  BY <1>5, <1>8, <1>9, <1>10 DEF DedupInv

LEMMA SearchStep == ASSUME DedupInv, Search PROVE DedupInv'
<1> DEFINE i == FirstOf(sweep.todo)
<1>1. PICK hits \in {{}, {j \in Earlier(i) : Similar(i, j)}} : Collapse(i, hits)
  BY DEF Search
<1>2. /\ layer = "episodic" /\ sweep.pc = "search" /\ sweep.todo # {}
      /\ UNCHANGED <<rowVars, cutoff, status, last, sweeps, others>>
  BY DEF Search
<1>3. i \in Rows
  BY <1>2, FirstOfIsFirst DEF DedupInv, DedupTypes
<1> HIDE DEF i
<1>4. hits \in SUBSET Earlier(i) /\ Earlier(i) \in SUBSET Rows
  BY <1>1 DEF Earlier
<1>5. ASSUME NEW k \in hits PROVE k < i /\ k \notin Dups(sweep.pairs)
  <2>1. k \in Rows /\ at[k] < at[i] /\ k \notin Dups(sweep.pairs)
    BY <1>4, <1>5 DEF Earlier
  <2>2. k \in Nat /\ i \in Nat /\ at[k] \in Nat /\ at[i] \in Nat
    BY <1>3, <2>1, DedupAssumption DEF Rows, DedupInv, DedupTypes
  <2>3. i <= k => at[i] <= at[k]
    BY <1>3, <2>1 DEF DedupInv, DedupTypes
  <2>4. QED
    BY <2>1, <2>2, <2>3
<1> USE DEF i
<1>6. hits \in SUBSET Rows
  BY <1>4
<1>7. QED
  BY <1>1, <1>2, <1>5, <1>6, LoopStep

LEMMA PlanRowStep == ASSUME DedupInv, PlanRow PROVE DedupInv'
<1> DEFINE i == FirstOf(sweep.todo)
           parts == {k \in Keepers : title[i] # Untitled /\ TitlesMeet(i, k)}
           exact == {k \in parts : title[k] = title[i]}
           first(s) == {k \in s : k = FirstOf(s)}
           keeps == IF exact # {} THEN first(exact) ELSE first(parts)
           R == sweep.rows \ sweep.todo
           D == Dups(sweep.pairs)
<1>1. i \in Rows /\ i \in sweep.todo
  BY FirstOfIsFirst DEF PlanRow, DedupInv, DedupTypes
<1>2. layer = "event" /\ sweep.pc = "search" /\ sweep.todo # {}
      /\ UNCHANGED <<rowVars, cutoff, status, last, sweeps, others>>
  BY DEF PlanRow
<1>3. R \in SUBSET Rows /\ Keepers \subseteq R \ D
  BY DEF DedupInv, DedupTypes, Keepers
<1>4. \A j \in R : j < i
  BY <1>1 DEF DedupInv, LoopInv
<1>5. \A j \in R \ D : Near(j, i) <=> j \in parts
  BY <1>4 DEF Near, Keepers
<1>6. keeps \subseteq parts /\ parts \subseteq R \ D
  BY <1>3
<1>7. parts # {} => keeps # {}
  <2>1. exact \in SUBSET Rows /\ parts \in SUBSET Rows
    BY <1>3
  <2>2. \A s \in SUBSET Rows : s # {} => FirstOf(s) \in s
    BY FirstOfIsFirst
  <2>3. CASE exact # {}
    BY <2>1, <2>2, <2>3
  <2>4. CASE exact = {}
    BY <2>1, <2>2, <2>4
  <2>5. QED
    BY <2>3, <2>4
<1>8. Collapse(i, keeps)
  BY DEF PlanRow
<1> HIDE DEF keeps, parts
<1>9. keeps # {} <=> \E j \in R \ D : Near(j, i)
  BY <1>5, <1>6, <1>7
<1>10. keeps \in SUBSET Rows /\ \A k \in keeps : k < i /\ k \notin D
  BY <1>3, <1>4, <1>6
<1>11. QED
  BY <1>2, <1>8, <1>9, <1>10, LoopStep

LEMMA EndSweepStep == ASSUME DedupInv, EndSweep PROVE DedupInv'
<1> DEFINE D == Dups(sweep.pairs)
<1>1. sweep.pc = "search" /\ sweep.todo = {} /\ sweep' = NoSweep
  BY DEF EndSweep
<1>2. D \subseteq sweep.rows /\ sweep.rows \subseteq Rows
  BY <1>1 DEF DedupInv, DedupTypes, LoopInv, Dups
<1>3. DedupTypes'
  <2>1. status' \in [Rows -> {"none", "active", "deprecated"}]
    BY DEF EndSweep, DedupInv, DedupTypes
  <2>2. last' \in [dry : BOOLEAN, known : BOOLEAN, dups : SUBSET Rows]
    BY <1>2 DEF EndSweep, DedupInv, DedupTypes, NoReport
  <2>3. QED
    BY <1>1, <2>1, <2>2 DEF EndSweep, DedupInv, DedupTypes, rowVars, NoSweep
<1>4. LoopInv' /\ QuietInv'
  BY <1>1 DEF LoopInv, QuietInv, NoSweep
<1>5. ReportInv'
  <2>1. CASE ~(layer = "event" /\ sweep.quiet)
    BY <2>1 DEF EndSweep, rowVars, ReportInv, NoReport
  <2>2. CASE layer = "event" /\ sweep.quiet
    <3>1. \A a, b : Near(a, b)' <=> Near(a, b)
      BY NearStays DEF EndSweep
    <3>2. last' = [dry |-> sweep.dry, known |-> TRUE, dups |-> D]
      BY <2>2 DEF EndSweep
    <3>3. sweep.dry \in BOOLEAN
      BY DEF DedupInv, DedupTypes
    <3>4. Collapsed(sweep.rows, D)
      <4>1. sweep.rows \ sweep.todo = sweep.rows
        BY <1>1
      <4>2. QED
        BY <1>1, <2>2, <4>1 DEF DedupInv, QuietInv
    <3>5. CASE sweep.dry
      <4>1. \A i \in Rows : status'[i] = status[i]
        BY <3>5 DEF EndSweep, DedupInv, DedupTypes
      <4>2. ActiveNow' = ActiveNow
        BY <4>1 DEF EndSweep, ActiveNow, rowVars
      <4>3. ActiveNow = sweep.rows
        BY <1>1, <2>2, <3>5 DEF DedupInv, QuietInv
      <4>4. QED
        BY <1>2, <3>1, <3>2, <3>4, <3>5, <4>2, <4>3 DEF ReportInv, Collapsed
    <3>6. CASE ~sweep.dry
      <4>1. ActiveNow' \subseteq ActiveNow \ D
        BY <3>6 DEF EndSweep, ActiveNow, rowVars, DedupInv, DedupTypes
      <4>2. ActiveNow \subseteq sweep.rows
        BY <1>1, <2>2 DEF DedupInv, QuietInv
      <4>3. \A i, j \in sweep.rows \ D : ~Near(j, i)
        BY <3>4 DEF Collapsed
      <4>4. \A i, j \in ActiveNow' : ~Near(j, i)'
        BY <3>1, <4>1, <4>2, <4>3
      <4>5. QED
        BY <3>2, <3>6, <4>4 DEF ReportInv
    <3>7. QED
      BY <3>3, <3>5, <3>6
  <2>3. QED
    BY <2>1, <2>2
<1>6. QED
  BY <1>3, <1>4, <1>5 DEF DedupInv

LEMMA SweepFailsStep == ASSUME DedupInv, SweepFails PROVE DedupInv'
<1>1. ActiveNow' = ActiveNow /\ sweep' = NoSweep
  BY DEF SweepFails, ActiveNow, rowVars
<1>2. \A a, b : Near(a, b)' <=> Near(a, b)
  BY NearStays DEF SweepFails
<1>3. DedupTypes'
  BY <1>1 DEF SweepFails, DedupInv, DedupTypes, rowVars, NoSweep
<1>4. LoopInv' /\ QuietInv'
  BY <1>1 DEF LoopInv, QuietInv, NoSweep
<1>5. ReportInv'
  BY <1>1, <1>2 DEF SweepFails, rowVars, DedupInv, ReportInv, Collapsed
<1>6. QED
  BY <1>3, <1>4, <1>5 DEF DedupInv

LEMMA OtherStep == ASSUME DedupInv, Other PROVE DedupInv'
<1>1. sweep' = [sweep EXCEPT !.quiet = FALSE] /\ last' = NoReport
  BY DEF Other
<1>2. DedupTypes'
  <2>1. status' \in [Rows -> {"none", "active", "deprecated"}]
    BY DEF Other, DedupInv, DedupTypes
  <2>2. sweep' \in [pc : {"idle", "sweeping", "search"}, dry : BOOLEAN, rows : SUBSET Rows,
                    todo : SUBSET Rows, pairs : SUBSET (Rows \X Rows), quiet : BOOLEAN]
    BY <1>1 DEF DedupInv, DedupTypes
  <2>3. QED
    BY <1>1, <2>1, <2>2 DEF Other, DedupInv, DedupTypes, rowVars, NoReport
<1>3. LoopInv'
  BY <1>1 DEF DedupInv, DedupTypes, LoopInv
<1>4. QuietInv' /\ ReportInv'
  BY <1>1 DEF DedupInv, DedupTypes, QuietInv, ReportInv, NoReport
<1>5. QED
  BY <1>2, <1>3, <1>4 DEF DedupInv

LEMMA DaysPassStep == ASSUME DedupInv, DaysPass PROVE DedupInv'
<1>1. sweep' = [sweep EXCEPT !.quiet = sweep.quiet /\ ~sweep.dry]
  BY DEF DaysPass
<1>2. /\ sweep'.pc = sweep.pc /\ sweep'.rows = sweep.rows /\ sweep'.todo = sweep.todo
      /\ sweep'.pairs = sweep.pairs /\ sweep'.dry = sweep.dry
      /\ sweep'.quiet = (sweep.quiet /\ ~sweep.dry)
  BY <1>1 DEF DedupInv, DedupTypes
<1>3. \A a, b : Near(a, b)' <=> Near(a, b)
  BY NearStays DEF DaysPass
<1>4. ActiveNow' \subseteq ActiveNow
  <2>1. at \in [Rows -> Nat] /\ cutoff \in Nat /\ cutoff' = cutoff + 1
    BY DEF DaysPass, DedupInv, DedupTypes
  <2>2. ASSUME NEW i \in Rows, cutoff' <= at[i] PROVE cutoff <= at[i]
    BY <2>1, <2>2
  <2>3. QED
    BY <2>2 DEF ActiveNow, DaysPass, rowVars
<1>5. DedupTypes'
  <2>1. last' \in [dry : BOOLEAN, known : BOOLEAN, dups : SUBSET Rows]
    BY DEF DaysPass, DedupInv, DedupTypes, NoReport
  <2>2. sweep' \in [pc : {"idle", "sweeping", "search"}, dry : BOOLEAN, rows : SUBSET Rows,
                    todo : SUBSET Rows, pairs : SUBSET (Rows \X Rows), quiet : BOOLEAN]
    BY <1>1 DEF DedupInv, DedupTypes
  <2>3. QED
    BY <2>1, <2>2 DEF DaysPass, DedupInv, DedupTypes, rowVars
<1>6. LoopInv'
  BY <1>2 DEF DedupInv, LoopInv
<1>7. ~(last'.known /\ last'.dry) /\ (last'.known => last' = last)
  BY DEF DaysPass, DedupInv, DedupTypes, NoReport
<1>8. QuietInv'
  <2>1. Collapsed(sweep.rows \ sweep.todo, Dups(sweep.pairs)) =>
          Collapsed(sweep.rows \ sweep.todo, Dups(sweep.pairs))'
    BY <1>2, <1>3 DEF Collapsed
  <2>2. status' = status /\ layer' = layer
    BY DEF DaysPass, rowVars
  <2>3. QED
    BY <1>2, <1>3, <1>4, <1>7, <2>1, <2>2 DEF DedupInv, QuietInv
<1>9. ReportInv'
  BY <1>3, <1>4, <1>7 DEF DaysPass, rowVars, DedupInv, ReportInv
<1>10. QED
  BY <1>5, <1>6, <1>8, <1>9 DEF DedupInv

THEOREM DedupInvariant == DedupSpec => []DedupInv
<1>1. DedupInv /\ [DedupNext]_dedupVars => DedupInv'
  <2> SUFFICES ASSUME DedupInv, [DedupNext]_dedupVars PROVE DedupInv'
    OBVIOUS
  <2>1. CASE StartSweep(TRUE) \/ StartSweep(FALSE)
    BY <2>1, StartSweepStep
  <2>2. CASE ReadRows
    BY <2>2, ReadRowsStep
  <2>3. CASE Search
    BY <2>3, SearchStep
  <2>4. CASE PlanRow
    BY <2>4, PlanRowStep
  <2>5. CASE EndSweep
    BY <2>5, EndSweepStep
  <2>6. CASE SweepFails
    BY <2>6, SweepFailsStep
  <2>7. CASE Other
    BY <2>7, OtherStep
  <2>8. CASE DaysPass
    BY <2>8, DaysPassStep
  <2>9. CASE UNCHANGED dedupVars
    <3>1. \A a, b : Near(a, b)' <=> Near(a, b)
      BY <2>9, NearStays DEF dedupVars
    <3>2. ActiveNow' = ActiveNow
      BY <2>9 DEF dedupVars, rowVars, ActiveNow
    <3>3. QED
      BY <2>9, <3>1, <3>2
         DEF dedupVars, rowVars, DedupInv, DedupTypes, LoopInv, QuietInv, ReportInv, Collapsed
  <2>10. QED
    BY <2>1, <2>2, <2>3, <2>4, <2>5, <2>6, <2>7, <2>8, <2>9 DEF DedupNext
<1>2. QED
  BY <1>1, DedupStart, PTL DEF DedupSpec

(* What a row collapses on is never deprecated by the same sweep and is     *)
(* the earlier of the two.                                                  *)
THEOREM KeepersSurvive == DedupSpec => []KeeperSurvives
<1>1. DedupInv => KeeperSurvives
  BY DEF DedupInv, LoopInv, KeeperSurvives
<1>2. QED
  BY <1>1, DedupInvariant, PTL

(* A sweep of events that nobody disturbs finds exactly what the dry run    *)
(* before it reported, and nothing after a real one.                        *)
THEOREM RerunsAgree == DedupSpec => []SweepsAgree
<1>1. DedupInv => SweepsAgree
  <2> SUFFICES ASSUME DedupInv, layer = "event", sweep.pc = "search", sweep.todo = {},
                      sweep.quiet, last.known
               PROVE  Dups(sweep.pairs) = IF last.dry THEN last.dups ELSE {}
    BY DEF SweepsAgree
  <2> DEFINE D == Dups(sweep.pairs)
  <2>1. sweep.rows \ sweep.todo = sweep.rows
    OBVIOUS
  <2>2. D \in SUBSET sweep.rows /\ sweep.rows \in SUBSET Rows
    BY DEF DedupInv, DedupTypes, LoopInv, Dups
  <2>3. Collapsed(sweep.rows, D)
    BY <2>1 DEF DedupInv, QuietInv
  <2>4. CASE last.dry
    <3>1. sweep.rows = ActiveNow
      BY <2>4 DEF DedupInv, QuietInv
    <3>2. last.dups \in SUBSET ActiveNow /\ Collapsed(ActiveNow, last.dups)
      BY <2>4 DEF DedupInv, ReportInv
    <3>3. QED
      BY <2>2, <2>3, <2>4, <3>1, <3>2, OneWayToCollapse
  <2>5. CASE ~last.dry
    <3>1. \A i, j \in sweep.rows : ~Near(j, i)
      BY <2>5 DEF DedupInv, QuietInv
    <3>2. D = {}
      BY <2>2, <2>3, <3>1 DEF Collapsed
    <3>3. QED
      BY <2>5, <3>2
  <2>6. QED
    BY <2>4, <2>5
<1>2. QED
  BY <1>1, DedupInvariant, PTL

-----------------------------------------------------------------------------
(* The relationship tasks                                                   *)
-----------------------------------------------------------------------------

Ids == (Batches \cup {0}) \X Nat
Person == [name : Names, via : Ids \cup {NoId}, from : SUBSET Batches]
People == UNION {[D -> Person] : D \in SUBSET Ids}
Given == UNION {[D -> Candidate] : D \in SUBSET Nat}
Known == UNION {[D -> Ids] : D \in SUBSET Names}
Work == [pc : {"idle", "look", "put", "done"}, given : Given, todo : SUBSET Nat, at : Nat,
         circle : BOOLEAN, own : People, cache : Known,
         put : [id : Ids \cup {NoId}, row : Person \cup {<<>>}]]

PeopleTypes ==
  /\ people \in People
  /\ batch \in [Batches -> Work]
  /\ alone \in [Batches -> BOOLEAN]

Done(me) == DOMAIN me.given \ me.todo

(* What a batch has at hand; nobody of its candidates is their own          *)
(* middleman.                                                               *)
WorkInv(me) ==
  /\ me.todo \subseteq DOMAIN me.given
  /\ \A k \in DOMAIN me.given : me.given[k].via # me.given[k].name
  /\ me.pc \notin {"look", "put"} => DOMAIN me.own = {}
  /\ me.pc = "put" => me.put.id \in Ids /\ me.put.row \in Person
  /\ \A n \in DOMAIN me.cache : me.cache[n] \in DOMAIN me.own /\ me.own[me.cache[n]].name = n
  /\ me.pc \in {"look", "put"} => \A k \in Done(me) :
       me.given[k].name \in DOMAIN me.cache
         \/ (me.pc = "put" /\ me.put.row.name = me.given[k].name)

Touched(me) == DOMAIN me.own \cup IF me.pc = "put" THEN {me.put.id} ELSE {}

(* An id stems from a task: from one that is over, or from the one that has *)
(* it, for a candidate it has done.                                         *)
Over(i) == i[1] \in Batches => batch[i[1]].pc = "done"
IdInv ==
  /\ \A i \in DOMAIN people : Over(i)
  /\ \A b \in Batches : \A i \in Touched(batch[b]) :
       IF i[1] = b THEN i[2] \in Done(batch[b]) ELSE Over(i)

(* Nobody is their own middleman.                                           *)
NoSelf ==
  /\ \A i \in DOMAIN people : people[i].via # i
  /\ \A b \in Batches : /\ \A i \in DOMAIN batch[b].own : batch[b].own[i].via # i
                        /\ batch[b].pc = "put" => batch[b].put.row.via # batch[b].put.id

(* The write to come leaves the name and the link of the batch's own row.   *)
PutKeeps(me) ==
  me.pc = "put" /\ me.put.id \in DOMAIN me.own =>
    LET old == me.own[me.put.id]
    IN  me.put.row.name = old.name /\ (old.via # NoId => me.put.row.via = old.via)

Linked(f, i, n) == f[i].name = n /\ f[i].via # NoId
ToLink(cs) == {k \in DOMAIN cs : cs[k].via \in NamesOf(cs)}

(* A batch without a circle has linked whom it had to.                      *)
OpenLinked(me) ==
  me.pc \in {"look", "put"} /\ NoCircle(me.given) =>
    /\ ~me.circle
    /\ \A k \in Done(me) \cap ToLink(me.given) :
         \/ \E i \in DOMAIN me.own : Linked(me.own, i, me.given[k].name)
         \/ me.pc = "put" /\ me.put.row.name = me.given[k].name /\ me.put.row.via # NoId

(* A batch that has the tables to itself keeps the links that are there.    *)
AloneKeeps ==
  \A b \in Batches : Open(b) /\ alone[b] =>
    /\ \A a \in Batches \ {b} : ~Open(a)
    /\ \A i \in DOMAIN people : people[i].via # NoId =>
         /\ i \in DOMAIN batch[b].own => batch[b].own[i].via = people[i].via
         /\ batch[b].pc = "put" /\ batch[b].put.id = i => batch[b].put.row.via = people[i].via

(* Nobody is about to undo the link of row i.                               *)
LinkKept(me, i, n) ==
  /\ i \in DOMAIN me.own => Linked(me.own, i, n)
  /\ me.pc = "put" /\ me.put.id = i => me.put.row.name = n /\ me.put.row.via # NoId

DoneLinked ==
  \A b \in Batches : batch[b].pc = "done" /\ alone[b] /\ NoCircle(batch[b].given) =>
    \A k \in ToLink(batch[b].given) :
      \E i \in DOMAIN people :
        /\ Linked(people, i, batch[b].given[k].name)
        /\ \A a \in Batches : LinkKept(batch[a], i, batch[b].given[k].name)

PeopleInv ==
  /\ PeopleTypes /\ IdInv /\ NoSelf /\ AloneKeeps /\ DoneLinked
  /\ \A b \in Batches : WorkInv(batch[b]) /\ PutKeeps(batch[b]) /\ OpenLinked(batch[b])

-----------------------------------------------------------------------------
LEMMA PeopleAre ==
  ASSUME NEW f
  PROVE  f \in People <=> f \in [DOMAIN f -> Person] /\ DOMAIN f \in SUBSET Ids
BY DEF People

LEMMA GivenAre ==
  ASSUME NEW f
  PROVE  f \in Given <=> f \in [DOMAIN f -> Candidate] /\ DOMAIN f \in SUBSET Nat
BY DEF Given

LEMMA KnownAre ==
  ASSUME NEW f
  PROVE  f \in Known <=> f \in [DOMAIN f -> Ids] /\ DOMAIN f \in SUBSET Names
BY DEF Known

(* Nothing is a function, too.                                              *)
LEMMA NoRows == DOMAIN <<>> = {} /\ <<>> \in People /\ <<>> \in Given /\ <<>> \in Known
<1>1. DOMAIN <<>> = {} /\ <<>> = [x \in {} |-> x]
  OBVIOUS
<1>2. QED
  BY <1>1 DEF People, Given, Known

LEMMA NoIdIsNone == NoId \notin Ids /\ \A b, k : NoId # <<b, k>>
BY DEF NoId, Ids

(* The statements of a batch see rows.                                      *)
LEMMA ViewIsRows ==
  ASSUME PeopleTypes, NEW b \in Batches
  PROVE  /\ View(b) \in People
         /\ DOMAIN View(b) = DOMAIN batch[b].own \cup DOMAIN people
         /\ \A i \in DOMAIN View(b) :
              View(b)[i] = IF i \in DOMAIN batch[b].own THEN batch[b].own[i] ELSE people[i]
<1>1. batch[b].own \in People /\ people \in People
  BY DEF PeopleTypes, Work
<1>2. /\ DOMAIN View(b) = DOMAIN batch[b].own \cup DOMAIN people
      /\ \A i \in DOMAIN View(b) :
           View(b)[i] = IF i \in DOMAIN batch[b].own THEN batch[b].own[i] ELSE people[i]
  BY DEF View
<1>3. View(b) = [i \in DOMAIN View(b) |-> View(b)[i]]
  BY DEF View
<1>4. \A i \in DOMAIN View(b) : View(b)[i] \in Person /\ i \in Ids
  BY <1>1, <1>2, PeopleAre
<1> HIDE DEF View
<1>5. View(b) \in [DOMAIN View(b) -> Person] /\ DOMAIN View(b) \in SUBSET Ids
  BY <1>3, <1>4
<1>6. QED
  BY <1>2, <1>5, PeopleAre

(* What the look-ups for candidate k come to: the row i, and the middleman. *)
Looked(b, k, i, via) ==
  LET me == batch[b]
      c == me.given[k]
      now == batch'[b]
  IN  /\ k \in MiddlemenFirst(me) /\ me.pc = "look"
      /\ people' = people /\ alone' = alone /\ batch' \in [Batches -> Work]
      /\ \A a \in Batches \ {b} : batch'[a] = batch[a]
      /\ now.pc = "put" /\ now.given = me.given /\ now.todo = me.todo \ {k}
      /\ now.circle = (me.circle \/ k \notin Outer(me) \cup Ready(me))
      /\ now.own = me.own /\ now.cache = me.cache
      /\ now.put.id = i /\ now.put.row \in Person /\ now.put.row.name = c.name
      /\ \/ /\ i \in DOMAIN View(b) /\ View(b)[i].name = c.name
            /\ now.put.row.via = Via(View(b)[i].via, via)
         \/ i = <<b, k>> /\ now.put.row.via = via
      /\ via = NoId \/ (via \in DOMAIN View(b) /\ View(b)[via].name = c.via)
      /\ c.via # Nobody /\ c.via \in DOMAIN me.cache => via = me.cache[c.via]

LEMMA FirstIsLeft ==
  ASSUME NEW me \in Work, me.todo # {}
  PROVE  MiddlemenFirst(me) # {} /\ MiddlemenFirst(me) \subseteq me.todo
BY DEF MiddlemenFirst, Outer, Ready

LEMMA LookUpDoes ==
  ASSUME PeopleTypes, NEW b \in Batches, WorkInv(batch[b]), LookUp(b)
  PROVE  \E k \in batch[b].todo, i \in Ids, via \in Ids \cup {NoId} : Looked(b, k, i, via)
<1> DEFINE me == batch[b]
           k == CHOOSE k \in MiddlemenFirst(me) : \A j \in MiddlemenFirst(me) : k <= j
           c == me.given[k]
           middlemen == IF c.via = Nobody THEN {NoId}
                        ELSE IF c.via \in DOMAIN me.cache THEN {me.cache[c.via]}
                        ELSE OrNoId(FindByName(b, c.via))
           row(i, via) ==
             IF i = NoId THEN [name |-> c.name, via |-> via, from |-> {b}]
             ELSE [name |-> c.name, via |-> Via(View(b)[i].via, via), from |-> View(b)[i].from \cup {b}]
           id(i) == IF i = NoId THEN <<b, k>> ELSE i
<1>1. me \in Work /\ me.pc = "look" /\ me.todo # {} /\ me.todo \in SUBSET Nat
  BY DEF LookUp, PeopleTypes, Work
<1>2. k \in MiddlemenFirst(me) /\ k \in me.todo /\ k \in Nat
  <2>1. MiddlemenFirst(me) \in SUBSET Nat /\ MiddlemenFirst(me) # {}
    BY <1>1, FirstIsLeft
  <2>2. \E m \in MiddlemenFirst(me) : \A j \in MiddlemenFirst(me) : m <= j
    BY <2>1, LeastNumber
  <2>3. QED
    BY <1>1, <2>2, FirstIsLeft
<1>3. PICK i \in OrNoId(FindByName(b, c.name)), via \in middlemen :
        batch' = [batch EXCEPT
             ![b].pc = "put",
             ![b].todo = @ \ {k},
             ![b].at = IF k \in Outer(me) THEN 0 ELSE k,
             ![b].circle = @ \/ k \notin Outer(me) \cup Ready(me),
             ![b].put = [id |-> id(i), row |-> row(i, via)]]
  BY DEF LookUp
<1>4. people' = people /\ alone' = alone
  BY DEF LookUp
<1> HIDE DEF k
<1>5. c \in Candidate
  BY <1>1, <1>2, GivenAre DEF Work, WorkInv
<1>6. View(b) \in [DOMAIN View(b) -> Person] /\ DOMAIN View(b) \in SUBSET Ids
  BY ViewIsRows, PeopleAre
<1>7. i = NoId \/ (i \in DOMAIN View(b) /\ View(b)[i].name = c.name)
  BY <1>3 DEF OrNoId, FindByName
<1>8. id(i) \in Ids
  BY <1>2, <1>6, <1>7 DEF Ids
<1>9. /\ via = NoId \/ (via \in DOMAIN View(b) /\ View(b)[via].name = c.via)
      /\ c.via # Nobody /\ c.via \in DOMAIN me.cache => via = me.cache[c.via]
  <2>1. CASE c.via = Nobody
    BY <1>3, <2>1
  <2>2. CASE c.via # Nobody /\ c.via \in DOMAIN me.cache
    <3>1. via = me.cache[c.via]
      BY <1>3, <2>2
    <3>2. via \in DOMAIN me.own /\ me.own[via].name = c.via
      BY <2>2, <3>1 DEF WorkInv
    <3>3. QED
      BY <3>1, <3>2, ViewIsRows
  <2>3. CASE c.via # Nobody /\ c.via \notin DOMAIN me.cache
    BY <1>3, <2>3 DEF OrNoId, FindByName
  <2>4. QED
    BY <2>1, <2>2, <2>3
<1>10. via \in Ids \cup {NoId}
  BY <1>6, <1>9
<1>11. row(i, via) \in Person
  <2>1. CASE i = NoId
    BY <1>5, <1>10, <2>1 DEF Person, Candidate
  <2>2. CASE i # NoId
    <3>1. View(b)[i] \in Person
      BY <1>6, <1>7, <2>2
    <3>2. Via(View(b)[i].via, via) \in Ids \cup {NoId}
      BY <1>10, <3>1 DEF Via, Person
    <3>3. QED
      BY <1>5, <2>2, <3>1, <3>2 DEF Person, Candidate
  <2>3. QED
    BY <2>1, <2>2
<1>12. row(i, via).name = c.name
  OBVIOUS
<1>13. \/ /\ id(i) \in DOMAIN View(b) /\ View(b)[id(i)].name = c.name
          /\ row(i, via).via = Via(View(b)[id(i)].via, via)
       \/ id(i) = <<b, k>> /\ row(i, via).via = via
  BY <1>7
<1> HIDE DEF row, id
<1> DEFINE put == [id |-> id(i), row |-> row(i, via)]
           now == [pc |-> "put", given |-> me.given, todo |-> me.todo \ {k},
                   at |-> IF k \in Outer(me) THEN 0 ELSE k,
                   circle |-> (me.circle \/ k \notin Outer(me) \cup Ready(me)),
                   own |-> me.own, cache |-> me.cache, put |-> put]
<1>14. put \in [id : Ids \cup {NoId}, row : Person \cup {<<>>}]
  BY <1>8, <1>11
<1>15. now \in Work
  BY <1>1, <1>2, <1>14 DEF Work
<1>16. batch' = [batch EXCEPT ![b] = now]
  <2>1. batch \in [Batches -> Work]
    BY DEF PeopleTypes
  <2>2. \A a \in Batches : a # b => batch'[a] = batch[a]
    BY <1>3, <2>1
  <2>3. batch'[b] = now
    BY <1>1, <1>3, <2>1 DEF Work
  <2>4. batch' = [a \in Batches |-> batch'[a]]
    BY <1>3, <2>1
  <2>5. QED
    BY <2>1, <2>2, <2>3, <2>4
<1>17. batch' \in [Batches -> Work] /\ batch'[b] = now /\ \A a \in Batches \ {b} : batch'[a] = batch[a]
  BY <1>15, <1>16 DEF PeopleTypes
<1>18. Looked(b, k, id(i), via)
  BY <1>1, <1>2, <1>4, <1>9, <1>11, <1>12, <1>13, <1>17 DEF Looked
<1>19. QED
  BY <1>2, <1>8, <1>10, <1>18

(* Unless there is a circle, the next candidate's middleman is not in the   *)
(* batch or has been done: else the names still to do would be known only   *)
(* through one another.                                                     *)
LEMMA NextIsReady ==
  ASSUME NEW me \in Work, WorkInv(me), NoCircle(me.given), ~me.circle, me.todo # {},
         NEW k \in MiddlemenFirst(me)
  PROVE  k \in Outer(me) \cup Ready(me)
<1> DEFINE cs == me.given
           S == {cs[j].name : j \in me.todo}
<1>1. CASE Outer(me) # {} \/ Ready(me) # {}
  BY <1>1 DEF MiddlemenFirst
<1>2. CASE Outer(me) = {} /\ Ready(me) = {}
  <2>1. me.todo \subseteq DOMAIN cs
    BY DEF WorkInv
  <2>2. S \in (SUBSET NamesOf(cs)) \ {{}}
    <3>1. S \subseteq NamesOf(cs)
      BY <2>1 DEF NamesOf
    <3>2. S # {}
      OBVIOUS
    <3>3. QED
      BY <3>1, <3>2
  <2>3. PICK n \in S : \A j \in DOMAIN cs : cs[j].name = n => cs[j].via \notin S
    BY <2>2 DEF NoCircle
  <2>4. PICK j \in me.todo : cs[j].name = n
    BY <2>3
  <2>5. cs[j].via \in NamesOf(cs) /\ cs[j].via \notin S
    BY <1>2, <2>1, <2>3, <2>4 DEF Outer
  <2>6. PICK m \in DOMAIN cs : cs[m].name = cs[j].via
    BY <2>5 DEF NamesOf
  <2>7. m \notin me.todo
    BY <2>5, <2>6
  <2>8. j \in Ready(me)
    BY <2>4, <2>6, <2>7 DEF Ready
  <2>9. QED
    BY <1>2, <2>8
<1>3. QED
  BY <1>1, <1>2

(* The row of a look-up: one that the batch sees, or a new one that nobody  *)
(* has.                                                                     *)
LEMMA LookedRow ==
  ASSUME PeopleInv, NEW b \in Batches, NEW k \in batch[b].todo, NEW i \in Ids,
         NEW via \in Ids \cup {NoId}, Looked(b, k, i, via)
  PROVE  /\ <<b, k>> \notin DOMAIN View(b)
         /\ batch'[b].put.row.via # i
         /\ i \in DOMAIN View(b) /\ View(b)[i].via # NoId =>
              batch'[b].put.row.via = View(b)[i].via
         /\ i \in DOMAIN View(b) => batch'[b].put.row.name = View(b)[i].name
<1> DEFINE me == batch[b]
           c == me.given[k]
           row == batch'[b].put.row
<1>1. me.pc = "look" /\ k \notin Done(me) /\ k \in DOMAIN me.given
  BY DEF Looked, Done, PeopleInv, WorkInv
<1>2. DOMAIN View(b) = DOMAIN me.own \cup DOMAIN people
  BY ViewIsRows DEF PeopleInv
<1>3. <<b, k>> \notin DOMAIN View(b)
  <2>1. <<b, k>>[1] = b /\ <<b, k>>[2] = k
    OBVIOUS
  <2>2. <<b, k>> \notin DOMAIN people
    BY <1>1, <2>1 DEF PeopleInv, IdInv, Over
  <2>3. <<b, k>> \notin DOMAIN me.own
    BY <1>1, <2>1 DEF PeopleInv, IdInv, Touched
  <2>4. QED
    BY <1>2, <2>2, <2>3
<1>4. \A j \in DOMAIN View(b) : View(b)[j].via # j
  <2>1. \A j \in DOMAIN me.own : me.own[j].via # j
    BY DEF PeopleInv, NoSelf
  <2>2. \A j \in DOMAIN people : people[j].via # j
    BY DEF PeopleInv, NoSelf
  <2>3. QED
    BY <1>2, <2>1, <2>2, ViewIsRows DEF PeopleInv
<1>5. c.via # c.name
  BY <1>1 DEF PeopleInv, WorkInv
<1>6. via = NoId \/ (via \in DOMAIN View(b) /\ View(b)[via].name = c.via)
  BY DEF Looked
<1>7. via # i
  <2>1. CASE i \in DOMAIN View(b) /\ View(b)[i].name = c.name
    BY <1>5, <1>6, <2>1, NoIdIsNone
  <2>2. CASE i = <<b, k>>
    BY <1>3, <1>6, <2>2, NoIdIsNone
  <2>3. QED
    BY <2>1, <2>2 DEF Looked
<1>8. \/ /\ i \in DOMAIN View(b) /\ View(b)[i].name = c.name
         /\ row.via = Via(View(b)[i].via, via)
      \/ i = <<b, k>> /\ row.via = via
  BY DEF Looked
<1>9. row.name = c.name
  BY DEF Looked
<1>10. row.via # i
  BY <1>4, <1>7, <1>8 DEF Via
<1>11. QED
  BY <1>3, <1>8, <1>9, <1>10 DEF Via

LEMMA LookUpStep == ASSUME PeopleInv, NEW b \in Batches, LookUp(b) PROVE PeopleInv'
<1>0. PeopleTypes /\ WorkInv(batch[b])
  BY DEF PeopleInv
<1>1. PICK k \in batch[b].todo, i \in Ids, via \in Ids \cup {NoId} : Looked(b, k, i, via)
  BY <1>0, LookUpDoes
<1> DEFINE me == batch[b]
           now == batch'[b]
           c == me.given[k]
           row == now.put.row
<1>2. /\ me.pc = "look" /\ people' = people /\ alone' = alone /\ batch' \in [Batches -> Work]
      /\ \A a \in Batches \ {b} : batch'[a] = batch[a]
      /\ now.pc = "put" /\ now.given = me.given /\ now.todo = me.todo \ {k}
      /\ now.circle = (me.circle \/ k \notin Outer(me) \cup Ready(me))
      /\ now.own = me.own /\ now.cache = me.cache
      /\ now.put.id = i /\ row \in Person /\ row.name = c.name
  BY <1>1 DEF Looked
<1>3. /\ <<b, k>> \notin DOMAIN View(b) /\ row.via # i
      /\ i \in DOMAIN View(b) /\ View(b)[i].via # NoId => row.via = View(b)[i].via
      /\ i \in DOMAIN View(b) => row.name = View(b)[i].name
  BY <1>1, LookedRow
<1>4. i \in DOMAIN View(b) \/ i = <<b, k>>
  BY <1>1 DEF Looked
<1>5. /\ DOMAIN View(b) = DOMAIN me.own \cup DOMAIN people
      /\ \A j \in DOMAIN View(b) :
           View(b)[j] = IF j \in DOMAIN me.own THEN me.own[j] ELSE people[j]
  BY <1>0, ViewIsRows
<1>6. me \in Work /\ k \in DOMAIN me.given /\ Done(now) = Done(me) \cup {k} /\ k \notin Done(me)
  BY <1>0, <1>2 DEF PeopleTypes, WorkInv, Done
<1> HIDE DEF now
<1>7. PeopleTypes'
  BY <1>0, <1>2 DEF PeopleTypes
<1>8. WorkInv(now)
  <2>1. \A n \in DOMAIN now.cache : now.cache[n] \in DOMAIN now.own /\ now.own[now.cache[n]].name = n
    BY <1>0, <1>2 DEF WorkInv
  <2>2. \A j \in Done(now) : now.given[j].name \in DOMAIN now.cache \/ now.put.row.name = now.given[j].name
    BY <1>0, <1>2, <1>6 DEF WorkInv
  <2>3. now.todo \subseteq DOMAIN now.given /\ \A j \in DOMAIN now.given : now.given[j].via # now.given[j].name
    BY <1>0, <1>2 DEF WorkInv
  <2>4. QED
    BY <1>2, <2>1, <2>2, <2>3 DEF WorkInv
<1>9. PutKeeps(now)
  BY <1>2, <1>3, <1>5 DEF PutKeeps
<1>10. OpenLinked(now)
  <2>1. SUFFICES ASSUME NoCircle(me.given) PROVE OpenLinked(now)
    BY <1>2 DEF OpenLinked
  <2>2. OpenLinked(me)
    BY DEF PeopleInv
  <2>3. ~me.circle /\ \A j \in Done(me) \cap ToLink(me.given) :
                        \E r \in DOMAIN me.own : Linked(me.own, r, me.given[j].name)
    BY <1>2, <2>1, <2>2 DEF OpenLinked
  <2>4. k \in MiddlemenFirst(me)
    BY <1>1 DEF Looked
  <2>5. k \in Outer(me) \cup Ready(me)
    BY <1>0, <1>6, <2>1, <2>3, <2>4, NextIsReady
  <2>6. ASSUME k \in ToLink(me.given) PROVE row.via # NoId
    <3>1. c.via \in NamesOf(me.given) /\ c.via # c.name
      BY <1>0, <1>6, <2>6 DEF ToLink, WorkInv
    <3>2. k \in Ready(me)
      BY <2>5, <3>1 DEF Outer
    <3>3. PICK m \in Done(me) : me.given[m].name = c.via
      BY <3>2 DEF Ready, Done
    <3>4. c.via \in DOMAIN me.cache
      BY <1>0, <1>2, <3>3 DEF WorkInv
    <3>5. c.via # Nobody
      <4>1. me.given[m] \in Candidate
        BY <1>6, <3>3, GivenAre DEF Work, Done
      <4>2. me.given[m].name \in Names
        BY <4>1 DEF Candidate
      <4>3. QED
        BY <3>3, <4>2, RelationshipAssumption
    <3>6. via = me.cache[c.via]
      BY <1>1, <3>4, <3>5 DEF Looked
    <3>7. via \in Ids
      BY <1>6, <3>4, <3>6, KnownAre DEF Work
    <3>8. via # NoId
      BY <3>7, NoIdIsNone
    <3>9. row.via = via \/ row.via = Via(View(b)[i].via, via)
      BY <1>1 DEF Looked, now
    <3>10. QED
      BY <3>8, <3>9 DEF Via
  <2>7. ASSUME NEW j \in Done(now) \cap ToLink(now.given)
        PROVE  \/ \E r \in DOMAIN now.own : Linked(now.own, r, now.given[j].name)
               \/ now.put.row.name = now.given[j].name /\ now.put.row.via # NoId
    BY <1>2, <1>6, <2>3, <2>6
  <2>8. QED
    BY <1>2, <2>3, <2>5, <2>7 DEF OpenLinked
<1>11. \A a \in Batches : WorkInv(batch'[a]) /\ PutKeeps(batch'[a]) /\ OpenLinked(batch'[a])
  BY <1>2, <1>8, <1>9, <1>10 DEF PeopleInv, now
<1>12. \A j : Over(j) => Over(j)'
  BY <1>2 DEF Over, now
<1>13. \A j : Over(j)' => Over(j)
  BY <1>2 DEF Over, now
<1>14. IdInv'
  <2>1. \A j \in DOMAIN people' : Over(j)'
    BY <1>2, <1>12 DEF PeopleInv, IdInv
  <2>2. \A a \in Batches \ {b} : \A j \in Touched(batch'[a]) :
          IF j[1] = a THEN j[2] \in Done(batch'[a]) ELSE Over(j)'
    BY <1>2, <1>12 DEF PeopleInv, IdInv
  <2>3. ASSUME NEW j \in Touched(now) PROVE IF j[1] = b THEN j[2] \in Done(now) ELSE Over(j)'
    <3>1. CASE j \in DOMAIN me.own
      BY <1>6, <1>12, <3>1 DEF PeopleInv, IdInv, Touched
    <3>2. CASE j = i /\ i \in DOMAIN people
      <4>1. Over(j)
        BY <3>2 DEF PeopleInv, IdInv
      <4>2. j[1] # b
        BY <1>2, <4>1 DEF Over
      <4>3. QED
        BY <1>12, <4>1, <4>2
    <3>3. CASE j = i /\ i = <<b, k>>
      BY <1>6, <3>3
    <3>4. QED
      BY <1>2, <1>4, <1>5, <3>1, <3>2, <3>3 DEF Touched
  <2>4. QED
    BY <2>1, <2>2, <2>3 DEF IdInv, now
<1>15. NoSelf'
  <2>1. \A j \in DOMAIN now.own : now.own[j].via # j
    BY <1>2 DEF PeopleInv, NoSelf
  <2>2. now.put.row.via # now.put.id
    BY <1>2, <1>3
  <2>3. QED
    BY <1>2, <2>1, <2>2 DEF PeopleInv, NoSelf, now
<1>16. AloneKeeps'
  <2>1. \A a \in Batches : Open(a)' <=> Open(a)
    BY <1>2 DEF Open, now
  <2>2. ASSUME alone[b], NEW j \in DOMAIN people, people[j].via # NoId
        PROVE  /\ j \in DOMAIN now.own => now.own[j].via = people[j].via
               /\ now.put.id = j => now.put.row.via = people[j].via
    <3>1. j \in DOMAIN me.own => me.own[j].via = people[j].via
      BY <1>2, <2>2 DEF PeopleInv, AloneKeeps, Open
    <3>2. View(b)[j].via = people[j].via
      BY <1>5, <2>2, <3>1
    <3>3. QED
      BY <1>2, <1>3, <1>5, <2>2, <3>1, <3>2
  <2>3. ASSUME NEW a \in Batches, Open(a), alone[a]
        PROVE  /\ \A o \in Batches \ {a} : ~Open(o)
               /\ \A j \in DOMAIN people : people[j].via # NoId =>
                    /\ j \in DOMAIN batch'[a].own => batch'[a].own[j].via = people[j].via
                    /\ batch'[a].pc = "put" /\ batch'[a].put.id = j =>
                         batch'[a].put.row.via = people[j].via
    <3>1. \A o \in Batches \ {a} : ~Open(o)
      BY <2>3 DEF PeopleInv, AloneKeeps
    <3>2. a = b
      BY <1>2, <3>1 DEF Open
    <3>3. QED
      BY <2>2, <2>3, <3>1, <3>2 DEF now
  <2>4. QED
    BY <1>2, <2>1, <2>3 DEF AloneKeeps
<1>17. DoneLinked'
  <2>1. ASSUME NEW j \in DOMAIN people, NEW n, Linked(people, j, n), LinkKept(me, j, n)
        PROVE  LinkKept(now, j, n)
    <3>1. j \in DOMAIN View(b) /\ Linked(View(b), j, n)
      BY <1>5, <2>1 DEF Linked, LinkKept
    <3>2. QED
      BY <1>2, <1>3, <2>1, <3>1 DEF Linked, LinkKept
  <2>2. ASSUME NEW a \in Batches, batch'[a].pc = "done", alone'[a], NoCircle(batch'[a].given),
               NEW m \in ToLink(batch'[a].given)
        PROVE  \E j \in DOMAIN people' :
                 /\ Linked(people', j, batch'[a].given[m].name)
                 /\ \A o \in Batches : LinkKept(batch'[o], j, batch'[a].given[m].name)
    <3>1. batch'[a] = batch[a]
      BY <1>2, <2>2 DEF now
    <3>2. PICK j \in DOMAIN people : /\ Linked(people, j, batch[a].given[m].name)
                                     /\ \A o \in Batches : LinkKept(batch[o], j, batch[a].given[m].name)
      BY <1>2, <2>2, <3>1 DEF PeopleInv, DoneLinked
    <3>3. \A o \in Batches : LinkKept(batch'[o], j, batch[a].given[m].name)
      BY <1>2, <2>1, <3>2 DEF now
    <3>4. QED
      BY <1>2, <3>1, <3>2, <3>3
  <2>3. QED
    BY <2>2 DEF DoneLinked
<1>18. QED
  BY <1>7, <1>11, <1>14, <1>15, <1>16, <1>17 DEF PeopleInv

-----------------------------------------------------------------------------
LEMMA PeopleStart == PeopleInit => PeopleInv
<1> SUFFICES ASSUME PeopleInit PROVE PeopleInv
  OBVIOUS
<1>1. /\ \A b \in Batches : batch[b] = Idle
      /\ DOMAIN people = {} /\ alone \in [Batches -> BOOLEAN]
      /\ people \in People
  BY NoRows DEF PeopleInit
<1>2. Idle \in Work /\ DOMAIN Idle.own = {} /\ DOMAIN Idle.cache = {} /\ DOMAIN Idle.given = {}
  BY NoRows DEF Idle, Work
<1>3. Idle.pc = "idle" /\ Idle.todo = {}
  BY DEF Idle
<1>4. PeopleTypes
  BY <1>1, <1>2 DEF PeopleInit, PeopleTypes
<1>5. WorkInv(Idle) /\ PutKeeps(Idle) /\ OpenLinked(Idle) /\ Touched(Idle) = {}
  BY <1>2, <1>3 DEF WorkInv, PutKeeps, OpenLinked, Touched
<1>6. IdInv
  BY <1>1, <1>5 DEF IdInv
<1>7. NoSelf
  BY <1>1, <1>2, <1>3 DEF NoSelf
<1>8. AloneKeeps
  BY <1>1, <1>3 DEF AloneKeeps, Open
<1>9. DoneLinked
  BY <1>1, <1>3 DEF DoneLinked
<1>10. QED
  BY <1>1, <1>4, <1>5, <1>6, <1>7, <1>8, <1>9 DEF PeopleInv

(* What the worker keeps of an answer.                                      *)
LEMMA ExtractIs ==
  ASSUME NEW b \in Batches, NEW cs \in Answers[b]
  PROVE  /\ Extract(cs) \in Given
         /\ \A k \in DOMAIN Extract(cs) : Extract(cs)[k].via # Extract(cs)[k].name
<1>1. cs \in Seq(Candidate)
  BY AnswersAssumption
<1>2. DOMAIN cs \in SUBSET Nat /\ cs \in [DOMAIN cs -> Candidate]
  BY <1>1
<1> DEFINE kept == {k \in NewIn(cs) : Cardinality({j \in NewIn(cs) : j < k}) < MaxPerTurn}
           D == IF Valid(cs) THEN kept ELSE {}
<1>3. D \subseteq DOMAIN cs
  BY DEF NewIn
<1>4. Extract(cs) = [k \in D |-> cs[k]]
  BY DEF Extract
<1>5. ASSUME NEW k \in D PROVE cs[k] \in Candidate /\ cs[k].via # cs[k].name
  BY <1>2, <1>3 DEF Valid
<1> HIDE DEF D
<1>6. DOMAIN Extract(cs) = D /\ \A k \in D : Extract(cs)[k] = cs[k]
  BY <1>4
<1>7. Extract(cs) \in [D -> Candidate]
  BY <1>4, <1>5
<1>8. QED
  BY <1>2, <1>3, <1>5, <1>6, <1>7, GivenAre

(* A step of one task, from which its own part of the invariant follows.    *)
LEMMA OtherTasks ==
  ASSUME PeopleInv, NEW b \in Batches, \A a \in Batches \ {b} : batch'[a] = batch[a],
         WorkInv(batch'[b]), PutKeeps(batch'[b]), OpenLinked(batch'[b])
  PROVE  \A a \in Batches : WorkInv(batch'[a]) /\ PutKeeps(batch'[a]) /\ OpenLinked(batch'[a])
BY DEF PeopleInv

LEMMA BeginBatchStep == ASSUME PeopleInv, NEW b \in Batches, BeginBatch(b) PROVE PeopleInv'
<1>1. PICK cs \in Answers[b] :
        batch' = [batch EXCEPT ![b] = [Idle EXCEPT !.pc = "look", !.given = Extract(cs),
                                                   !.todo = DOMAIN Extract(cs)]]
  BY DEF BeginBatch
<1> DEFINE now == batch'[b]
<1>2. batch \in [Batches -> Work] /\ people \in People /\ alone \in [Batches -> BOOLEAN]
  BY DEF PeopleInv, PeopleTypes
<1>3. batch[b].pc = "idle" /\ people' = people
  BY DEF BeginBatch
<1>4. /\ Extract(cs) \in Given /\ DOMAIN Extract(cs) \in SUBSET Nat
      /\ \A k \in DOMAIN Extract(cs) : Extract(cs)[k].via # Extract(cs)[k].name
  BY ExtractIs, GivenAre
<1>5. now = [Idle EXCEPT !.pc = "look", !.given = Extract(cs), !.todo = DOMAIN Extract(cs)]
  BY <1>1, <1>2
<1>6. now \in Work
  <2>1. now = [pc |-> "look", given |-> Extract(cs), todo |-> DOMAIN Extract(cs), at |-> 0,
               circle |-> FALSE, own |-> <<>>, cache |-> <<>>, put |-> [id |-> NoId, row |-> <<>>]]
    BY <1>5 DEF Idle
  <2>2. QED
    BY <1>4, <2>1, NoRows DEF Work
<1>7. /\ now.pc = "look" /\ now.given = Extract(cs) /\ now.todo = DOMAIN now.given
      /\ DOMAIN now.own = {} /\ DOMAIN now.cache = {} /\ now.circle = FALSE
  BY <1>5, NoRows DEF Idle
<1>8. \A a \in Batches \ {b} : batch'[a] = batch[a]
  BY <1>1, <1>2
<1>9. /\ alone' \in [Batches -> BOOLEAN]
      /\ \A a \in Batches : alone'[a] => alone[a]
      /\ \A a \in Batches \ {b} : alone'[a] => ~Open(a)
      /\ alone'[b] => \A o \in Batches : ~Open(o)
  BY <1>2 DEF BeginBatch
<1>10. PeopleTypes'
  <2>1. batch' \in [Batches -> Work]
    BY <1>1, <1>2, <1>5, <1>6
  <2>2. QED
    BY <1>2, <1>3, <1>9, <2>1 DEF PeopleTypes
<1> HIDE DEF now
<1>11. WorkInv(now) /\ PutKeeps(now) /\ OpenLinked(now) /\ Touched(now) = {}
  <2>1. Done(now) = {}
    BY <1>7 DEF Done
  <2>2. WorkInv(now)
    BY <1>4, <1>7, <2>1 DEF WorkInv
  <2>3. QED
    BY <1>7, <2>1, <2>2 DEF PutKeeps, OpenLinked, Touched
<1>12. \A a \in Batches : WorkInv(batch'[a]) /\ PutKeeps(batch'[a]) /\ OpenLinked(batch'[a])
  BY <1>8, <1>11, OtherTasks DEF now
<1>13. \A i : Over(i) => Over(i)'
  BY <1>3, <1>8 DEF Over
<1>14. IdInv'
  <2>1. \A a \in Batches \ {b} : \A i \in Touched(batch'[a]) :
          IF i[1] = a THEN i[2] \in Done(batch'[a]) ELSE Over(i)'
    BY <1>8, <1>13 DEF PeopleInv, IdInv
  <2>2. QED
    BY <1>3, <1>11, <1>13, <2>1 DEF PeopleInv, IdInv, now
<1>15. NoSelf'
  BY <1>3, <1>7, <1>8 DEF PeopleInv, NoSelf, now
<1>16. AloneKeeps'
  <2>1. ASSUME NEW a \in Batches, Open(a)', alone'[a] PROVE a = b
    BY <1>8, <1>9, <2>1 DEF Open
  <2>2. alone'[b] => \A o \in Batches \ {b} : ~Open(o)'
    BY <1>8, <1>9 DEF Open
  <2>3. QED
    BY <1>7, <2>1, <2>2 DEF AloneKeeps, now
<1>17. DoneLinked'
  <2>1. \A i, n : LinkKept(now, i, n)
    BY <1>7 DEF LinkKept
  <2>2. ASSUME NEW a \in Batches, batch'[a].pc = "done", alone'[a], NoCircle(batch'[a].given),
               NEW m \in ToLink(batch'[a].given)
        PROVE  \E j \in DOMAIN people' :
                 /\ Linked(people', j, batch'[a].given[m].name)
                 /\ \A o \in Batches : LinkKept(batch'[o], j, batch'[a].given[m].name)
    <3>1. batch'[a] = batch[a] /\ alone[a]
      BY <1>7, <1>8, <1>9, <2>2 DEF now
    <3>2. PICK j \in DOMAIN people : /\ Linked(people, j, batch[a].given[m].name)
                                     /\ \A o \in Batches : LinkKept(batch[o], j, batch[a].given[m].name)
      BY <2>2, <3>1 DEF PeopleInv, DoneLinked
    <3>3. \A o \in Batches : LinkKept(batch'[o], j, batch[a].given[m].name)
      BY <1>8, <2>1, <3>2 DEF now
    <3>4. QED
      BY <1>3, <3>1, <3>2, <3>3
  <2>3. QED
    BY <2>2 DEF DoneLinked
<1>18. QED
  BY <1>10, <1>12, <1>14, <1>15, <1>16, <1>17 DEF PeopleInv

LEMMA UpsertStep == ASSUME PeopleInv, NEW b \in Batches, Upsert(b) PROVE PeopleInv'
<1> DEFINE me == batch[b]
           now == batch'[b]
           id == me.put.id
           row == me.put.row
           write(f, x, y) == [i \in DOMAIN f \cup {x} |-> IF i = x THEN y ELSE f[i]]
<1>0. /\ batch \in [Batches -> Work] /\ people \in People /\ me \in Work
      /\ WorkInv(me) /\ PutKeeps(me) /\ OpenLinked(me)
  BY DEF PeopleInv, PeopleTypes
<1>1. me.pc = "put" /\ people' = people /\ alone' = alone /\ id \in Ids /\ row \in Person
  BY <1>0 DEF Upsert, WorkInv
<1>2. batch' = [batch EXCEPT ![b] = [me EXCEPT !.pc = "look", !.own = write(me.own, id, row),
                                               !.cache = write(me.cache, row.name, id),
                                               !.put = Idle.put]]
  BY DEF Upsert
<1>3. now = [me EXCEPT !.pc = "look", !.own = write(me.own, id, row),
                       !.cache = write(me.cache, row.name, id), !.put = Idle.put]
  BY <1>0, <1>2
<1>4. /\ now.pc = "look" /\ now.given = me.given /\ now.todo = me.todo /\ now.at = me.at
      /\ now.circle = me.circle /\ now.own = write(me.own, id, row)
      /\ now.cache = write(me.cache, row.name, id) /\ now.put = Idle.put
  BY <1>0, <1>3 DEF Work
<1>5. \A a \in Batches \ {b} : batch'[a] = batch[a]
  BY <1>0, <1>2
<1>6. /\ DOMAIN now.own = DOMAIN me.own \cup {id} /\ now.own[id] = row
      /\ \A i \in DOMAIN me.own : i # id => now.own[i] = me.own[i]
  BY <1>4
<1>7. /\ DOMAIN now.cache = DOMAIN me.cache \cup {row.name} /\ now.cache[row.name] = id
      /\ \A n \in DOMAIN me.cache : n # row.name => now.cache[n] = me.cache[n]
  BY <1>4
<1>8. now.own \in People
  <2>1. me.own \in [DOMAIN me.own -> Person] /\ DOMAIN me.own \in SUBSET Ids
    BY <1>0, PeopleAre DEF Work
  <2>2. now.own \in [DOMAIN now.own -> Person]
    BY <1>1, <1>4, <2>1
  <2>3. QED
    BY <1>1, <1>6, <2>1, <2>2, PeopleAre
<1>9. now.cache \in Known
  <2>1. me.cache \in [DOMAIN me.cache -> Ids] /\ DOMAIN me.cache \in SUBSET Names
    BY <1>0, KnownAre DEF Work
  <2>2. row.name \in Names
    BY <1>1 DEF Person
  <2>3. now.cache \in [DOMAIN now.cache -> Ids]
    BY <1>1, <1>4, <2>1
  <2>4. QED
    BY <1>7, <2>1, <2>2, <2>3, KnownAre
<1>10. now \in Work
  <2>1. now = [pc |-> "look", given |-> me.given, todo |-> me.todo, at |-> me.at,
               circle |-> me.circle, own |-> now.own, cache |-> now.cache, put |-> Idle.put]
    BY <1>0, <1>3, <1>4 DEF Work
  <2>2. Idle.put \in [id : Ids \cup {NoId}, row : Person \cup {<<>>}]
    BY DEF Idle
  <2> HIDE DEF now
  <2>3. QED
    BY <1>0, <1>8, <1>9, <2>1, <2>2 DEF Work
<1>11. PeopleTypes'
  BY <1>0, <1>1, <1>2, <1>3, <1>10 DEF PeopleInv, PeopleTypes
<1> HIDE DEF now
<1>12. WorkInv(now)
  <2>1. ASSUME NEW n \in DOMAIN now.cache
        PROVE  now.cache[n] \in DOMAIN now.own /\ now.own[now.cache[n]].name = n
    <3>1. CASE n = row.name
      BY <1>6, <1>7, <3>1
    <3>2. CASE n # row.name
      <4>1. n \in DOMAIN me.cache /\ now.cache[n] = me.cache[n]
        BY <1>7, <2>1, <3>2
      <4>2. me.cache[n] \in DOMAIN me.own /\ me.own[me.cache[n]].name = n
        BY <1>0, <4>1 DEF WorkInv
      <4>3. me.cache[n] # id
        BY <1>0, <1>1, <3>2, <4>2 DEF PutKeeps
      <4>4. QED
        BY <1>6, <4>1, <4>2, <4>3
    <3>3. QED
      BY <3>1, <3>2
  <2>2. \A k \in Done(now) : now.given[k].name \in DOMAIN now.cache
    BY <1>0, <1>1, <1>4, <1>7 DEF WorkInv, Done
  <2>3. now.todo \subseteq DOMAIN now.given /\ \A k \in DOMAIN now.given : now.given[k].via # now.given[k].name
    BY <1>0, <1>4 DEF WorkInv
  <2>4. QED
    BY <1>4, <2>1, <2>2, <2>3 DEF WorkInv
<1>13. PutKeeps(now)
  BY <1>4 DEF PutKeeps
<1>14. OpenLinked(now)
  <2>1. SUFFICES ASSUME NoCircle(me.given) PROVE OpenLinked(now)
    BY <1>4 DEF OpenLinked
  <2>2. ~me.circle
    BY <1>0, <1>1, <2>1 DEF OpenLinked
  <2>3. ASSUME NEW k \in Done(me) \cap ToLink(me.given)
        PROVE  \E i \in DOMAIN now.own : Linked(now.own, i, me.given[k].name)
    <3>1. CASE row.name = me.given[k].name /\ row.via # NoId
      BY <1>6, <3>1 DEF Linked
    <3>2. ASSUME NEW i \in DOMAIN me.own, Linked(me.own, i, me.given[k].name)
          PROVE  Linked(now.own, i, me.given[k].name)
      BY <1>0, <1>1, <1>6, <3>2 DEF Linked, PutKeeps
    <3>3. QED
      BY <1>0, <1>1, <1>6, <2>1, <3>1, <3>2 DEF OpenLinked
  <2>4. QED
    BY <1>4, <2>2, <2>3 DEF OpenLinked, Done
<1>15. \A a \in Batches : WorkInv(batch'[a]) /\ PutKeeps(batch'[a]) /\ OpenLinked(batch'[a])
  BY <1>5, <1>12, <1>13, <1>14, OtherTasks DEF now
<1>16. \A j : Over(j) => Over(j)'
  BY <1>1, <1>4, <1>5 DEF Over, now
<1>17. IdInv'
  <2>1. Touched(now) = Touched(me) /\ Done(now) = Done(me)
    BY <1>1, <1>4, <1>6 DEF Touched, Done
  <2>2. \A a \in Batches : \A j \in Touched(batch'[a]) :
          IF j[1] = a THEN j[2] \in Done(batch'[a]) ELSE Over(j)'
    BY <1>5, <1>16, <2>1 DEF PeopleInv, IdInv, now
  <2>3. QED
    BY <1>1, <1>16, <2>2 DEF PeopleInv, IdInv
<1>18. NoSelf'
  <2>1. \A i \in DOMAIN now.own : now.own[i].via # i
    BY <1>1, <1>6 DEF PeopleInv, NoSelf
  <2>2. QED
    BY <1>1, <1>4, <1>5, <2>1 DEF PeopleInv, NoSelf, now
<1>19. AloneKeeps'
  <2>1. \A a \in Batches : Open(a)' <=> Open(a)
    BY <1>1, <1>4, <1>5 DEF Open, now
  <2>2. ASSUME NEW a \in Batches, Open(a), alone[a]
        PROVE  /\ \A o \in Batches \ {a} : ~Open(o)
               /\ \A j \in DOMAIN people : people[j].via # NoId =>
                    /\ j \in DOMAIN batch'[a].own => batch'[a].own[j].via = people[j].via
                    /\ batch'[a].pc = "put" /\ batch'[a].put.id = j =>
                         batch'[a].put.row.via = people[j].via
    <3>1. \A o \in Batches \ {a} : ~Open(o)
      BY <2>2 DEF PeopleInv, AloneKeeps
    <3>2. a = b
      BY <1>1, <3>1 DEF Open
    <3>3. \A j \in DOMAIN people : people[j].via # NoId =>
            /\ j \in DOMAIN me.own => me.own[j].via = people[j].via
            /\ id = j => row.via = people[j].via
      BY <1>1, <2>2, <3>2 DEF PeopleInv, AloneKeeps
    <3>4. QED
      BY <1>4, <1>6, <3>1, <3>2, <3>3 DEF now
  <2>3. QED
    BY <1>1, <2>1, <2>2 DEF AloneKeeps
<1>20. DoneLinked'
  <2>1. ASSUME NEW j, NEW n, LinkKept(me, j, n) PROVE LinkKept(now, j, n)
    BY <1>1, <1>4, <1>6, <2>1 DEF Linked, LinkKept
  <2>2. ASSUME NEW a \in Batches, batch'[a].pc = "done", alone'[a], NoCircle(batch'[a].given),
               NEW m \in ToLink(batch'[a].given)
        PROVE  \E j \in DOMAIN people' :
                 /\ Linked(people', j, batch'[a].given[m].name)
                 /\ \A o \in Batches : LinkKept(batch'[o], j, batch'[a].given[m].name)
    <3>1. batch'[a] = batch[a]
      BY <1>4, <1>5, <2>2 DEF now
    <3>2. PICK j \in DOMAIN people : /\ Linked(people, j, batch[a].given[m].name)
                                     /\ \A o \in Batches : LinkKept(batch[o], j, batch[a].given[m].name)
      BY <1>1, <2>2, <3>1 DEF PeopleInv, DoneLinked
    <3>3. \A o \in Batches : LinkKept(batch'[o], j, batch[a].given[m].name)
      BY <1>5, <2>1, <3>2 DEF now
    <3>4. QED
      BY <1>1, <3>1, <3>2, <3>3
  <2>3. QED
    BY <2>2 DEF DoneLinked
<1>21. QED
  BY <1>11, <1>15, <1>17, <1>18, <1>19, <1>20 DEF PeopleInv

(* A task that is over.                                                     *)
Ended(r, cs) ==
  /\ r \in Work
  /\ r.pc = "done" /\ r.given = cs /\ r.todo = {} /\ DOMAIN r.own = {} /\ DOMAIN r.cache = {}

LEMMA OverIs ==
  ASSUME NEW cs \in Given
  PROVE  Ended([Idle EXCEPT !.pc = "done", !.given = cs], cs)
<1> DEFINE r == [pc |-> "done", given |-> cs, todo |-> {}, at |-> 0, circle |-> FALSE,
                 own |-> <<>>, cache |-> <<>>, put |-> [id |-> NoId, row |-> <<>>]]
<1>1. r \in Work
  BY NoRows DEF Work
<1>2. r.pc = "done" /\ r.given = cs /\ r.todo = {} /\ r.own = <<>> /\ r.cache = <<>>
  OBVIOUS
<1>3. ASSUME NEW e, e = [Idle EXCEPT !.pc = "done", !.given = cs] PROVE e = r
  BY <1>3 DEF Idle
<1> HIDE DEF r
<1>4. Ended(r, cs)
  BY <1>1, <1>2, NoRows DEF Ended
<1>5. QED
  BY <1>3, <1>4

LEMMA FailedIs == Ended([Idle EXCEPT !.pc = "done"], <<>>)
<1> DEFINE r == [pc |-> "done", given |-> <<>>, todo |-> {}, at |-> 0, circle |-> FALSE,
                 own |-> <<>>, cache |-> <<>>, put |-> [id |-> NoId, row |-> <<>>]]
<1>1. r \in Work
  BY NoRows DEF Work
<1>2. r.pc = "done" /\ r.given = <<>> /\ r.todo = {} /\ r.own = <<>> /\ r.cache = <<>>
  OBVIOUS
<1>3. ASSUME NEW e, e = [Idle EXCEPT !.pc = "done"] PROVE e = r
  BY <1>3 DEF Idle
<1> HIDE DEF r
<1>4. Ended(r, <<>>)
  BY <1>1, <1>2, NoRows DEF Ended
<1>5. QED
  BY <1>3, <1>4

(* A task that is over holds nothing.                                       *)
LEMMA TaskEnds ==
  ASSUME PeopleInv, NEW b \in Batches, NEW r, NEW cs, Ended(r, cs), Open(b),
         \A k \in DOMAIN cs : cs[k].via # cs[k].name,
         batch' = [batch EXCEPT ![b] = r]
  PROVE  /\ batch' \in [Batches -> Work]
         /\ batch'[b].pc = "done" /\ batch'[b].given = cs /\ DOMAIN batch'[b].own = {}
         /\ \A a \in Batches \ {b} : batch'[a] = batch[a]
         /\ \A a \in Batches : WorkInv(batch'[a]) /\ PutKeeps(batch'[a]) /\ OpenLinked(batch'[a])
         /\ Touched(batch'[b]) = {} /\ \A i, n : LinkKept(batch'[b], i, n)
         /\ \A i : Over(i) => Over(i)'
<1> DEFINE now == batch'[b]
<1>1. batch \in [Batches -> Work]
  BY DEF PeopleInv, PeopleTypes
<1>2. \A a \in Batches \ {b} : batch'[a] = batch[a]
  BY <1>1
<1>3. now = r
  BY <1>1
<1> HIDE DEF now
<1>4. now \in Work
  BY <1>3 DEF Ended
<1>5. batch' \in [Batches -> Work]
  BY <1>1, <1>2, <1>4 DEF now
<1>6. now.pc = "done" /\ now.given = cs /\ now.todo = {} /\ DOMAIN now.own = {} /\ DOMAIN now.cache = {}
  BY <1>3 DEF Ended
<1>7. WorkInv(now) /\ PutKeeps(now) /\ OpenLinked(now) /\ Touched(now) = {} /\ \A i, n : LinkKept(now, i, n)
  BY <1>6 DEF WorkInv, PutKeeps, OpenLinked, Touched, LinkKept
<1>8. \A i : Over(i) => Over(i)'
  BY <1>2, <1>6 DEF Over, now
<1>9. \A a \in Batches : WorkInv(batch'[a]) /\ PutKeeps(batch'[a]) /\ OpenLinked(batch'[a])
  BY <1>2, <1>7, OtherTasks DEF now
<1>10. QED
  BY <1>2, <1>5, <1>6, <1>7, <1>8, <1>9 DEF now

LEMMA CommitBatchStep == ASSUME PeopleInv, NEW b \in Batches, CommitBatch(b) PROVE PeopleInv'
<1> DEFINE me == batch[b]
           now == batch'[b]
           view == View(b)
<1>0. /\ batch \in [Batches -> Work] /\ me \in Work /\ WorkInv(me) /\ OpenLinked(me) /\ PeopleTypes
  BY DEF PeopleInv, PeopleTypes
<1>1. me.pc = "look" /\ me.todo = {} /\ people' = view /\ alone' = alone /\ Open(b)
  BY DEF CommitBatch, Open
<1>2. /\ batch' \in [Batches -> Work]
      /\ now.pc = "done" /\ now.given = me.given /\ DOMAIN now.own = {}
      /\ \A a \in Batches \ {b} : batch'[a] = batch[a]
      /\ \A a \in Batches : WorkInv(batch'[a]) /\ PutKeeps(batch'[a]) /\ OpenLinked(batch'[a])
      /\ Touched(now) = {} /\ \A i, n : LinkKept(now, i, n)
      /\ \A i : Over(i) => Over(i)'
  <2>1. me.given \in Given /\ \A k \in DOMAIN me.given : me.given[k].via # me.given[k].name
    BY <1>0 DEF Work, WorkInv
  <2>2. batch' = [batch EXCEPT ![b] = [Idle EXCEPT !.pc = "done", !.given = me.given]]
    BY DEF CommitBatch
  <2>3. Ended([Idle EXCEPT !.pc = "done", !.given = me.given], me.given)
    BY <2>1, OverIs
  <2>4. QED
    BY <1>1, <2>1, <2>2, <2>3, TaskEnds
<1>3. /\ view \in People
      /\ DOMAIN view = DOMAIN me.own \cup DOMAIN people
      /\ \A i \in DOMAIN view : view[i] = IF i \in DOMAIN me.own THEN me.own[i] ELSE people[i]
  BY <1>0, ViewIsRows
<1> HIDE DEF now, view
<1>4. PeopleTypes'
  BY <1>0, <1>1, <1>2, <1>3 DEF PeopleTypes
<1>5. IdInv'
  <2>1. ASSUME NEW i \in DOMAIN view PROVE Over(i)'
    <3>1. CASE i \in DOMAIN people
      BY <1>2, <3>1 DEF PeopleInv, IdInv
    <3>2. CASE i \in DOMAIN me.own /\ i[1] = b
      BY <1>2, <3>2 DEF Over, now
    <3>3. CASE i \in DOMAIN me.own /\ i[1] # b
      BY <1>2, <3>3 DEF PeopleInv, IdInv, Touched
    <3>4. QED
      BY <1>3, <3>1, <3>2, <3>3
  <2>2. \A a \in Batches : \A j \in Touched(batch'[a]) :
          IF j[1] = a THEN j[2] \in Done(batch'[a]) ELSE Over(j)'
    BY <1>2 DEF PeopleInv, IdInv, now
  <2>3. QED
    BY <1>1, <2>1, <2>2 DEF IdInv
<1>6. NoSelf'
  <2>1. \A i \in DOMAIN view : view[i].via # i
    BY <1>3 DEF PeopleInv, NoSelf
  <2>2. QED
    BY <1>1, <1>2, <2>1 DEF PeopleInv, NoSelf, now
<1>7. AloneKeeps'
  <2>1. ASSUME NEW a \in Batches, Open(a)', alone'[a] PROVE FALSE
    <3>1. a # b /\ Open(a) /\ alone[a]
      BY <1>1, <1>2, <2>1 DEF Open, now
    <3>2. ~Open(b)
      BY <3>1 DEF PeopleInv, AloneKeeps
    <3>3. QED
      BY <1>1, <3>2
  <2>2. QED
    BY <2>1 DEF AloneKeeps
<1>8. DoneLinked'
  <2>1. ASSUME alone[b], NEW a \in Batches, NEW i, NEW n PROVE LinkKept(batch'[a], i, n)
    <3>1. CASE a = b
      BY <1>2, <3>1 DEF now
    <3>2. CASE a # b
      <4>1. ~Open(a) /\ batch'[a] = batch[a]
        BY <1>1, <1>2, <2>1, <3>2 DEF PeopleInv, AloneKeeps
      <4>2. DOMAIN batch[a].own = {} /\ batch[a].pc # "put"
        BY <4>1 DEF PeopleInv, WorkInv, Open
      <4>3. QED
        BY <4>1, <4>2 DEF LinkKept
    <3>3. QED
      BY <3>1, <3>2
  <2>2. ASSUME NEW a \in Batches, batch'[a].pc = "done", alone'[a], NoCircle(batch'[a].given),
               NEW m \in ToLink(batch'[a].given)
        PROVE  \E j \in DOMAIN people' :
                 /\ Linked(people', j, batch'[a].given[m].name)
                 /\ \A o \in Batches : LinkKept(batch'[o], j, batch'[a].given[m].name)
    <3>1. CASE a = b
      <4>1. Done(me) = DOMAIN me.given /\ m \in Done(me) \cap ToLink(me.given)
        BY <1>1, <1>2, <2>2, <3>1 DEF Done, ToLink, now
      <4>2. PICK j \in DOMAIN me.own : Linked(me.own, j, me.given[m].name)
        BY <1>0, <1>1, <1>2, <2>2, <3>1, <4>1 DEF OpenLinked, now
      <4>3. j \in DOMAIN people' /\ Linked(people', j, me.given[m].name)
        BY <1>1, <1>3, <4>2 DEF Linked
      <4>4. QED
        BY <1>1, <1>2, <2>1, <2>2, <3>1, <4>3 DEF now
    <3>2. CASE a # b
      <4>1. batch'[a] = batch[a]
        BY <1>2, <3>2
      <4>2. PICK j \in DOMAIN people : /\ Linked(people, j, batch[a].given[m].name)
                                       /\ \A o \in Batches : LinkKept(batch[o], j, batch[a].given[m].name)
        BY <1>1, <2>2, <4>1 DEF PeopleInv, DoneLinked
      <4>3. j \in DOMAIN people' /\ Linked(people', j, batch[a].given[m].name)
        BY <1>1, <1>3, <4>2 DEF Linked, LinkKept
      <4>4. \A o \in Batches : LinkKept(batch'[o], j, batch[a].given[m].name)
        BY <1>2, <4>2 DEF now
      <4>5. QED
        BY <4>1, <4>3, <4>4
    <3>3. QED
      BY <3>1, <3>2
  <2>3. QED
    BY <2>2 DEF DoneLinked
<1>9. QED
  BY <1>2, <1>4, <1>5, <1>6, <1>7, <1>8 DEF PeopleInv

LEMMA BatchFailsStep == ASSUME PeopleInv, NEW b \in Batches, BatchFails(b) PROVE PeopleInv'
<1> DEFINE now == batch'[b]
<1>1. people' = people /\ alone' = alone /\ Open(b)
  BY DEF BatchFails
<1>2. /\ batch' \in [Batches -> Work]
      /\ now.pc = "done" /\ now.given = <<>> /\ DOMAIN now.own = {}
      /\ \A a \in Batches \ {b} : batch'[a] = batch[a]
      /\ \A a \in Batches : WorkInv(batch'[a]) /\ PutKeeps(batch'[a]) /\ OpenLinked(batch'[a])
      /\ Touched(now) = {} /\ \A i, n : LinkKept(now, i, n)
      /\ \A i : Over(i) => Over(i)'
  <2>1. batch' = [batch EXCEPT ![b] = [Idle EXCEPT !.pc = "done"]]
    BY DEF BatchFails
  <2>2. \A k \in DOMAIN <<>> : <<>>[k].via # <<>>[k].name
    BY NoRows
  <2>3. QED
    BY <1>1, <2>1, <2>2, FailedIs, TaskEnds
<1> HIDE DEF now
<1>3. PeopleTypes'
  BY <1>1, <1>2 DEF PeopleInv, PeopleTypes
<1>4. IdInv'
  BY <1>1, <1>2 DEF PeopleInv, IdInv, now
<1>5. NoSelf'
  BY <1>1, <1>2 DEF PeopleInv, NoSelf, now
<1>6. AloneKeeps'
  <2>1. ASSUME NEW a \in Batches, Open(a)', alone'[a] PROVE FALSE
    <3>1. a # b /\ Open(a) /\ alone[a]
      BY <1>1, <1>2, <2>1 DEF Open, now
    <3>2. ~Open(b)
      BY <3>1 DEF PeopleInv, AloneKeeps
    <3>3. QED
      BY <1>1, <3>2
  <2>2. QED
    BY <2>1 DEF AloneKeeps
<1>7. DoneLinked'
  <2>1. ToLink(now.given) = {}
    BY <1>2, NoRows DEF ToLink
  <2>2. ASSUME NEW a \in Batches, batch'[a].pc = "done", alone'[a], NoCircle(batch'[a].given),
               NEW m \in ToLink(batch'[a].given)
        PROVE  \E j \in DOMAIN people' :
                 /\ Linked(people', j, batch'[a].given[m].name)
                 /\ \A o \in Batches : LinkKept(batch'[o], j, batch'[a].given[m].name)
    <3>1. batch'[a] = batch[a]
      BY <1>2, <2>1, <2>2 DEF now
    <3>2. PICK j \in DOMAIN people : /\ Linked(people, j, batch[a].given[m].name)
                                     /\ \A o \in Batches : LinkKept(batch[o], j, batch[a].given[m].name)
      BY <1>1, <2>2, <3>1 DEF PeopleInv, DoneLinked
    <3>3. \A o \in Batches : LinkKept(batch'[o], j, batch[a].given[m].name)
      BY <1>2, <3>2 DEF now
    <3>4. QED
      BY <1>1, <3>1, <3>2, <3>3
  <2>3. QED
    BY <2>2 DEF DoneLinked
<1>8. QED
  BY <1>2, <1>3, <1>4, <1>5, <1>6, <1>7 DEF PeopleInv

LEMMA SeedPersonaStep ==
  ASSUME PeopleInv, NEW n \in 1..MaxSeeds, SeedPersona(n)
  PROVE  PeopleInv'
<1> DEFINE new == <<0, n>>
           row == [name |-> Seeded, via |-> NoId, from |-> {}]
<1>0. people \in People /\ n \in Nat /\ new \in Ids /\ row \in Person
  BY RelationshipAssumption DEF PeopleInv, PeopleTypes, Ids, Person
<1>1. batch' = batch /\ alone' = alone /\ new \notin DOMAIN people
  BY DEF SeedPersona
<1>2. people' = [i \in DOMAIN people \cup {new} |-> IF i = new THEN row ELSE people[i]]
  BY DEF SeedPersona
<1>3. new[1] = 0 /\ new[1] \notin Batches
  BY RelationshipAssumption
<1> HIDE DEF new, row
<1>4. /\ DOMAIN people' = DOMAIN people \cup {new} /\ people'[new] = row
      /\ \A i \in DOMAIN people : people'[i] = people[i]
  BY <1>1, <1>2
<1>5. row.via = NoId
  BY DEF row
<1>6. PeopleTypes'
  <2>1. people \in [DOMAIN people -> Person] /\ DOMAIN people \in SUBSET Ids
    BY <1>0, PeopleAre
  <2>2. people' \in [DOMAIN people' -> Person]
    BY <1>0, <1>2, <2>1
  <2>3. people' \in People
    BY <1>0, <1>4, <2>1, <2>2, PeopleAre
  <2>4. QED
    BY <1>1, <2>3 DEF PeopleInv, PeopleTypes
<1>7. \A i : Over(i)' <=> Over(i)
  BY <1>1 DEF Over
<1>8. IdInv'
  <2>1. Over(new)
    BY <1>3 DEF Over
  <2>2. QED
    BY <1>1, <1>4, <1>7, <2>1 DEF PeopleInv, IdInv
<1>9. NoSelf'
  BY <1>0, <1>1, <1>4, <1>5, NoIdIsNone DEF PeopleInv, NoSelf
<1>10. AloneKeeps'
  <2>1. \A a \in Batches : Open(a)' <=> Open(a)
    BY <1>1 DEF Open
  <2>2. \A i \in DOMAIN people' : people'[i].via # NoId => i \in DOMAIN people /\ people'[i] = people[i]
    BY <1>4, <1>5
  <2>3. QED
    BY <1>1, <2>1, <2>2 DEF PeopleInv, AloneKeeps
<1>11. DoneLinked'
  <2>1. ASSUME NEW a \in Batches, batch[a].pc = "done", alone[a], NoCircle(batch[a].given),
               NEW m \in ToLink(batch[a].given)
        PROVE  \E j \in DOMAIN people' :
                 /\ Linked(people', j, batch[a].given[m].name)
                 /\ \A o \in Batches : LinkKept(batch[o], j, batch[a].given[m].name)
    <3>1. PICK j \in DOMAIN people : /\ Linked(people, j, batch[a].given[m].name)
                                     /\ \A o \in Batches : LinkKept(batch[o], j, batch[a].given[m].name)
      BY <2>1 DEF PeopleInv, DoneLinked
    <3>2. Linked(people', j, batch[a].given[m].name) /\ j \in DOMAIN people'
      BY <1>4, <3>1 DEF Linked
    <3>3. QED
      BY <3>1, <3>2
  <2>2. QED
    BY <1>1, <2>1 DEF DoneLinked
<1>12. \A a \in Batches : WorkInv(batch'[a]) /\ PutKeeps(batch'[a]) /\ OpenLinked(batch'[a])
  BY <1>1 DEF PeopleInv
<1>13. QED
  BY <1>6, <1>8, <1>9, <1>10, <1>11, <1>12 DEF PeopleInv

-----------------------------------------------------------------------------
LEMMA PeopleStep == PeopleInv /\ [PeopleNext]_peopleVars => PeopleInv'
<1> SUFFICES ASSUME PeopleInv, [PeopleNext]_peopleVars PROVE PeopleInv'
  OBVIOUS
<1>1. CASE \E n \in 1..MaxSeeds : SeedPersona(n)
  BY <1>1, SeedPersonaStep
<1>2. CASE \E b \in Batches : BeginBatch(b) \/ LookUp(b) \/ Upsert(b) \/ CommitBatch(b) \/ BatchFails(b)
  BY <1>2, BeginBatchStep, LookUpStep, UpsertStep, CommitBatchStep, BatchFailsStep
<1>3. CASE UNCHANGED peopleVars
  BY <1>3 DEF peopleVars, PeopleInv, PeopleTypes, IdInv, Over, NoSelf, AloneKeeps, Open, DoneLinked
<1>4. QED
  BY <1>1, <1>2, <1>3 DEF PeopleNext

(* The invariant of the relationship tasks: what is written has its type,   *)
(* ids stem from the task that made them, and nobody links a person to      *)
(* themselves or undoes a link that stands.                                 *)
THEOREM PeopleInvariant == PeopleSpec => []PeopleInv
<1>1. QED
  BY PeopleStart, PeopleStep, PTL DEF PeopleSpec

(* Nobody is ever written as their own middleman.                           *)
THEOREM NobodyIsTheirOwnMiddleman == PeopleSpec => []NeverOwnMiddleman
<1>1. PeopleInv => NeverOwnMiddleman
  BY DEF PeopleInv, NoSelf, NeverOwnMiddleman
<1>2. QED
  BY <1>1, PeopleInvariant, PTL

(* A batch that had the tables to itself has linked everybody it introduced *)
(* through somebody else it named, in whatever order they came.             *)
THEOREM ChainsAreLinked == PeopleSpec => []ChainLinked
<1>1. ASSUME PeopleInv PROVE ChainLinked
  <2>1. ASSUME NEW b \in Batches, batch[b].pc = "done", alone[b], NoCircle(batch[b].given),
               NEW k \in DOMAIN batch[b].given,
               batch[b].given[k].via \in NamesOf(batch[b].given)
        PROVE  \E i \in DOMAIN people :
                 people[i].name = batch[b].given[k].name /\ people[i].via # NoId
    BY <1>1, <2>1 DEF PeopleInv, DoneLinked, ToLink, Linked
  <2>2. QED
    BY <2>1 DEF ChainLinked
<1>2. QED
  BY <1>1, PeopleInvariant, PTL

(* A step keeps every link that is committed, while no batches overlap.     *)
LEMMA LinksStay ==
  ASSUME PeopleInv, [PeopleNext]_peopleVars, \A b \in Batches : alone[b],
         NEW i \in DOMAIN people, people[i].via # NoId
  PROVE  i \in DOMAIN people' /\ people'[i].via = people[i].via
<1>1. ASSUME NEW b \in Batches, CommitBatch(b)
      PROVE  i \in DOMAIN people' /\ people'[i].via = people[i].via
  <2>1. people' = View(b) /\ Open(b)
    BY <1>1 DEF CommitBatch, Open
  <2>2. i \in DOMAIN batch[b].own => batch[b].own[i].via = people[i].via
    BY <2>1 DEF PeopleInv, AloneKeeps
  <2>3. QED
    BY <2>1, <2>2, ViewIsRows DEF PeopleInv
<1>2. ASSUME NEW n \in 1..MaxSeeds, SeedPersona(n)
      PROVE  i \in DOMAIN people' /\ people'[i].via = people[i].via
  BY <1>2 DEF SeedPersona
<1>3. CASE people' = people
  BY <1>3
<1>4. QED
  BY <1>1, <1>2, <1>3 DEF PeopleNext, peopleVars, BeginBatch, LookUp, Upsert, BatchFails

(* A committed link is kept as it is, whatever tasks and seeds follow.      *)
THEOREM LinksAreKept == PeopleSpec => ViaStays
<1>1. PeopleInv /\ [PeopleNext]_peopleVars =>
        [(\A b \in Batches : alone[b]) =>
           \A i \in DOMAIN people :
             people[i].via # NoId => i \in DOMAIN people' /\ people'[i].via = people[i].via]_peopleVars
  BY LinksStay
<1>2. QED
  BY <1>1, PeopleInvariant, PTL DEF PeopleSpec, ViaStays
=============================================================================
