------------------------- MODULE ProfileBlobProofs -------------------------
(***************************************************************************)
(* What holds of the profile's row for every set of writers, every batch of *)
(* verdicts, every cap and every interleaving.                              *)
(*                                                                         *)
(* HalfInv    what a writer has in hand, and what the lock's holder has     *)
(*            written, may hold its own entries, and nobody else's          *)
(*            unfinished ones: NothingHalfDone                              *)
(* BlobInv    every blob anywhere keeps the cap and explains its repeated   *)
(*            keys: InterestsSane, and the types                            *)
(* FreshInv   while the row stays as a writer read it, what the writer has  *)
(*            in hand descends from it: FreshWriterKeepsTheRest             *)
(***************************************************************************)
EXTENDS ProfileBlob, Induction, FiniteSetTheorems, SequenceTheorems

Done == {w \in Writers : pc[w] = "done"}

(* Every entry of an audit trail is by one of S.                            *)
By(trail, S) ==
  /\ trail \in Seq(Range(trail))
  /\ \A i \in DOMAIN trail : trail[i].by \in S

RowInv == row # NoRow => By(row.audit, Done)

HandInv ==
  \A w \in Writers :
    pc[w] \in {"upsert", "flush"} => By(copy[w].audit, Done \cup {w})

LockInv ==
  lock # NoWriter =>
    /\ lock \in Writers
    /\ pc[lock] \notin {"idle", "done", "failed"}
    /\ By(draft.audit, Done \cup {lock})

(* A correction with verdicts to apply has read a row, and rows stay.       *)
ReadInv ==
  \A w \in Writers :
    /\ pc[w] = "apply" => Kind[w] = "correct"
    /\ Kind[w] = "correct" /\ pc[w] \in {"apply", "upsert", "flush"}
         => By(row.audit, Done)

ShapeInv ==
  /\ pc \in [Writers -> {"idle", "apply", "upsert", "flush", "commit",
                         "done", "failed"}]
  /\ copy = [w \in Writers |-> copy[w]]

HalfInv == ShapeInv /\ RowInv /\ HandInv /\ LockInv /\ ReadInv

-----------------------------------------------------------------------------
(* More writers may have an entry.                                          *)
LEMMA ByMonotone ==
  ASSUME NEW S, NEW T, NEW trail, By(trail, S), S \subseteq T
  PROVE  By(trail, T)
  BY DEF By

(* An entry by w may be appended.                                           *)
LEMMA ByAppend ==
  ASSUME NEW S, NEW trail, By(trail, S), NEW e, e.by \in S
  PROVE  By(Append(trail, e), S)
<1> DEFINE R == Range(trail) \cup {e}
           longer == Append(trail, e)
<1>1. trail \in Seq(R) /\ Len(trail) \in Nat /\ DOMAIN trail = 1..Len(trail)
  BY DEF By
<1>2. longer \in Seq(R)
  BY <1>1
<1>3. DOMAIN longer = 1..(Len(trail) + 1)
  BY <1>1
<1>4. \A i \in DOMAIN longer :
        longer[i] = IF i <= Len(trail) THEN trail[i] ELSE e
  BY <1>1, <1>3
<1>5. longer \in Seq(Range(longer))
  <2>1. \A i \in 1..Len(longer) : longer[i] \in Range(longer)
    BY <1>2 DEF Range
  <2> QED
    BY <1>2, <2>1
<1>6. \A i \in DOMAIN longer : longer[i].by \in S
  BY <1>1, <1>3, <1>4 DEF By
<1> QED
  BY <1>5, <1>6 DEF By
-----------------------------------------------------------------------------
(* A step that leaves the row, its lock and the draft alone, and moves one  *)
(* writer that does not hold the lock or does not leave, keeps the          *)
(* invariant when what that writer holds is as it should be.                *)
LEMMA QuietStep ==
  ASSUME HalfInv, NEW w \in Writers, ShapeInv',
         UNCHANGED <<row, lock, draft>>,
         \A v \in Writers \ {w} : pc'[v] = pc[v] /\ copy'[v] = copy[v],
         pc[w] # "done", pc'[w] # "done", pc'[w] # "idle",
         pc'[w] = "failed" => lock # w,
         pc'[w] \in {"upsert", "flush"} => By(copy'[w].audit, Done \cup {w}),
         pc'[w] = "apply" => Kind[w] = "correct",
         Kind[w] = "correct" /\ pc'[w] \in {"apply", "upsert", "flush"}
           => By(row.audit, Done)
  PROVE  HalfInv'
<1>1. Done' = Done
  BY DEF Done
<1>2. RowInv'
  BY <1>1 DEF HalfInv, RowInv
<1>3. HandInv'
  BY <1>1 DEF HalfInv, HandInv
<1>4. LockInv'
  BY <1>1 DEF HalfInv, LockInv
<1>5. ReadInv'
  BY <1>1 DEF HalfInv, ReadInv
<1> QED
  BY <1>2, <1>3, <1>4, <1>5 DEF HalfInv

LEMMA HalfInit == Init => HalfInv
<1> SUFFICES ASSUME Init PROVE HalfInv
  OBVIOUS
<1>1. ShapeInv
  BY DEF Init, ShapeInv
<1>2. RowInv /\ HandInv /\ LockInv /\ ReadInv
  BY DEF Init, RowInv, HandInv, LockInv, ReadInv
<1> QED
  BY <1>1, <1>2 DEF HalfInv

(* What a merge yields carries the row's entries and the writer's own.      *)
LEMMA MergeBy ==
  ASSUME NEW w \in Writers, NEW p, NEW blob, NEW S, By(blob.audit, S)
  PROVE  By(Merge(blob, p, w).audit, S \cup {w})
<1> DEFINE e == [path |-> 0, old |-> blob.place, new |-> p.place, by |-> w]
<1>1. By(blob.audit, S \cup {w})
  BY ByMonotone
<1>2. e.by \in S \cup {w}
  OBVIOUS
<1>3. By(Append(blob.audit, e), S \cup {w})
  BY <1>1, <1>2, ByAppend
<1>4. Merge(blob, p, w).audit \in {blob.audit, Append(blob.audit, e)}
  BY DEF Merge
<1> QED
  BY <1>1, <1>3, <1>4

LEMMA PatchBy ==
  ASSUME NEW w \in Writers, NEW blob, NEW path, NEW verdict, NEW S,
         By(blob.audit, S), w \in S
  PROVE  By(Patched(blob, path, verdict, w).audit, S)
<1> DEFINE e == [path |-> path,
                 old |-> IF path = 0 THEN blob.place ELSE blob.interests[path],
                 new |-> NewText(path, verdict), by |-> w]
<1>1. e.by \in S
  OBVIOUS
<1>2. By(Append(blob.audit, e), S)
  BY <1>1, ByAppend
<1>3. Patched(blob, path, verdict, w).audit = Append(blob.audit, e)
  BY DEF Patched
<1> QED
  BY <1>2, <1>3

LEMMA HalfMerge ==
  ASSUME HalfInv, NEW w \in Writers, ExtractStep(w) \/ EditStep(w)
  PROVE  HalfInv'
<1> DEFINE read == IF row = NoRow THEN Blank ELSE row
<1>1. PICK p \in Partials : copy' = [copy EXCEPT ![w] = Merge(read, p, w)]
  BY DEF ExtractStep, EditStep, MergeStep
<1>2. By(read.audit, Done)
  <2>1. By(<<>>, Done)
    BY DEF By
  <2>2. Blank.audit = <<>>
    BY DEF Blank
  <2> QED
    BY <2>1, <2>2 DEF HalfInv, RowInv
<1>3. By(Merge(read, p, w).audit, Done \cup {w})
  BY <1>2, MergeBy
<1>4. copy'[w] = Merge(read, p, w) /\ \A v \in Writers \ {w} : copy'[v] = copy[v]
  BY <1>1 DEF HalfInv, ShapeInv
<1>5. pc'[w] = "upsert" /\ \A v \in Writers \ {w} : pc'[v] = pc[v]
  BY DEF ExtractStep, EditStep, MergeStep, HalfInv, ShapeInv
<1>6. ShapeInv'
  BY <1>1 DEF ExtractStep, EditStep, MergeStep, HalfInv, ShapeInv
<1>7. By(copy'[w].audit, Done \cup {w})
  BY <1>3, <1>4
<1>8. UNCHANGED <<row, lock, draft>> /\ Kind[w] # "correct" /\ pc[w] = "idle"
  BY DEF ExtractStep, EditStep, MergeStep
<1> HIDE DEF read
<1> QED
  BY <1>4, <1>5, <1>6, <1>7, <1>8, QuietStep

LEMMA HalfSearch ==
  ASSUME HalfInv, NEW w \in Writers, SearchStep(w)
  PROVE  HalfInv'
<1>1. /\ pc[w] = "idle" /\ UNCHANGED <<row, lock, draft, copy>>
      /\ Kind[w] = "correct"
      /\ \/ pc' = [pc EXCEPT ![w] = "commit"]
         \/ row # NoRow /\ pc' = [pc EXCEPT ![w] = "apply"]
  BY DEF SearchStep
<1>2. ShapeInv'
  BY <1>1 DEF HalfInv, ShapeInv
<1>3. /\ pc'[w] \in {"commit", "apply"}
      /\ pc'[w] = "apply" => row # NoRow
      /\ \A v \in Writers \ {w} : pc'[v] = pc[v]
  BY <1>1 DEF HalfInv, ShapeInv
<1>4. pc'[w] = "apply" => By(row.audit, Done)
  BY <1>3 DEF HalfInv, RowInv
<1> QED
  BY <1>1, <1>2, <1>3, <1>4, QuietStep

LEMMA HalfPatch ==
  ASSUME HalfInv, NEW w \in Writers, PatchStep(w)
  PROVE  HalfInv'
<1> DEFINE path == Head(todo[w])[1]
           verdict == Head(todo[w])[2]
           mine == Patched(Sees(w), path, verdict, w)
<1>1. pc[w] = "apply" /\ UNCHANGED <<row, lock, draft>> /\ Kind[w] = "correct"
  BY DEF PatchStep, HalfInv, ReadInv
<1>2. By(row.audit, Done)
  BY <1>1 DEF HalfInv, ReadInv
<1>3. By(Sees(w).audit, Done \cup {w})
  BY <1>2, ByMonotone, ProfileAssumption DEF HalfInv, LockInv, Sees, ProfileAssumption
<1>4. By(mine.audit, Done \cup {w})
  BY <1>3, PatchBy
<1>5. \/ UNCHANGED <<copy, pc>>
      \/ copy' = [copy EXCEPT ![w] = mine] /\ pc' = [pc EXCEPT ![w] = "upsert"]
  BY DEF PatchStep
<1> HIDE DEF mine
<1>6. ShapeInv'
  BY <1>5 DEF HalfInv, ShapeInv
<1>7. /\ \A v \in Writers \ {w} : pc'[v] = pc[v] /\ copy'[v] = copy[v]
      /\ pc'[w] \in {"apply", "upsert"}
      /\ pc'[w] = "upsert" => copy'[w] = mine
  BY <1>1, <1>5 DEF HalfInv, ShapeInv
<1>8. pc'[w] \in {"upsert", "flush"} => By(copy'[w].audit, Done \cup {w})
  BY <1>4, <1>7
<1> QED
  BY <1>1, <1>2, <1>6, <1>7, <1>8, QuietStep
LEMMA HalfOther ==
  ASSUME HalfInv, NEW w \in Writers,
         AppliedStep(w) \/ UpsertGet(w) \/ InsertConflict(w)
  PROVE  HalfInv'
<1>1. /\ UNCHANGED <<row, lock, draft, copy>>
      /\ \/ pc[w] = "apply" /\ pc' = [pc EXCEPT ![w] = "commit"]
         \/ pc[w] = "upsert" /\ pc' = [pc EXCEPT ![w] = "flush"]
         \/ pc[w] = "flush" /\ lock = NoWriter /\ pc' = [pc EXCEPT ![w] = "failed"]
  BY DEF AppliedStep, UpsertGet, InsertConflict
<1>2. ShapeInv'
  BY <1>1 DEF HalfInv, ShapeInv
<1>3. /\ \A v \in Writers \ {w} : pc'[v] = pc[v] /\ copy'[v] = copy[v]
      /\ pc[w] # "done" /\ pc'[w] \in {"commit", "flush", "failed"}
      /\ pc'[w] = "flush" => pc[w] = "upsert"
      /\ pc'[w] = "failed" => lock = NoWriter
  BY <1>1 DEF HalfInv, ShapeInv
<1>4. lock = NoWriter => lock # w
  BY ProfileAssumption DEF ProfileAssumption
<1>5. pc'[w] \in {"upsert", "flush"} => By(copy'[w].audit, Done \cup {w})
  BY <1>1, <1>3 DEF HalfInv, HandInv
<1>6. Kind[w] = "correct" /\ pc'[w] \in {"apply", "upsert", "flush"}
        => By(row.audit, Done)
  BY <1>3 DEF HalfInv, ReadInv
<1> QED
  BY <1>1, <1>2, <1>3, <1>4, <1>5, <1>6, QuietStep

LEMMA HalfFlush ==
  ASSUME HalfInv, NEW w \in Writers, Flush(w)
  PROVE  HalfInv'
<1> DEFINE next == IF Kind[w] = "correct" THEN "apply" ELSE "commit"
<1>1. /\ pc[w] = "flush" /\ lock \in {NoWriter, w} /\ lock' = w
      /\ draft' = copy[w] /\ pc' = [pc EXCEPT ![w] = next]
      /\ UNCHANGED <<row, copy>>
  BY DEF Flush
<1>2. /\ pc'[w] = next /\ \A v \in Writers \ {w} : pc'[v] = pc[v]
      /\ ShapeInv'
  BY <1>1 DEF HalfInv, ShapeInv
<1>3. Done' = Done
  BY <1>1, <1>2 DEF Done
<1>4. RowInv'
  BY <1>1, <1>3 DEF HalfInv, RowInv
<1>5. HandInv'
  BY <1>1, <1>2, <1>3 DEF HalfInv, HandInv
<1>6. LockInv'
  <2>1. By(copy[w].audit, Done \cup {w})
    BY <1>1 DEF HalfInv, HandInv
  <2> QED
    BY <1>1, <1>2, <1>3, <2>1 DEF LockInv
<1>7. ReadInv'
  BY <1>1, <1>2, <1>3 DEF HalfInv, ReadInv
<1> QED
  BY <1>2, <1>4, <1>5, <1>6, <1>7 DEF HalfInv

LEMMA HalfCommit ==
  ASSUME HalfInv, NEW w \in Writers, Commit(w)
  PROVE  HalfInv'
<1>1. /\ pc[w] = "commit" /\ pc' = [pc EXCEPT ![w] = "done"]
      /\ UNCHANGED <<draft, copy>>
      /\ \/ lock = w /\ row' = draft /\ lock' = NoWriter
         \/ lock # w /\ UNCHANGED <<row, lock>>
  BY DEF Commit
<1>2. /\ pc'[w] = "done" /\ \A v \in Writers \ {w} : pc'[v] = pc[v]
      /\ ShapeInv'
  BY <1>1 DEF HalfInv, ShapeInv
<1>3. Done' = Done \cup {w}
  BY <1>2 DEF Done
<1>4. HandInv'
  <2> SUFFICES ASSUME NEW v \in Writers, pc'[v] \in {"upsert", "flush"}
               PROVE  By(copy'[v].audit, Done' \cup {v})
    BY DEF HandInv
  <2>1. v # w /\ By(copy[v].audit, Done \cup {v})
    BY <1>2 DEF HalfInv, HandInv
  <2>2. Done \cup {v} \subseteq Done' \cup {v}
    BY <1>3
  <2> QED
    BY <1>1, <2>1, <2>2, ByMonotone
<1>5. Done \subseteq Done'
  BY <1>3
<1>6. RowInv' /\ ReadInv'
  <2>1. CASE lock = w
    <3>1. By(row'.audit, Done')
      BY <1>1, <1>3, <2>1, ProfileAssumption
         DEF HalfInv, LockInv, ProfileAssumption
    <3> QED
      BY <1>2, <3>1 DEF RowInv, ReadInv, HalfInv
  <2>2. CASE lock # w
    <3>1. row' = row
      BY <1>1, <2>2
    <3>2. By(row.audit, Done) => By(row.audit, Done')
      BY <1>5, ByMonotone
    <3> QED
      BY <1>2, <3>1, <3>2 DEF RowInv, ReadInv, HalfInv
  <2> QED
    BY <2>1, <2>2
<1>7. LockInv'
  <2>1. CASE lock = w
    BY <1>1, <2>1 DEF LockInv
  <2>2. CASE lock # w
    <3>1. By(draft.audit, Done \cup {lock}) => By(draft.audit, Done' \cup {lock})
      BY <1>5, ByMonotone
    <3> QED
      BY <1>1, <1>2, <2>2, <3>1 DEF HalfInv, LockInv
  <2> QED
    BY <2>1, <2>2
<1> QED
  BY <1>2, <1>4, <1>6, <1>7 DEF HalfInv

LEMMA HalfAbort ==
  ASSUME HalfInv, NEW w \in Writers, Abort(w)
  PROVE  HalfInv'
<1>1. /\ pc[w] \notin {"done", "failed"} /\ pc' = [pc EXCEPT ![w] = "failed"]
      /\ lock' = IF lock = w THEN NoWriter ELSE lock
      /\ UNCHANGED <<row, draft, copy>>
  BY DEF Abort
<1>2. /\ pc'[w] = "failed" /\ \A v \in Writers \ {w} : pc'[v] = pc[v]
      /\ ShapeInv'
  BY <1>1 DEF HalfInv, ShapeInv
<1>3. Done' = Done
  BY <1>1, <1>2 DEF Done
<1>4. RowInv'
  BY <1>1, <1>3 DEF HalfInv, RowInv
<1>5. HandInv'
  BY <1>1, <1>2, <1>3 DEF HalfInv, HandInv
<1>6. LockInv'
  BY <1>1, <1>2, <1>3 DEF HalfInv, LockInv
<1>7. ReadInv'
  BY <1>1, <1>2, <1>3 DEF HalfInv, ReadInv
<1> QED
  BY <1>2, <1>4, <1>5, <1>6, <1>7 DEF HalfInv

-----------------------------------------------------------------------------
(* The invariant holds of every reachable state, for any writers, partials  *)
(* and verdicts, and whichever of them fail and when.                       *)
THEOREM HalfInvariant == ProfileSpec => []HalfInv
<1>1. HalfInv /\ [Next]_vars => HalfInv'
  <2> SUFFICES ASSUME HalfInv, [Next]_vars PROVE HalfInv'
    OBVIOUS
  <2>1. CASE Next
    <3>1. PICK w \in Writers : Step(w) \/ Abort(w)
      BY <2>1 DEF Next
    <3> QED
      BY <3>1, HalfMerge, HalfSearch, HalfPatch, HalfOther, HalfFlush,
         HalfCommit, HalfAbort DEF Step
  <2>2. CASE UNCHANGED vars
    BY <2>2 DEF vars, HalfInv, ShapeInv, RowInv, HandInv, LockInv, ReadInv, Done
  <2> QED
    BY <2>1, <2>2
<1> QED
  BY <1>1, HalfInit, PTL DEF ProfileSpec

(* No committed profile shows part of a writer's work: neither of one still *)
(* at work nor of one that failed (one session and one commit per writer).  *)
THEOREM NoHalfDoneProfile == ProfileSpec => []NothingHalfDone
<1>1. HalfInv => NothingHalfDone
  <2> SUFFICES ASSUME HalfInv, row # NoRow, NEW e \in Range(row.audit)
               PROVE  pc[e.by] = "done"
    BY DEF NothingHalfDone
  <2>1. PICK i \in DOMAIN row.audit : e = row.audit[i]
    BY DEF Range
  <2> QED
    BY <2>1 DEF HalfInv, RowInv, By, Done
<1> QED
  BY <1>1, HalfInvariant, PTL

-----------------------------------------------------------------------------
(* What the merges and the patches make of a blob                           *)
-----------------------------------------------------------------------------

(* The entry of a new text that was not compared with the list.             *)
Brought(trail, key) == \E e \in Range(trail) : e.new \in Interests /\ Fold[e.new] = key

SaneList(list, trail) ==
  /\ Len(list) <= Cap
  /\ \A i, j \in DOMAIN list :
       i < j /\ Fold[list[i]] = Fold[list[j]] => Brought(trail, Fold[list[i]])

Sane == {b \in Blob : SaneList(b.interests, b.audit)}

(* s is list and, after it, interests of keys that came up for the first    *)
(* time.                                                                    *)
Lengthens(s, list) ==
  /\ s \in Seq(Interests) /\ Len(list) <= Len(s)
  /\ \A i \in 1..Len(list) : s[i] = list[i]
  /\ \A i, j \in 1..Len(s) : i < j /\ Fold[s[i]] = Fold[s[j]] => j <= Len(list)

LEMMA AddLengthens ==
  ASSUME NEW list \in Seq(Interests), NEW s, Lengthens(s, list), NEW x \in Interests
  PROVE  Lengthens(AddInterest(s, x), list)
<1> DEFINE t == Append(s, x)
<1>1. s \in Seq(Interests) /\ Len(s) \in Nat /\ DOMAIN s = 1..Len(s) /\ Len(list) \in Nat
  BY DEF Lengthens
<1>2. CASE \E i \in DOMAIN s : Fold[s[i]] = Fold[x]
  BY <1>2 DEF AddInterest
<1>3. CASE ~\E i \in DOMAIN s : Fold[s[i]] = Fold[x]
  <2>1. /\ t \in Seq(Interests) /\ Len(t) = Len(s) + 1 /\ t[Len(s) + 1] = x
        /\ \A i \in 1..Len(s) : t[i] = s[i]
    BY <1>1
  <2> HIDE DEF t
  <2>2. ASSUME NEW i \in 1..Len(t), NEW j \in 1..Len(t), i < j, Fold[t[i]] = Fold[t[j]]
        PROVE  j <= Len(list)
    <3>1. i \in 1..Len(s) /\ t[i] = s[i]
      BY <1>1, <2>1, <2>2
    <3>2. j # Len(s) + 1
      BY <1>1, <1>3, <2>1, <2>2, <3>1
    <3>3. j \in 1..Len(s) /\ t[j] = s[j]
      BY <1>1, <2>1, <3>2
    <3>4. QED
      BY <2>2, <3>1, <3>3 DEF Lengthens
  <2>3. Lengthens(t, list)
    BY <1>1, <2>1, <2>2 DEF Lengthens
  <2>4. QED
    BY <1>3, <2>3 DEF AddInterest, t
<1>4. QED
  BY <1>2, <1>3

(* The union begins with the list and brings no key twice.                  *)
LEMMA UnionLengthens ==
  ASSUME NEW list \in Seq(Interests), NEW new \in Seq(Interests)
  PROVE  Lengthens(Union(list, new), list)
<1> DEFINE N == Len(new)
           step == [n \in 1..N |-> [s \in Seq(Interests) |-> AddInterest(s, new[n])]]
           Body(f) == [n \in 0..N |-> IF n = 0 THEN list ELSE AddInterest(f[n - 1], new[n])]
           with == CHOOSE f : f = Body(f)
<1>1. N \in Nat /\ \A n \in 1..N : new[n] \in Interests
  OBVIOUS
<1>2. step \in [1..N -> [Seq(Interests) -> Seq(Interests)]]
  <2>1. \A n \in 1..N, s \in Seq(Interests) : AddInterest(s, new[n]) \in Seq(Interests)
    BY <1>1 DEF AddInterest
  <2>2. QED
    BY <2>1
<1>3. \E f : f = Body(f)
  <2>1. PICK f : Iteration(f, Seq(Interests), list, N, step)
    BY <1>1, <1>2, Iterates
  <2>2. f \in [0..N -> Seq(Interests)] /\ f[0] = list /\ \A n \in 1..N : f[n] = step[n][f[n - 1]]
    BY <2>1 DEF Iteration
  <2>3. ASSUME NEW n \in 0..N PROVE f[n] = IF n = 0 THEN list ELSE AddInterest(f[n - 1], new[n])
    <3>1. CASE n = 0
      BY <2>2, <3>1
    <3>2. CASE n # 0
      <4>1. n \in 1..N /\ n - 1 \in 0..N
        BY <1>1, <3>2
      <4>2. f[n - 1] \in Seq(Interests)
        BY <2>2, <4>1
      <4>3. QED
        BY <2>2, <3>2, <4>1, <4>2
    <3>3. QED
      BY <3>1, <3>2
  <2>4. QED
    BY <2>2, <2>3
<1>4. with = Body(with)
  BY <1>3
<1>5. Union(list, new) = with[N]
  BY DEF Union
<1> HIDE DEF with, step
<1>6. with[0] = list /\ \A n \in Nat : n + 1 <= N => with[n + 1] = AddInterest(with[n], new[n + 1])
  <2>1. with[0] = list
    BY <1>1, <1>4
  <2>2. ASSUME NEW n \in Nat, n + 1 <= N PROVE with[n + 1] = AddInterest(with[n], new[n + 1])
    <3>1. n + 1 \in 0..N /\ n + 1 # 0 /\ (n + 1) - 1 = n
      BY <1>1, <2>2
    <3>2. QED
      BY <1>4, <3>1
  <2>3. QED
    BY <2>1, <2>2
<1> DEFINE P == {n \in Nat : n <= N => Lengthens(with[n], list)}
<1>7. 0 \in P
  BY <1>6 DEF Lengthens
<1>8. ASSUME NEW n \in Nat, n \in P PROVE n + 1 \in P
  <2>1. SUFFICES ASSUME n + 1 <= N PROVE Lengthens(with[n + 1], list)
    OBVIOUS
  <2>2. Lengthens(with[n], list) /\ new[n + 1] \in Interests
    BY <1>1, <1>8, <2>1
  <2>3. QED
    BY <1>6, <2>1, <2>2, AddLengthens
<1> HIDE DEF P
<1>9. N \in P
  BY <1>1, <1>7, <1>8, Induct
<1>10. QED
  BY <1>5, <1>9 DEF P

(* The merged list begins with what there was, if that kept the cap, and    *)
(* brings no new key twice.                                                 *)
LEMMA MergedList ==
  ASSUME NEW list \in Seq(Interests), NEW new \in Seq(Interests), NEW trail,
         SaneList(list, trail)
  PROVE  /\ Lengthens(MergeInterests(list, new), list)
         /\ SaneList(MergeInterests(list, new), trail)
<1> DEFINE all == Union(list, new)
           n == IF Len(all) > Cap THEN Cap ELSE Len(all)
           s == MergeInterests(list, new)
<1>1. Lengthens(all, list)
  BY UnionLengthens
<1>2. s = SubSeq(all, 1, n)
  BY DEF MergeInterests
<1> HIDE DEF s, all
<1>3. all \in Seq(Interests) /\ Len(all) \in Nat /\ Len(list) \in Nat /\ Cap \in Nat
  BY <1>1, ProfileAssumption DEF Lengthens
<1>4. Len(list) <= Len(all) /\ Len(list) <= Cap
  BY <1>1 DEF Lengthens, SaneList
<1>5. n \in 0..Len(all) /\ n <= Cap /\ Len(list) <= n
  BY <1>3, <1>4
<1> HIDE DEF n
<1>6. s \in Seq(Interests) /\ Len(s) = n /\ \A i \in 1..n : s[i] = all[i]
  BY <1>2, <1>3, <1>5
<1>7. Lengthens(s, list)
  <2>1. \A i \in 1..Len(list) : s[i] = list[i]
    BY <1>1, <1>3, <1>5, <1>6 DEF Lengthens
  <2>2. \A i, j \in 1..Len(s) : i < j /\ Fold[s[i]] = Fold[s[j]] => j <= Len(list)
    BY <1>1, <1>3, <1>5, <1>6 DEF Lengthens
  <2>3. QED
    BY <1>5, <1>6, <2>1, <2>2 DEF Lengthens
<1>8. SaneList(s, trail)
  <2>1. ASSUME NEW i \in DOMAIN s, NEW j \in DOMAIN s, i < j, Fold[s[i]] = Fold[s[j]]
        PROVE  Brought(trail, Fold[s[i]])
    <3>1. i \in 1..Len(s) /\ j \in 1..Len(s)
      BY <1>6
    <3>2. j <= Len(list)
      BY <1>7, <2>1, <3>1 DEF Lengthens
    <3>3. i \in 1..Len(list) /\ j \in 1..Len(list)
      BY <1>3, <1>5, <1>6, <2>1, <3>1, <3>2
    <3>4. s[i] = list[i] /\ s[j] = list[j] /\ i \in DOMAIN list /\ j \in DOMAIN list
      BY <1>7, <3>3 DEF Lengthens
    <3>5. QED
      BY <2>1, <3>4 DEF SaneList
  <2>2. QED
    BY <1>5, <1>6, <2>1 DEF SaneList
<1>9. QED
  BY <1>7, <1>8 DEF s

(* A trail that grew brings what it brought.                                *)
LEMMA TrailGrows ==
  ASSUME NEW trail \in Seq(AuditEntry), NEW e \in AuditEntry
  PROVE  /\ Append(trail, e) \in Seq(AuditEntry)
         /\ \A key : Brought(trail, key) => Brought(Append(trail, e), key)
         /\ e.new \in Interests => Brought(Append(trail, e), Fold[e.new])
         /\ IsPrefix(trail, Append(trail, e))
         /\ Len(Append(trail, e)) = Len(trail) + 1
         /\ Append(trail, e)[Len(trail) + 1] = e
<1> DEFINE t == Append(trail, e)
<1>1. /\ t \in Seq(AuditEntry) /\ Len(t) = Len(trail) + 1 /\ t[Len(trail) + 1] = e
      /\ DOMAIN t = 1..(Len(trail) + 1) /\ DOMAIN trail = 1..Len(trail) /\ Len(trail) \in Nat
      /\ \A i \in 1..Len(trail) : t[i] = trail[i]
  OBVIOUS
<1>2. SubSeq(t, 1, Len(trail)) = SubSeq(trail, 1, Len(trail))
  <2>1. trail = SubSeq(trail, 1, Len(trail)) /\ trail = SubSeq(t, 1, Len(trail))
    BY <1>1
  <2>2. QED
    BY <2>1
<1> HIDE DEF t
<1>3. Range(trail) \subseteq Range(t) /\ e \in Range(t)
  BY <1>1 DEF Range
<1>4. QED
  BY <1>1, <1>2, <1>3 DEF Brought, IsPrefix, t

(* A merge keeps a blob sane, its trail and all of its interests.           *)
LEMMA MergeSane ==
  ASSUME NEW b \in Sane, NEW p \in Partials, NEW w \in Writers
  PROVE  /\ Merge(b, p, w) \in Sane
         /\ IsPrefix(b.audit, Merge(b, p, w).audit)
         /\ Range(b.interests) \subseteq Range(Merge(b, p, w).interests)
<1> DEFINE e == [path |-> 0, old |-> b.place, new |-> p.place, by |-> w]
           m == Merge(b, p, w)
<1>1. /\ b.place \in Places \cup {NoPlace} /\ b.interests \in Seq(Interests)
      /\ b.audit \in Seq(AuditEntry) /\ SaneList(b.interests, b.audit)
  BY DEF Sane, Blob
<1>2. p.place \in Places \cup {NoPlace} /\ p.interests \in Seq(Interests) /\ Cap \in Nat
  BY ProfileAssumption
<1>3. e \in AuditEntry
  BY <1>1, <1>2 DEF AuditEntry, Paths
<1>4. /\ m.place \in Places \cup {NoPlace} /\ m.interests = MergeInterests(b.interests, p.interests)
      /\ m.audit \in {b.audit, Append(b.audit, e)}
      /\ m = [place |-> m.place, interests |-> m.interests, audit |-> m.audit]
  BY <1>1, <1>2 DEF Merge
<1> HIDE DEF e, m
<1>5. Lengthens(m.interests, b.interests) /\ SaneList(m.interests, b.audit)
  BY <1>1, <1>2, <1>4, MergedList
<1>6. /\ m.audit \in Seq(AuditEntry) /\ IsPrefix(b.audit, m.audit)
      /\ \A key : Brought(b.audit, key) => Brought(m.audit, key)
  <2>1. CASE m.audit = b.audit
    <3>1. IsPrefix(b.audit, b.audit)
      BY <1>1 DEF IsPrefix
    <3>2. QED
      BY <1>1, <2>1, <3>1
  <2>2. CASE m.audit = Append(b.audit, e)
    <3>1. /\ Append(b.audit, e) \in Seq(AuditEntry) /\ IsPrefix(b.audit, Append(b.audit, e))
          /\ \A key : Brought(b.audit, key) => Brought(Append(b.audit, e), key)
      BY <1>1, <1>3, TrailGrows
    <3>2. QED
      BY <2>2, <3>1
  <2>3. QED
    BY <1>4, <2>1, <2>2
<1>7. SaneList(m.interests, m.audit)
  BY <1>5, <1>6 DEF SaneList
<1>8. m \in Sane
  <2>1. m.interests \in Seq(Interests)
    BY <1>5 DEF Lengthens
  <2>2. m \in Blob
    BY <1>4, <1>6, <2>1 DEF Blob
  <2>3. QED
    BY <1>7, <2>2 DEF Sane
<1>9. Range(b.interests) \subseteq Range(m.interests)
  <2>1. ASSUME NEW i \in DOMAIN b.interests PROVE b.interests[i] \in Range(m.interests)
    <3>1. i \in 1..Len(b.interests) /\ Len(b.interests) \in Nat
      BY <1>1
    <3>2. i \in DOMAIN m.interests /\ m.interests[i] = b.interests[i]
      BY <1>5, <3>1 DEF Lengthens
    <3>3. QED
      BY <3>2 DEF Range
  <2>2. QED
    BY <2>1 DEF Range
<1>10. QED
  BY <1>6, <1>8, <1>9 DEF m

(* Popping an interest takes away no other; a new text in its place has its *)
(* key, the others keep their order.                                        *)
LEMMA PoppedList ==
  ASSUME NEW list \in Seq(Interests), NEW path \in 1..Len(list), NEW new \in Interests \cup {NoPlace},
         NEW trail, SaneList(list, trail), new # NoPlace => Brought(trail, Fold[new])
  PROVE  /\ Popped(list, path, new) \in Seq(Interests)
         /\ SaneList(Popped(list, path, new), trail)
         /\ Range(list) \subseteq Range(Popped(list, path, new)) \cup {list[path]}
<1> DEFINE s == Popped(list, path, new)
<1>0. Len(list) \in Nat /\ DOMAIN list = 1..Len(list) /\ Len(list) <= Cap /\ Cap \in Nat
  BY ProfileAssumption DEF SaneList
<1>1. CASE new # NoPlace
  <2>1. s = [list EXCEPT ![path] = new] /\ new \in Interests
    BY <1>1 DEF Popped
  <2> HIDE DEF s
  <2>2. /\ s \in Seq(Interests) /\ Len(s) = Len(list) /\ DOMAIN s = DOMAIN list /\ s[path] = new
        /\ \A i \in DOMAIN list : i # path => s[i] = list[i]
    BY <2>1
  <2>3. SaneList(s, trail)
    <3>1. ASSUME NEW i \in DOMAIN s, NEW j \in DOMAIN s, i < j, Fold[s[i]] = Fold[s[j]]
          PROVE  Brought(trail, Fold[s[i]])
      <4>1. CASE i = path \/ j = path
        BY <1>1, <2>2, <3>1, <4>1
      <4>2. CASE i # path /\ j # path
        BY <2>2, <3>1, <4>2 DEF SaneList
      <4>3. QED
        BY <4>1, <4>2
    <3>2. QED
      BY <1>0, <2>2, <3>1 DEF SaneList
  <2>4. Range(list) \subseteq Range(s) \cup {list[path]}
    BY <2>2 DEF Range
  <2>5. QED
    BY <2>2, <2>3, <2>4 DEF s
<1>2. CASE new = NoPlace
  <2> DEFINE from(i) == IF i < path THEN i ELSE i + 1
  <2>1. s = SubSeq(list, 1, path - 1) \o SubSeq(list, path + 1, Len(list))
    BY <1>2 DEF Popped, RemoveAt
  <2> HIDE DEF s
  <2>2. /\ s \in Seq(Interests) /\ Len(s) = Len(list) - 1
        /\ \A i \in 1..(Len(list) - 1) : s[i] = list[from(i)]
    <3> DEFINE A == SubSeq(list, 1, path - 1)
               B == SubSeq(list, path + 1, Len(list))
    <3>1. /\ A \in Seq(Interests) /\ Len(A) = path - 1
          /\ \A i \in 1..(path - 1) : A[i] = list[i]
      <4>1. \A i \in 1..(path - 1) : list[i] \in Interests
        BY <1>0
      <4>2. Len(A) = path - 1 /\ \A i \in 1..Len(A) : A[i] = list[i]
        BY <1>0, <4>1, SubSeqProperties
      <4>3. QED
        BY <1>0, <4>1, <4>2, SubSeqProperties
    <3>2. /\ B \in Seq(Interests) /\ Len(B) = Len(list) - path
          /\ \A i \in 1..(Len(list) - path) : B[i] = list[path + i]
      <4>1. /\ path + 1 \in Int /\ Len(list) \in Int
            /\ \A i \in (path + 1)..Len(list) : list[i] \in Interests
        BY <1>0
      <4>2. /\ B \in Seq(Interests)
            /\ Len(B) = (IF path + 1 <= Len(list) THEN Len(list) - (path + 1) + 1 ELSE 0)
            /\ \A i \in 1..(Len(list) - (path + 1) + 1) : B[i] = list[(path + 1) + i - 1]
        BY <4>1, SubSeqProperties
      <4> HIDE DEF B
      <4>3. Len(B) = Len(list) - path
        <5>1. \A l \in Nat : \A k \in 1..l :
                (IF k + 1 <= l THEN l - (k + 1) + 1 ELSE 0) = l - k
          OBVIOUS
        <5>2. QED
          BY <1>0, <4>2, <5>1
      <4>4. \A i \in 1..(Len(list) - path) : B[i] = list[path + i]
        <5>1. ASSUME NEW i \in 1..(Len(list) - path) PROVE (path + 1) + i - 1 = path + i
          BY <1>0
        <5>2. Len(list) - (path + 1) + 1 = Len(list) - path
          BY <1>0
        <5>3. QED
          BY <4>2, <5>1, <5>2
      <4>5. QED
        BY <4>2, <4>3, <4>4
    <3>3. s = A \o B
      BY <2>1
    <3> HIDE DEF A, B
    <3>4. /\ A \o B \in Seq(Interests) /\ Len(A \o B) = Len(A) + Len(B)
          /\ \A i \in 1..(Len(A) + Len(B)) :
               (A \o B)[i] = IF i <= Len(A) THEN A[i] ELSE B[i - Len(A)]
      BY <3>1, <3>2, ConcatProperties
    <3>5. s \in Seq(Interests) /\ Len(s) = Len(list) - 1
      BY <1>0, <3>1, <3>2, <3>3, <3>4
    <3>6. ASSUME NEW i \in 1..(Len(list) - 1) PROVE s[i] = list[from(i)]
      <4>0. s[i] = IF i <= path - 1 THEN A[i] ELSE B[i - (path - 1)]
        BY <1>0, <3>1, <3>2, <3>3, <3>4
      <4>1. CASE i < path
        BY <1>0, <3>1, <4>0, <4>1
      <4>2. CASE ~(i < path)
        <5>1. i - (path - 1) \in 1..(Len(list) - path) /\ path + (i - (path - 1)) = i + 1
          BY <1>0, <4>2
        <5>2. s[i] = B[i - (path - 1)]
          BY <1>0, <4>0, <4>2
        <5>3. QED
          BY <3>2, <4>2, <5>1, <5>2
      <4>3. QED
        BY <4>1, <4>2
    <3>7. QED
      BY <3>5, <3>6
  <2>3. DOMAIN s = 1..(Len(list) - 1)
    BY <1>0, <2>2
  <2>4. \A i \in DOMAIN s : from(i) \in DOMAIN list
    BY <1>0, <2>3
  <2>5. \A i, j \in DOMAIN s : i < j => from(i) < from(j)
    BY <1>0, <2>3
  <2>6. SaneList(s, trail)
    <3>1. ASSUME NEW i \in DOMAIN s, NEW j \in DOMAIN s, i < j, Fold[s[i]] = Fold[s[j]]
          PROVE  Brought(trail, Fold[s[i]])
      <4>1. s[i] = list[from(i)] /\ s[j] = list[from(j)]
        BY <2>2, <2>3
      <4>2. from(i) \in DOMAIN list /\ from(j) \in DOMAIN list /\ from(i) < from(j)
        BY <2>4, <2>5, <3>1
      <4> HIDE DEF from
      <4>3. QED
        BY <3>1, <4>1, <4>2 DEF SaneList
    <3>2. Len(s) <= Cap
      BY <1>0, <2>2
    <3>3. QED
      BY <3>1, <3>2 DEF SaneList
  <2>7. ASSUME NEW i \in DOMAIN list, i # path PROVE list[i] \in Range(s)
    <3> DEFINE k == IF i < path THEN i ELSE i - 1
    <3>1. k \in DOMAIN s /\ from(k) = i
      BY <1>0, <2>3, <2>7
    <3>2. s[k] = list[i]
      BY <2>2, <2>3, <3>1
    <3>3. QED
      BY <3>1, <3>2 DEF Range
  <2>8. Range(list) \subseteq Range(s) \cup {list[path]}
    BY <2>7 DEF Range
  <2>9. QED
    BY <2>2, <2>6, <2>8 DEF s
<1>3. QED
  BY <1>1, <1>2

(* m lacks at most the interest b has at the path, and its trail tells.     *)
Told(b, m, path) ==
  \A x \in Range(b.interests) \ Range(m.interests) :
    /\ path \in DOMAIN b.interests /\ x = b.interests[path]
    /\ m.audit[Len(b.audit) + 1].old = x

(* A patch keeps a blob sane and its trail, which it tells of the interest  *)
(* it takes away.                                                           *)
LEMMA PatchSane ==
  ASSUME NEW b \in Sane, NEW path \in 0..Len(b.interests), NEW verdict, NEW w \in Writers,
         NEW m, m = Patched(b, path, verdict, w)
  PROVE  /\ m \in Sane /\ IsPrefix(b.audit, m.audit)
         /\ Len(m.audit) = Len(b.audit) + 1 /\ Len(b.audit) \in Nat
         /\ Told(b, m, path)
<1> DEFINE new == NewText(path, verdict)
           e == [path |-> path, old |-> IF path = 0 THEN b.place ELSE b.interests[path],
                 new |-> new, by |-> w]
           trail == Append(b.audit, e)
<1>1. /\ b.place \in Places \cup {NoPlace} /\ b.interests \in Seq(Interests)
      /\ b.audit \in Seq(AuditEntry) /\ SaneList(b.interests, b.audit)
  BY DEF Sane, Blob
<1>2. Cap \in Nat /\ NewPlace \in Places /\ Replacement \in Interests
  BY ProfileAssumption
<1>3. path # 0 => path \in 1..Len(b.interests) /\ path \in DOMAIN b.interests
  BY <1>1
<1>4. path \in Paths
  BY <1>1, <1>2 DEF Paths, SaneList
<1>5. IF path = 0 THEN new \in Places \cup {NoPlace} ELSE new \in Interests \cup {NoPlace}
  BY <1>2 DEF NewText
<1>6. e \in AuditEntry
  BY <1>1, <1>3, <1>4, <1>5 DEF AuditEntry
<1>7. /\ trail \in Seq(AuditEntry) /\ IsPrefix(b.audit, trail) /\ Len(trail) = Len(b.audit) + 1
      /\ trail[Len(b.audit) + 1] = e
      /\ \A key : Brought(b.audit, key) => Brought(trail, key)
      /\ new \in Interests => Brought(trail, Fold[new])
  <2>1. e.new = new
    OBVIOUS
  <2> HIDE DEF e, new
  <2>2. QED
    BY <1>1, <1>6, <2>1, TrailGrows
<1>8. /\ m.place = (IF path = 0 THEN new ELSE b.place) /\ m.audit = trail
      /\ m.interests = (IF path = 0 THEN b.interests ELSE Popped(b.interests, path, new))
      /\ m = [place |-> m.place, interests |-> m.interests, audit |-> m.audit]
  BY DEF Patched
<1>9. e.old = IF path = 0 THEN b.place ELSE b.interests[path]
  OBVIOUS
<1> HIDE DEF e, new, trail
<1>10. SaneList(b.interests, trail)
  BY <1>1, <1>7 DEF SaneList
<1>11. /\ m.interests \in Seq(Interests) /\ SaneList(m.interests, m.audit)
       /\ Range(b.interests) \subseteq
            Range(m.interests) \cup IF path = 0 THEN {} ELSE {b.interests[path]}
  <2>1. CASE path = 0
    BY <1>1, <1>8, <1>10, <2>1
  <2>2. CASE path # 0
    BY <1>1, <1>3, <1>5, <1>7, <1>8, <1>10, <2>2, PoppedList
  <2>3. QED
    BY <2>1, <2>2
<1>12. m \in Blob
  BY <1>1, <1>5, <1>7, <1>8, <1>11 DEF Blob
<1>13. m \in Sane
  BY <1>11, <1>12 DEF Sane
<1>14. ASSUME NEW x \in Range(b.interests) \ Range(m.interests)
       PROVE  /\ path \in DOMAIN b.interests /\ x = b.interests[path]
              /\ m.audit[Len(b.audit) + 1].old = x
  BY <1>3, <1>7, <1>8, <1>9, <1>11, <1>14
<1>15. Len(b.audit) \in Nat
  BY <1>1
<1>16. QED
  BY <1>7, <1>8, <1>13, <1>14, <1>15 DEF Told

-----------------------------------------------------------------------------
(* The types, with what every blob in the model is like                     *)
-----------------------------------------------------------------------------

AtWork == {"idle", "apply", "upsert", "flush", "commit", "done", "failed"}

BlobInv ==
  /\ row \in Sane \cup {NoRow}
  /\ lock \in Writers \cup {NoWriter}
  /\ draft \in Sane
  /\ pc \in [Writers -> AtWork]
  /\ copy \in [Writers -> Sane]
  /\ found \in [Writers -> BOOLEAN]
  /\ todo \in [Writers -> Seq(Paths \X Verdicts)]
  /\ fresh \in [Writers -> BOOLEAN]
  /\ judged \in [Writers -> SUBSET Interests]
  /\ \A w \in Writers :
       /\ pc[w] = "apply" => Kind[w] = "correct"
       /\ Kind[w] = "correct" /\ pc[w] \in {"apply", "upsert", "flush"} => row \in Sane

LEMMA BlankSane == Blank \in Sane
<1>1. Blank \in Blob
  BY DEF Blank, Blob
<1>2. SaneList(<<>>, <<>>)
  BY ProfileAssumption DEF SaneList
<1>3. QED
  BY <1>1, <1>2 DEF Sane, Blank

LEMMA BlobInit == Init => BlobInv
  BY BlankSane DEF Init, BlobInv, AtWork

(* The verdicts a search leaves to apply, in whatever order.                *)
LEMMA Ordered ==
  ASSUME NEW list \in Seq(Interests), Len(list) <= Cap,
         NEW acted, acted \subseteq {0} \cup DOMAIN list, NEW order \in SetToSeqs(acted)
  PROVE  /\ order \in [1..Cardinality(acted) -> acted]
         /\ Cardinality(acted) \in Nat /\ acted \subseteq Paths
<1>1. Len(list) \in Nat /\ Cap \in Nat /\ DOMAIN list = 1..Len(list)
  BY ProfileAssumption
<1>2. acted \subseteq 0..Len(list) /\ acted \subseteq Paths
  BY <1>1 DEF Paths
<1>3. Cardinality(acted) \in Nat
  <2>1. IsFiniteSet(0..Len(list))
    BY <1>1, FS_Interval
  <2>2. QED
    BY <1>2, <2>1, FS_Subset, FS_CardinalityType
<1>4. QED
  BY <1>2, <1>3 DEF SetToSeqs

LEMMA ASequence ==
  ASSUME NEW n \in Nat, NEW S, NEW t \in [1..n -> S]
  PROVE  t \in Seq(S)
  OBVIOUS

LEMMA BlobMerge ==
  ASSUME BlobInv, NEW w \in Writers, ExtractStep(w) \/ EditStep(w)
  PROVE  BlobInv'
<1> DEFINE read == IF row = NoRow THEN Blank ELSE row
<1>1. PICK p \in Partials : copy' = [copy EXCEPT ![w] = Merge(read, p, w)]
  BY DEF ExtractStep, EditStep, MergeStep
<1>2. read \in Sane
  BY BlankSane DEF BlobInv
<1>3. Merge(read, p, w) \in Sane
  BY <1>2, MergeSane
<1> HIDE DEF read
<1>4. copy' \in [Writers -> Sane]
  BY <1>1, <1>3 DEF BlobInv
<1>5. /\ Kind[w] # "correct" /\ pc' = [pc EXCEPT ![w] = "upsert"]
      /\ fresh' = [fresh EXCEPT ![w] = TRUE]
      /\ UNCHANGED <<row, lock, draft, found, todo, judged>>
  BY DEF ExtractStep, EditStep, MergeStep
<1>6. QED
  BY <1>4, <1>5 DEF BlobInv, AtWork

LEMMA BlobSearch ==
  ASSUME BlobInv, NEW w \in Writers, SearchStep(w)
  PROVE  BlobInv'
<1>1. /\ Kind[w] = "correct" /\ fresh' = [fresh EXCEPT ![w] = TRUE]
      /\ UNCHANGED <<row, lock, draft, copy, found>>
  BY DEF SearchStep
<1>2. \/ pc' = [pc EXCEPT ![w] = "commit"]
      \/ pc' = [pc EXCEPT ![w] = "apply"] /\ row # NoRow
  BY DEF SearchStep
<1>3. todo' \in [Writers -> Seq(Paths \X Verdicts)] /\ judged' \in [Writers -> SUBSET Interests]
  <2>1. CASE UNCHANGED <<todo, judged>>
    BY <2>1 DEF BlobInv
  <2>2. CASE ~UNCHANGED <<todo, judged>>
    <3>1. row \in Sane
      BY <2>2 DEF SearchStep, BlobInv
    <3>2. row.interests \in Seq(Interests) /\ Len(row.interests) <= Cap
      BY <3>1 DEF Sane, SaneList, Blob
    <3>0. PICK hits \in SUBSET ({0} \cup DOMAIN row.interests) :
            \E verdict \in [hits -> Verdicts] :
              LET acted == {h \in hits : verdict[h] # "audit_only"}
              IN  /\ \E order \in SetToSeqs(acted) :
                       todo' = [todo EXCEPT ![w] =
                         [i \in DOMAIN order |-> <<order[i], verdict[order[i]]>>]]
                  /\ judged' = [judged EXCEPT ![w] = {row.interests[h] : h \in acted \ {0}}]
      BY <2>2 DEF SearchStep
    <3>3. PICK verdict \in [hits -> Verdicts] :
            LET acted == {h \in hits : verdict[h] # "audit_only"}
            IN  /\ \E order \in SetToSeqs(acted) :
                     todo' = [todo EXCEPT ![w] =
                       [i \in DOMAIN order |-> <<order[i], verdict[order[i]]>>]]
                /\ judged' = [judged EXCEPT ![w] = {row.interests[h] : h \in acted \ {0}}]
      BY <3>0
    <3> DEFINE acted == {h \in hits : verdict[h] # "audit_only"}
    <3>4. PICK order \in SetToSeqs(acted) :
            todo' = [todo EXCEPT ![w] = [i \in DOMAIN order |-> <<order[i], verdict[order[i]]>>]]
      BY <3>3
    <3>5. judged' = [judged EXCEPT ![w] = {row.interests[h] : h \in acted \ {0}}]
      BY <3>3
    <3>6. acted \subseteq hits
      OBVIOUS
    <3> HIDE DEF acted
    <3> DEFINE t == [i \in DOMAIN order |-> <<order[i], verdict[order[i]]>>]
    <3>7. t \in Seq(Paths \X Verdicts)
      <4>1. /\ order \in [1..Cardinality(acted) -> acted]
            /\ Cardinality(acted) \in Nat /\ acted \subseteq Paths
        BY <3>2, <3>6, Ordered
      <4>2. \A i \in 1..Cardinality(acted) :
              order[i] \in Paths /\ verdict[order[i]] \in Verdicts
        BY <3>6, <4>1
      <4>3. t \in [1..Cardinality(acted) -> Paths \X Verdicts]
        BY <4>1, <4>2
      <4> HIDE DEF t
      <4>4. QED
        BY <4>1, <4>3, ASequence
    <3> HIDE DEF t
    <3>8. {row.interests[h] : h \in acted \ {0}} \in SUBSET Interests
      BY <3>2, <3>6
    <3>9. QED
      BY <3>4, <3>5, <3>7, <3>8 DEF BlobInv, t
  <2>3. QED
    BY <2>1, <2>2
<1>4. row' \in Sane \cup {NoRow} /\ (row' # NoRow => row' \in Sane)
  BY <1>1 DEF BlobInv
<1>5. pc' \in [Writers -> AtWork] /\ \A v \in Writers \ {w} : pc'[v] = pc[v]
  BY <1>2 DEF BlobInv, AtWork
<1>6. pc'[w] \in {"apply", "upsert", "flush"} => row' \in Sane
  BY <1>1, <1>2, <1>4 DEF BlobInv
<1>7. QED
  BY <1>1, <1>3, <1>4, <1>5, <1>6 DEF BlobInv

LEMMA BlobPatch ==
  ASSUME BlobInv, NEW w \in Writers, PatchStep(w)
  PROVE  /\ BlobInv'
         /\ Sees(w) \in Sane /\ Head(todo[w]) \in Paths \X Verdicts
<1> DEFINE path == Head(todo[w])[1]
           verdict == Head(todo[w])[2]
           b == Sees(w)
<1>1. /\ pc[w] = "apply" /\ Kind[w] = "correct" /\ row \in Sane /\ todo[w] # <<>>
      /\ todo' = [todo EXCEPT ![w] = Tail(todo[w])]
      /\ UNCHANGED <<row, lock, draft, found, fresh, judged>>
  BY DEF PatchStep, BlobInv
<1>2. b \in Sane
  BY <1>1 DEF Sees, BlobInv
<1>3. todo[w] \in Seq(Paths \X Verdicts)
  BY DEF BlobInv
<1>4. /\ Head(todo[w]) \in Paths \X Verdicts /\ Tail(todo[w]) \in Seq(Paths \X Verdicts)
  BY <1>1, <1>3
<1>5. path \in Nat
  BY <1>4, ProfileAssumption DEF Paths
<1>6. \/ UNCHANGED <<copy, pc>>
      \/ /\ ~(path > Len(b.interests)) /\ copy' = [copy EXCEPT ![w] = Patched(b, path, verdict, w)]
         /\ pc' = [pc EXCEPT ![w] = "upsert"]
  BY DEF PatchStep
<1>7. Len(b.interests) \in Nat
  BY <1>2 DEF Sane, Blob
<1> HIDE DEF path, verdict, b
<1>8. copy' \in [Writers -> Sane]
  <2>1. ~(path > Len(b.interests)) => Patched(b, path, verdict, w) \in Sane
    <3>1. ~(path > Len(b.interests)) => path \in 0..Len(b.interests)
      BY <1>5, <1>7
    <3>2. QED
      BY <1>2, <3>1, PatchSane
  <2>2. QED
    BY <1>6, <2>1 DEF BlobInv
<1>9. pc' \in [Writers -> AtWork] /\ \A v \in Writers : pc'[v] = "apply" => pc[v] = "apply"
  BY <1>6 DEF BlobInv, AtWork
<1>10. \A v \in Writers \ {w} : pc'[v] = pc[v]
  BY <1>6 DEF BlobInv
<1>11. todo' \in [Writers -> Seq(Paths \X Verdicts)]
  BY <1>1, <1>4 DEF BlobInv
<1>12. BlobInv'
  BY <1>1, <1>8, <1>9, <1>10, <1>11 DEF BlobInv
<1>13. QED
  BY <1>2, <1>4, <1>12 DEF b

LEMMA BlobOther ==
  ASSUME BlobInv, NEW w \in Writers,
         AppliedStep(w) \/ UpsertGet(w) \/ InsertConflict(w) \/ Flush(w) \/ Commit(w) \/ Abort(w)
  PROVE  BlobInv'
<1>1. CASE AppliedStep(w)
  BY <1>1 DEF AppliedStep, BlobInv, AtWork
<1>2. CASE UpsertGet(w)
  BY <1>2 DEF UpsertGet, BlobInv, AtWork
<1>3. CASE InsertConflict(w)
  BY <1>3 DEF InsertConflict, BlobInv, AtWork
<1>4. CASE Flush(w)
  BY <1>4 DEF Flush, BlobInv, AtWork
<1>5. CASE Abort(w)
  BY <1>5 DEF Abort, BlobInv, AtWork
<1>6. CASE Commit(w)
  <2>1. /\ pc' = [pc EXCEPT ![w] = "done"] /\ UNCHANGED <<draft, copy, found, todo, judged>>
        /\ fresh' \in [Writers -> BOOLEAN]
        /\ \/ row' = draft /\ lock' = NoWriter
           \/ UNCHANGED <<row, lock>>
    BY <1>6 DEF Commit, BlobInv
  <2>2. row' \in Sane \cup {NoRow} /\ (row \in Sane => row' \in Sane)
        /\ lock' \in Writers \cup {NoWriter}
    BY <2>1 DEF BlobInv
  <2>3. pc' \in [Writers -> AtWork] /\ pc'[w] = "done" /\ \A v \in Writers \ {w} : pc'[v] = pc[v]
    BY <2>1 DEF BlobInv, AtWork
  <2>4. QED
    BY <2>1, <2>2, <2>3 DEF BlobInv
<1>7. QED
  BY <1>1, <1>2, <1>3, <1>4, <1>5, <1>6

(* The blobs, the verdicts and the places are always what they are meant to *)
(* be, for any writers, whatever the cap.                                   *)
THEOREM BlobInvariant == ProfileSpec => []BlobInv
<1>1. BlobInv /\ [Next]_vars => BlobInv'
  <2>1. CASE Next
    BY <2>1, BlobMerge, BlobSearch, BlobPatch, BlobOther DEF Next, Step
  <2>2. CASE UNCHANGED vars
    BY <2>2 DEF vars, BlobInv
  <2>3. QED
    BY <2>1, <2>2
<1>2. QED
  BY <1>1, BlobInit, PTL DEF ProfileSpec

THEOREM ProfileTypes == ProfileSpec => []ProfileTypeOK
<1>1. BlobInv => ProfileTypeOK
  BY DEF BlobInv, ProfileTypeOK, Sane, AtWork
<1>2. QED
  BY <1>1, BlobInvariant, PTL

(* The committed interests keep the cap and, but for the texts corrections  *)
(* brought in, share no key: for every cap, folding and batch of verdicts.  *)
THEOREM InterestsAreSane == ProfileSpec => []InterestsSane
<1>1. BlobInv => InterestsSane
  BY DEF BlobInv, InterestsSane, Sane, SaneList, Brought
<1>2. QED
  BY <1>1, BlobInvariant, PTL

-----------------------------------------------------------------------------
(* What an undisturbed writer keeps                                         *)
-----------------------------------------------------------------------------

(* b keeps what the row has, but for interests w's verdicts were about.     *)
Keeps(b, w) ==
  /\ IsPrefix(row.audit, b.audit)
  /\ \A x \in Range(row.interests) \ Range(b.interests) :
       /\ x \in judged[w]
       /\ \E i \in DOMAIN b.audit : i > Len(row.audit) /\ b.audit[i].old = x

(* So it does unless w has patched it twice.                                *)
Kept(b, w) == Len(b.audit) <= Len(row.audit) + 1 => Keeps(b, w)

Judged(w) ==
  \A i \in DOMAIN todo[w] :
    LET path == todo[w][i][1]
    IN  path \in DOMAIN row.interests => row.interests[path] \in judged[w]

(* While the row stays as w read it, w's copy and draft descend from it; a  *)
(* correction's draft is one patch ahead, and its verdicts are about the    *)
(* interests that are there.                                                *)
FreshOf(w) ==
  /\ pc[w] \in {"upsert", "flush"} => Kept(copy[w], w)
  /\ lock = w => Kept(draft, w)
  /\ Kind[w] = "correct" =>
       /\ pc[w] \in {"upsert", "flush"} => Len(copy[w].audit) > Len(row.audit)
       /\ lock = w => Len(draft.audit) > Len(row.audit)
       /\ pc[w] \in {"apply", "upsert", "flush"} => Judged(w)

FreshInv == \A w \in Writers : fresh[w] /\ row # NoRow => FreshOf(w)

(* Only what a writer has in hand, and the row, matter to it.               *)
LEMMA FreshSame ==
  ASSUME NEW v \in Writers, FreshOf(v), row' = row, pc'[v] = pc[v], copy'[v] = copy[v],
         todo'[v] = todo[v], judged'[v] = judged[v], lock' = v => lock = v /\ draft' = draft
  PROVE  FreshOf(v)'
<1>1. ASSUME NEW b, Kept(b, v) PROVE Kept(b, v)'
  BY <1>1 DEF Kept, Keeps
<1>2. Judged(v) => Judged(v)'
  BY DEF Judged
<1>3. Kept(copy[v], v) => Kept(copy[v], v)'
  BY DEF Kept, Keeps
<1>4. lock' = v /\ Kept(draft, v) => Kept(draft, v)'
  BY DEF Kept, Keeps
<1>5. QED
  BY <1>2, <1>3, <1>4 DEF FreshOf

LEMMA FreshMerge ==
  ASSUME BlobInv, HalfInv, FreshInv, NEW w \in Writers, ExtractStep(w) \/ EditStep(w)
  PROVE  FreshInv'
<1> SUFFICES ASSUME NEW v \in Writers, fresh'[v], row' # NoRow PROVE FreshOf(v)'
  BY DEF FreshInv
<1>1. /\ pc[w] = "idle" /\ Kind[w] # "correct" /\ pc' = [pc EXCEPT ![w] = "upsert"]
      /\ fresh' = [fresh EXCEPT ![w] = TRUE]
      /\ UNCHANGED <<row, lock, draft, found, todo, judged>>
  BY DEF ExtractStep, EditStep, MergeStep
<1>2. PICK p \in Partials :
        copy' = [copy EXCEPT ![w] = Merge(IF row = NoRow THEN Blank ELSE row, p, w)]
  BY DEF ExtractStep, EditStep, MergeStep
<1>3. lock # w
  BY <1>1, ProfileAssumption DEF HalfInv, LockInv
<1>4. CASE v = w
  <2>1. row \in Sane
    BY <1>1 DEF BlobInv
  <2>2. copy'[w] = Merge(row, p, w)
    BY <1>1, <1>2 DEF BlobInv
  <2>3. IsPrefix(row.audit, copy'[w].audit) /\ Range(row.interests) \subseteq Range(copy'[w].interests)
    BY <2>1, <2>2, MergeSane
  <2>4. Kept(copy[w], w)'
    BY <1>1, <2>3 DEF Kept, Keeps
  <2>5. QED
    BY <1>1, <1>3, <1>4, <2>4 DEF FreshOf
<1>5. CASE v # w
  <2>1. fresh[v] /\ row # NoRow /\ pc'[v] = pc[v] /\ copy'[v] = copy[v]
    BY <1>1, <1>2, <1>5 DEF BlobInv
  <2>2. QED
    BY <1>1, <2>1, FreshSame DEF FreshInv
<1>6. QED
  BY <1>4, <1>5

(* A search judges the interests that are there.                            *)
LEMMA FreshSearch ==
  ASSUME BlobInv, HalfInv, FreshInv, NEW w \in Writers, SearchStep(w)
  PROVE  FreshInv'
<1> SUFFICES ASSUME NEW v \in Writers, fresh'[v], row' # NoRow PROVE FreshOf(v)'
  BY DEF FreshInv
<1>1. /\ pc[w] = "idle" /\ Kind[w] = "correct" /\ fresh' = [fresh EXCEPT ![w] = TRUE]
      /\ UNCHANGED <<row, lock, draft, copy, found>>
  BY DEF SearchStep
<1>2. lock # w
  BY <1>1, ProfileAssumption DEF HalfInv, LockInv
<1>3. row \in Sane /\ row.interests \in Seq(Interests) /\ Len(row.interests) <= Cap
  BY <1>1 DEF BlobInv, Sane, SaneList, Blob
<1>4. pc' = [pc EXCEPT ![w] = "apply"]
  BY <1>1 DEF SearchStep
<1>5. PICK hits \in SUBSET ({0} \cup DOMAIN row.interests) :
        \E verdict \in [hits -> Verdicts] :
          LET acted == {h \in hits : verdict[h] # "audit_only"}
          IN  /\ \E order \in SetToSeqs(acted) :
                   todo' = [todo EXCEPT ![w] =
                     [i \in DOMAIN order |-> <<order[i], verdict[order[i]]>>]]
              /\ judged' = [judged EXCEPT ![w] = {row.interests[h] : h \in acted \ {0}}]
  BY <1>1 DEF SearchStep
<1>6. PICK verdict \in [hits -> Verdicts] :
        LET acted == {h \in hits : verdict[h] # "audit_only"}
        IN  /\ \E order \in SetToSeqs(acted) :
                 todo' = [todo EXCEPT ![w] =
                   [i \in DOMAIN order |-> <<order[i], verdict[order[i]]>>]]
            /\ judged' = [judged EXCEPT ![w] = {row.interests[h] : h \in acted \ {0}}]
  BY <1>5
<1> DEFINE acted == {h \in hits : verdict[h] # "audit_only"}
<1>7. PICK order \in SetToSeqs(acted) :
        todo' = [todo EXCEPT ![w] = [i \in DOMAIN order |-> <<order[i], verdict[order[i]]>>]]
  BY <1>6
<1>8. judged' = [judged EXCEPT ![w] = {row.interests[h] : h \in acted \ {0}}]
  BY <1>6
<1>9. acted \subseteq {0} \cup DOMAIN row.interests
  OBVIOUS
<1> HIDE DEF acted
<1>10. CASE v = w
  <2>1. order \in [1..Cardinality(acted) -> acted]
    BY <1>3, <1>9, Ordered
  <2>2. /\ judged'[w] = {row.interests[h] : h \in acted \ {0}}
        /\ todo'[w] = [i \in DOMAIN order |-> <<order[i], verdict[order[i]]>>]
    BY <1>7, <1>8 DEF BlobInv
  <2>3. \A i \in DOMAIN todo'[w] : todo'[w][i][1] \in acted
    BY <2>1, <2>2
  <2>4. \A path \in acted : path \in DOMAIN row.interests => row.interests[path] \in judged'[w]
    <3>1. 0 \notin DOMAIN row.interests
      BY <1>3
    <3>2. QED
      BY <2>2, <3>1
  <2>5. Judged(w)'
    BY <1>1, <2>3, <2>4 DEF Judged
  <2>6. pc'[w] = "apply"
    BY <1>4 DEF BlobInv
  <2>7. QED
    BY <1>1, <1>2, <1>10, <2>5, <2>6 DEF FreshOf
<1>11. CASE v # w
  <2>1. /\ fresh[v] /\ row # NoRow /\ pc'[v] = pc[v] /\ copy'[v] = copy[v]
        /\ todo'[v] = todo[v] /\ judged'[v] = judged[v]
    BY <1>1, <1>4, <1>7, <1>8, <1>11 DEF BlobInv
  <2>2. QED
    BY <1>1, <2>1, FreshSame DEF FreshInv
<1>12. QED
  BY <1>10, <1>11

(* The first patch is of the row and takes away what was judged; a later    *)
(* one is of the draft and leaves the trail two ahead.                      *)
LEMMA FreshPatch ==
  ASSUME BlobInv, HalfInv, FreshInv, NEW w \in Writers, PatchStep(w)
  PROVE  FreshInv'
<1> SUFFICES ASSUME NEW v \in Writers, fresh'[v], row' # NoRow PROVE FreshOf(v)'
  BY DEF FreshInv
<1> DEFINE path == Head(todo[w])[1]
           verdict == Head(todo[w])[2]
           b == Sees(w)
<1>1. /\ pc[w] = "apply" /\ todo[w] # <<>> /\ Kind[w] = "correct" /\ row \in Sane
      /\ todo' = [todo EXCEPT ![w] = Tail(todo[w])]
      /\ UNCHANGED <<row, lock, draft, found, fresh, judged>>
  BY DEF PatchStep, BlobInv
<1>2. b \in Sane /\ Head(todo[w]) \in Paths \X Verdicts
  BY BlobPatch
<1>3. todo[w] \in Seq(Paths \X Verdicts)
  BY DEF BlobInv
<1>4. path \in Nat /\ Len(b.interests) \in Nat
  BY <1>2, ProfileAssumption DEF Paths, Sane, Blob
<1>5. \/ UNCHANGED <<copy, pc>>
      \/ /\ ~(path > Len(b.interests)) /\ copy' = [copy EXCEPT ![w] = Patched(b, path, verdict, w)]
         /\ pc' = [pc EXCEPT ![w] = "upsert"]
  BY DEF PatchStep
<1>6. path = todo[w][1][1] /\ 1 \in DOMAIN todo[w]
  BY <1>1, <1>3
<1>7. Judged(w) => Judged(w)'
  <2>1. todo'[w] = Tail(todo[w])
    BY <1>1 DEF BlobInv
  <2>2. \A i \in DOMAIN Tail(todo[w]) : i + 1 \in DOMAIN todo[w] /\ Tail(todo[w])[i] = todo[w][i + 1]
    BY <1>1, <1>3
  <2>3. QED
    BY <1>1, <2>1, <2>2 DEF Judged
<1>8. b = IF lock = w THEN draft ELSE row
  BY DEF Sees
<1> HIDE DEF path, verdict, b
<1>9. CASE v = w
  <2>1. FreshOf(w) /\ Judged(w)
    BY <1>1, <1>9 DEF FreshInv, FreshOf
  <2>2. CASE UNCHANGED <<copy, pc>>
    <3>1. Kept(draft, w) => Kept(draft, w)'
      BY <1>1 DEF Kept, Keeps
    <3>2. QED
      BY <1>1, <1>7, <1>9, <2>1, <2>2, <3>1 DEF FreshOf
  <2>3. CASE ~UNCHANGED <<copy, pc>>
    <3> DEFINE m == Patched(b, path, verdict, w)
    <3>0. m = Patched(b, path, verdict, w)
      OBVIOUS
    <3> HIDE DEF m
    <3>1. path \in 0..Len(b.interests)
      BY <1>4, <1>5, <2>3
    <3>2. /\ m \in Sane /\ IsPrefix(b.audit, m.audit)
          /\ Len(m.audit) = Len(b.audit) + 1 /\ Len(b.audit) \in Nat
          /\ Told(b, m, path)
      BY <1>2, <3>0, <3>1, PatchSane
    <3>3. copy'[w] = m /\ pc'[w] = "upsert"
      BY <1>5, <2>3, <3>0 DEF BlobInv
    <3>4. Len(row.audit) \in Nat
      BY <1>1 DEF Sane, Blob
    <3>5. Len(m.audit) > Len(row.audit) /\ (Len(m.audit) <= Len(row.audit) + 1 => lock # w)
      BY <1>8, <2>1, <1>1, <3>2, <3>4 DEF FreshOf
    <3>6. lock # w => Keeps(m, w)
      <4>1. SUFFICES ASSUME lock # w PROVE Keeps(m, w)
        OBVIOUS
      <4>2. b = row
        BY <1>8, <4>1
      <4>3. Len(row.audit) + 1 \in DOMAIN m.audit
        BY <3>2, <3>4, <4>2 DEF Sane, Blob
      <4>4. ASSUME NEW x \in Range(row.interests) \ Range(m.interests)
            PROVE  /\ x \in judged[w]
                   /\ \E i \in DOMAIN m.audit : i > Len(row.audit) /\ m.audit[i].old = x
        <5>1. path \in DOMAIN row.interests /\ x = row.interests[path]
              /\ m.audit[Len(row.audit) + 1].old = x
          BY <3>2, <4>2, <4>4 DEF Told
        <5>2. x \in judged[w]
          BY <1>6, <2>1, <5>1 DEF Judged
        <5>3. QED
          BY <3>4, <4>3, <5>1, <5>2
      <4>5. QED
        BY <3>2, <4>2, <4>4 DEF Keeps
    <3>7. Kept(m, w)
      BY <3>5, <3>6 DEF Kept
    <3>8. Kept(draft, w) => Kept(draft, w)'
      BY <1>1 DEF Kept, Keeps
    <3>9. Kept(copy[w], w)'
      BY <1>1, <3>3, <3>7 DEF Kept, Keeps
    <3>10. QED
      BY <1>1, <1>7, <1>9, <2>1, <3>3, <3>5, <3>8, <3>9 DEF FreshOf
  <2>4. QED
    BY <2>2, <2>3
<1>10. CASE v # w
  <2>1. fresh[v] /\ row # NoRow /\ pc'[v] = pc[v] /\ copy'[v] = copy[v] /\ todo'[v] = todo[v]
    BY <1>1, <1>5, <1>10 DEF BlobInv
  <2>2. QED
    BY <1>1, <2>1, FreshSame DEF FreshInv
<1>11. QED
  BY <1>9, <1>10

LEMMA FreshFlush ==
  ASSUME BlobInv, HalfInv, FreshInv, NEW w \in Writers, Flush(w)
  PROVE  FreshInv'
<1> SUFFICES ASSUME NEW v \in Writers, fresh'[v], row' # NoRow PROVE FreshOf(v)'
  BY DEF FreshInv
<1>1. /\ pc[w] = "flush" /\ lock' = w /\ draft' = copy[w]
      /\ pc' = [pc EXCEPT ![w] = IF Kind[w] = "correct" THEN "apply" ELSE "commit"]
      /\ UNCHANGED <<row, copy, found, todo, fresh, judged>>
  BY DEF Flush
<1>2. CASE v = w
  <2>1. FreshOf(w)
    BY <1>1, <1>2 DEF FreshInv
  <2>2. Kept(copy[w], w) => Kept(draft, w)'
    BY <1>1 DEF Kept, Keeps
  <2>3. Judged(w) => Judged(w)'
    BY <1>1 DEF Judged
  <2>4. pc'[w] \notin {"upsert", "flush"}
    BY <1>1 DEF BlobInv
  <2>5. QED
    BY <1>1, <1>2, <2>1, <2>2, <2>3, <2>4 DEF FreshOf
<1>3. CASE v # w
  <2>1. fresh[v] /\ row # NoRow /\ pc'[v] = pc[v] /\ lock' # v
    BY <1>1, <1>3 DEF BlobInv
  <2>2. QED
    BY <1>1, <2>1, FreshSame DEF FreshInv
<1>4. QED
  BY <1>2, <1>3

(* A commit that changes the row leaves nobody fresh.                       *)
LEMMA FreshCommit ==
  ASSUME BlobInv, HalfInv, FreshInv, NEW w \in Writers, Commit(w)
  PROVE  FreshInv'
<1> SUFFICES ASSUME NEW v \in Writers, fresh'[v], row' # NoRow PROVE FreshOf(v)'
  BY DEF FreshInv
<1>1. /\ pc' = [pc EXCEPT ![w] = "done"] /\ UNCHANGED <<draft, copy, found, todo, judged>>
  BY DEF Commit
<1>2. fresh[v] /\ row' = row /\ lock' # w /\ lock' \in {lock, NoWriter}
  BY ProfileAssumption DEF Commit
<1>3. CASE v = w
  <2>1. pc'[w] = "done"
    BY <1>1 DEF BlobInv
  <2>2. QED
    BY <1>2, <1>3, <2>1 DEF FreshOf
<1>4. CASE v # w
  <2>1. pc'[v] = pc[v] /\ (lock' = v => lock = v)
    BY <1>1, <1>2, <1>4, ProfileAssumption DEF BlobInv
  <2>2. QED
    BY <1>1, <1>2, <2>1, FreshSame DEF FreshInv
<1>5. QED
  BY <1>3, <1>4

LEMMA FreshOther ==
  ASSUME BlobInv, HalfInv, FreshInv, NEW w \in Writers,
         AppliedStep(w) \/ UpsertGet(w) \/ InsertConflict(w) \/ Abort(w)
  PROVE  FreshInv'
<1> SUFFICES ASSUME NEW v \in Writers, fresh'[v], row' # NoRow PROVE FreshOf(v)'
  BY DEF FreshInv
<1>1. /\ UNCHANGED <<row, draft, copy, todo, fresh, judged>>
      /\ lock' \in {lock, NoWriter}
      /\ \/ pc' = [pc EXCEPT ![w] = "commit"] \/ pc' = [pc EXCEPT ![w] = "failed"]
         \/ pc[w] = "upsert" /\ pc' = [pc EXCEPT ![w] = "flush"]
  BY DEF AppliedStep, UpsertGet, InsertConflict, Abort
<1>2. FreshOf(v) /\ (lock' = v => lock = v)
  BY <1>1, ProfileAssumption DEF FreshInv
<1>3. CASE pc'[v] = pc[v]
  BY <1>1, <1>2, <1>3, FreshSame
<1>4. CASE pc'[v] # pc[v]
  <2>1. \/ pc'[v] \in {"commit", "failed"}
        \/ pc[v] = "upsert" /\ pc'[v] = "flush"
    BY <1>1, <1>4 DEF BlobInv
  <2>2. Kept(draft, v) => Kept(draft, v)'
    BY <1>1 DEF Kept, Keeps
  <2>3. Kept(copy[v], v) => Kept(copy[v], v)'
    BY <1>1 DEF Kept, Keeps
  <2>4. Judged(v) => Judged(v)'
    BY <1>1 DEF Judged
  <2>5. CASE pc'[v] \in {"commit", "failed"}
    BY <1>1, <1>2, <2>2, <2>5 DEF FreshOf
  <2>6. CASE pc[v] = "upsert" /\ pc'[v] = "flush"
    BY <1>1, <1>2, <2>2, <2>3, <2>4, <2>6 DEF FreshOf
  <2>7. QED
    BY <2>1, <2>5, <2>6
<1>5. QED
  BY <1>3, <1>4

THEOREM FreshInvariant == ProfileSpec => []FreshInv
<1>1. Init => FreshInv
  BY DEF Init, FreshInv
<1>2. BlobInv /\ HalfInv /\ FreshInv /\ [Next]_vars => FreshInv'
  <2>1. CASE Next
    BY <2>1, FreshMerge, FreshSearch, FreshPatch, FreshFlush, FreshCommit, FreshOther DEF Next, Step
  <2>2. CASE UNCHANGED vars
    BY <2>2 DEF vars, FreshInv, FreshOf, Kept, Keeps, Judged
  <2>3. QED
    BY <2>1, <2>2
<1>3. QED
  BY <1>1, <1>2, BlobInvariant, HalfInvariant, PTL DEF ProfileSpec

(* Whoever writes, an undisturbed writer loses nothing it was not asked to  *)
(* remove: for every set of writers, every batch of verdicts and any        *)
(* stale writers about.                                                     *)
THEOREM UndisturbedWritersKeepTheRest == ProfileSpec => FreshWriterKeepsTheRest
<1> DEFINE Act == \A w \in Writers :
             Replaces(w) /\ fresh[w] /\ Len(row'.audit) <= Len(row.audit) + 1 => KeepsTheRest(w)
<1>1. FreshInv /\ [Next]_vars => [Act]_vars
  <2>1. SUFFICES ASSUME FreshInv, NEW w \in Writers, Replaces(w), fresh[w],
                        Len(row'.audit) <= Len(row.audit) + 1
                 PROVE  KeepsTheRest(w)
    OBVIOUS
  <2>2. lock = w /\ row' = draft /\ row # NoRow
    BY <2>1 DEF Replaces, Commit
  <2>3. Keeps(draft, w)
    BY <2>1, <2>2 DEF FreshInv, FreshOf, Kept
  <2>4. QED
    BY <2>2, <2>3 DEF Keeps, KeepsTheRest
<1>2. QED
  BY <1>1, FreshInvariant, PTL DEF ProfileSpec, FreshWriterKeepsTheRest
=============================================================================
