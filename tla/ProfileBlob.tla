---------------------------- MODULE ProfileBlob ----------------------------
(***************************************************************************)
(* A user's profile is one JSON blob in one row.  Extraction tasks, the     *)
(* profile editor and correction tasks each read the blob, change their     *)
(* copy and write the whole copy back, each in a transaction of its own     *)
(* under PostgreSQL's READ COMMITTED.  The UPDATE takes the row's lock and  *)
(* keeps it until commit; nothing is locked between the read and the write. *)
(*                                                                         *)
(* row      the committed blob, or NoRow                                    *)
(* lock     the writer with an uncommitted write of the row, or NoWriter    *)
(* draft    that uncommitted blob                                           *)
(* pc, copy, found   a writer's place, the blob it is about to write, and   *)
(*          whether upsert's own read found the row                         *)
(* todo     a correction's verdicts still to apply                          *)
(* fresh, judged   history: the row is still as the writer first read it;   *)
(*          the interests its verdicts are about                            *)
(* One override field (place) stands for all of them, interests for the     *)
(* accumulative ones.  A retried task is one more writer.                   *)
(***************************************************************************)
EXTENDS Integers, Sequences, FiniteSets, SequencesExt

CONSTANTS
  Writers,      (* transactions that write the profile                      *)
  Kind,         (* what each writer is: "extract", "edit" or "correct"      *)
  Interests, Places, NoPlace,
  Fold,         (* an interest's key: stripped and case-folded              *)
  Partials,     (* what an extraction or an edit may bring                  *)
  Verdicts,     (* what the judge may answer                                *)
  Replacement, NewPlace,  (* the new text of an "update"                    *)
  Cap,          (* the hard cap on interests                                *)
  NoRow, NoWriter

ASSUME ProfileAssumption ==
  /\ Kind \in [Writers -> {"extract", "edit", "correct"}]
  /\ Fold \in [Interests -> Interests]
  /\ Verdicts \subseteq {"deprecate", "update", "audit_only"}
  /\ Replacement \in Interests /\ NewPlace \in Places /\ NoPlace \notin Places
  /\ Cap \in Nat \ {0} /\ NoWriter \notin Writers
  /\ \A p \in Partials : /\ p.place \in Places \cup {NoPlace}
                         /\ p.interests \in Seq(Interests)
                         /\ p.place # NoPlace \/ p.interests # <<>>

VARIABLES row, lock, draft, pc, copy, found, todo, fresh, judged

vars == <<row, lock, draft, pc, copy, found, todo, fresh, judged>>

Blank == [place |-> NoPlace, interests |-> <<>>, audit |-> <<>>]

(* Path 0 is the override field, path i the i-th interest.                  *)
Paths == 0..Cap

AuditEntry == [path : Paths, old : Interests \cup Places \cup {NoPlace},
               new : Interests \cup Places \cup {NoPlace}, by : Writers]

Blob == [place : Places \cup {NoPlace}, interests : Seq(Interests),
         audit : Seq(AuditEntry)]

ProfileTypeOK ==
  /\ row \in Blob \cup {NoRow}
  /\ lock \in Writers \cup {NoWriter}
  /\ draft \in Blob
  /\ pc \in [Writers -> {"idle", "apply", "upsert", "flush", "commit",
                         "done", "failed"}]
  /\ copy \in [Writers -> Blob]
  /\ found \in [Writers -> BOOLEAN]
  /\ todo \in [Writers -> Seq(Paths \X Verdicts)]
  /\ fresh \in [Writers -> BOOLEAN]
  /\ judged \in [Writers -> SUBSET Interests]

(* The read a transaction makes: its own write, or what is committed.       *)
Sees(w) == IF lock = w THEN draft ELSE row

(* _merge_string_list: union without a key twice, cut at the cap.           *)
AddInterest(list, x) ==
  IF \E i \in DOMAIN list : Fold[list[i]] = Fold[x] THEN list ELSE Append(list, x)

Union(list, new) ==
  LET with[n \in 0..Len(new)] == IF n = 0 THEN list ELSE AddInterest(with[n - 1], new[n])
  IN  with[Len(new)]

(* Mutant: the cap is applied to what comes in, not to the union.           *)
MergeInterestsUncut(list, new) == Union(list, new)

MergeInterests(list, new) ==
  LET all == Union(list, new)
  IN  SubSeq(all, 1, IF Len(all) > Cap THEN Cap ELSE Len(all))

(* merge_profile: only a change made by an edit enters the audit trail.     *)
Merge(blob, p, w) ==
  [place |-> IF p.place = NoPlace THEN blob.place ELSE p.place,
   interests |-> MergeInterests(blob.interests, p.interests),
   audit |-> IF Kind[w] = "edit" /\ p.place \notin {NoPlace, blob.place}
             THEN Append(blob.audit, [path |-> 0, old |-> blob.place,
                                      new |-> p.place, by |-> w])
             ELSE blob.audit]

NewText(path, verdict) ==
  IF verdict # "update" THEN NoPlace
  ELSE IF path = 0 THEN NewPlace ELSE Replacement

(* Mutant: the interest at the end of the list is popped.                   *)
PoppedLast(list, path, new) ==
  IF new = NoPlace THEN Front(list) ELSE [list EXCEPT ![path] = new]

(* An interest is popped, and the new text, if any, takes its place.        *)
Popped(list, path, new) ==
  IF new = NoPlace THEN RemoveAt(list, path) ELSE [list EXCEPT ![path] = new]

(* _apply_profile: clear or replace the field, or pop the interest that is  *)
(* at the index now, and append the change to the audit trail.              *)
Patched(blob, path, verdict, w) ==
  LET old == IF path = 0 THEN blob.place ELSE blob.interests[path]
      new == NewText(path, verdict)
  IN  [place |-> IF path = 0 THEN new ELSE blob.place,
       interests |-> IF path = 0 THEN blob.interests
                     ELSE Popped(blob.interests, path, new),
       audit |-> Append(blob.audit,
                        [path |-> path, old |-> old, new |-> new, by |-> w])]

-----------------------------------------------------------------------------
Init ==
  /\ row = NoRow /\ lock = NoWriter /\ draft = Blank
  /\ pc = [w \in Writers |-> "idle"]
  /\ copy = [w \in Writers |-> Blank]
  /\ found = [w \in Writers |-> FALSE]
  /\ todo = [w \in Writers |-> <<>>]
  /\ fresh = [w \in Writers |-> FALSE]
  /\ judged = [w \in Writers |-> {}]

(* The profile is read and what the writer brings is merged into the copy.  *)
MergeStep(w) ==
  /\ pc[w] = "idle"
  /\ \E p \in Partials :
       copy' = [copy EXCEPT ![w] = Merge(IF row = NoRow THEN Blank ELSE row, p, w)]
  /\ fresh' = [fresh EXCEPT ![w] = TRUE]
  /\ pc' = [pc EXCEPT ![w] = "upsert"]
  /\ UNCHANGED <<row, lock, draft, found, todo, judged>>

(* An extraction that found nothing and an edit without a payload return    *)
(* before they read; neither is a writer.                                   *)
ExtractStep(w) == Kind[w] = "extract" /\ MergeStep(w)
EditStep(w) == Kind[w] = "edit" /\ MergeStep(w)

(* A correction finds the paths that match what the user denies, and the    *)
(* judge gives a verdict on each.  Verdicts are kept in search order, which *)
(* the order of the denied targets decides.                                 *)
SearchStep(w) ==
  /\ pc[w] = "idle" /\ Kind[w] = "correct"
  /\ fresh' = [fresh EXCEPT ![w] = TRUE]
  /\ \/ /\ row = NoRow
        /\ pc' = [pc EXCEPT ![w] = "commit"]
        /\ UNCHANGED <<todo, judged>>
     \/ /\ row # NoRow
        /\ \E hits \in SUBSET ({0} \cup DOMAIN row.interests) :
             /\ 0 \in hits => row.place # NoPlace
             /\ \E verdict \in [hits -> Verdicts] :
                  LET acted == {h \in hits : verdict[h] # "audit_only"}
                  IN  /\ \E order \in SetToSeqs(acted) :
                           todo' = [todo EXCEPT ![w] =
                             [i \in DOMAIN order |-> <<order[i], verdict[order[i]]>>]]
                      /\ judged' = [judged EXCEPT ![w] =
                           {row.interests[h] : h \in acted \ {0}}]
        /\ pc' = [pc EXCEPT ![w] = "apply"]
  /\ UNCHANGED <<row, lock, draft, copy, found>>

(* The applier takes the next verdict and patches the profile it reads now. *)
(* A path that is no longer there is skipped.                               *)
PatchStep(w) ==
  /\ pc[w] = "apply" /\ todo[w] # <<>>
  /\ LET path == Head(todo[w])[1]
         verdict == Head(todo[w])[2]
     IN  IF path > Len(Sees(w).interests)
         THEN UNCHANGED <<copy, pc>>
         ELSE /\ copy' = [copy EXCEPT ![w] = Patched(Sees(w), path, verdict, w)]
              /\ pc' = [pc EXCEPT ![w] = "upsert"]
  /\ todo' = [todo EXCEPT ![w] = Tail(@)]
  /\ UNCHANGED <<row, lock, draft, found, fresh, judged>>

AppliedStep(w) ==
  /\ pc[w] = "apply" /\ todo[w] = <<>>
  /\ pc' = [pc EXCEPT ![w] = "commit"]
  /\ UNCHANGED <<row, lock, draft, copy, found, todo, fresh, judged>>

(* upsert reads the row again, only to choose between INSERT and UPDATE.    *)
UpsertGet(w) ==
  /\ pc[w] = "upsert"
  /\ found' = [found EXCEPT ![w] = Sees(w) # NoRow]
  /\ pc' = [pc EXCEPT ![w] = "flush"]
  /\ UNCHANGED <<row, lock, draft, copy, todo, fresh, judged>>

(* Mutant: every write is committed at once.                                *)
FlushCommitting(w) ==
  /\ pc[w] = "flush" /\ lock \in {NoWriter, w}
  /\ found[w] \/ row = NoRow
  /\ row' = copy[w]
  /\ pc' = [pc EXCEPT ![w] = IF Kind[w] = "correct" THEN "apply" ELSE "commit"]
  /\ UNCHANGED <<lock, draft, copy, found, todo, fresh, judged>>

(* The write waits for another transaction's uncommitted write of the row.  *)
Flush(w) ==
  /\ pc[w] = "flush" /\ lock \in {NoWriter, w}
  /\ found[w] \/ row = NoRow
  /\ lock' = w
  /\ draft' = copy[w]
  /\ pc' = [pc EXCEPT ![w] = IF Kind[w] = "correct" THEN "apply" ELSE "commit"]
  /\ UNCHANGED <<row, copy, found, todo, fresh, judged>>

(* An INSERT that finds the row made meanwhile breaks the primary key; the  *)
(* task fails and is not retried.                                           *)
InsertConflict(w) ==
  /\ pc[w] = "flush" /\ lock = NoWriter
  /\ ~found[w] /\ row # NoRow
  /\ pc' = [pc EXCEPT ![w] = "failed"]
  /\ UNCHANGED <<row, lock, draft, copy, found, todo, fresh, judged>>

Commit(w) ==
  /\ pc[w] = "commit"
  /\ IF lock = w
     THEN /\ row' = draft /\ lock' = NoWriter
          /\ fresh' = [v \in Writers |-> fresh[v] /\ draft = row]
     ELSE UNCHANGED <<row, lock, fresh>>
  /\ pc' = [pc EXCEPT ![w] = "done"]
  /\ UNCHANGED <<draft, copy, found, todo, judged>>

(* Mutant: the dead writer's transaction is left open.                      *)
AbortKeepingLock(w) ==
  /\ pc[w] \notin {"done", "failed"}
  /\ pc' = [pc EXCEPT ![w] = "failed"]
  /\ UNCHANGED <<row, lock, draft, copy, found, todo, fresh, judged>>
(* The writer fails or its process dies, and its transaction is undone.     *)
Abort(w) ==
  /\ pc[w] \notin {"done", "failed"}
  /\ lock' = IF lock = w THEN NoWriter ELSE lock
  /\ pc' = [pc EXCEPT ![w] = "failed"]
  /\ UNCHANGED <<row, draft, copy, found, todo, fresh, judged>>

Step(w) ==
  \/ ExtractStep(w) \/ EditStep(w)
  \/ SearchStep(w) \/ PatchStep(w) \/ AppliedStep(w)
  \/ UpsertGet(w) \/ Flush(w) \/ InsertConflict(w) \/ Commit(w)

Next == \E w \in Writers : Step(w) \/ Abort(w)

(* A started writer goes on; nothing promises that one starts, or aborts.   *)
ProfileSpec ==
  /\ Init
  /\ [][Next]_vars
  /\ \A w \in Writers : WF_vars(pc[w] # "idle" /\ Step(w))

-----------------------------------------------------------------------------
(* The interests stay under the cap, and two of them share a key only where *)
(* a correction's new text, which is not compared with the list, brought    *)
(* one in.  (merge_profile cuts and compares; the applier does neither.)    *)
InterestsSane ==
  row # NoRow =>
    /\ Len(row.interests) <= Cap
    /\ \A i, j \in DOMAIN row.interests :
         i < j /\ Fold[row.interests[i]] = Fold[row.interests[j]] =>
           \E e \in Range(row.audit) :
             e.new \in Interests /\ Fold[e.new] = Fold[row.interests[i]]

(* A correction is all or nothing: what is committed carries no audit entry *)
(* of a writer that has not committed, or that failed half way through its  *)
(* verdicts.  (One session and one commit per correction.)                  *)
NothingHalfDone ==
  row # NoRow => \A e \in Range(row.audit) : pc[e.by] = "done"

(* What a commit may do to the blob it replaces: it takes away only         *)
(* interests its own verdicts were about, names each in the audit trail,    *)
(* and keeps the trail that was there.                                      *)
KeepsTheRest(w) ==
  /\ IsPrefix(row.audit, row'.audit)
  /\ \A x \in Range(row.interests) \ Range(row'.interests) :
       /\ x \in judged[w]
       /\ \E i \in DOMAIN row'.audit :
            i > Len(row.audit) /\ row'.audit[i].old = x

Replaces(w) == Commit(w) /\ row # NoRow /\ row' # row

(* A writer during which nobody else changed what is committed, and which   *)
(* applied at most one verdict, loses nothing it was not asked to remove,   *)
(* whatever the others have in hand.  (profile_repo.upsert writes the whole *)
(* blob.)  That the row looks as it did would not do: a stale writer may    *)
(* have put an earlier value back.                                          *)
FreshWriterKeepsTheRest ==
  [][\A w \in Writers :
       Replaces(w) /\ fresh[w] /\ Len(row'.audit) <= Len(row.audit) + 1
         => KeepsTheRest(w)]_vars

(* Every writer that starts ends, whatever it waits for: the row's lock is  *)
(* the only one these transactions take here, and its holder does not wait. *)
WritersEnd ==
  \A w \in Writers : pc[w] # "idle" ~> pc[w] \in {"done", "failed"}

(* What the documents promise.  "Concurrent writes no longer damage one     *)
(* another" (10-Lessons-Learned.md:436, and the reason the applier gives    *)
(* for taking no lock): no commit takes away what an earlier one put there. *)
ConcurrentWritesKeepTheRest ==
  [][\A w \in Writers :
       Replaces(w) /\ Kind[w] # "correct" => KeepsTheRest(w)]_vars

(* "No memory is deleted that the user did not mean" (06-Subsystem-         *)
(* Correction.md:16): a correction that nobody else interleaves with        *)
(* removes only the interests it judged.                                    *)
CorrectionRemovesOnlyJudged ==
  [][\A w \in Writers :
       Replaces(w) /\ Kind[w] = "correct" /\ fresh[w] => KeepsTheRest(w)]_vars
=============================================================================
