---------------------------- MODULE SyntheticLab ----------------------------
(***************************************************************************)
(* The synthetic evaluation: a run drives every case of a set through the   *)
(* router, the composer with an empty memory, and the chat model, scores    *)
(* the outcome, and keeps a report in a file.  Runs of several callers      *)
(* interleave at every await.  All of them route as one user, so that they  *)
(* share that user's intent cache for as long as its entries live.  Texts   *)
(* are abstracted to the words the expectations are about.                  *)
(*                                                                         *)
(* runs    per run: the case it is at, the route of that case, its results  *)
(* cache   the entries of the intent cache; "fallback" tells one that the   *)
(*         model did not give                                               *)
(* files   per run: its report, or "none", "torn"                           *)
(***************************************************************************)
EXTENDS IntentRouter

CONSTANTS
  RunIds,
  Cases,        (* the sequence of cases of the set                         *)
  Words,        (* what expectations are about                              *)
  Prompt,       (* by intent, the words of the first part of the prompt     *)
  Verdicts,     (* the intents the classifier's model may give              *)
  MaxFaults

ASSUME SyntheticAssumption ==
  /\ Prompt \in [Intent -> SUBSET Words]
  /\ Verdicts \subseteq Intent
  /\ MaxFaults \in Nat
  /\ \A k \in DOMAIN Cases :
       /\ Cases[k].message \in Messages
       /\ Cases[k].before \in Seq({"user"} \X Messages \cup {"assistant"} \X Texts)
       /\ Cases[k].intents \cup Cases[k].optional \subseteq Intent
       /\ \A needed \in {"history", "needs", "contains", "forbids", "unprompted"} :
            Cases[k][needed] \subseteq Words

VARIABLES runs, cache, files, faults

synVars == <<runs, cache, files, faults>>

NoRoute == [intent |-> "none", source |-> "none", stale |-> FALSE]
NotRun == [pc |-> "idle", route |-> NoRoute, results |-> <<>>]

SynInit ==
  /\ runs = [r \in RunIds |-> NotRun]
  /\ cache = <<>>
  /\ files = [r \in RunIds |-> [kind |-> "none", results |-> <<>>]]
  /\ faults = 0

Case(r) == Cases[Len(runs[r].results) + 1]

Fault == faults < MaxFaults /\ faults' = faults + 1

-----------------------------------------------------------------------------
(* The five checks of check_case.  What a case needs may stand in its own   *)
(* history, in the reply or in the prompt.                                  *)
Met(c, o) ==
  /\ c.intents = {} \/ o.intent \in c.intents \cup c.optional
  /\ c.needs \subseteq c.history \cup o.reply \cup o.prompt
  /\ c.contains \subseteq o.reply
  /\ c.forbids \cap o.reply = {}
  /\ c.unprompted \cap o.prompt = {}

(* check_case: and there was no error.                                      *)
Passed(c, o) == Met(c, o) /\ ~o.error

(* The next result of run r.                                                *)
Scored(r, o) ==
  runs' = [runs EXCEPT ![r].pc = IF Len(runs[r].results) + 1 = Len(Cases) THEN "save" ELSE "route",
                       ![r].route = NoRoute,
                       ![r].results = Append(@, [passed |-> Passed(Case(r), o),
                                                 error |-> o.error,
                                                 stale |-> runs[r].route.stale])]

(* ChatBackedSyntheticRunner reports any exception as an outcome.           *)
ErrorOutcome == [intent |-> "none", reply |-> {}, prompt |-> {}, error |-> TRUE]

-----------------------------------------------------------------------------
(* start_synthetic: a set that does not load is answered with 404.          *)
StartRun(r) ==
  /\ runs[r].pc = "idle" /\ \A o \in RunIds : o < r => runs[o].pc # "idle"
  /\ \/ runs' = [runs EXCEPT ![r].pc = "route"] /\ UNCHANGED faults
     \/ runs' = [runs EXCEPT ![r].pc = "done"] /\ Fault
  /\ UNCHANGED <<cache, files>>

Routes(r, pc, intent, source, stale) ==
  runs' = [runs EXCEPT ![r] =
             [pc |-> pc, route |-> [intent |-> intent, source |-> source, stale |-> stale],
              results |-> @.results]]

KeyOf(c) == CacheKey(c.before, c.message)

(* MemoryRouter.route: a hard rule, or the cache, or the classifier.        *)
RouteCase(r) ==
  LET c == Case(r)
  IN  /\ runs[r].pc = "route"
      /\ IF Matching(c.message) # {} THEN Routes(r, "stream", HardIntent(c.message), "hard_rule", FALSE)
         ELSE IF KeyOf(c) \in DOMAIN cache
         THEN Routes(r, "stream", cache[KeyOf(c)].intent, "cache", cache[KeyOf(c)].fallback)
         ELSE Routes(r, "classify", "none", "none", FALSE)
      /\ UNCHANGED <<cache, files, faults>>

Cached(key, entry) ==
  [k \in DOMAIN cache \cup {key} |-> IF k = key THEN entry ELSE cache[k]]

(* The model's answer is cached.                                            *)
ClassifyCase(r) ==
  /\ runs[r].pc = "classify"
  /\ \E intent \in Verdicts :
       /\ Routes(r, "stream", intent, "small_model", FALSE)
       /\ cache' = Cached(KeyOf(Case(r)), [intent |-> intent, fallback |-> FALSE])
  /\ UNCHANGED <<files, faults>>

(* Mutant: so is the fallback.                                              *)
FallbackCached(r) ==
  /\ runs[r].pc = "classify" /\ Fault
  /\ Routes(r, "stream", "casual", "fallback", FALSE)
  /\ cache' = Cached(KeyOf(Case(r)), [intent |-> "casual", fallback |-> TRUE])
  /\ UNCHANGED files

(* The model fails: the case goes on with a fallback, which is not cached.  *)
Fallback(r) ==
  /\ runs[r].pc = "classify" /\ Fault
  /\ Routes(r, "stream", "casual", "fallback", FALSE)
  /\ UNCHANGED <<cache, files>>

(* The chat model streams a reply to its end.                               *)
StreamCase(r) ==
  /\ runs[r].pc = "stream"
  /\ \E reply \in SUBSET Words :
       Scored(r, [intent |-> runs[r].route.intent, reply |-> reply,
                  prompt |-> Prompt[runs[r].route.intent], error |-> FALSE])
  /\ UNCHANGED <<cache, files, faults>>

(* Routing, composing or streaming raises.                                  *)
CaseFails(r) ==
  /\ runs[r].pc \in {"route", "classify", "stream"} /\ Fault
  /\ Scored(r, ErrorOutcome)
  /\ UNCHANGED <<cache, files>>

(* build_report and save_report; a save that fails is not an error.         *)
SaveReport(r) ==
  /\ runs[r].pc = "save"
  /\ runs' = [runs EXCEPT ![r] = [NotRun EXCEPT !.pc = "done"]]
  /\ \/ files' = [files EXCEPT ![r] = [kind |-> "whole", results |-> runs[r].results]]
        /\ UNCHANGED faults
     \/ UNCHANGED files /\ Fault
  /\ UNCHANGED cache

DeleteReport(r) ==
  /\ files[r].kind # "none"
  /\ files' = [files EXCEPT ![r] = [kind |-> "none", results |-> <<>>]]
  /\ UNCHANGED <<runs, cache, faults>>

(* The entry's time is over.                                                *)
ExpireCase(key) ==
  /\ key \in DOMAIN cache
  /\ cache' = [k \in DOMAIN cache \ {key} |-> cache[k]]
  /\ UNCHANGED <<runs, files, faults>>

(* The process dies; Redis keeps the cache, a report being written is torn. *)
CrashOfRuns ==
  /\ Fault
  /\ runs' = [r \in RunIds |-> IF runs[r].pc = "idle" THEN runs[r]
                               ELSE [NotRun EXCEPT !.pc = "done"]]
  /\ \/ UNCHANGED files
     \/ \E r \in RunIds : runs[r].pc = "save" /\
          files' = [files EXCEPT ![r] = [kind |-> "torn", results |-> <<>>]]
  /\ UNCHANGED cache

SynNext ==
  \/ \E r \in RunIds :
       StartRun(r) \/ RouteCase(r) \/ ClassifyCase(r) \/ Fallback(r) \/ StreamCase(r)
         \/ CaseFails(r) \/ SaveReport(r) \/ DeleteReport(r)
  \/ \E k \in DOMAIN Cases : ExpireCase(KeyOf(Cases[k]))
  \/ CrashOfRuns

SynSpec == SynInit /\ [][SynNext]_synVars

-----------------------------------------------------------------------------
(* A case that passes was answered to the end, even if it only forbids, and *)
(* no result was scored with an intent that an outage of the classifier, in *)
(* this run or another, had left in the cache ("only cache real model       *)
(* outputs").  A case during whose own routing the classifier fails is      *)
(* scored with the fallback, and passes if that is what it expects.         *)
PassIsEarned ==
  \A r \in RunIds : \A results \in {runs[r].results, files[r].results} :
    \A k \in DOMAIN results :
      /\ ~results[k].stale
      /\ results[k].passed => ~results[k].error
=============================================================================
