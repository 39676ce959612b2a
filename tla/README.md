# MindEngine: a verification development

TLA+ models of MindEngine's backend (`src/backend/app`), the TLC runs that check
them on small instances, and TLAPS proofs of the results that matter most for
every value of the constants. Paths below are relative to `src/backend/app`
unless they start with `docs/`, `scripts/` (`src/backend/scripts`) or
`frontend/` (`src/frontend/src`).

## 1. The system

MindEngine is a companion chat. A turn streams an LLM's answer to the browser
(SSE), saves question and answer, and hands one background task to Celery
workers, which distil the turn into a four-layer memory (profile, events,
episodic facts, relationships). When the user says "that is wrong", the turn is
routed as a *correction* and a different task searches the memory, judges what it
finds, soft-deletes it and bans the entity.

| Component | State it keeps | Operations | Hard behaviour |
|---|---|---|---|
| Chat turn: `services/chat/orchestrator.py`, `api/chat.py`, `infra/db/session.py` | an async generator, one database session per request, detached asyncio tasks | ensure conversation, insert question, route, load, compose, stream, guard, insert answer, publish | the client leaves at any await; a persister outlives the request that owns its session; commit after the response |
| Task queue: `workers/celery_app.py`, `infra/tasks/` | Redis lists, unacknowledged messages | publish, deliver, acknowledge, retry | late acknowledgement: redelivery after a lost worker; retries with a bound |
| Extraction: `workers/tasks_after_chat.py`, `workers/runners.py`, `services/memory_extract/` | one transaction per run | fan-out, load turn, extract, filter bans, deduplicate, insert | runs of several turns side by side; a task may overtake its turn's commit |
| Correction: `workers/tasks_correction.py`, `services/correction/` | audit rows, bans, soft-deletion marks | extract targets, search four layers, judge, apply | races the extraction of earlier turns; a candidate limit |
| Profile layer: `infra/repositories/profile_repo.py`, `profile_merger.py` | one JSON row per user | read, merge, write whole | lost updates, list indexes that go stale |
| Relationship layer: `relationship_repo.py`, `runners.py:307-432` | rows linked by `via` | order a batch, upsert by name | cycles, duplicates by name |
| Router and intent cache: `services/memory_router/`, `infra/cache/` | a map from keys to intents, with expiry | hard rules, cache, classifier, policy | stale intents, keys that trim and join, outages remembered |
| Context loader and composer: `services/memory_context/loader.py`, `prompt_composer/` | none | up to six reads, filter, pick, sections | the memory changes between the reads |
| Contract guard: `services/contract_guard/enforcer.py` | none | strip a closing question, truncate | boundaries |
| Conversations: `conversation_repo.py`, `api/conversations.py` | rows | create, title, touch, archive, list | a turn holds its row until its stream ends |
| Accounts: `services/auth/`, `scripts/reset_password.py` | user rows | register, log in (and renew the hash), change, reset | look, then write |
| Memory editing API: `api/memory.py` | the memory's rows | delete, ban, patch | beside turns and workers |
| Web client: `frontend/stores/chat.ts`, `frontend/views/ChatView.vue` | list, active id, turns, the sending flag | mount, select, create, drop, send | several requests outstanding, answers in any order |
| Chat audit: `services/eval_chat_review/`, `api/eval.py` | a JSON file per conversation | pair turns, judge, store, delete | beside turns, bans, crashes |
| Synthetic evaluation: `services/eval_synthetic/` | a JSON file per run, the router's cache | run a case set, score, report | runs share one user's cache; outages |
| Deduplication: `scripts/dedup_memories.py` | none of its own | dry and real sweeps over two layers | similarity is not transitive, the vector search approximate; the application goes on |
| LLM clients, schema, migrations, self-tests, other views | see `PROJECT.json` | | |

How they interact: the browser calls the SSE endpoint; the orchestrator calls
router, loader, composer, LLM and guard within the request's task; it publishes
through `CeleryDispatcher` in a thread; the workers know the turn only by its id
and read it back from PostgreSQL. Chat process and workers share nothing but the
database (READ COMMITTED) and the broker. The web client knows the server by its
answers only. The evaluation lab reads what the chat process has stored, routes
its own cases through the same router and the same intent cache, and keeps files.

What makes each part correct:

- **Chat turn**: a turn becomes visible in one transaction and is never taken
  back; no answer without its question; at most one task, of the right kind;
  every turn ends, and one that detached nothing returns its connection.
- **Task queue**: what is published is acknowledged in the end, although runs
  fail, are retried, or die.
- **Extraction**: what is remembered was said in a turn that is saved; runs that
  follow one another do not repeat an event that their search looks at; what is
  banned is not learned again.
- **Correction**: nothing is soft-deleted without an audit row that justifies it;
  what a correction banned does not come back.
- **Profile**: no writer's accepted change disappears; a correction is all or
  nothing and hits the entry it judged; the list of interests stays bounded.
- **Relationships**: whoever a batch introduces through somebody else is linked,
  in whatever order the answer came; nobody is their own middleman; a link that
  is known stays.
- **Router**: a denial is heard as a correction; a cached intent was the model's
  answer under the same key, and keys tell plain questions apart; an outage is not
  remembered.
- **Loader and composer**: what was forgotten before a load is not in its pools;
  a sensitive turn does not quote memories.
- **Guard**: a reply keeps its personality's contract but for the named limits.
- **Conversations**: nobody waits in a circle; titles and archives are kept.
- **Web client**: the input comes back; the messages shown are those of the
  conversation that is marked.
- **Accounts**: one account for an address; the password in force was chosen.
- **Chat audit**: a reply is judged with its own question and with the bans it was
  composed under; the rules agree with the composer, and blame has a cause.
- **Synthetic evaluation**: what an outage left behind scores nothing, what failed does not pass.
- **Deduplication**: a duplicate's keeper survives; of events, a dry run tells the truth.

## 2. Modules

| Module | Models |
|---|---|
| `TurnContract` | abstract specification: what the database and the broker see of a turn |
| `ChatTurn` | the turn inside the API process; implements `TurnContract` |
| `MCChatTurn` | two turns, two intents |
| `ChatTurnProofs` | theorems about `ChatTurn` |
| `TaskQueue` | the broker as the workers use it |
| `MemoryTasks` | the workers; composes `TurnContract` (the chat side), `TaskQueue` and the episodic and event layers |
| `MCMemoryTasks` | one turn that says a fact, then a correction that denies it |
| `MemoryTasksProofs` | theorems about `MemoryTasks` |
| `ProfileBlob` | the writers of the profile row: extraction, editor, correction |
| `MCProfileBlob` | one writer of each kind, three interests |
| `ProfileBlobProofs` | theorems about `ProfileBlob` |
| `IntentRouter` | hard rules, what the classifier is asked, what the cache key is made of, the policy: operators |
| `MemoryContext` | the loader's filters and tags, the composer's picks and sections: operators |
| `ContractGuard` | stripping and truncation over sequences of marks: operators |
| `TurnReview` | the audit's rules, verdict and attribution: operators |
| `Reply` | a turn from message to stored reply; composes the four modules above with the edits of a user's memory |
| `MCReply` | six items in all five layers, five messages, two personalities |
| `ReplyProofs` | theorems about `Reply` and about what the audit says of it |
| `Conversations` | the server's conversation requests and their transactions |
| `ChatStore` | the web client; composes itself with `Conversations` and another device |
| `Accounts` | registration, login, passwords |
| `WorkspaceProofs` | theorems about `Conversations`, `ChatStore` and `Accounts` |
| `MCWorkspace` | the instances of `ChatStore` and `Accounts` |
| `RelationshipGraph` | relationship batches and seedings |
| `Dedup` | deduplication sweeps |
| `EvalLab` | chat audits of a conversation |
| `SyntheticLab` | synthetic runs over the shared cache |
| `LabProofs` | theorems about `EvalLab` and `SyntheticLab` |
| `UpkeepProofs` | theorems about `RelationshipGraph` and `Dedup` |
| `Induction` | induction over numbers as lemmas the provers can use: the least number of a set, functions defined by recursion |
| `MCUpkeep` | the instances of the four modules above |

### ChatTurn

One action for each stretch between two awaits at which something else can
happen. `phase` is the program counter of the generator and of the request that
owns it. `tx`, `flushed`, `durable` are the request's transaction: rows are
*flushed* into it and become *durable* at `Commit`, which is the
`session.commit()` of `session_scope`, after the response is over. `bg` is the
program counter of the detached persister. `sent` counts published tasks.

| Action | Code |
|---|---|
| `Begin`, `BeginFails` | `stream_chat` up to `list_history` |
| `Compose`, `ComposeFails` | router, loader, composer; the `compose_failed` return |
| `Token`, `StreamEnds` | the `async for`; end or `LLMError`, then `finally` |
| `InsertAssistant`, `InsertFails`, `Dispatch` | `_do_persist_and_dispatch`, awaited inline |
| `LeaveRouting` ... `LeaveSending` | `CancelledError` at each await |
| `LeaveAtPing` | the response is cancelled while it sends a heartbeat: `next_evt` is not cancelled (`api/chat.py:94-108`) and runs on alone |
| `BgStart`, `BgInsertAssistant`, `BgTouch`, `BgInsertFails`, `BgDispatch` | the task made at `orchestrator.py:247` |
| `Collect` | the session is garbage collected and its connection terminated |
| `Commit`, `Rollback` | `session_scope`; `commit()` is refused while another task flushes on the same session |
| `Crash` | the API process dies |

Session behaviour is that of SQLAlchemy's `AsyncSession`: closing a session
leaves it usable, so a late INSERT begins a new transaction, which nobody
commits or closes: `late` says that it is open, and it keeps a pooled connection
until the collector takes the session (`Collect`), whenever that is. `pyproject.toml` asks for `fastapi>=0.115` and pins nothing: a build of
today takes a version from 0.118 on, in which the exit code of a `yield`
dependency runs after the response has been sent, and that is what the model says.
(In 0.106 to 0.117 it runs before the body is streamed; that program is not
modelled.)

### TaskQueue and MemoryTasks

A message is `absent`, `ready`, `running` or `done`. `WorkerLost` has the two
outcomes of `task_acks_late` without `task_reject_on_worker_lost`: delivered
again, or acknowledged by the pool's parent and lost. Redis' visibility timeout
(one hour) is taken to exceed every run, so one message is never run by two
workers at a time; a retry's publish and acknowledgement are one step.

A run is a sequence of steps, one per database read and one for its commit,
because READ COMMITTED lets every read see what others committed just before.
`Receive` is the delivery; `FanOut` publishes one message per layer; `Skip` is
`message_not_found`; `LoadForExtract`/`LoadForCorrection` read the turn and call
the LLM; `ReadBans`, `Consider` (`Drop` or `Add`), `CommitRows` are
`run_extract_episodic` and `run_extract_event`; `ScanEpisodic`, `ScanEvents`,
`ApplyCorrection` are `run_correction_cleanup`. `Fails` is any exception,
`FailsTransiently` the only transient LLM error that reaches a task (the
embedder's, in `EpisodicRepo.add`), `Killed` the loss of the worker. `Forget` is
what a rollback and the end of a run leave: nothing.

Abstractions, all named in the module: a fact is a model value with the set of
entities it mentions, so "contains the banned substring" is set intersection; which
facts a search takes for which is the relation `Alike`, of each layer its own and
not assumed symmetric or transitive. The event search (`Compared`) looks at the latest
`EventLimit` active rows of the type (`TypeOf`) that are not older than the window of
days (`aged`, `DaysPass`). The episodic search asks an HNSW index, which answers
approximately and is filtered afterwards: it may miss any row. A correction looks
through the latest `ScanLimit` rows of a layer. The LLM returns any subset of what a turn
says, any verdicts, any bans that survive cleaning; `Found` counts the messages
of later turns against the window of `MessageLimit`. The profile and relationship
layers are not in this module.

### ProfileBlob

`row` is the committed blob; `lock` and `draft` the one uncommitted write that
can exist (the UPDATE or INSERT takes the row's lock until commit). A writer's
own reads see its draft, everybody else's see `row`: READ COMMITTED.
`ProfileRepo.get` returns a copy and keeps no row object alive, so every read goes
to the database.

| Action | Code |
|---|---|
| `ExtractStep`, `EditStep` | `run_extract_profile` and `patch_profile` up to `upsert`: `get`, then `merge_profile` (`MergeStep`) |
| `SearchStep` | `_scan_profile` and the judge's verdicts |
| `PatchStep`, `AppliedStep` | `_apply_profile` for the next verdict, on the profile as it is read then |
| `UpsertGet`, `Flush`, `InsertConflict` | the two awaits of `ProfileRepo.upsert` |
| `Commit`, `Abort` | the one commit of the session; any failure before it |

One override field (`place`) stands for the eight, since they are merged and
patched alike. `Fold` is the case-folding of interests. An audit entry carries,
as history, the writer it is by; `fresh` and `judged` are history too. `fresh[w]` says
that the committed row has not changed since `w` first read it. (To compare the row's
value with the one read would not do: a stale writer may put an earlier value back,
and then a writer whose value matches still erases a change. Five writers reach this.) Verdicts
come in any order, because the order of the denied targets decides it, and
the candidates are fewer than the candidate limit. The profiles that evaluation
personas are seeded with are left out: a profile starts absent.

### Reply and the operators it composes

`pc` is the turn's next await: `idle`, `route`, `classify`, one for each read of
the loader, `stream`. `turn` is what the turn has in hand, `stored` the last turn
of the conversation as an audit would pack it, `hist` as much of the conversation
as the classifier's window and the cache key look at. `cache`, `active`, `dead`,
`deprecated` and `banned` are the user's cache and memory. `answered` is history:
what the model really answered to which message after which history.

| Action | Code |
|---|---|
| `Start` | `stream_chat` up to the route |
| `RouteByRule`, `RouteFromCache`, `Classify`, `ClassifyFails` | `MemoryRouter.route`: hard rules, cache, model, fallback |
| `Load(k)` | the k-th read of `MemoryContextLoader.load` (its own statement under READ COMMITTED), the last one is `PromptComposer.compose` |
| `ComposeFails` | an exception before the stream: `compose_failed` |
| `Finish` | the stream ends or fails; guard, placeholder, stored row |
| `Expire` | a cache entry's five minutes are over |
| `DeleteEpisodic`, `AddBanned` | `api/memory.py` |
| `Correct`, `Learn` | what the workers commit meanwhile; their own steps are `MemoryTasks`' |

The cache key is made as `make_cache_key` makes it: the last `KeyTurns` turns and the
message, each a line "role:content" trimmed and joined with nothing escaped. `ReadsAs`
says which entries a user's content reads as in that text: one of its trimmed content,
or several when a line of it begins like an entry (`Parts`, `Joined`). A reply is taken
to have no such line, and the hash not to collide. What the classifier is asked
(`Question`) has the contents as they are and a window of its own (`AskedTurns`).
`WindowAssumption` says that the key looks as far back as the classifier does; in the
code both windows are 2. So two questions may share a key, and
`CacheAnswersTheQuestion` says when they say the same.

A message is the set of hard-rule patterns it matches and the words it says; a
text is a sequence of marks: words, sentence ends, closing brackets. The order in
which a query returns rows is left open (`FirstOf`), so the limits may cut
anything. `TurnReview` keeps each rule of the audit as a line of a record.
`ReviewAssumption` states that a short reply is shorter than every contract's
maximum (6 against 200 and more), for which reason `Placeholder`, the seven
characters of "(empty)", is neither short nor too long.

### Conversations and ChatStore

`req` holds the requests in the order they were sent, with their transaction's
progress; `lock` tells who has an uncommitted write of a conversation's row, or of
its key when the row is not there yet. A finished request nobody waits for is
forgotten (`Over`, `Remembered`), which only makes states equal that no action can
tell apart. `list_messages` needs no action of its own on the server: a row that
is there stays, so its answer may be read when it arrives. A row is inserted by a first
turn, or on request without a title (`create`) or with one (`named`).

`ChatStore` adds the browser: `waits` holds one record for every request an
action of the store awaits, with what its answer resumes. `Mount`,
`NewConversation`, `Select`, `DropConversation`, `Send` are the user; `OnMount`,
`OnMounted` (the rest of `onMounted`, which begins a conversation when everything was
dropped meanwhile), `OnCreated`, `OnView`, `OnDropped`, `OnStream`, `OnReload`, `OnTitles`
what stands after the awaits; `Rejected` an await that throws. `Elsewhere` is another device of
the same user, which also creates conversations with an id, and perhaps a title, of its own choice, as
the API allows. The list's limit of 50 conversations is not reached.

### Accounts

`asks` are requests, each a look at the users followed by a write: `FindFree`,
`InsertUser`, `CommitUser`; `Login` (and the write of a renewed hash);
`ChangePassword`; `ResetPassword` from `scripts/reset_password.py`. An INSERT waits
for an uncommitted one of the same address and fails when that commits. A hash
stands for its password. Nothing in the repository deactivates an account, so the check
of `is_active` is left out.

### RelationshipGraph

`people` are the committed rows, a batch is one run of the relationship task:
`BeginBatch` has the LLM's answer, validated, without duplicates and in the order
of `MiddlemenFirst` (`_topo_sort_relationship_candidates`), kept as the set of
candidates still to do: first those whose middleman is not in the batch (`Outer`), then
in passes those whose middleman is done (`Ready`), then the rest; `LookUp` and `Upsert`
alternate, one candidate at a time; `CommitBatch` or `BatchFails` ends it.
`SeedPersona` is the evaluation's seeding, which inserts without looking and,
unlike `api/eval.py:341` says ("Wipe & re-seed"), wipes nothing
(`persona_seed.py:129`). A name is one value: the code trims it when it sorts and not
when it looks up, so that a name padded with white space loses its link; the model
takes it for another name. `alone` is history: no other batch was open meanwhile.

### Dedup

Rows are numbered by `(created_at, id)`, what they are like is chosen at the start
and never changes. `ReadRows` reads the rows, of the event layer those within the window
of days; then each row in turn is looked at: `Search` is the episodic sweep's search, through an
approximate index whose answer is filtered afterwards by user, status and time: the hit
is any similar earlier row, or none although there is one. `like` is the relation "as
similar as the threshold asks", symmetric and not transitive. `PlanRow` is one row of the loop of `plan_event_dedup`. `pairs` holds each deprecated
row with its keeper; `EndSweep` commits or, dry, rolls back. `Other` and `DaysPass` are the application
and the calendar.

### EvalLab and SyntheticLab

`EvalLab`: turns write their messages when they end, with the times at which they
began and ended (in the code the reply gets its time when it is inserted, and is visible
from the commit right after the response: one step here); an audit is two reads and a file; `Packed` is `_build_turns`.
`SyntheticLab`: `RouteCase`, `ClassifyCase`, `Fallback`, `StreamCase`,
`CaseFails` take a run through its cases, `SaveReport` ends it. The key of a case is the
router's `CacheKey` of its history and message. Both have a crash
that may tear the file being written. The numbers of turns, audits and runs are
names: they start in order to save states.

## 3. Runs

| Run | Question | Result |
|---|---|---|
| `chat_turn` | two concurrent turns, every departure, database failures, one crash: type, `AnswerHasQuestion`, `OneTaskPerTurn`, `TurnTerminates`, refinement of `TurnContract` | holds, 69 938 states |
| `chat_detached_answer` | is the answer saved when the client leaves? (`DetachedAnswerSaved`) | violated without any failure |
| `memory_tasks` | extraction against correction with retries, a scrolled window, both kinds of verdict: type, `RetractionJustified`, `MemoryHasSource`, `BannedNotRelearned`, `QueuesDrain` | holds, 113 235 states |
| `memory_redelivery` | a worker is lost at any point and events grow old: `NoSequentialDuplicate`, `QueuesDrain` | holds, 275 260 states |
| `memory_skip` | is a skipped turn really unsaved? (`SkippedMeansUnsaved`) | violated |
| `memory_rewrite` | does a corrected fact stay gone? (`CorrectedStaysGone`) | violated |
| `profile_blob` | an extraction, an edit and a correction with a batch of verdicts, failing anywhere: type, `InterestsSane`, `NothingHalfDone`, `FreshWriterKeepsTheRest`, `WritersEnd` | holds, 26 971 states |
| `profile_concurrent` | do concurrent writers leave each other's work alone? (`ConcurrentWritesKeepTheRest`) | violated |
| `profile_wrong_interest` | does a lone correction remove only what it judged? (`CorrectionRemovesOnlyJudged`) | violated |
| `reply` | two turns of any message in a conversation or two, routed by rule, cache or model, while a memory is deleted, banned, corrected or learned between any two reads: type, `CacheAnswersTheQuestion`, `CorrectionsAreHeard`, `ForgottenStaysForgotten`, `PainIsNotQuoted`, `StructureHolds`, `ContractKept`, `BlameHasACause` | holds, 1 931 592 states |
| `workspace` | the web client against the server and another device, any answer overtaking any other, one failure: `NoWaitInCircle`, `SettledViewIsActive`, `SendingIsAwaited`, `TitleKept`, `ArchivedStays`; accounts: `OneAccountPerEmail`, `OnlyChosenPasswords` | holds, 1 598 115 states |
| `upkeep` | relationship batches: `NeverOwnMiddleman`, `ChainLinked`, `ViaStays`; sweeps: `KeeperSurvives`, `SweepsAgree`; audits: `PairedWithOwn`, `BansJudged`; synthetic runs: `PassIsEarned` | holds, 4 027 347 states |

`workspace` and `upkeep` each check parts that share no state. A variable
`focus`, chosen at the start, says which part a behaviour is of; the others stay
in their initial state, so the states are the sum of the parts' and not their
product.

Bounds. `chat_turn`: turns touch each other only through crashes, so two suffice;
`MaxCrashes` 1 reaches a crash at every point. `memory_tasks` has two turns,
one fact and one entity; `memory_redelivery` has one turn that says two facts which the
event search takes for one another, so that the second must find the first of the same
run, and a redelivery or a second copy both; `EventLimit` 2 is just passed when one of
them is learned again after it has grown old. Each property relates one fact, at most one run that
wrote it, one run that repeats it and one correction. `MessageLimit` 3 makes the
first turn scroll out when both exchanges are saved; 12, the code's value, keeps
it in. `CandidateLimit` 2 is enough to hold both rows of a fact; the proofs cover
every limit. `MaxRetries` 1 and `MaxLosses` 1 reach "again" and "no more". The
two are used in different runs to keep each within minutes; the proofs cover the
combination. A second copy of a fan-out needs the `after_chat` message to be
redelivered, which `MaxLosses` 1 gives.

The profile runs have one writer of each kind that matters: a lost update needs
two, a conflict on first insertion two, a stale index a correction and one more.
The cap is 2, below the four interests an extraction offers, so the cut happens;
`profile_wrong_interest` has cap 3, because the shifted index must still
exist. Verdicts of all three kinds occur in `profile_blob`.

`reply`: the second turn is the first that can meet a cache entry, a stored turn
before it, or a correction before it; one edit suffices for each property that
speaks of something forgotten before a load, since an edit before the load and
one between two reads are different runs of the same model, and the proofs cover
any number. The items have one row in each layer and a second, not yet learned,
episodic one with the other spelling of a name; what may be banned is one of the two.
The replies are: none; short and
generic; a closing question after a sentence; a question behind a bracket and
another one; one longer than every budget, with a word of the failure patterns.
The budgets of 3 and 4 marks make cuts and the ellipsis happen. Of the messages, one is
another one with white space after it, and one holds a line that reads like another
entry, so that two different questions do share a key. Both windows are 1 turn here.

`workspace`: two conversations are what a switch needs; the three user actions
allow mounting, sending, and selecting, dropping or creating while the answer is
outstanding; the one surprise is a failure or an action of the other device. (A
second surprise does not finish within minutes; the proofs cover any number.) Accounts: three requests are a registration,
a login and a change, or two registrations of one new address in two spellings
beside a login; of a finished request only its number is kept.

`upkeep`: the first batch names up to three people, the second one, which gives
chains of two links in every order, circles, a name twice, and a batch that meets
the rows of another. Four rows are a chain of three and one that arrives; at most
one row is still to come when a sweep may start. Any pairs of the rows may be similar, and of four titles one contains two
others. Three turns and a limit of three messages make the limit cut a pair. Two
synthetic runs of three cases share a question, and `MaxFaults` 2 lets a classifier
and a later one fail.

Several properties leave out a case that the code does not exclude and that the models
reach; `PROJECT.json` lists it as a hazard which no property covers: `TitleKept` (a turn
sent when there was no title may replace the one of an overlapping turn), `ViaStays` and
`ChainLinked` (overlapping batches write older rows back), `OnlyChosenPasswords` (a login
that renews its hash may write the old password over the new one), `SettledViewIsActive`
(of answers that overtake one another the last wins; failed requests). `PairedWithOwn`
leaves out overlapping turns of one conversation, `NoSequentialDuplicate` what the event
search does not look at and all episodic memories, `SweepsAgree` episodic rows,
`CacheAnswersTheQuestion` contents that read as several lines of the key, and
`TurnTerminates` the connection of a turn that detached its persister.

Deadlock is not checked: every behaviour of the models ends, with the turns done
and the queues empty, or the budgets of actions spent.

### What the violations say

1. *The answer of a turn whose client left is lost.* The persister that is
   detached at `orchestrator.py:247` inserts through the request's session, which
   the request closes; nobody commits. `docs/rebuild/02-TDD.md:131` promises the
   opposite (D2). The task is published nevertheless, and the transaction of the late
   INSERT stays open, with a connection of the pool, until the session is garbage
   collected.
2. *A turn that is saved may never be extracted.* Its task is published before
   its commit; a worker that reads in between returns `message_not_found`, and
   the task is gone.
3. *A corrected fact comes back.* The event extractor has no ban check and the
   loader shows events unfiltered, so the extraction of an earlier turn that
   commits after the correction restores the fact.
   `docs/rebuild/06-Subsystem-Correction.md:14-15` promises it never returns.

4. *Overlapping writers of the profile erase each other's work.* `upsert` writes
   a whole blob computed from an unlocked read, and nothing detects that the row
   has moved on. `docs/rebuild/10-Lessons-Learned.md:436` says that with MVCC
   concurrent writes no longer damage one another.
5. *A correction removes an interest nobody judged.* Candidates are addressed by
   index, and every pop moves the list under the verdicts that follow. With
   verdicts on the first two of three interests, the first and the third go.

## 4. Fairness

`ChatFairness`: weak fairness of the generator's own steps, of the detached
persister and of closing the session: asyncio runs every ready coroutine, every
LLM and database call has a timeout or an outcome, and a lost connection is an
outcome (`ComposeFails`, `InsertFails`). No fairness for `Begin` (nobody has to
ask), `Token`, `Leave...` or `Crash`, and none for `Collect`: when the collector comes is
not the code's to say, so `TurnTerminates` promises a connection given back only for a
turn that detached nothing.

`MemFairness`: weak fairness of `RunStep(k)` for each message: a started worker
takes a waiting message, goes on with it and acknowledges it. No fairness for
the chat side, and none for failures, retries or losses: nothing depends on
trouble.

`ProfileSpec`: weak fairness of `Step(w)` for each writer that has started, since PostgreSQL wakes
a waiting transaction when the lock's holder ends; none for starting a writer and
none for `Abort`.

`Reply`, `Conversations`, `ChatStore`, `Accounts` and the four modules of `upkeep`
state no fairness and no liveness. What must eventually happen there is stated as a
safety property instead: `NoWaitInCircle` (whoever holds a row is not waiting, so
the longest wait ends with a stream, which `TurnTerminates` ends) and
`SendingIsAwaited` (as long as the input is locked, one answer is outstanding that
leads to its release).

## 5. What is proved

All proofs are of the safety part of the specifications and use only the named
assumptions on the constants (`ChatAssumption`, `MemoryAssumption`,
`ProfileAssumption`, `RouterAssumption`, `ContextAssumption`, `GuardAssumption`,
`ReviewAssumption`, `ReplyAssumption`, `ConversationsAssumption`, `StoreAssumption`,
`AccountsAssumption`, `RelationshipAssumption`, `AnswersAssumption`, `DedupAssumption`,
`EvalAssumption`, `SyntheticAssumption`), all of which TLC evaluates for the instances it
checks. Every invariant and every action property that a run finds to hold, and the
refinement, has a theorem. (`0 \notin Batches` in `RelationshipAssumption` says that the
ids of the seeded rows, which are pairs with 0, are none of a task's.)

`Induction`: `LeastNumber`, `Induct`, `Iterates`. What a loop over
data yields is proved from the least number at which it would go wrong: the library has
that every non-empty set of numbers has a least element, and the sets are given as
sets, so that no operator has to be instantiated. `Iterates` gives the function
that a recursion over `0..n` defines, and `ProfileBlobProofs` uses it for `Union`. The loops
of `Dedup` and `RelationshipGraph` are steps of the specifications, on the set of what is
still to do, so that their invariants need no induction over sequences.

`ChatTurnProofs`: `ChatTypeCorrect`, `AnswerNeverAlone`, `DispatchExclusive`,
`TurnImplementsContract`. None of the properties is inductive. The inductive
invariant adds, for each turn: how many tasks may still be published given
`phase` and `bg` (the inline and the detached persister never both have one to
publish), that an unpublished turn past routing has an intent, that whatever is
flushed contains the question while the transaction is open, and that
nothing is durable before the request is done. The refinement then maps
`Commit` to `Record`, the publishing steps to `HandOver` and everything else to
a stutter.

`MemoryTasksProofs`: `MemTypeCorrect`, `MemorySourced`, `RetractionsJustified`,
`BansRespected`, `NothingLearnedTwice`. The inductive invariant says what a run
in progress knows: a run past loading belongs to a saved turn, its remaining and
its buffered facts are facts of that turn, its ban list contains what was banned
when it was delivered once it has read it, no buffered row hits that list or
repeats a row known at delivery that is still active, and a correction's
candidates mention what its turn denies. Two monotonicity lemmas (soft deletion
and banning are never undone, saved turns stay saved) carry these facts over the
steps of other runs. `NothingLearnedTwice` is about events only, and about those the search looks at: active,
of the type, in the window of days, and not more than it compares. Outside of that the
code does learn an event twice, and an episodic memory it may learn twice at any time.

`ProfileBlobProofs`: `HalfInvariant`, `NoHalfDoneProfile`, for any writers,
batches and failures. The committed row alone is not inductive: the invariant
also says whose audit entries a writer's copy (its own and finished writers') and
the lock holder's draft may carry, that the holder is neither finished nor failed,
and that a correction with verdicts to apply reads a row that is there.
`BlobInvariant`, `ProfileTypes`, `InterestsAreSane`: a blob is *sane* when its interests
keep the cap and two share a key only where an audit entry's new text has it; merging
(by induction over what is brought in), popping and replacing keep a blob sane, and
everything committed, uncommitted or in hand is sane. `FreshInvariant`,
`UndisturbedWritersKeepTheRest`: as long as a writer is fresh, what it has in hand, if its
audit trail is at most one entry longer than the row's, extends that trail and has every
interest of the row but one it judged and named in that entry; a correction's draft is longer than the row's trail, so
its second verdict cannot pass for its first.

`ReplyProofs`: `ReplyInvariant`, `ReplyTypes`, `CacheIsHonest`, `DenialsCorrect`,
`ForgottenMemories`, `PainsUnquoted`, `ContractsKept`. The invariant says, of the
turn under way, that nothing is loaded before it is routed and that a turn at the
classifier matches no rule; of the cache, that each entry is a model's answer
filed under the key of what was asked; that keys tell questions apart is a lemma about
joined lines (`KeysTellQuestions`: where no content reads as several entries, a key
determines its exchange up to white space, hence also the shorter one asked); of the loader, that what was forgotten before the load is
forgotten still, and that whoever is past reading the bans has read at least those:
the reads come in order, which is a lemma about `StepAfter` (the least needed step
exists because the natural numbers are well-founded). `ContractsKept` rests on two
lemmas about sequences of any length: what truncation leaves, and what stripping
leaves when nothing hides the question.

In the same module, `StructureAgrees`, `BlameIsExplained`. On top of the former: the
counters of the pools are never smaller than the pools, the composer has a section
for what it picks, nothing is stored empty. Once the structural rules are known not
to fail, a verdict other than good needs a heuristic rule, and each of these has an
attribution.

`WorkspaceProofs`: `StoreInvariant`, `ConversationTypes`, `NoCircles`,
`SendingComesBack`, `TitlesAreKept`, `ArchivesAreKept`. The invariant says that a
request writes a row exactly while it has its lock, that only turns and creations get
as far as holding one, that a request sent when there was a title will not set one,
that everything awaited was sent and resumes one thing, and that sending and its one
continuation go together. A lemma shows that forgetting finished requests disturbs
none of this. `SettledViews` adds `ViewInv`: exactly the awaited message lists resume a
view, and while nothing has failed or overtaken another, the last list asked for is of the
active conversation, or, when none is awaited, that is the one shown. Every other
continuation either asks for the active conversation's messages, which then is the last
list, or leaves the views alone.

In the same module, `AddressesUnique`, `PasswordsChosen`. The invariant says that the
address of a request that inserts is normalised and, with a request that has inserted
and not committed, that no account and no other such request has it; and that what a
login, change or reset will write is among the passwords chosen for that account.

`LabProofs`: `RepliesKeepTheirQuestions`, `ReviewsKnowTheBans` from `EvalInvariant`.
While no two turns have overlapped, a question comes right before its reply in the log, a
turn under way was asked after everything logged, and no two messages have one time; hence
whatever an audit cuts off at its limit, a reply is paired with its own question or is the
first that it sees. The invariant says this of the messages written since a pack was made
too. The bans of a turn only grow into the user's, and an audit reads the bans after the
turns, which is all that `BansJudged` needs. `PassesAreEarned`: no cache entry is a
fallback's, so no case is scored with what an outage left behind; a case during whose own
routing the classifier fails is scored with the fallback, and passes if it expects just
that.

`UpkeepProofs`: `KeepersSurvive`, `RerunsAgree` from `DedupInvariant`. The rows looked at
come before the others, and a keeper is an earlier row that is not deprecated. Neither
needs the search to find what there is. The second theorem is about events, whose plan is
exact: call two rows *near* when the later would collapse on the earlier: among
the rows looked at, a row is deprecated exactly if it is near one that is not. That
determines the set of deprecated rows (the least row on which two such sets differed would
be near a row on which they agree), so a dry run and the run after it have the same set;
and after a real sweep no two active events are near. Of episodic rows nothing of the kind
holds, whatever the script's docstring says of re-running it: the search may miss a row
once and find it the next time.

`NobodyIsTheirOwnMiddleman`, `ChainsAreLinked`, `LinksAreKept` from `PeopleInvariant`. An
id stems from a task that is over, or from the task that has it, for a candidate that is
done: so the id made for a candidate is never that of its middleman. A batch that is alone
keeps the links of the rows it writes; of an answer without a circle, a candidate is not
taken before its middleman (of the candidates left some has a middleman that is not left,
by the definition of a circle, so a pass never ends without progress), and once looked up
it is linked, in the batch's own rows and later in the committed ones, which no other batch
takes away as long as they do not overlap.

## 6. Only model-checked

Liveness (`TurnTerminates`, `QueuesDrain`, `WritersEnd`) stays with TLC: proofs under
fairness need ENABLED, which the prover does not reason about. The five violated
properties are counterexamples and need no proof. That a seeded row, a batch, a sweep and
an audit share the database is in no module: their theorems are about each part alone.

## 7. Not modelled

The text of prompts and answers, prompt archive files, hashing and token formats, the
LLM protocol, the database schema and migrations, the parsing of case files and of
LLM answers, statistics of reports, read-only endpoints, the self-tests, and the views
of the web client beside the chat: they have no state that interacts, or only files
written once. Loss of Redis or PostgreSQL themselves is not modelled; a failed
statement, a failed publish and a failed cache are.

The connection pool (`infra/db/factory.py:38`) has no module: `TurnTerminates` says
that a turn which detached nothing gives its connection back, and the rest is the pool's
size. Row locks
of corrections are not modelled, so the deadlock of two corrections that update rows in
different orders, which PostgreSQL would end by failing one of them, is not shown.

Two concurrent runs can both add the same memory, because each searches before
the other commits; the code has nothing that orders them, and the properties
speak of what was committed when a run was delivered.

## 8. What could come next

1. Row locks in `MemoryTasks.ApplyCorrection`, with the deadlock and its abort.
2. An abstract "memory" specification (what may be shown, learned, forgotten) that
   `MemoryTasks` implements, and `Reply`'s edits derived from it.
3. The router's cache shared by chat turns and synthetic runs of one user, by composing
   `Reply` with `SyntheticLab`.
