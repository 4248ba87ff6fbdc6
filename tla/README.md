# AI Studio: the verification of its AI layer

AI Studio is a fork of VS Code with an AI coding agent built into it. The
repository holds some ten thousand files; nearly all of them are the upstream
editor. What is this product's own is an *AI layer* of about 6500 lines:

- `src/src/vs/platform/ai/**`: the agent, the model providers, the tools, the
  codebase index, the task list, sub-agents, memory and settings;
- `src/src/vs/workbench/contrib/ai*/**`: the chat participant, the diff store
  with its accept and reject commands, views;
- one IPC handler in `src/src/vs/code/electron-main/app.ts:614-651`, through
  which the sandboxed renderer runs processes.

The specifications here are about that layer. Paths below are relative to
`src/src/vs/`, and `ai/` stands for `platform/ai/`. The layer's own tests are
three: one conversion of `CustomProvider` (`ai/test/common/customProvider.test.ts`)
and one case each of the diff store and the diff controller
(`workbench/contrib/aiDiffApply/test/common/`). Nothing tests the agent, the
streams, the tasks or the index, so the code and its comments are the reference.

The renderer is one JavaScript event loop: nothing runs in parallel, and every
hazard comes from what may happen *between* two awaits of an async function. An
action of a module is therefore the code from one await that can suspend to the
next, and where a call is suspended is its program counter.

## 1. Inventory

### Agent runtime (`ai/browser/aiAgentService.ts`)

- State: one `AIAgentService` for the window, with `_status`, `_steps`,
  `_planMode`, `_planAwaitingApproval`, the resolvers of a pending plan approval
  and a pending question, the abort controllers of the current stream and of the
  current tool, the current `ToolExecutor`, the conversation memory. Each call of
  `run()` has locals: the step counter, the consecutive errors, the messages.
- Operations: `run(task)`, `stop()`, `approvePlan()`, `answerQuestion()`,
  `clearHistory()`; the loop of `run()` is build context, stream a completion,
  execute the tool it asks for, compact the memory when it is over the limit,
  await the approval of a plan, go round, and save the session.
- Interactions: providers (streams with callbacks), `ToolExecutor` (awaited, and
  calling back for plan mode, questions and plans), `ConversationMemory`,
  `MemoryStore`, the chat participant (events out, `stop`, `approvePlan` and
  `answerQuestion` in).
- Hard: all fields are shared by calls that overlap; `run()` refuses a second
  call only while the status is `running`, and a call waiting for a plan approval
  is not; `stop()` may come at any await; an aborted stream never calls back.
- Correct when: retries and steps stay within their limits; what waits can be
  answered; nothing is done in plan mode, or behind an unanswered plan, that the
  user was promised would not be; a stopped call asks for no further answer; a
  session is that of its call; the status tells the truth.

### Model providers (`ai/common/anthropicProvider.ts`, `customProvider.ts`, `aiProvider.ts`)

- State: none between requests. Each request has a buffer, the tool call being
  collected and an abort controller.
- Operations: `streamChat`, `streamCompletion` (both read server-sent events and
  call back), `embed`, `listModels`.
- Hard: network chunks end anywhere; lines that do not parse go back into the
  buffer; several events end a stream; cut answers; aborts.
- Correct when: the callbacks hear what the server said, in order and once; the
  input of a tool is whole; exactly one ending is reported.

### Model service and credentials (`ai/browser/aiModelService.ts`, `credentialService.ts`)

- State: the current provider; the key in the secret storage.
- Operations: `_initProvider` on every change of the configuration or the key,
  `streamChat`, `streamCompletion`, `embed`, `listModels`; `getApiKey`,
  `setApiKey`, `deleteApiKey`.
- Hard: `_initProvider` reads the API type before it awaits the key (line 106)
  and the base URL and model after it; overlapping calls of it queue for the one
  secret, beside the writes of `setApiKey`; a model is selected by four writes
  that nobody awaits.
- Correct when: whenever no `_initProvider` is under way, the provider is the
  one the settings and the key describe.

### Tool system (`ai/browser/toolExecutor.ts`, `ai/common/agentTools.ts`, `aiTools.ts`)

- State: the snapshot map of an executor, its abort signal, the tasks and
  sub-agents it drives.
- Operations: `execute(name, input)` for each tool, `createSnapshot`,
  `rollbackAll`.
- Hard: one snapshot map for all edits; edits recorded as hunks elsewhere; calls
  back into the agent (plan mode, questions).
- Correct when: a rollback restores the text from before the edit it follows.

### Task manager (`ai/common/taskManager.ts`)

- State: the tasks with status, `blocks` and `blockedBy`; the next id.
- Operations: `create`, `update`, `get`, `list`, `getAvailable`, `clear`; all
  synchronous, with arguments a language model writes.
- Hard: the arguments are arbitrary; a refused update is undone by hand; the
  recursive cycle search shares its visited set.
- Correct when: no cycle of dependencies is accepted, a task waits until what
  blocks it is completed, a deleted task stays deleted.

### Sub-agent manager (`ai/common/subAgentManager.ts`)

- State: `_running`, a map from agent name to its memory and controller;
  worktrees on disk.
- Operations: `execute(configs)` (all in parallel), `sendMessage`,
  `getRunningAgents`.
- Hard: names need not be unique; an agent takes its name out of the map without
  looking who has it; a shutdown comes at any await, and an aborted stream calls
  nobody back; the worktree is removed in a `finally`.
- Correct when: a running agent is listed until it ends, and reachable; an agent
  shut down asks for nothing more; `execute` returns.

### Codebase index (`ai/common/indexStore.ts`, `ai/browser/indexBuilder.ts`, `aiIndexService.ts`, chunkers)

- State: the SQLite table of chunks, the in-memory HNSW index over their
  embeddings, `_dirty`, `_isIndexing`.
- Operations: `_init`, `reindex` (`fullIndex`), `indexFile`, `removeFile`,
  `search` (semantic and keyword hits merged).
- Hard: a point finds its row by *position*; a row's id is a hash of path, start
  line and the first 100 characters, which two texts may share, and `INSERT OR
  REPLACE` then moves a row; each statement is asynchronous;
  indexing and searching interleave freely; files change meanwhile; the window
  closes in mid-call; the HNSW index is full at 50000 points.
- Correct when: a hit returns the chunk whose embedding matched; the table holds
  one version of each file.

### Conversation memory, session store, user memory (`ai/common/conversationMemory.ts`, `memoryStore.ts`, `userMemoryStore.ts`)

- State: the turns of the conversation and a summary; one JSON file per session
  and one per remembered fact.
- Operations: `addTurn`, the two compactions, `toMessages`; `saveSession`,
  `saveSessionFull`, `loadLastSession`, `loadSession`, `listSessions`, pruning;
  `list`, `get`, `write`, `delete` of facts.
- Hard: the compaction splices the old turns out before it awaits their summary;
  the last session is found by its file name; pruning lists first and deletes
  one file at a time, beside other calls; a crash tears what is being written.
- Correct when: what was said is in the list or in its summary, in order; the
  newest session stands for all that any session on disk stands for; the
  history is bounded and its newest file survives.

### Patch engine (`workbench/contrib/aiDiffApply/**`, write and edit in `toolExecutor.ts`)

- State: hunks with file, line range, original and new text and a status; the
  decorations; the files.
- Operations: add a hunk per edit, accept and reject a hunk, a group or all.
- Hard: hunks are undone by line numbers taken when they were applied; a hunk's
  status changes after the awaited write.
- Correct when: rejecting everything restores the files.

### Inline completion (`ai/browser/aiCompletionService.ts`)

- State: the pending controller, the debounce timer. Operation: `complete`.
- Hard: a new request aborts the pending one, whose callbacks come later and
  clear the field of their successor; while the context is awaited nothing hears
  the abort. Nothing in the repository calls the service yet.
- Correct when: the newest request can be cancelled, a cancelled one gives no
  text, and each settles.

### Chat participant and views (`workbench/contrib/aiChat/**`, `aiContextView`, `aiStatusBar`)

- State: the listeners of a request; the QuickPick on screen.
- Operations: `_invoke` registers listeners, awaits `run()`, disposes them; the
  cancellation token calls `stop()`; plan and question events open QuickPicks.
- Hard: showing a QuickPick hides the one before, which counts as its negative
  answer; the listeners of a call that never returns stay registered.

### Pieces without behaviour of their own

Context, project rules, system prompt and token counter build text from files
and settings; configuration and registration are declarations; the renderers
write DOM; the exec bridge of the main process answers each request once and
keeps nothing. The upstream editor is the platform and out of scope.

`PROJECT.json` lists each component with its files and status, and under
`hazards` each place where the code is hard to test, with the properties that
cover it, or the reason why none does.

## 2. Modules

| Module | Models | Composes |
| --- | --- | --- |
| `AgentService` | `run()` await by await, `stop`, `approvePlan`, `answerQuestion`, the callbacks of the executor, the chat participant | |
| `RequestLifecycle` | what the runtime promises to the chat surface: the life of one request after the other | |
| `MCAgentService` | symmetry of the calls for TLC | `AgentService` |
| `AgentServiceProofs` | theorems about `AgentService`, and that it implements `RequestLifecycle` | `AgentService` |
| `SessionMemory` | the conversation memory and the session files, between the awaits of `run()`, with crashes | |
| `MCSessionMemory` | the history directories to start from | `SessionMemory` |
| `SessionMemoryProofs` | theorems about `SessionMemory` | `SessionMemory`, `SubsequencesProofs` |
| `SubAgents` | `execute`, `sendMessage`, the map of running agents, the loop of a sub-agent | |
| `MCSubAgents` | the agents of two calls, with names that meet | `SubAgents` |
| `SubAgentsProofs` | theorems about `SubAgents` | `SubAgents` |
| `ModelService` | the settings, the stored key, and the provider `_initProvider` makes of them | |
| `InlineCompletion` | the completion service, with the provider that serves it | `ModelService` |
| `MCInlineCompletion` | settings to start from and models to select | `InlineCompletion` |
| `TaskManager` | `create`, `update`, `clear`, `getAvailable` | `TaskSearch` |
| `TaskSearch` | the recursive `_hasCycle` | |
| `MCTaskManager` | bounds, symmetry and orders for TLC | `TaskManager` |
| `TaskManagerProofs` | theorems about `TaskManager` and `TaskSearch` | `TaskManager`, `SubsequencesProofs` |
| `ModelStream` | the stream readers of both providers, and the agent's callbacks | |
| `ProviderProofs` | theorems about `ModelService`, `InlineCompletion` and `ModelStream` | `InlineCompletion`, `ModelStream`, `SubsequencesProofs` |
| `CodeIndex` | the vector index against the table of chunks, indexing calls, searches, restarts | |
| `MCCodeIndex` | symmetry of files and indexers, ids that outlive an edit | `CodeIndex` |
| `CodeIndexProofs` | theorems about `CodeIndex` | `CodeIndex`, `SubsequencesProofs` |
| `Subsequences` | what a `DELETE` leaves of a table and a parser of a file | |
| `SubsequencesProofs` | what `Subsequences` returns, and induction on numbers | `Subsequences` |
| `PatchEngine` | `write_file` and `edit_file` with snapshot and rollback, the recorded hunks, both rejections, the user in the same file | |
| `MCPatchEngine` | texts, tool inputs, symmetry of edits and of rejects | `PatchEngine` |
| `PatchEngineProofs` | theorems about `PatchEngine` | `PatchEngine`, `SubsequencesProofs` |

A definition named after a slip of the one that follows it (`GivesUpLate`,
`AfterAddReset`) is a *mutant*: no specification uses it. `PROJECT.json` pairs
each property with a mutant of the code that breaks it.

### AgentService and the code

`pc[r]` is the await at which call `r` of `run()` is suspended:

| `pc` | await in `aiAgentService.ts` |
| --- | --- |
| `loading` | `loadLastSession` |
| `context` | `buildContext` and the index search |
| `streaming` | `_streamToCompletion`; `refused` when the provider throws at once |
| `backoff` | the delay before a retry |
| `snapshot`, `tool` | `createSnapshot`; `execute` and what follows it up to the record of the result |
| `question` | the promise of `onAskUserQuestion` |
| `compacting` | the summarizer of `compactWithSummarizer` |
| `approval` | the promise of `_planApprovalResolve` |
| `saving` | `saveSessionFull` |
| `hung` | an aborted stream: a promise that nobody settles |
| `done`, `rejected` | returned, thrown |

Variables without an index are the `this.` fields that every call shares. What a
prompt shows is the environment: `prompt` is the QuickPick on screen, with the
call that asked. Abstracted: texts, token counts, tool inputs and results; the
model's answers and the outcomes of tools are nondeterministic. `steps` keeps
only which calls have appended to `_steps`. The tool `read` stands for every
tool that is neither an edit, nor hidden in plan mode, nor a callback.

Two assumptions restrict the environment. The language model calls only tools
the request advertised (the APIs enforce it; the executor does not). And calls
that overlap open no prompt over another call's prompt whose negative answer
would resume it (`SparesOthers`, `SparesOtherPlan`): that chain of synchronous
callbacks from inside a callback is not modelled. Calls that do not overlap
never meet that guard.

`RequestLifecycle` is the abstraction the chat surface relies on: a request
works, waits for its user or is over, asks the model for at most `Limit`
answers and for none while its user has something to decide, and the status
asks for an approval exactly while a request waits for one. Under the mapping
`PhaseOf` of the program counter, `AgentService` without overlapping calls
implements it (`ImplementsLifecycle`); with overlapping calls it does not.

### SessionMemory and the code

`AgentService` leaves open what the memory holds; `SessionMemory` leaves open
why a call acts and follows what it does to the memory and to the disk.

| `pc` | await in `aiAgentService.ts` or `memoryStore.ts` |
| --- | --- |
| `loading`, `reading` | the two of `loadLastSession`: list the directory, read its newest file |
| `working` | anywhere in the loop |
| `compacting` | the summarizer, after the old turns were spliced out |
| `writing` | the write of `saveSessionFull` |
| `pruning`, `deleting`, `skipping` | the listing and the deletions of `_pruneOldSessions`; `skipping` after one of them failed |
| `unpruned` | returned, with the write or the pruning failed |
| `crashed` | the process died |

A turn is the set of calls it stands for, so a summary stands for what its turns
stood for, and `NothingForgotten` can compare sessions. A summarizer that returns
no text is answered for by the sentence "Prior work completed."
(`aiAgentService.ts:328`): `NoSummary` stands for nothing, and the history
`blanked` has the calls whose turns it replaced. A turn costs one unit of
the token estimate. Session files are named by a clock that does not run
backwards, and two calls may build a session in one millisecond. `Crash` keeps
the files and tears any of those being written.

### SubAgents and the code

Agent `<<b, i>>` is the one of the i-th config of call `b` of `execute`; its `pc`
is the await of `_runSingle`: `creating` (the worktree), `calling` (an answer),
`tool`, `cleanup`, `settled`. `running` is the map by name, `NameOf` the
deduplication of a call's names: `x, x` become `x` and `x-2`, which a third
config may have been called from the start. Shell commands for worktrees change
nothing, because they reach the main process as empty ones. The history
`clashed` collects agents that have shared a name with one of another call, or
through a name given with a number.

### ModelService, InlineCompletion and the code

All operations on the secret go through one queue, as in the secret storage;
`InitProvider` is what `_initProvider` does after its await, `Changed` what it
does before, `WriteSetting` one of the writes of `Select` that nobody awaits.
`lastKey` says whether the key of the last `_initProvider` is still the stored
one. A request waits in `delay`, `context` or `streaming`, and `Heard` is who
listens to its abort there. The history `strays` has the requests that were
aborted while they awaited their context and stream all the same.

### TaskManager and the code

One action per operation, all of them synchronous. The status of an update is
written before its edges are checked, and stays when they are refused; a refused
list takes out every edge it names, also those that were there before.
`FreedByCompletion` asks what that may do to a task that waits. `Cyclic`
defines a cycle without a search. `TaskSearch` has the search of `_hasCycle` as
it is coded, over arrays: its loops and its recursion are recursive functions,
on the length of the array and on the growing stack. `SearchIsExact` compares
the two whatever edges an update would add to the state. The edges of a state
are sets, and `Orders` gives the arrays that may hold a set: the theorem is
about all of them, repeated ids included, the run takes one per set.
`MaxEdges`, in the guards of `Create` and `Update`, bounds the edges of a state.

### ModelStream and the code

The server's answer is a sequence of blocks (a text, or a tool call whose input
comes in pieces), which the model encodes as event lines the way each API does;
a line is two fragments and a newline, and a network chunk is any number of
fragments from `ChunkSizes`. `Chunk` is one turn of the reading loop: decode,
split at newlines, keep the rest, handle each line, and put a line that does not
parse back in front of the buffer. `StreamEnds`, `StreamFails` and `Abort` are
the other outcomes of a read. Every callback appends to `heard` and updates
`promise`, which stands for the variables in the closure of `_streamToCompletion`
(`Listen`). The split and the loop over the lines are recursive functions, on
the fragments and on the lines of one chunk. At most one thing is odd in an answer: a
comment line, a broken line, an error event, or a cut at the token limit.

### CodeIndex and the code

Three parties: indexing calls (`indexFile`, `removeFile`, `fullIndex`), searches,
and the database. A statement is issued by a call, executed by the database and
then called back, in three steps: a call's `stage` says which were taken, and
`done` queues the callbacks, which come in the order of execution (the order of
execution itself is not constrained). `hnsw` lists which chunk each label stands
for, `rows` is the table in rowid order. A search looks up one of the points it
could have found; vectors and distances are abstracted, since every property is
about which row a label leads to. A chunk is a place in a version of a file; its
id, by which `INSERT OR REPLACE` finds the row to replace, is the constant `Id`,
any function of chunks: two versions of a chunk that agree in their first 100
characters share it, and so may two chunks whose hashes collide.

`Restart` closes the window in the middle of any calls: the table stays as the
database had executed it, everything else is gone, and the service of the next
window reads the table (`Loaded`), probes the embedding provider and calls
`fullIndex`, beside whatever else is asked of it by then.

Three history variables say what happened to disturb a computation (`moved`,
`crossed`, `contended`); no action reads them. They are how a property can say
"unless a change overlapped it" and still say exactly what holds.

### PatchEngine and the code

One file, as a sequence of words and newlines, so that lines and offsets are
computed as the code computes them. An edit is the part of `run()` from
`createSnapshot` to `commitSnapshot` or `rollbackAll`, around `_writeFile` or
`_editFile`; a reject is one command of `diff.contribution.ts` down to
`_reverseEdit`. `pc[c]` is where such a call is:

| `pc` | the call has |
| --- | --- |
| `snapshot` | cleared the snapshot map and waits for the file |
| `read` | its snapshot, or chosen its hunk, and waits for the file |
| `write` | read the file and computes the new text; the write is next |
| `written` | written; the group, or the status of the hunk, is next |
| `rollback` | returned an error and is about to roll back |
| `done`, `restored` | ended; `restored` after a rollback that wrote |

Each action is the moment the file is read or written, with the code that
follows up to the next. Every read and write may fail, and a failed write leaves
the file as it was or empty. `buffer` is the text of a visible editor of the
file: `_reverseEdit` edits that one, unsaved, when there is one. The user may
open, type, save (or be autosaved), reload and close between any two actions.
A text may hold the characters of a replacement pattern (`Marks`), and
`Expanded` is what `String.replace` makes of them in a `new_string`
(`toolExecutor.ts:427`): `$$`, `$&` and the two for the text before and behind.
Abstracted: identifiers and times of groups, files other than the one (edits of
two files share nothing but the list of groups), paths.

The histories `meddled`, `owner` and `raced` say who else was at work, so that a
property can be exact about when it holds: `RollbackRestores` speaks of edits
beside which nobody else changed the file or the snapshot map,
`HunkLocatesText`, `WriteUndone` and `EditUndone` of edits that are the last
change of the file, `ReversedOnce` of rejects that did not overlap. Two rejects
of one hunk that do overlap reverse it twice.

## 3. Runs

Every run explores all states of its instance. `CHECK_DEADLOCK FALSE` is set
where the system really may stop: there are finitely many calls, each ends or
hangs, and the state in which all of them have is the end.

| Run | Bounds | Question |
| --- | --- | --- |
| `agent_serial` | 2 calls one after the other, 3 steps, 2 failures, with compaction | Can a call be orphaned, work behind its plan, edit in plan mode, save another's steps, lose its executor, have a question dismissed, or ask for an answer after `stop()`? No; questions are dismissed only through a call that hangs. Does the service implement `RequestLifecycle`? Yes. |
| `agent_overlap` | 2 calls interleaved at every await, 2 steps, 2 failures, with compaction | Does the status ask for an approval nobody takes, or stay `running` for ever? No, except after a call that threw. |
| `agent_liveness` | 2 calls in turn, 2 steps, fairness | Does every call end or wait for the user? Yes, except in a stream that was aborted. Is every approval asked for? Yes. |
| `session_memory` | 3 calls of which 2 may be live, crashes, 2 history files, a budget of 2 units, an old history or none | Is anything said forgotten, reordered or repeated across compactions, loads and restarts? Not if calls do not overlap and each loads the newest session, except what a summary without text replaced. Does the history stay bounded and its newest file survive? Always. |
| `sub_agents` | 2 calls of `execute`, 3 agents, 2 steps, 3 messages, fairness | Do messages go to those who have the name, does a shutdown end an agent, does `execute` return? Yes, unless calls share a name. |
| `inline_completion` | 2 requests, 2 API types, 2 keys, 2 models, 1 change by the user (up to three settings and the key), fairness | Does the provider follow the settings, can the newest request be cancelled, does a cancelled one stay silent, does each settle? Yes, but for strays. |
| `tasks` | 3 tasks and an unknown id, at most 3 edges, lists of up to 2 to add | Can any sequence of operations make `blocks` cyclic, or free a waiting task but by the completion of a blocker? No. Does the search find exactly the cycles? Yes. |
| `model_stream` | answers of at most 2 blocks, inputs of at most 2 pieces, chunks of 1 or 5 fragments, both APIs, both purposes | Do the callbacks hear what the server said, once, in order, whole, and does the promise settle? |
| `code_index` | 2 files, 2 indexing calls (the one of a restart included), 1 search at a time, 2 chunks, 1 edit of each file, 2 points | When do labels lead to the right rows, and when does the table hold one version of a file, also after a restart in mid-call? |
| `patch_engine` | 2 edits, 2 rejects, 6 tool inputs, 2 first texts or no file, 1 typing | Does a rollback give back the file of before, do hunks name the right lines (but for replacement patterns), is a hunk marked only after it was reversed and reversed once, is a rejected `write_file` undone? Yes, as long as nobody else was at work. |
| `agent_saved_on_stop` | 1 call, 3 steps, fairness | Finding 1 |
| `patch_edit_undone` | 1 edit, 1 reject, no typing | Finding 2 |

Why the bounds are enough. *Agent*: all that calls share is single-valued, so any
interference is between one call that wrote a field and one that reads it; two
calls have every such pair. Three steps have a step before, at and after each
decision of the loop (enter plan mode, exit it, act), and two failures make both
"retry" and "give up" happen. *Session memory*: the third call loads what the
second saved over what the first saved; a budget of two units is exceeded by the
three turns a compaction needs; with two files kept, two calls that prune
together choose overlapping sets. *Sub-agents*: two agents of one call with one
name, a third that was given the name the second gets, one of them with a
worktree. *Completion*: one request and the one that replaces it; one selection
of a model already overlaps three `_initProvider` with each other and with a
write of the key. *Tasks*: three tasks have self loops, cycles of two and three
and two ways to one task; the searched relation is the state plus a
list of up to two edges the update would add. *Streams*: two blocks have each pair of neighbours; a
chunk of one fragment cuts inside every line, one of five spans more than one
line and ends inside another. *Index*: two calls on one file, one call against a
search, one that a restart interrupts, and a full index of two points, so that
the bound of the index is met, with an edit that leaves the id of the first
chunk; `MaxCalls` bounds how many indexing calls there are in all. *Patches*: two edits have each pair of neighbours of the shared
snapshot map, two rejects race for one hunk; the texts have an `old_string` that
occurs once, twice or not at all, alone on its line or not, with and without a
last newline, and inputs that add and remove a line; one input has a pattern of
`String.replace` and a dollar that is none.

Fairness. `AgentService` has weak fairness for each call's own continuation: its
awaits are file and network I/O, timers and streams, which settle, and the event
loop then runs the continuation. The user is forced to nothing: no fairness on
`Stop`, `ApprovePlan` or `AnswerQuestion`, hence the exceptions in `RunEnds`.
`ModelStream` has weak fairness for the network (a read is answered or rejects)
and none for `Abort`. `InlineCompletion` has it for each request's timer, context
and stream, and none for settings, keys or the user. `SubAgents` has it for each
agent's awaits and none for messages and shutdowns; an aborted stream is no
continuation there, it ends through the listener of the abort. `SessionMemory`,
`CodeIndex` and `PatchEngine` state safety only.

## 4. Proofs

Every safety property of a passing run is a theorem here. The theorems hold for
any number of calls, files, tasks or edits, for answers of any length and for any
limits.

### The agent runtime: `AgentServiceProofs`

For calls that overlap or not:

- `TypeCorrect` and `RetriesBounded`. `consecutiveErrors <= MaxErrors` is not
  inductive: it holds because a call that reaches the limit leaves the loop.
  `Budget` adds that a call which is still going has fewer failures than the
  limit, and fewer than its steps while a stream is open. `Resolvers` adds that
  the call a resolver names is suspended in that await, which is why the
  resolver's owner can be resumed at all. `TypeInv` is the conjunction; there is
  a lemma per action.
- `ApprovalDelivered` adds `Asking`: while the status is `waiting_for_approval`
  the resolver is set. With `Resolvers` it follows that the approval reaches a
  suspended call.
- `RunningBacked` adds `Backed`: every stretch of code that ends a call normally
  also takes the status away from `running`.

For calls that do not overlap (`ASSUME ~OverlappingRuns`), on top of `Serial`:
the types, at most one call is live (`OneLive`), and nobody else can have
replaced its resolver (`NoOrphans`). A stretch of code is summarised by an
effect (`OwnEffect`, `ModeEffect`, `PromptEffect`), proved once per action:

- `SessionsOwned` and `ExecutorFound`. `OwnWork`: what the step list holds
  belongs to the live call, and while it has tools the executor is its own.
- `PlanModeReadsOnly`. `ModeFits`: a call that streams in plan mode was offered
  the reading tools alone, and a question that waits comes from
  `AskUserQuestion`.
- `PlanWaitsForUser` and `DismissedByHangs`. While a plan is on screen the call may
  have its memory summarized, and no more; then the approval is still pending.
  `PlanStands` and `QuestionStands`
  say where the call is while its QuickPick is open; a prompt closes behind the
  back of the user only when a call hangs.
- `StopIsFinal` (an action property) rests on `StopLasts`: after `stop()` no
  controller is left but one that an approval has brought. It is about the answers
  the loop asks for; a summarizer's stream after `stop()` is a finding below.
- `ApprovalAsked`, also for `~Compaction`: an approval given while the memory is
  still compacted is lost, which is a finding below.
- `LifecycleImplemented`, the refinement. The phase of a request is a function of
  its own program counter; the status is one field that all write. `StatusFits`,
  a consequence of `NoOrphanWaiter` and `ApprovalReachesWaiter`, ties the two
  together, and each action is then simulated by its effect on `pc` and `step`.

### The task manager: `TaskManagerProofs`

`TypeCorrect`, `DeletedStays`, and `NoBlocksCycle`, whose
argument is that a subset of an acyclic relation is acyclic (a refused update
removes edges) and that a fresh task, to which no edge leads, is on no cycle;
the last needs that edges lead to tasks there are, or to `Unknown` (`EdgesKnown`).

`WaitsForCompletion` (an action property): only the completion of a blocker makes
a waiting task available. A refused `addBlockedBy` would take earlier blockers out
again and free the task; the search that decides follows `blocks`, which an update
has found acyclic by then, so it never refuses.

`SearchAnswersRight`: the search finds exactly the cycles. `ExactAt` says what a
search at a stack `K` returns. Before it, the visited nodes off the stack are
closed under edges and on no cycle (`Finished`), and every node on the stack has
an edge to a node of the stack or to the one searched (`Chain`). Then a search
that reports a cycle has closed that chain, and one that does not has finished
the node, and only adds to what is finished: that is why a later search may cut
its branches there. The proof goes from larger stacks to smaller ones
(`FromSupersets`). That the recursive functions of `TaskSearch` exist at all is
`SearchExists` and `LoopExists`, since TLA+ defines a recursive function as
some function that satisfies its equation. There are finitely many nodes because
each list is finite.

### The patch engine: `PatchEngineProofs`

For any texts and any number of overlapping edits and rejects:

- `RejectedReversed`. That a hunk marked "rejected" was reversed is not
  inductive: it takes `UnderWayReversed`, that a reject which has written has
  reversed the hunk it is about, and `Shape`, that the groups keep their order.
  Marking the hunk before the write, or after one that failed, breaks it.
- `HunksLocateText`. `OwnerInv` says what the last one to change the file knows:
  until its hunk is recorded, the file is what it wrote. The rest is about texts:
  the lines of a concatenation (`LinesOfConcat`), where `old_string` first occurs
  (`Located`), and what `replace_all` makes of a text (`ReplaceEachIs`), by
  induction from the end of the text. A `new_string` without a pattern goes in as
  it is; with one the property promises nothing for `edit_file`.
- `RejectedWriteGivesBack` (an action property) adds `WholeFile`, that the hunk
  of a `write_file` spans the file, and `FreshInv`, that a reject whose hunk owns
  the file has not computed its text from an older one.
- `NoHunkTwice`. `OnceInv`: of hunks not in a race, one that was reversed and is
  still marked as applied belongs to the one reject that is about to mark it.
- `RolledBackFile` (an action property). `SnapshotInv`: of an edit beside which
  nobody was at work, the snapshot map holds what it found, or nothing.

### The index: `CodeIndexProofs`

For any interleaving of calls, statements, refusals, restarts and edits, and for
any ids the chunks hash to:

- `OneTextPerFile`. `VersionOf` says of a call which rows of its file are in the
  table and which chunks it has still to add, all cut from one text.
- `LabelsAreRows`. `LabelInv` gives, for the statements executed but not called
  back, the numbers of rows labelled after each callback: labels and rowids are
  handed out in one order by two parties. `RebuildInv` says the same of a search
  that rebuilds the index, `StartInv` of a window that starts.
- `SearchFindsItsChunk`. `FetchInv` follows the point of a search to its row.

### The memory: `SessionMemoryProofs`

For any number of overlapping calls, any limits and any crashes:

- `TypeCorrect`, and `EstimateHolds`, whose invariant is the property itself.
- `PruningKeepsNewest`. Each file a call has chosen for deletion has a newer one
  beside it for as long as it is chosen: a call that deletes that newer one has
  chosen it in its turn, so a still newer one stands beside it.
- `HistoryStaysBounded`. `Bounded` counts, for every set of calls that are
  deleting, what will be left when they are done, against the calls that have
  left a file behind without pruning.
- `ConversationInOrder` and `NothingIsForgotten` are about calls that did not
  overlap. `OrderInv` has the order of all that can still be loaded: in memory,
  with the summarizer, in files, in a call about to save. `RememberInv` says that
  when there is a readable session, one of them stands for all of them, and that
  what a call in its loop holds stands for it too (`Carries`), both up to the
  turns in `blanked`.

### Sub-agents, provider and completion

`SubAgentsProofs` holds for any calls and any configs: `RoutingRight` and
`ShutdownIsHeeded`. An agent takes its name out of the map without looking, which
is harmless as long as agents under way with one name are all in `clashed`
(`NamesClash`); that the deduplication gives the agents of a call different
names is the lemma `DedupeDistinct`.

The first part of `ProviderProofs` holds for any settings, keys and requests.
`ProviderCurrent` rests on two facts: the last `_initProvider` under way read the
API type that is set now (`LastIsCurrent`), and a provider there is was made from
the settings as they are (`MadeFromSettings`), so an early return for a missing
key leaves nothing old behind. `NewestIsCancellable` and `NoTextAfterAbort` follow
the pending controller; `RefusedUnready` says that a request is refused only
while the provider is made anew or there is none to make.

### The streams: `ProviderProofs`

For both APIs, chats and completions, answers of any length with tool inputs in
any number of pieces, chunks of any sizes, an odd line anywhere, and an abort at
any moment: `AnswerHeardInOrder`, `PromiseSettledOnce` and `AnswerIsWhole`. None
of the three is inductive, since none says what the reader still holds.

The invariant is `StreamInv`: while the stream goes on, there is a number `q` of
lines the reader has taken (`At`). Its buffer and the wire together are the
fragments of the lines after them, with the broken line in front once it has been
met: that line is put back, parsed again with every chunk, and put back again,
without hiding the next one. What was told is then a function of `q` (`Going`):
the blocks before the one under way, and of that one what its lines so far amount
to (`Within`). `Within` differs for the three kinds of loop. A completion looks
at texts only. An Anthropic chat collects a tool call from its start to its stop.
An OpenAI chat keeps the call until the next one starts or the answer ends, so
the tool calls lag behind the texts. Once the stream has ended, `Ended` says what
the three properties need.

The lemmas to read, in order:

- `ScanFragments`: splitting any prefix of the fragments gives the lines that are
  complete in it, whole, and the fragments after them.
- `BlockStep` and `BlockEnds`: one line of a block keeps `Within`, and the last
  one leads to the next block. `BodyStep` adds the server's ending, `LineStep`
  the odd lines.
- `ChunkStep`: the loop over the lines of a chunk, by induction on the lines.
- `StreamInvNext`: every action keeps `StreamInv`.

`InOrder`, `Once` and `HasWhole` in `Ended` give the three properties.
`Mentions`, which says which blocks a history of callbacks is about, carries the
order: a callback for the next block appends to it.

### What the proofs rest on

The assumptions are those of the modules: `None` and `null` values are none of
the calls, controllers, prompts or texts; limits are numbers, positive where the
code has positive literals; a network chunk is not empty; `Unknown` is not a task and lists name tasks or
`Unknown`; an array of `Orders` has just the elements of its set; indexing calls
are not searches and edits are not rejects; configs, texts, jobs and the history
directories to start from have their types.

The induction theorems of the library take the property as an operator, which the
provers here cannot instantiate. `SubsequencesProofs` derives induction on
numbers for *sets* of numbers (`NumbersInduction`, `Downwards`) from the
well-foundedness of finite subsets, and with it what `Without` returns; the
other modules prove what their recursive functions compute in the same way.

Proved for all values of the constants and in no run, because a run would add
nothing to the proof: the type invariants of `AgentService`, `TaskManager`,
`InlineCompletion` and `SubAgents`, and `RetriesWithinBudget`, `DeletedIsFinal`
and `RefusedOnlyUnready`.

Only model-checked: the liveness properties `RunEnds`, `StreamSettles` and those
of `sub_agents` and `inline_completion` (fairness and `ENABLED` are out of the
prover's reach). Only proved: `StreamInv`, which chooses the function that says
where each block starts (`Starts`) and so cannot be evaluated by TLC; the three
properties it carries are checked by the run `model_stream`.

## 5. Findings

1. `SavedOnStop`: the providers swallow the `AbortError` without a callback
   (`anthropicProvider.ts:106`), so a call stopped in a stream never returns and
   its session is lost; `memoryStore.ts:4` promises a save on stop.
2. `EditUndone`: rejecting an `edit_file` replaces whole lines by its
   `old_string` (`diffApplyController.ts:47` and 53-55). Unless both strings are
   whole lines, the rest of those lines is lost or two lines are joined. The
   controller's test has only a hunk of whole lines.

Seen while modelling, without a run of their own. The agent:

- calls overlap when a plan waits for its approval, since `run()` lets a second
  request in; the `finally` of one then nulls the executor of the other
  (`aiAgentService.ts:412`), which throws at its next tool in spite of the `!` at
  line 256. `ExecutorPresent` is checked for calls in turn;
- the listeners of a call that hangs (finding 1) stay, so the next question opens
  two QuickPicks, of which one hides and cancels the other
  (`aiStudioChatAgent.ts:165`): `OnlyHangsDismiss` says that only this does it;
- an error return leaves `run()` before the session is saved
  (`aiAgentService.ts:223` against `memoryStore.ts:4`);
- `stop()` aborts the signal of a tool that is already executing, which only
  looks at it when it starts (line 421); it does not abort sub-agents;
- a call stopped during a tool may still open a stream for a summary: the memory is
  compacted before the loop looks at the status (lines 316-333). The same stream may
  run while a plan is on screen. `NoNewAnswerAfterStop` and `PlanGatesWork` say so;
- a summarizer that fails ends the call by an exception, past the code that sets the
  final status and saves (line 317): `running` may stay. `RunningHasRunner` excepts
  exactly those calls;
- an approval given while the call still compacts finds no resolver and is lost
  (lines 159-163 against 337), and the call then waits for an answer nobody is
  asked for: `ApprovalIsAsked` is therefore checked without compaction;
- of several tool calls in one answer only the last is executed (line 467):
  `WholeAnswer` says so;
- a tool input cut by the token limit is executed as `{}` by the Anthropic reader,
  which ignores the stop reason (`anthropicProvider.ts:85`): `HeardInOrder` says
  so; an early end of the connection is reported as a complete answer (line 105).

Memory and sub-agents:

- a summary without text, as after a connection that ended early, is replaced by
  "Prior work completed." (`aiAgentService.ts:328`): the turns it was to stand for
  are gone, and no newer session has them. `NothingForgotten` excepts those;
- a summarizer that fails loses the turns that were spliced out for it
  (`conversationMemory.ts:62`), and leaves the estimate too high: `EstimateIsSize`
  says so;
- a session file torn by a failed write or a crash is the newest by name, so the
  next call loads nothing although older ones are whole (`memoryStore.ts:74`):
  that is `missedLoad`;
- a message is put into a memory the sub-agent's loop never reads
  (`subAgentManager.ts:122`); `send_message` reports success also when nobody has
  the name (`toolExecutor.ts:803`), and a sub-agent that was aborted is listed as
  completed (line 791);
- of three sub-agents named `x, x, x-2` the last two share the name `x-2`;
- the commands for a worktree are sent as `cmd` and `timeoutMs` where the main
  process reads `command` and `timeout`, so no worktree is created, although the
  prompt says there is one (`subAgentManager.ts:154`);
- a sub-agent out of steps is "completed" with an empty text.

Provider and completion:

- a key stored without another setting fires no configuration event: the old
  provider, or none, stays until a setting changes; a key that could not be read
  may leave the provider of an older API type; a model selected without an
  endpoint keeps the endpoint of the one before. `ProviderIsCurrent` excludes
  exactly the first two;
- a completion aborted while it awaits its context streams all the same and then
  clears the controller of its successor, against the comment at
  `aiCompletionService.ts:38`: these are the `strays`.

Tasks:

- an update that is refused has set its status already, and takes out edges of
  `blocks` that were there before (`taskManager.ts:80` and 93-99);
- `_hasCycle` follows `blocks` only; tasks can wait for each other through
  `blockedBy` (`taskManager.ts:105`) and never become available;
- `blocks` of a task is documented as holding other tasks back
  (`agentTools.ts:57`), but `getAvailable` looks at `blockedBy` only.

The index:

- a rebuild that is crossed by a change of the table, or by a second rebuild,
  clears `_dirty` although labels no longer fit (`indexStore.ts:59-66`); two
  calls that add chunks of one id let `INSERT OR REPLACE` move a row without
  marking the index dirty, and labels shift. One id is one path, start line and
  first 100 characters (`chunker.ts:27`, 35), so an edit further down between two
  overlapping calls is enough, as is a collision of the 32-bit hash; a window
  whose first reading of the table is refused starts with an empty index that
  counts as clean (line 35). `Aligned` and `SearchExact` exclude exactly these
  (`crossed`), and they persist until the next removal;
- rows of files deleted from disk stay: `fullIndex` removes only files it finds,
  and `removeFile` has no caller;
- semantic hits carry absolute paths and keyword hits relative ones, so the merge
  that adds their scores never meets one in the other (`aiIndexService.ts:123-130`);
- `chunkFile` drops the lines before the first boundary of a file.

Edits:

- a `$` pattern in the `new_string` of `edit_file` is expanded by `String.replace`
  (`toolExecutor.ts:427`): another text is written than the model asked for and than
  the hunk records. `HunkLocatesText` excepts those edits;
- rejecting a hunk in a visible editor leaves the file on disk as it was until
  the user saves, and marks the hunk all the same (`diffApplyController.ts:47`);
- two rejects of one hunk that overlap reverse its lines twice (line 31);
- a `replace_all` that finds nothing records a hunk at line 0, whose rejection
  puts the `old_string` in front of the file (`toolExecutor.ts:420`);
- `write_file` takes a file it cannot read for a new one (line 388), and
  rejecting the creation of a file leaves an empty file;
- the toolbar's "Rollback AI Changes" is about the last group only
  (`diff.contribution.ts:86`): pressed again, it does nothing.

## 6. Not modelled, and what is left

Not modelled: the wording of prompts, context and rules (text only);
declarations; DOM output; the exec bridge, which keeps no state; request
building, message conversion, `embed` and `listModels` of the providers; the
tools that only read, search, fetch or run a command; the keyword search and the
merge of result lists; vector search itself, and the chunkers' cutting of a text
beyond which version a chunk comes from and which chunks share an id; the user memory, which
nothing writes; the persistence of the diff store, which nothing initialises; the
upstream editor, which is all but 6500 of the repository's lines.

Left to do, most useful first:

1. An abstract specification of the conversation memory (a list of turns and a
   newest session), which `SessionMemory` implements where calls do not overlap.
2. The keyword search and the merge of both result lists against a reference
   definition, and the dispatch of `ToolExecutor` composed with `AgentService`.
