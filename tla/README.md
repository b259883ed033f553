# A TLA+ verification of yaca

yaca is a terminal coding agent written in Lua (`src/src/*.lua`) over a native
layer in C (`src/native`). This directory holds TLA+ modules that model parts of
it, TLC configurations that check them on small instances, and proofs, checked by
TLAPS, that hold for every value of the constants. Paths below are relative to the
root of the repository with the prefix `src/`; `runtime.lua:2189` is line 2189 of
`src/src/runtime.lua`.

`PROJECT.json` lists the components, the runs, one wrong version of the code
(`mutants`) per checked property, the source lines of every definition (`map`),
what the runs found (`findings`), what is hard to test in this code (`hazards`)
and the theorems.

## The system

One process runs one coordinator loop (`main.lua`, `run`). Each round polls the
terminal, routes what the user typed, then drives compaction and the foreground
activity. Nothing in the Lua code runs in parallel; what makes it hard is that every
activity (a model request, a review, a tool) is started in one call and answered in
a later one, that a journal write stands between most steps and can fail or be
uncertain, and that several processes, or one that crashed, may have the same
Context file.

| Component | State | Operations | Interacts with | Correct when |
|---|---|---|---|---|
| AgentLoop (`runtime.lua`, `new_agent_loop`) | the turn, its calls and results, the activity, the pending decision, steer, cancel, budgets, queue, ask, halt | `submit_main`, `accept_*`, `resolve_*`, `reply`, `steer`, `cancel`, `tick`, `close`, lane and compaction operations | ports `model`, `tools`, `reviews`, journal; the driver and the coordinator call it | one activity at a time; one result per accepted call; no request with results owing; gates before a tool; terminal precedence; cancel settles; fail stop after a lost barrier |
| Activity driver (`runtime.lua`, `new_activity_driver`) | none of its own | `step` polls the activity of the loop's state | AgentLoop, ports | every started activity is polled until it answers |
| EventPump (`runtime.lua:303`) | bounded event queue | push, drain, coalesce | (not used by `main.lua`) | bounded, order kept |
| Context store (`context.lua`, `new_store`) | writers and leases; on disk the official `.xml`, `.yaca-prev`, `.yaca-lock` | open, create, publish, move, delete, plan and apply repair, close | file system port; Session | confirmed Facts survive a crash; one writer; one official file |
| Operation service (`context.lua:4478`) | the open operation and its intent | `begin`, `finish`, recovery | Tools, Session | intent durable before effect; no result lost or replayed |
| Session (`session.lua`) | the open Context, journals, overrides | commit, open, switch, compaction and operation journals | Context store, AgentLoop | sequence numbers contiguous; refusals before publication distinguished from failures |
| Tools (`tools.lua`) | admissions, authorizations, execution | admit, approve, start, poll, cancel | operation service, process, fs, permission, safety | authorization used once, for what was authorized, reverified at execution |
| Compaction (`compact.lua`, `session.lua:3668`) | one compaction | begin, request, accept, reject, cancel, tick | AgentLoop's gate, model port | adopted only against the view it was made from; old view kept otherwise |
| Network and model activity (`network.lua`, `model.lua`) | attempts, retry timers, carrier files | start, poll, cancel, join | native transport | bounded retries, one terminal event, cancellation final |
| Process port (`process.lua`, `src/native`) | native handle, output accumulators | start, poll, cancel, join, close | tools | no descendant left unreported, output bounded |
| Configuration (`config.lua`) | generation, drafts | begin, edit, commit | fs | commit only over the base that was read |
| Index and resolver (`index.lua`) | bounded scan, observations | resolve, scan | fs, Session | an answer describes one moment |
| Terminal, TUI, formats, permission, safety, paths, CLI, diagnostics | little or none | conversions and decisions | | |

## Modules

| Module | What it is |
|---|---|
| `AgentLoop` | the main lane of the AgentLoop |
| `AgentLoopProofs` | its inductive invariant and theorems; a second invariant over it: how a turn ends, and what may start in it |
| `ContextHistory` | what the Context store promises: one growing history, one writer |
| `ContextStore` | the publication protocol that implements it |
| `ContextProofs` | its writers, its official file, what is in its files, and that it implements `ContextHistory`, proved |
| `OperationLedger` | what the tools promise of their side effects |
| `ToolOperations` | the execution of an accepted call, which implements it |
| `ToolProofs` | its inductive invariant, its safety properties and the refinement, proved |
| `EntryWorld` | one directory, its files and the other programs that use it |
| `PosixEntries`, `WindowsEntries` | the verified replace, rename and delete of the native layer |
| `PlainEntries`, `OpenEntries` | the plain calls; verified read and create |
| `ConfigSave` | a draft of the configuration from its read to its publication |
| `DirectoryWalk` | the list tool over the bounded walk of the native layer |
| `NativeEntries` | the seven above together, with their properties |
| `EntryProofs` | the inductive invariants of the file calls and of the list, and their safety properties, proved |
| `ActivityTree` | the processes of an activity and the pipes they write |
| `PosixSupervisor` | the process that contains an activity on POSIX (`yaca_supervisor.h`) |
| `ProcessPort` | the native process calls over both, with their properties |
| `ProcessProofs` | their inductive invariant and safety properties, proved |
| `TerminalWorkers` | the cooked reader and the clipboard thread, with the records they share |
| `TerminalMode` | the modes a terminal is put in and restored from |
| `TerminalPort` | the native terminal calls and the AsyncPort of `terminal.lua` over them |
| `ChatInput` | the chat editor's input over the port, with the properties of the four |
| `TerminalProofs` | the memory of the threads, what a close puts back, and the order of what is typed, proved |
| `Compaction` | a compaction from its admission to its end, over service, journal, gate, owner and Model port |
| `CompactionProofs` | its inductive invariant and safety properties, proved |
| `RetryController` | the retry controller of one logical Model request, as operators on a record |
| `ModelActivity` | the activity of a Model request over it, its attempts and curl, polled by the driver |
| `ModelProofs` | its inductive invariant and safety properties, proved |

### AgentLoop

The loop runs each call to its end before the next, so a call is one action:
`StartMain`, `ModelEvent`, `ModelResponse`, `ToolResult`, `Approval`, `ActionReview`,
`TerminationReview`, `Reply`, `ResolveYield`, `ResolvePreflight`, `Steer`, `Cancel`,
`Tick`, `Close`, with `TimeExpires` for the clock. Within one call the Lua code walks through many
states (`accept_tool_result` may pair the result, dispatch the next call, be denied,
skip the rest and ask the model again). The operators of the module mirror those local
functions one for one (`FinishCancelled` is `finish_cancelled_turn`, `InjectSteer` is
`inject_steer`, ...): each takes the state and the turn data reached so far and the last
one assigns the primed variables. One step is cut in two: a tool that answers within
`tools.start` leaves its result in `returned`, which `AcceptReturned` takes before any
other call (`Live`); otherwise one call could dispatch arbitrarily many tools in one step.

`main` is the turn (`initialize_main_turn`) with the upvalues that live as long as a
turn; `halted` is the halt of `durability_failure`; `fault` records that a call raised,
which only an edge outside `AGENT_TRANSITIONS` or a nil index does. Left open
(nondeterministic): what the model, the tools, the reviews and the permission rules
answer, when the clock reaches the cap, whether a commit is exact (`InexactCommits`),
whether the Context refuses a new obligation (`Refusals`), whether the queue holds an
item. Abstracted: identifiers, digests, message text, the step and review caps (same branch
as the request cap), the content of views.

`tools.admit` decides per call what it still has to pass; `gates` is that set, so that
"a tool ran without its approval" can be said.

### ContextStore

The directory is `dir` (official, previous and lock file by path); `disks` is the set
of directories a power loss may leave: a change that is not flushed adds its result to the
set, a flush leaves one. With `AtomicReplace = FALSE` a replacement may also leave the
official file missing or torn, the case the previous generation exists for
(`capabilities.target_qualified = false`). Processes are records with a program counter; each step of
`publish`, `move`, `apply_repair`, `recover_previous` and `delete` that changes the directory is an action, with
the flush that follows it and the failures of both. `Crash` ends a process anywhere and
leaves its lock files; `PowerLoss` ends all of them on some member of `disks`.

A document is the sequence of its publications, so two documents of one length that were
written in different histories differ. `confirmed` is the document of the last
receipt, which is what a caller was told.

`ContextHistory` has no files: a history that grows by receipts, a writer that is handed a
document with everything confirmed in it. `ImplementsHistory` is its specification with
the writers and their base documents substituted.

### ToolOperations

Between AgentLoop and the Context store lies the execution of an accepted call. `Accept` to
`EndTurn` are the loop's own commits, reduced to what the tools depend on (`AgentLoop` has the
rest); calls are accepted one by one, since they are also executed one by one. A call of
`tools.start` is cut wherever the process could end with a different world: after the intent
(`Begin`), after the token (`Mint`), at the effect (`Mutate`, `CleanUp`), at its verification
(`Verify`), at the result (`Settle`). `pc` is that position. The file tools (`write`, `patch`,
`rename`, `delete`) share one shape and are the tool `"direct"`; `exec` and `lua` are `"process"`;
the others have no operation and are `"read"`. A process port is `port`, with the state of the child
under its supervisor; `Poll`, `Cancel` and the close of the coordinator (`CloseAgent`) drive it.

Every commit has four outcomes: durable, refused before anything was written, lost, or written
without an acknowledgement (the last two latch `journal_failure`). The operation journal commits
inside `tools.start` and `poll`, on the generation of the Context; the loop commits on the
generation it has adopted. `ahead` is the difference, and a commit of the loop with `ahead > 0` is
refused and halts it. `effect` is what happened outside; it goes on after a `Crash`, and `Reopen`
continues a Context only under the conditions of `auto_continue`.

`OperationLedger` has no process and no journal: intents, effects, results, and which result may be
given to which effect. `ImplementsLedger` reads the ledger off the durable Facts.

### Entries

`EntryWorld` has one directory with three names: `target`, which the caller has admitted, `other` (the
temporary, the destination or the recovery name of the call) and `aside` (the backup of `ReplaceFileW`).
`Init` chooses one call, and each of its system calls is one action, with the failures the code handles
and every roll-back. Between any two of them another program may save over a name, remove, edit, link or
change the mode of what it names, or move the parent directory (`ForeignNext`, at most `MaxForeign`
steps). A program uses the names a user knows; the names yaca derives are its own, though an earlier call
may have left a file there. `facts` are what a stat tells apart (contents, mode, other metadata, the
inheritance bit, the number of moves, which is the change time); `alone` is the directory as the
other programs alone would have left it, and `taken` what was displaced at the commit, so that a
refusal and a success can be said to be true.

`ConfigSave` is `begin_edit`, `begin_new` and `commit_draft` of `config.lua`. The target is read through a handle that
stays with its object, in two reads with an identity before and after; the temporary is created, filled (or
half filled), read back, and published by the plain calls. Someone may save, edit or remove the file between any two of these.
`draft.last` is history that only the properties read: which file, with which content, the last check of the base opened, and
which files other programs had not saved by then.

`DirectoryWalk` is the `list` tool: `direct_walk` reverifies the root, the native walk opens it by its path,
looks for a `.gitignore`, enumerates, descends, sorts, then hashes and inspects every entry; the tool
reverifies and inspects each again, walks a second time and compares the two generations. Every one of
these is an action, and other programs place, remove, move and write entries or move an ancestor between
them (`MaxTree` steps). A stamp stands for size and modification time; a move changes it on POSIX, where
`modified` has the change time, and not on Windows, where instead an open folder cannot be moved.

### Process

`ActivityTree` is what the activity does on its own: fork, exit, orphan its children, close and write its
outputs. `PosixSupervisor` is the loop of `yaca_supervisor.h`: setup, startup word, wait for the leader,
termination, the waits that prove that nothing is left, the record sent to the owner. `ProcessPort` adds
`process_start` (capture and admission of the request, construction of arguments and environment, pipes,
supervisor or suspended process and job), `process_poll` with its reads in order, `process_cancel`,
`process_join`, `process_close`, the collector and the end of the owner. `faults` counts everything that
may go wrong outside (`MaxFaults`): a call that fails, a kill that is refused, a supervisor that is killed,
an owner that crashes.

### Terminal

`TerminalWorkers` holds the two threads of the Windows console, the reader of a cooked line and the
reader of the clipboard, and the record each shares with the terminal; `TerminalMode` the mode that is
set and restored on a tty, a pseudo-terminal helper (`yaca_pty.h`), a console, a stream and a pipe, with
failures. `TerminalPort` is `terminal_open`, `_poll`, `_cancel`, `_close` and the port of
`terminal.lua` that queues events, holds keys behind a paste and tells the end. `ChatInput`
types, pastes and times out. What the user types is a sequence of numbers; a paste and a key are told
apart, contents are not.

### Compaction

Five parts of the code each keep their own idea of a compaction: the gate of the loop (`compaction_gate`), the service
(`state` and `active` of `compact.lua`), the port (`active` of `new_compaction_port`), the lifecycle in the Context
(`compaction_lifecycles`, restored from the Facts), and the owner's `active`, which the model takes from the gate. They meet in
records: each is committed by the session journal against the generation the service knows, then adopted by the loop against the
phase of its gate. `CommitRequest` to `CommitCancelled` are these records, each with the calls before and after it up to
the next one; `call` says which comes next and for whom (a command, a round, a close), because that decides what an error
does. A record that is refused, out of order or not acknowledged is `Breaks`, which ends in `Barrier`.

`context` holds what is durable: a number of facts, the open turn, the view (the summary it begins with and the facts it was made
from), the open lifecycle, and the streak of automatic failures as the scan of the Facts counts it. Generations are
compared and never counted: `stale` says that the service's is past. Of the loop only its turn is kept (`Moves`); a queue edit,
an ask or a steer is one commit (`SideMessage`). `NextService` is a new main turn, which may come with a new configuration
generation and a new service. `lost` is the one commit that is not acknowledged: durable or not, it is a choice.

### Model activity

`RetryController` is `new_retry_controller`, one operator per method: what an ended attempt leads to and
whether another may start. Time is kept as the two things the code asks of it, whether the deadline has come
(`late`) and whether a wait is over (`due`). `ModelActivity` has the request of the loop, the activity of the service,
the controller and curl. `Start`, `Poll` and `Cancel` are the calls; between them curl ends, a wait elapses and the
deadline comes. A call passes through many local functions (`process_terminal`, `process_http`,
`parse_provider_response`, `finish_retry`, ...), any of which may return an error that the next one up answers or drops; each is an
operator from a situation (the record of all that a call may change) to the situations it may leave. `poll` comes as three
actions by its early returns: the drained batch fills the budget, the activity is terminal, or it goes on.

Of a response the number of queued events is kept, because `poll` drains `Budget` of them at a time. `work` is a history
variable: what the Provider did with the last attempt, which the code cannot see and `transport_category` judges by exit code, bytes and
the proof about descendants.

## Runs

| Run | Module, bounds | Properties | States |
|---|---|---|---|
| `deferred` | AgentLoop, 2 calls per response, 3 requests, 1 turn, 1 steer, automatic compaction, double check, reviews, refusals, inexact commits, fairness | `OneForeground`, `RequestsOweNothing`, `GatesPassed`, `LastTurnSettled`, `TerminalPrecedence`, `NothingStartsAfterCancel`, `CancelSettles`, `CloseCompletes` | 120,338 |
| `store` | ContextStore, 2 processes, 2 paths, 3 documents, renames or repairs, replacement not atomic | `ConfirmedSurvives`, `OneWriter`, `OneOfficial`, `ImplementsHistory` | 111,652 |
| `tools` | ToolOperations with fairness, 2 calls, cancels | `ResultsTruthful`, `NothingRunsUnreported`, `ContinuesAtRest`, `ImplementsLedger`, `CallSettles` | 58,235 |
| `entries` | NativeEntries, both systems, every call, 2 foreign files, 3 steps of other programs; a save with 2 reads; lists of depth 0 and 1 with limits 2 and 9, 2 steps | `NothingForeignLost`, `RefusalChangesNothing`, `CommitAdmitted`, `MetadataKept`, `ListIsASnapshot` | 1,169,460 |
| `process` | ProcessPort with fairness, both systems, 2 processes, 2 chunks, 1 fault, polls of 1 and 3 events | `ProofHolds`, `OutcomeTruthful`, `TerminalComplete`, `CancelSettles`, `NothingOutlivesOwner`, `EndIsTold` | 795,239 |
| `terminal` | ChatInput with fairness, every kind of terminal | `CloseLeavesNothing`, `WorkersKeepTheirMemory`, `InputInOrder`, `PasteSettles`, `CancelTold` | 748,274 |
| `compaction` | Compaction with fairness, 4 compactions of 2 attempts, 4 commits of the loop, threshold 2, one lost commit | `LaneAgrees`, `ViewNeverStale`, `CircuitHolds`, `CompactionEnds` | 966,230 |
| `network` | ModelActivity with fairness, 2 retries, 2 redirects, responses of 2 to 7 events drained by 3 | `RequestHeld`, `NoReplay`, `RequestEnds` | 1,835 |
| `steer`, `barrier`, `fork`, `lane` | the same modules, one property each | see "What the runs found" | |

What the properties say is in the comment before each of them.

Why the bounds are enough. Two calls in a response are the least for which "the rest is
skipped" and "the next call is dispatched" differ; three requests let a turn have tools, a
correction and a double check and still reach the limit. One turn is enough for the checks of TLC, since a turn starts
from nothing but a loop at rest (`initialize_main_turn`), which is what the inductive invariant says of the end of
every turn. In the store, two processes and two paths give every
pair of racing operations, and three documents a creation, a replacement
and one operation after it (a rename or repair writes a document). For the tools, two calls let one
begin while the other is in doubt, in the same turn, the next, or after a crash. Longer histories
repeat these: publications differ only in length. For the entries, three steps let another program
displace what was admitted, disturb the roll-back and come back; one of the two foreign files may already lie
under a name yaca derives. For a list, two steps let an entry leave or change after it was read and another
come before the walk ends, and the smaller limit is reached by the first file that is added. Two processes are a
leader and a child it orphans, and the smaller poll cannot hold the last chunk and the end at once.
Four compactions let two automatic failures open the circuit, a probe go through it and another follow; two attempts are a retry
and a last one; four commits of the loop are a deferred turn, one in its midst, its end and a next turn.
Two retries and two redirects are a first and a last one of each; the fallback comes before, between or after them. Responses of up to
seven events, drained three at a time, end inside a batch, with the first full one, with the second, and after it.
For the properties that are proved (below), the proofs remove the bounds.

`CHECK_DEADLOCK FALSE`: the loop stops in `Closing` or when `MaxTurns` is
used up, the store when `MaxFacts` is, the tools in a Context that must not be continued, a process and a
terminal when they are closed, the Model service when it holds an answered request (see "What the runs found").

Fairness. In `deferred`, weak fairness of `ModelResponse`, `ToolResult`, `AcceptReturned`,
`ActionReview`, `TerminationReview` and `ResolvePreflight`. The coordinator's loop
calls `drive_automatic_preflight`, `drive_compaction` and `drive_agent` in every round
(`main.lua`, `run`), and every port has a deadline after which it answers. Nothing the
user does is fair: no approval, reply or steer ever has to come, and the runs show that
cancelling and closing do not need them. In `tools`, weak fairness of `Poll` (the same loop),
`DeadlinePasses` (the monotonic clock), `ChildKilled` (a supervisor whose control pipe is closed stops
the tree) and `GiveUp` (`close_poll_steps`). A request to stop that raises is excepted by `CallSettles`:
the code retries none.

In `process`, weak fairness of the supervisor's loop and process, of the start and the polls of the driver, of the
collection once it has begun, and of a writer whose readers are gone. The activity itself owes nothing: it
need never exit, read or close. In `terminal`, weak fairness of the polls, the editor, the native calls under way, the threads
and the clock; the user need not type, and `CancelTold` speaks of a cancellation that was asked for.

In `compaction`, weak fairness of `Commit` (a call that was begun goes on), of `Tick` and `BeginAutomatic` (every round calls
`drive_compaction` and `drive_automatic_preflight`) and of `TimePasses` (the monotonic clock). The provider need not answer, the user
need not act, and a cancellation need never be acknowledged. Deadlock is checked: the next open is always possible.

In `network`, weak fairness of `Poll` (the driver polls in every round while the loop waits), of `CurlEnds` (every attempt has a
`max-time`) and of `Elapse` (the monotonic clock). The deadline and the user owe nothing. `RequestEnds` excepts a stranded request (see below).

### What the runs found

- `steer`: a steer while the turn waits for the user with calls open (for example a
  deferred approval) commits its Fact and then raises: `WaitingUser -> DispatchingTools`
  is no edge of `AGENT_TRANSITIONS`.
- A steer while a review is deferred leaves the loop in `Preparing`, where the review that starts later is
  not polled, and a cancellation waits for ever. `CancelSettles` and `CloseCompletes` except turns that were
  steered for this reason; without the exception `deferred` finds it.
- `fork`: after a crash in a rename, between the publication under the new path and the removal of the hidden
  old file, a repair of the old path makes the Context official twice.
- `barrier`: a process tool that fails inside `port:start` has its result published before
  `tools.start` answers `async`; until the next poll the loop is one generation behind, and a cancel
  (or a queue edit, or the answer of an ask) is refused and halts it although nothing was lost.
- If the native start of a process tool itself fails, the inner port is still `created` and cannot be
  closed, so the poll that would hand over the result raises, and closing the session meets `barrier`.
- `lane`: a draft of several lines that is pasted, or sent by `.submit`, `.ask`, `.immediate` or a message key, does not
  pass the guard of `route_agent_action` and is committed while a compaction is active. The compaction's next record is then
  stale, and its refusal halts the loop for good. (Without `SideMessage` the property holds.)

Met while the models were written, outside what a property of a run says:

- When an action review cannot be started (`runtime.lua:1921`), or the active-time cap is noticed by `tick`
  between two activities (`runtime.lua:5225`), the turn ends with accepted calls that have no result, against
  `accepted_tool_call_results = "exactly-one-real-or-synthetic"` (`contracts/runtime.lua:134`). `LastTurnSettled` is the
  property without those two paths; the flag `cut` marks them.
- `poll` of the Model activity returns as soon as the drained events fill its budget, before it looks whether the activity is terminal
  and empty (`model.lua:4882`). A response with 256, 384, ... queued events is delivered by such a poll, and nothing polls the
  activity again: the next request of the loop is refused as `ModelActivityBusy` and its turn ends in error, and every turn after it
  is refused (`TurnActivitiesBusy`). In the model the service stops there: `~ request /\ activity.state = "terminal"`.
- A malformed first stream that is read when the deadline has come asks for the fallback after its response session has finished
  (`model.lua:4535`). The refusal cannot be made a response any more, the activity stays active without an attempt, and the next poll
  raises and ends the program, against the comment at `model.lua:4207`. `Stranded` is that state, which `RequestEnds` excepts.
- If a poll of the attempt fails (`model.lua:4906`), the request is answered as unknown, but the attempt is neither cancelled nor
  closed: curl runs on, and its temporary files stay, against `03-network-transport.md:98`.
- The commit of a configuration draft compares the file with its base twice, then replaces it by a call that checks nothing about
  what it replaces (`config.lua:2614`): an edit saved in between is overwritten, against `05-configuration.md:129`.
  `NothingForeignLost` excepts exactly the files saved after the last check opened the target (`SavedAfterCheck`); with
  that set empty, `entries` finds the loss. An edit in place of the admitted file after that check is lost with it.
- After a refused paste, `discard_following_keys` (`terminal.lua:1617`) removes the start of the next one and leaves its
  clipboard read running; the text is inserted after keys that were typed later (`unheld` in `ChatInput`).
- A quit while the cancellation of a compaction is pending, or after a lost barrier: the owner's `close` asks the service to cancel,
  which refuses anything but `Compacting` (`compact.lua:1751`), so that the close fails and the Context writer is never closed
  (`CloseCompaction`).
- A cancellation that `tick` settles as unknown leaves the Model port active for ever: it is polled only while the owner
  is active, so `catalog.idle` stays false and every later main turn is refused (`TurnAdmitted`). With a service
  that is `Unknown`, a turn with a new configuration generation meets `CompactionBusy` and ends the program (`BeginRefused`).
- A half-open probe that the user cancels leaves the circuit closed in memory although the durable streak is at the threshold;
  `CircuitHolds` therefore asks for a cooldown since the last failure, not for an open circuit.
- When the headers of a finished attempt cannot be read or its temporaries not removed, `port:join` enters the state `failed`, in which
  `port:close` raises before it closes the process (`network.lua:2654`): the request is answered, the native handle left to the collector.
- A crash inside an automatic compaction leaves its turn unfinished: the Context is recovered but not continued (`Opened`).

Exceptions that the comments of the properties name, found while they were checked:

- Entries, both systems: the save of the configuration loses a file that another program saves at the target after its last check
  has opened it (above). Nothing saved earlier is lost, and a save that answers ok was made over the file and the content that check opened.
- Entries, Windows: the roll-back of a replacement is a second `ReplaceFileW`, which destroys a file that was saved at the
  target meanwhile and may still answer `TargetChanged`; a plain one may fail after it has removed the target,
  and `commit_draft` then removes the temporary too, so that neither the old configuration nor the new one is left; hard links are not looked at again at the
  effect; a file created by its path can land in another folder that took the parent's place.
- Entries, POSIX: a new configuration is linked to its name before its temporary is unlinked; if that fails the roll-back
  unlinks the name, and with it a file that was saved there meanwhile. The roll-back of a rename may take a file that was saved at the destination to the source's name; a
  change of an extended attribute after the last look is not seen.
- List: `complete` is what the first walk says, and the comparison covers the generation only: if the second walk is cut off
  (a folder receives its first entry after it was read and the limit is just reached) or meets a `.gitignore` that came after the folder was read, the
  generation may be the same, and the list is still called complete. On Windows, where a move changes no stamp of what is moved, a folder that was empty to the first walk
  may be moved away while the second passes: what is in it by then is left out. An entry that vanishes between its hash and its snapshot on POSIX has a
  snapshot without identity, and `execute_list` then raises (`InspectEntry`, caught by the executor's `pcall`).
- Process, Windows: an owner that dies between the creation of the suspended process and its assignment
  to the job leaves it suspended. A read error drops the events of its poll (`lost`).
- Terminal, Windows: a cancellation that meets a reader that has just finished leaves the synthetic Enter in the
  console's buffer.

The passing store runs therefore allow either rename or repair. With both allowed, the two official files
also allow two writers, one at each path.

## Proofs

`AgentLoopProofs` proves, for all `MaxCalls`, `ModelRequestLimit`, `MaxTurns`, `MaxSteers`
and all five flags (`AgentLoopAssumption` is the only assumption):

| Theorem | Says |
|---|---|
| `Rests` | `Spec => []IInv` |
| `TypeCorrect` | `Spec => []TypeOK` |
| `OneForegroundHolds` | `Spec => []OneForeground` |
| `RequestsOweNothingHolds` | `Spec => []RequestsOweNothing` |
| `GatesPassedHolds` | `Spec => []GatesPassed` |
| `LastTurnSettledHolds` | `Spec => []LastTurnSettled` |

None of these properties is inductive. That no request is asked with a result owing, for
instance, needs that calls are paired in order (`Prefix`: exactly the calls before the
cursor have a result), that a deferred `main` request or termination review is only left
where the cursor is past the last call (`PreflightRests`), that a call waiting for approval has passed its
review (`PendingRests`), and what each state implies when no activity is out (`StateRests`).
`IInv` is their conjunction, `Resting(state, main)`, for a loop that is not halted, and
the properties themselves (`Safe`, `Concluded`), which a halted loop keeps.
The proof follows the code's call graph: one lemma per operator, from `FinalizeRests` over
`StartModelRests`, `InjectSteerRests` and `DispatchNextRests` to `AcceptResultRests`, each saying
that the operator, given a turn whose walk is in a certain shape, establishes `IInv'`;
then one lemma per action. It holds also in the behaviours in which a call raises.

The second part of the module extends it with

| Theorem | Says |
|---|---|
| `Attended` | `Spec => []PInv` |
| `TerminalPrecedenceHolds` | `Spec => []TerminalPrecedence` |
| `NothingStartsAfterCancelHolds` | `Spec => NothingStartsAfterCancel` |

`PInv` says what a turn remembers between two calls: while it is cancelled the loop only waits for the activity it
cancelled (`Attends`), a model that yielded was neither cancelled nor steered since, a review that was skipped for a gap
was checked, and no side effect is unknown in a turn that goes on (`Clean`). Every operator that finalizes a turn is then
called with an outcome that what happened to the turn still allows (`May`), and a step that starts an activity has left
`cancel` at `"none"`.

`ToolProofs` proves of `ToolOperations`, for every `MaxCalls`, from `ToolOperationsAssumption`:

| Theorem | Says |
|---|---|
| `Accounted` | `Spec => []TInv` |
| `TypeCorrect` | `Spec => []TypeOK` |
| `ResultsTruthfulHolds` | `Spec => []ResultsTruthful` |
| `NothingRunsUnreportedHolds` | `Spec => []NothingRunsUnreported` |
| `ContinuesAtRestHolds` | `Spec => []ContinuesAtRest` |
| `KeepsUpHolds` | `Spec => []KeepsUp`: the loop binds the current generation, except beside a settled port |
| `LedgerImplemented` | `Spec => ImplementsLedger` |

`TInv` says of each call how its Facts and its effect agree (`Agrees`: a call whose effect still runs is in doubt, one that is
open is the active operation, or has blocked the service, or the process is down or about to halt), of each place how far the
loop is behind the journal and what the call at hand may have done (`Placed`), and what the port says of the process
(`PortAgrees`). The conjunct that carries the refinement is `Held`: while a call is at work its operation is the active one
and the service is not blocked, so that no other can be open. There is one lemma per action for the invariant; for the
refinement the actions fall into five kinds (`SameFacts`, `LoopFacts`, `Begins`, `Settlements`, `Effective` with
`Leftovers`), each a stutter or one step of `OperationLedger`.

`ContextProofs` proves of `ContextStore`, for any processes, paths and number of documents, whether a replacement is
atomic or not, assuming `NeverBoth`: no behaviour has both renames and repairs (with both, `fork` is a counterexample):

| Theorem | Says |
|---|---|
| `OneWriterHolds` | `Spec /\ NeverBoth => []OneWriter` |
| `OneOfficialHolds` | `Spec /\ NeverBoth => []OneOfficial` |

A lease protects a path, and a Context is not a path: what keeps a second process out after a rename is that it finds no
file where it may take a lease. The invariant therefore speaks of `Places`, the paths at which, after any power loss, a
file would be found from which a process could become a writer (the official file; with repairs the previous one too).
There is at most one; every writer has its lease (`Sound`), steps that will write at their own path have it nowhere
else, and a rename whose old file is hidden has it nowhere. An open that takes over a place hence has a lease that
no writer has. `AcquireKeeps`, `WriteKeeps` and `UnlockKeeps` are the three kinds of step; one lemma per group of actions
reduces it to one of them.

The second part of the module goes on from there, under the same assumption:

| Theorem | Says |
|---|---|
| `ConfirmedSurvivesHolds` | `Spec /\ NeverBoth => []ConfirmedSurvives` |
| `HistoryImplemented` | `Spec /\ NeverBoth => ImplementsHistory` |

`ConfirmedSurvives` does not say which path has the confirmed document, nor that what is found at a place is as new as the last
receipt, so it is not inductive. `HInv` adds that no document at a place is older than the confirmed one (`Fresh`), and
for each process what its step tells of the files in every member of `disks`, thus after any power loss, and of the document in
its hand (`Has`, `Stands`): before the replacement the previous file is the base, after it the official file is the document, a hidden
official is the previous file of its path, and the file at the destination of a rename is nobody else's. `Deleted` says that while
the previous file is removed nothing is confirmed and nobody can become a writer, or a receipt could come in between. A step
changes files at one path of its own leases, which leaves what `Has` says of the others (`OtherHas`, `StepHas`); `WriteHas` and
`AtHome` are a write, `LockStep` a step that writes none, and there is one lemma per action or group. For the refinement
a step opens (`Opens`), has a receipt (`Confirms`), ends (`Leaves`), deletes, or is unseen (`Ordinary`).

`EntryProofs` proves of `NativeEntries`, from `EntryAssumption` and `WalkAssumption`, for every set `Foreign` of files other programs have and
every number of their steps, on both systems and for every call:

| Theorem | Says |
|---|---|
| `EntriesInv` | `Spec => [](EInv /\ Waits /\ LastCheck)` |
| `NothingForeignLostHolds` | `Spec => []NothingForeignLost`, with the exceptions the property names |
| `RefusalChangesNothingHolds` | `Spec => []RefusalChangesNothing` |
| `CommitAdmittedHolds` | `Spec => []CommitAdmitted` |
| `MetadataKeptHolds` | `Spec => []MetadataKept` |
| `ListIsASnapshotHolds` | `Spec => []ListIsASnapshot`, moreover for every number of steps in the tree and every limit |

The first four properties speak almost only of finished calls, so none is inductive. `EInv` has one conjunct per call (`PosixReplaces`, `WindowsReplaces`,
`Moves`, `Deletes`, `Opens`, `Plains`, `SaveInv` with `BaseInv`) that says what each of its stages holds: which name has which
file, what the directory would be without the call (`Vacated`, `Displaced`), and what is still known of the stats
taken earlier; a call that is done has the properties (`Ended`), and none has an answer before it is over (`Waits`). The
invariant was checked with TLC before it was proved, with three foreign steps. The proof has two halves.
`Elsewhere` is what a call may rely on, whatever the others do: they keep to the public names, put there only a file that was
never in the directory before, and what a file holds only grows. `ForeignSays` proves it of every foreign step, `ForeignKeeps` that each
conjunct survives it. For the call's own steps there is one lemma per stage, over what exchange, rename and
unlink do to the directory (`ExchangedSays`, `RenamedSays`, `UnlinkedSays`). Why the bytes displaced are those
admitted although they were read before and after, and never at, the exchange: what was seen of a file's data only grows
(`Grown`), so data equal at the admission and at the look after the move were equal in between (`PublishedIsAdmitted`,
`SqueezedIsAdmitted`). That a look by name speaks of one file needs that no two names of a verified call lead to one
(`Apart`), which holds because a file another program has placed is not placed again (`Used`).

Of a save over the configuration `EInv` says nothing about what is lost. `LastCheck`, inductive under `EInv`, does: from the moment the last check
opens the target, the target is what was opened or a file saved since (`Since`), and once the check has passed, what was opened is the file and
content the draft was made from (`OfBase`), because its data cannot have been less at the opening than at the admission, nor more than in the
stat that equals it. The replacement, which goes by name, can thus displace nothing else.

The last part of the module is the list, with an invariant of its own: `ListInv` says of a walk under way (`Walking`) what its stack of open
folders (`Shape`), what it has found (`FoundOK`) and what it has still to hash or to classify (`TodoOK`) may be at each stage, and
how both walks lie to the tree. Stamps only grow, and a folder that keeps its stamp keeps what it holds (`Onward`, proved of every step in
the tree by `TreeStepSays`). The moment whose view the list shows is the one at which the second walk verified its root: then the root had not changed since the
admission, so that all marks of the first walk are of what lay there (`FirstWalk`, `Between`), and no stamp was lower than in these marks. `Second` carries the tree
of that moment, `u`, through the second walk, whose marks are not lower than `u`: where the two generations are equal, each stamp is
squeezed to that of `u`, hence each mark and each item between them is what `u` held (`ItemsShown`). That none is left out needs
more: `Covers` says that the second walk has read the folder below as it was in `u`, if that folder is still what it was
when it is marked; on Windows the one exception is a folder found empty (`Bare`). One lemma per
step (`VerifyKeeps` to `ConfirmKeeps`), over `Meets` and `TreeKeeps`. `ListInv` was checked with TLC first, with a variable that
remembers `u`: all states with two steps in the tree, and by simulation with six. It is this invariant that showed both exceptions above that
`ListIsASnapshot` now names: `entries` takes two steps in the tree and does not reach them.

`ProcessProofs` proves of `ProcessPort`, from `ActivityAssumption` and `BudgetsAssumption`, for every number of processes, chunks
and faults and any budget of a poll, on both systems:

| Theorem | Says |
|---|---|
| `TypeCorrect` | `Spec => []TypeOK` |
| `ProofHoldsAlways` | `Spec => []ProofHolds` |
| `OutcomeTruthfulAlways` | `Spec => []OutcomeTruthful` |
| `TerminalCompleteAlways` | `Spec => []TerminalComplete` |

The supervisor concludes that nothing is left when it has no child to wait for, which says nothing of grandchildren. `TreeOK` is why
it is right: whoever has a parent other than the reaper has one that lives and is older, so the oldest living process is a child
of the reaper (`ReaperSeesAll`). From there `SupervisorOK` and `RecordOK` carry it into the record, `StartOK` and `OutcomeOK` to
the port, which may call an activity completed only if nobody was stopped (`Asked`: whoever lets go of the control pipe has
cancelled or is done with the port), and `StreamsOK` says that a stream no longer open is dry. `Calm` is what all steps
of the activity have in common, so that a port is proved against them once (`LoopKeeps`, `PortOverSupervisor`); `PortAlone`, `PollStepKeeps` and
`OwnerKeeps` are the same for the steps of the owner, and `RefreshIsTrue` is the one place where an outcome is decided.

`TerminalProofs` proves of `ChatInput`, for every bound of its modules:

| Theorem | Says |
|---|---|
| `MemoryIsKept` | `Spec => []WorkersKeepTheirMemory` |
| `CloseLeavesNothingHolds` | `Spec => []CloseLeavesNothing` |
| `InputInOrderHolds` | `Spec => []InputInOrder` |

The invariant of the first adds the domains of the workers and that there is no terminal and no call under way before the
port is started. `MInv` extends it: what of the mode and flags is not as it was found is kept to be put back, on each
kind of terminal, until it has been (`Kept`); a cooked console announces no paste, so that no event is thrown away with one
(`Cooked`); and the port knows of every thread that reads the console for it (`Readers`), which is why a close that ended left none.

`InputInOrder` only sees what the editor already has, and a gesture passes five places before: the thread of the clipboard or of
the cooked reader, the events of a poll, the keys held while a paste is awaited, and those replayed behind it. `OInv`, over
`MInv`, says where each gesture taken is and how the places are ordered. `Flow` is the order: the events of one poll rise, a
paste that has come stands first, and behind the announcement of another there are only keys (`Polled`); what is held or replayed is
behind everything given (`Editor`); what was polled is behind what is held, except the one paste that is awaited (`Order`); and that
paste is either the first event or still with the thread, which works at no other (`Pastes`), while a line of the cooked reader is behind
everything (`Line`). The exception `InputInOrder` makes is a case of `Awaited`: a paste whose announcement was thrown away with the keys behind
a refused one still comes. `Told` is the last conjunct, `Polls` and `Ends` say which polls, ends and threads there can be, so that `Pastes`
and `Told` are given up only when the port is to end. Each step of a poll adds one event or hands them over, each step of
the editor moves one gesture on (`NextOrder`); the lemmas on sequences say what `Append`, `Tail` and concatenation do to `Rising` and `Ids`.
`Following` and `Unheld` count places of the batch instead of filtering it, since what `SelectSeq` returns is not known to the provers.
`OInv` was model-checked before it was proved, with the constants of the run `terminal`.

`CompactionProofs` proves of `Compaction`, from `CompactionAssumption`, for every number of compactions, facts and
attempts and every threshold:

| Theorem | Says |
|---|---|
| `InvariantHolds` | `Spec => []IInv` |
| `LaneAgreesHolds` | `Spec => []LaneAgrees` |
| `ViewNeverStaleHolds` | `Spec => ViewNeverStale` |
| `CircuitHoldsHolds` | `Spec => CircuitHolds` |

`LaneAgrees` only speaks of the states between two calls and says nothing of the source of a summary, so it is not
inductive. `IInv` has a case for each record that may be pending (`Placed`): the lane is free, or gate, service and
lifecycle are bound to one attempt, and the source of the lifecycle is what the Context holds unless the service is
stale (`Bound`). A record that is refused or lost halts the loop, whose places are fewer (`Fallen`): no request and no publication
is pending there, which is why nothing is published out of it. `Streak` is for the circuit: a closed one either knows of every durable
failure, and they are few, or it is closed for a probe after the cooldown and one more failure opens it. `Deferred` says that an
automatic gate has a request behind it. `BarrierHolds`, `EndsHolds`, `AdvanceHolds` and `RoundHolds`
are the four kinds of step: a record that breaks, that ends the compaction, that goes on, and a step between two calls.

`ModelProofs` proves of `ModelActivity`, from `RetryAssumption` and `ActivityAssumption`, for every number of retries and
redirects, every budget of a poll and every length of a response:

| Theorem | Says |
|---|---|
| `InvariantHolds` | `Spec => []IInv` |
| `RequestHeldHolds` | `Spec => []RequestHeld` |
| `NoReplayHolds` | `Spec => NoReplay` |

`RequestHeld` leaves open what a wait may be: its `IInv` adds that a request that waits has an empty output, no response session,
no attempt and no cancellation, and that its last attempt left nothing with the Provider (`Replayable`), which is what `NoReplay` needs; that an
attempt is out only beside an open session and an active controller, or a cancelled one (`UnderWay`); and the
count of attempts for each state of the controller (`Counted`). A call passes through several situations, so the lemmas
follow the code's functions, from the operators of the controller (`StartCounts`, `FinishCounts`, ...) over
`DecidedHolds`, `HttpHolds` and `TerminalHolds` to `AdvancedHolds`, a whole poll; `RetryProvesUnsent` is the table of `transport_category`.

Only model-checked:

- the liveness properties, whose proof needs ENABLED: `CancelSettles` and `CloseCompletes` of the loop, `CallSettles`, `CancelSettles`,
  `NothingOutlivesOwner` and `EndIsTold` of a process, `PasteSettles`, `CancelTold`, `CompactionEnds`, `RequestEnds`.

## Not modelled

- AgentLoop: the asks, the queue's edits, the adoption of a session override, and the EventPump (the compaction lane is in
  `Compaction`). A queued item appears as the choice to start another turn.
- Context store: rebind to another directory, import, the document schema and its capacity, and
  changes by programs that ignore the lease (the `TargetChanged` branches). The
  temporary file: only its writer reads it.
- Tools: the schemas and admission of the tools, permission decisions and approval evidence, the pages of a list after the
  first. `.git` is skipped by a walk and left out of `DirectoryWalk`, as is the reserved tree.
- Entries: POSIX access lists and Windows security descriptors are one number (`extra`); seek and the
  creation of directories; the retry of a configuration save under another random name; a list deeper than one folder.
- Process: the output quotas and carriers of `process.lua`; quoting and encoding of arguments.
- Terminal: decoding of escape sequences and UTF-8, rendering, redraw, completion; a resize.
- Compaction: the plan with its estimates and ranges (a choice: nothing to do, no room, a request), the corrections of a summary
  by the user, the requests that a Context of an older version may hold open, and the ask that must be over before a preflight.
- Network and Model activity: the carrier files, the curl configuration, secrets, headers and addresses, the length of waits and the decoders of
  the protocols: a choice of what joined, what was answered and in how many events. The review and compaction ports over the same attempts
  repeat the activity; only the compaction port is modelled, as a port.
- The other components of the table above, with the reason in `PROJECT.json`. The parsers, renderers and
  codecs are sequential conversions that unit tests reach.

## Plan

What is left, most important first:

1. The `EventPump`; the catalogue scan of `index.lua`, over `DirectoryWalk`.
2. Proofs: the temporal properties, when the prover has ENABLED and well-founded induction. Every invariant and action property of a
   run that passes is proved.
