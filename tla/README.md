# Verification of tile

TLA+ models of tile (`src/tile/`): the durable store, the life of a run over it,
the agent loop that a run executes, the live event stream, the assembly of provider
events from an OpenAI response and its replay in the next request, and the tools: their
processes, their output limits, and what they do to files. TLC checks
every property below on small instances; TLAPS proves the ones listed under "Proofs" for
every value of the constants. `PROJECT.json` lists the components, the runs, which source lines each
definition models, the mutants, the hazards and the theorems.

Run from this directory: `tlc -config MCRunLifecycle.cfg MCRunLifecycle`,
`tlapm RunLifecycleProofs.tla`.

## The system

| Component | State it keeps | Operations | Properties that make it correct |
| --- | --- | --- | --- |
| Store (`store/base.py`, `store/models.py`, `sessions.py`) | sessions, runs, committed history | create, start, finish, abort, fork; reads | one active run per session; deltas commit whole, with the outcome; an ended run is fenced; history is append-only; times agree whatever the clock does |
| SQLite store (`store/sqlite.py`, `_sqlite.py`, `store/schema.py`) | three tables, one write lock | the same, as statements inside BEGIN IMMEDIATE ... COMMIT | implements the store atomically; positions are dense; the snapshot of `start_run` is that of the insert |
| Run lifecycle (`runtime/run_execution.py`, `history.py`, `run_handle.py`, `harness.py`) | per process and run: snapshot, delta, task, result | prompt, emit, abort, finalize; crash | a reported outcome is the stored one; a commit extends the snapshot its run saw; faults and crashes commit nothing; waiters return |
| Prompt program and agent loop (`runtime/execution.py`, `agent.py`) | the request history, working history, delta, event log | provider turns, tool calls, follow-ups, cancellation, healing | the settled delta can be replayed; histories agree; events nest; the follow-up limit is exact |
| Live events (`run_execution.py` `events`) | the log, one shared `asyncio.Event` | emit, finalize; subscribe, yield, wait, leave | no lost wake-up; a stream that ends was whole |
| OpenAI stream (`sdk_event_adapter.py`, `stream_assembler.py`) | blocks, the active block | one step per raw event | terminal blocks are the response's items; events follow the blocks |
| OpenAI requests (`providers/openai/serialization.py`) | none | serialize a history | the service gets back what it said: ids, order and content |
| Schema (`store/schema.py`) | the database file's schema and version | open, by several processes | all or nothing; foreign files untouched; no loser in the race for a new file |
| Tool executor, harness checks (`tool_executor.py`, `runtime/harness.py`) | the tool table | register, add result tools, look up | no tool shadows another; an accepted harness runs every prompt |
| bash (`tools/bash.py`) | shell, its children, one pipe, timers | execute, time out, stop, be aborted | whole output, reaped shell, no stray signal; returns unless a child holds the pipe |
| Output limits (`tools/support/truncation.py`, `output_accumulator.py`) | a rolling tail and totals | accumulate, snapshot, truncate | the tail is the true tail; what is missing is reported and numbered |
| read (`tools/read.py`) | none | read from an offset | following the notices leads through the file to its end, or to a line over the byte limit, whose head is shown |
| grep, find (`tools/grep.py`, `find.py`, `support/executables.py`) | a process, two pipes | execute capped, parse, limit | returns; a part is never passed for the whole, but by grep for what lies behind the capture's cap |
| ls (`tools/ls.py`) | none | list up to a limit | what is left out is announced |
| edit (`tools/edit.py`) | one file, read, matched and written in a worker thread, piece by piece | match, splice, write | an accepted call replaces at once the only place of each old text; no reported edit is lost but to an overlapping call or a write that is cut off |
| write (`tools/write.py`) | the same file | truncate, write | the same |
| images of read (`tools/support/image_processing.py`) | none | orient, fit, encode, shrink | the image fits or the call fails; the loop ends |

How they interact: `AgentHarness.prompt` synchronously starts a run in the store and
creates the task. The task runs `execute_prompt`, which calls the provider and the
tools and publishes events through `RunExecution._emit`; `_emit` projects replayable
items into the run's two histories, appends to the log and wakes the consumers. The
task's done callback heals the delta, commits it with the outcome in one store
transaction, records the result, publishes the terminal event and releases `wait`.
Other processes reach the same run only through the database.

What is hard: a durable abort racing a finalization; a process that dies with a live
run; a finalization that fails; a snapshot that must still be current minutes later;
cancellation at any await, in the middle of a batch of tool calls; consumers sharing
one event; a response cut anywhere; a worker thread that goes on after its call was
aborted. `PROJECT.json` lists these at their lines, with the
property that would catch each.

## Modules

| Module | Models | Composition |
| --- | --- | --- |
| `TileStore` | the Store contract: every operation atomic | the abstract specification |
| `SQLiteStore` | `SQLiteStore` statement by statement, over several connections | `Store == INSTANCE TileStore WITH ...`, checked as a refinement |
| `SQLiteStoreProofs` | theorems about it, the refinement among them | EXTENDS `SQLiteStore`, TLAPS |
| `RunLifecycle` | live runs, in several processes, over the store | EXTENDS `TileStore`: its actions are the store's plus memory |
| `RunLifecycleProofs` | theorems about the store and about live runs, the refinement among them | EXTENDS `RunLifecycle`, TLAPS |
| `AgentLoop` | one run's task, await by await | refines what `RunLifecycle` abstracts to "emits items, ends with an outcome" |
| `AgentLoopProofs` | theorems about it | EXTENDS `AgentLoop`, TLAPS |
| `EventStream` | the log and its consumers | the interior of `_emit`, `_finalize` and `events` |
| `OpenAIStream` | raw OpenAI events to provider events | produces what `AgentLoop` consumes as one turn |
| `StreamProofs` | theorems about both streams and the next request | EXTENDS `OpenAIRequest`, `EventStream`, TLAPS |
| `OpenAIRequest` | the next request, made from the history that a stream's turn ends up in | EXTENDS `OpenAIStream` |
| `SchemaInit` | opening one file from several processes | the transactions of `SQLiteStore`, before there is a store |
| `SchemaInitProofs` | theorems about it | EXTENDS `SchemaInit`, TLAPS |
| `BashProcess` | one call of the bash tool with its processes | prints what `OutputAccumulator` is fed |
| `BashProcessProofs` | theorems about it | EXTENDS `BashProcess`, TLAPS |
| `CappedExecute` | one run of rg or fd with its two pipes | `Capture` is its outcome |
| `CappedExecuteProofs` | theorems about it | EXTENDS `CappedExecute`, TLAPS |
| `Truncation` | the pure operators of `truncation.py` | EXTENDED by `OutputAccumulator`, `ReadPaging` and `Capture` |
| `Capture` | what find and grep get of an executable's output | the outcome of `CappedExecute`; EXTENDED by `FindResults` and `GrepResults` |
| `OutputAccumulator` | bash's bounded tail of an unbounded output | against the whole output as a history variable |
| `ReadPaging` | read as a function, and a model that follows its notices | pure operators |
| `FindResults`, `GrepResults` | what find, ls and grep show and say | pure operators |
| `ToolRegistry` | which function a tool call reaches | pure operators; the lookup inside `AgentLoop`'s tool calls |
| `EditText` | what one edit call makes of a text | pure operators; the "old text of its own" of `FileTools` |
| `ImageScaling` | what read makes of an image, given the sizes an encoder yields | pure operators |
| `FileTools` | edit and write calls on one file, in worker threads, of several sessions | the interior of one tool call of `AgentLoop` |
| `MCToolFunctions` | the inputs of the tools, up to the bounds | EXTENDS the modules from `OutputAccumulator` to `FileTools` |
| `ToolProofs` | theorems about them | EXTENDS `MCToolFunctions`, TLAPS |

An operator whose comment begins with "Mutant:" is no part of the model. It is a
plausible bug in the definition that follows it, kept to show that the properties
can fail: with the mutant in place of the definition, TLC finds the property violated.

**TileStore.** A row that is absent is `NULL`; a run is active exactly when its
outcome is `NULL`, the schema's CHECK. History is the sequence of a session's rows in
position order, each with the run that committed it, which a fork keeps. Every
operation reads the clock once, as any member of `Times`. An operation the code
rejects is a disabled action: a rejected call changes nothing. `finish_run` and
`abort_active_run` differ in that the second commits no history.

**SQLiteStore.** `pc` is the statement a connection executes next; `view` is the
writer's uncommitted database, `db` the committed one. A failed check, a failed
constraint, an I/O error, a commit blocked by a reader and the death of the process are
all `Rollback`, possible at every statement. The schema's constraints are guards of the
statements they police, so `IndexesStayIdle` can say that the code's own checks make
them unnecessary. Readers outside a transaction see `db`.

**RunLifecycle.** `Accept` is `prompt`; `Observe` is an `_emit` that carries a
replayable item; `Cancel` is `abort`; `TaskEnds` is the end of the task with any
outcome; `Finalize` is the done callback, whose three alternatives are the committed
finish, the finish that finds the run ended (`RunAlreadyEndedError`) and the fault;
`DurableAbort` is `SessionRepository.abort_active_run` by anybody. `Crash` erases a
process's memory. One action is the code between two awaits of one event loop and holds
at most one committing store transaction, so other processes see it as one step.

**AgentLoop.** `pc` is the await the task is suspended at, the close of the provider
stream among them: of a turn that is whole, that failed, or whose tool calls were
cancelled. A cancellation is delivered at an await, or raised by a tool by itself. A turn is reduced to its tool calls' ids, an
execution to what the prompt program tells apart. The committed history a run starts
from is left out: nothing in the loop reads it, and both histories carry it unchanged.

**EventStream.** `events` clears the shared event, drains the log, then waits. A
consumer is suspended inside `yield` or inside `wait`; between the two it runs without
interruption. `Event.set` wakes all waiters, and a later `clear` does not undo that.

**SchemaInit.** `view` is the writer's transaction, `file` what is committed; a statement
that fails and a process that dies both end in `Rollback`. The files an opener may find
are a new one, another application's, a store of the removed layout, one of a later
version, and a current one.

**BashProcess.** `world` fixes what the command is like: which of shell and child hang,
ignore SIGTERM, hold the pipe or have left the process group, and whether Python's
`Process.wait` waits for the pipes too (releases differ). `Reap` is the moment
`process.returncode` is set; until then the shell is a zombie that can be signalled. An
`Abort` at one of the three waits enters the `finally` clause; at `await output_task` it
cancels the reader. Platforms without process groups are left out.

**CappedExecute.** `next` is what the process does next: it writes a unit to one of its
two pipes, and blocks on a full one, or exits. While the coroutine reads, the reader's
buffer counts as part of the pipe; afterwards `Buffer` is asyncio filling it up to the
point where it pauses. At 64 KB pipes and 128 KB buffers (`CapAssumption`) a killed
process's pipe always empties.

**OutputAccumulator.** A text is the sequence of its lines, a line that of its bytes; bytes
are told apart only as far as UTF-8 boundaries and newlines need it. Splitting and
decoding are recursive functions, one byte at a time (`LinesOfFirst`, `Decodings`).
`stream` keeps what the code forgets, so that "the notice is right" can be said of the whole output and not
of what is left of it.

**ReadPaging, FindResults, GrepResults, ToolRegistry, EditText, ImageScaling.** These
parts of the code keep no state between calls, so they are operators: `Page`,
`Captured` (what `execute` returns of an output, which at the cap may be cut at several
places), `FindPaths` (so a set of results), `ListEntries` for ls, `CapturedEvents` and `Grep`
(one captured event of rg's after the other), `Accepts`, `RunTools` and `Find`,
`EditFile`, and `ProcessImage`. Each module states what the result must be for any input,
and `MCToolFunctions` evaluates that over all small inputs. Arguments that come one call
at a time (the limits a model reads pages with, the edits of a call, the sizes an encoder
yields) are its steps. A tool's name is a base, a letter case, and perhaps blanks. A text
that is edited has one character of each kind that the code treats apart: newline,
carriage return, space, a letter, and a quotation mark with its plain form.

**FileTools.** A call is queued for a worker thread, reads the file piece by piece and
matches, truncates the file, writes its text piece by piece and closes; the run's task
waits for the answer, or is aborted and leaves the thread to itself. An edit whose old text
is not there is refused. `disk` says whose piece lies at each place of the file; a call
writes at the position of its own file object, so that two writes may mix. What an edit
finds in a whole text is known; in a part or a mixture it may find the new texts of any
edits that have been written. A write may break and a process die at any step: the pieces
stay. Two history variables: `beneath`, the calls that were done or writing while a call
wrote, and `missed`, the calls that wrote while an edit read or held the text.

**OpenAIStream.** The service is external: it streams output items one after another,
among them kinds that never become blocks, and may complete, be cut, or fail at any
point. Text is a sequence of fragments; a call's arguments are what they parse to,
those it was added with until they are complete. A block's `metadata` is what the stream
learns when its item is done; an item that was cut has none.

**OpenAIRequest.** `SerializeHistoryItems` makes the next request of a history that holds
an earlier turn, the turn a stream ended in, and the results of its calls. An id is
tagged with where it comes from, so that an id made up for a message or taken from a call
can be compared with those of the service.

## Runs

| Run | Shows | Bounds, and why they are enough |
| --- | --- | --- |
| `run_lifecycle` | the store's and the lifecycle's invariants and action properties; an aborted run returns | 2 processes, 2 runs, 2 sessions: every pair of run, owner and outside abort, a fork between two runs; deltas long enough to be healed or not; one clock reading, as the proofs treat the clock; one kind of item, so that the order of a delta's items is what the theorem about `CommittedDeltaIsWhole` shows and the run does not; `FairSpec` |
| `sqlite_store` | refinement of `TileStore`, dense positions | 2 connections, 2 sessions, 2 runs (all symmetric): any two calls interleaved at every statement |
| `agent_loop` | replay, nesting, agreement of histories, the follow-up limit | 3 call ids (symmetric), 2 calls a turn, 3 turns, 1 follow-up instead of 8: one turn after another, one attempt after another, and a batch interrupted at each place |
| `event_stream` | no lost wake-up, whole streams, termination | 3 consumers, 4 events: one waits, one drains, one arrives late; `FairSpec` |
| `openai_stream` | blocks and events agree with the response, and the next request gives the items back | 3 items of 4 kinds, 2 fragments each, after a turn whose message was cut |
| `schema_init` | all-or-nothing schema, races and crashes | 3 openers, every kind of file: one fails or dies, one waits, one succeeds |
| `bash_process` | what a returned call guarantees, and the only ways a call can hang | every `world`, 2 chunks, 2 aborts: the second abort frees the call |
| `capped_execute` | no deadlock on two pipes; whole output or whole lines | 8 units in any order against pipes of 2 and caps of 3 and 2: both pipes full, either cap reached |
| `tool_functions` | reading by the notices comes to the file's end or to a line over the limit; find and ls miss nothing without a notice, and grep nothing within its capture; dispatch is unambiguous; edits replace what they match; images fit; the shown end of an output is its end; only overlapping calls lose an edit | 3 lines or 5 paths around a byte limit of 3, with a capture of 7; 3 events of 1 or 4 bytes, so that the cap cuts rg's output ahead of a match or behind it; limits from -1 to 4, every pair of tools over 3 names in 2 spellings: below, at and above each limit. Texts of 4 characters, one edit over all kinds or two over blanks and newlines: apart, touching, overlapping, of equal start. A box of 4 by 3 and sides up to 9: 4 turns (`Turns`, the longer side) are one more than it takes to reach one pixel. 8 bytes of output against a rolling buffer of 6, in chunks of 2, which cut characters. 2 edits (symmetric) and a write by 2 sessions (symmetric) on 2 workers, in up to 2 pieces: each between another's read and write, between two of its pieces, and on what a cut off write left |
| `bash_hung`, `openai_cut`, `edit_splice` | violated, see Findings | the smallest instance that shows it |

Deadlock is not checked where the system may stop: a store nobody calls, a run that is
settled, a stream that has ended, a bash or rg call that is wedged or over, a tool whose
inputs are used up.

Fairness. `RunLifecycle`: the event loop runs a task's done callback, and delivers a
requested cancellation, assuming that no tool swallows it or refuses to unwind (the
bash tool may: see Findings); nothing obliges an uncancelled task to end.
`EventStream`: the loop runs whoever is ready, callers keep asking for
the next event, and the run ends. `BashProcess`, `CappedExecute`: the loop reaps, reads,
fires timers and resumes the coroutine; a process that neither hangs nor is blocked ends.

## Findings

Shown by a run:

- `docs/openai-stream-event-lifecycle.md:255`: a turn cut at the token limit does execute
  its tool calls, the unfinished one with empty arguments (`openai_cut`).
- `bash.py:26`: a command can wedge a run. A background child that outlives the shell with
  the pipe open is awaited without bound (`bash_hung`).
- `edit.py:433`: offsets do not stay stable when a match is empty. A blank line that is
  matched after normalisation is a span without characters; an edit that begins at the
  same place is spliced first, and the other over its new text (`edit_splice`).

Visible in the models, as a case that a property has to except:

- An abort takes the timeout off a hung bash command, signals nobody, and the call returns
  only when a second abort comes: the last case of `OnlyAnOpenPipeWedges`.
- `history.py:64`: a call whose id was used before in the run is not healed; the delta
  then holds a call without a result (`SettledDeltaReplays` assumes distinct ids).
- `events.py:6-7`: a stream error ahead of the response's creation publishes a message's
  end without its start (`EventsNest` leaves the ends of failed messages out).
- `grep.py:131`: grep builds its result from output that was cut at the capture's cap
  (`executables.py:53`) as if it were whole. With a low match count, or few matches that
  the 50 KB limit lets through, the matches behind the first 16 MB of JSON disappear
  without a notice (`MatchesAreAccountedFor` excepts what lies `BehindCap`).
- `read.py:327`: the notice for a line over the byte limit gives a command that prints the
  line's first 50 KB, and names neither an offset to go on with nor the number of lines;
  following the notices ends there, and what is behind the line is reached only by an offset
  of the model's own (`NoticesLeadTo`).
- `grep.py:172`: a match whose text has U+0085, U+2028 or U+2029 disappears without a
  notice, because `str.splitlines` breaks its JSON line (`Readable` excepts it).
- `edit.py:47`: an old text that occurs twice in places that overlap each other counts as
  unique: `"}\n}\n"` in `"}\n}\n}\n"` (`OldTextsDecide` counts overlapping places as one).
- `edit.py:442`: a file with mixed line endings gets uniform ones wherever it is edited
  (`AcceptedEditReplacesAtOnce` speaks of uniform files).
- `image_processing.py:74`: the note on a JPEG that is turned by a quarter compares the new
  width with the old height (the note is not modelled).
- `edit.py:132`: an edit whose run was aborted may still be written, over an edit that the
  model has made since and was told succeeded (the last case of `OnlyOverlapsLoseEdits`).
- `edit.py:470`, `write.py:54`: a file is truncated and then written a buffer at a time, in
  place. A write that breaks or is killed leaves a beginning of the text; an edit that reads
  it, or reads while another call writes, may find its old text there and writes back what
  it has read: what earlier, reported edits had put behind it is gone
  (`OnlyOverlapsLoseEdits` excepts writes that are cut off or under way, and overlaps).

Not modelled: `list_sessions` promises creation order (`store/base.py:96`) and sorts by
clock reading and random id.

## Proofs

`RunLifecycleProofs` first proves of the store, from `StoreAssumption` alone, that
`StoreInv` is inductive: the type invariant, and besides the four published invariants the three facts they need
(a run's session exists, an ended run has an end time, a session that does not exist has
no history). `OneActiveRun` needs only `StartRun`'s guard; `RunRowsAdjacent` needs
`RowsAreOfEndedRuns`, because a run that is still active has no row yet for its new rows
to be apart from; `TimesAgree` needs the types. Each operation has one lemma per part
that it can disturb. `HistoryAppendOnly` and `EndedRunIsFenced` follow step by step from
the same invariant.

It then shows that every step of a live run is a step of `TileStore` or a stutter
(`LifecycleImplementsStore`: `Spec => StoreSpec`), so all of the above holds of live
runs. `LifecycleInv` then adds what the processes' memory says: a phase agrees with the
record and the owner, and a run that is ended ahead of its own finalization was ended by
a durable abort (`FencedAgrees`). From it follow `SnapshotIsCurrent` (only an active
run's own finish appends to its session, and a session has one active run),
`ResultIsDurable`, `UncommittedRunsHaveNoRows`, and as action properties
`CommitExtendsSnapshot`, `OrphanEndsByAbort` and `SettledOnce`. `CommitInv` adds that a
prompt precedes whatever a run emits and that a committed delta stands whole, one row
after the other, in its session (`StandsWhole`): a finish appends it whole to a history
that has no row of its run, and every other step only extends histories
(`HistoryAppendOnly`). So `CommittedDeltaIsWhole` holds for any delta.

`SQLiteStoreProofs` proves that the statements implement the atomic store, for any number
of connections: `Spec => StoreSpec`. `SQLiteInv` is what makes a `COMMIT` one operation.
It says of the writer what its view has, at each statement, of the call it executes
(`WriteReady` to `CommitReady`): nothing at first, then the row that was inserted or
ended, then the history rows, then the touched session, with the check's finding still
true of the committed tables, since nobody else can commit meanwhile. And it says that
every session's rows, in the view too, have the positions 0 to n - 1, each once
(`Numbered`). Without that, neither would the append at `NextPosition` be one at the end,
nor the history `ORDER BY position` the sequence that the abstract store appends to:
`InsertedDelta` and `CopiedHistory` prove that it is. From the same invariant follow
`PositionsDense`, `IndexesStayIdle` and `StartSnapshotIsAtomic`.

`SchemaInitProofs` proves the three properties of opening a database for any number of
openers. `SchemaInv` says that only the writer is inside its transaction and what the
writer's view holds at each of its statements (`ViewAgrees`): the found file before the
check, a compatible one after it, a complete schema before the commit. Without that part
nothing says what `Commit` publishes.

`BashProcessProofs` proves that a reported outcome comes with the whole output of a
reaped shell, that no signal follows the reaping, and that a second abort ends the call,
for any number of chunks and aborts. `BashInv` adds what each wait of the coroutine
knows: draining without an abort implies a reaped shell (`PcAgrees`), a reader that is
done has everything and nobody can write any more (`ReaderAgrees`).

`CappedExecuteProofs` proves `ReturnedOutputIsHonest` and `ErrorCarriesStderr` for every
size of pipe, buffer, chunk and cap. `CappedInv` says that a coroutine past its stdout
loop, unless it was cancelled, has a process that writes no more; so what it has counted
then is still all there is when it returns. That the last complete line exists is an
induction over numbers, by the least element of a set (`LeastNat`).

`AgentLoopProofs` proves all five invariants of the loop for any set of call ids and any
number of calls, turns and reminders. `LoopInv` (stated in `AgentLoop`, so
that TLC can check it too) says at each await what the histories, the delta and the log of
a run have to do with each other. `HistoryAgrees`: the working history is the delta, and while a batch of calls is
executed the delta is ahead of the request history by exactly the turn so far, the calls
and the results of those that have returned. `DeltaAgrees`: a delta can be replayed but
for that turn. `ScopesAgree`: which events are open, as a stack that a recursive function
computes from the log. `CountsAgree`: how many reminders and ends the log has. The step
that needs most is `Finalize`: `HealedTurn` proves that giving every call of the
interrupted turn that has no result a result of its own completes it, if no id occurs
twice; else it may not (see Findings). The proof showed that the stack alone is not
inductive: `requesting` must also say that no turn has started. `RequestsReplay` (every
request's history can be replayed) and `EndedRunsAreNotHealed` come out of the same
invariant.

`StreamProofs` proves `TerminalBlocksAreTheItems` and `EventsFollowBlocks` for any items,
fragments and way of ending. `ProviderInv` says where in the list of blocks an item is
(`Place`, the number of items before it that become blocks), that what is there is what
the service has sent of it, and that the active block is the open item's. For the events
it says that the starts are as many as the blocks, each block has one, and that a block
has ended exactly when it is not active (`Booked`). The events are then those of the
blocks because a start appends its block, and because whatever a step does to the active
block happens between its start and its end.

From the same invariant `ReplayAlwaysKeepsTheItems` proves `ReplayKeepsTheItems` of the
next request. A request is a sequence of joined parts, one for every entry of the history
and, inside a turn's, one for every block. `FlattenSeqFacts` and `FlattenedParts` say
where each part ends up; `CountFacts`, that the items of a kind are counted without a gap,
so that the n-th of them is the n-th part that is not empty (`PartsOfItems`). That ids do
not collide needs one more invariant, that the service's items are numbered, and that
places differ (`PlacesDiffer`): the id made up for a message is its place.

The same module proves `NoLostWakeup` and
`EndedStreamIsWhole` for any number of consumers of the live log, and events; with the
types they are inductive, since every step that adds an event wakes all waiters and the
last one comes with the end.

`ToolProofs` is about the functions of the tools, and first about loops. The library's
induction rules take an operator as a parameter, which the provers cannot instantiate. So
`LeastNat` (a set of naturals has a least element, as finite sets are well-founded under
inclusion) gives `Induction` on a set of numbers, and `Recursion` says that a recursive
function on `0 .. n` exists and unfolds: what n turns of a loop have done is then an
element of the set of the n for which it is so. On it rest

- `NoticesLeadThroughFiles`: `HeadTruncation` characterises what a truncation keeps (`Cut`: the
  longest run of lines within both limits), so a page is the file's lines from its offset
  to where the next page begins, and pages along any limits join to the file, up to a line
  over the byte limit if it has one, where the notice leads no further;
- `FindReportsOmissions`, `LsReportsOmissions`, `GrepReportsOmissions`: a cut at the limit
  or at the byte limit loses only what the notices say, and so does find's at the cap;
  grep's at the cap loses what lies behind it, and nothing else, in silence. That find's cuts
  never hide each other needs the capture to be larger than the byte limit by a path
  (`FindAssumption`), which at 16 MB and 50 KB it is;
- `EveryRegistryIsSound`: no two tools that are offered differ only in case;
- `EveryImageFitsOrFails`: after k turns an image is in a box that is k pixels smaller on
  either side, down to one; so the loop ends after fewer turns than the longer side of
  the box has pixels;
- `EveryEditReplaces`, over every alphabet, for any file and any edits. The spans that a
  call is accepted with lie within the content and do not overlap (`AcceptedSpans`), found
  as text (`SearchFinds`: the first occurrence, and another one exactly if one is apart from
  it) or as whole lines (`WindowWithin`). `SpliceOrderSorts` shows that counting what
  precedes a span sorts them, and `LayoutOf` how they then lie: each ends before the one
  that was spliced before it, and what is between the two stays. So after every splice the
  text is what precedes the last spliced span, untouched, and behind it the replacement at once
  (`SplicesAtOnce`, by `SpanFromRight` and `SpanReplaced` for one span). That needs
  `BeginApart`: the run `edit_splice` shows what happens else. `RestoredAgain` and
  `EndingsOfRestored` carry the result through the line endings of the file, and
  `OldTextsDoDecide` says which old texts are found;
- `OutputsEndIsShown`. `AccInv` says that the buffer is the end of the output, that it
  is longer than the byte limit unless it is the whole, that the code knows whether it
  begins with a whole line, and that the totals are those of the output. Then the lines of the buffer,
  without a first one that is cut, are the last lines of the output (`BufferCovers`), and
  more of them than fit unless they are all. `TailTruncation` is `HeadTruncation` of
  the reversed lines.

All but the last are stated of the operators for every input, and then of the
specification that the runs check, for every value of its bounds (`ReadsFollowTheNotices`,
`SearchesDoReport`, `RegistriesAreSound`, `EditsDoReplace`, `ImagesDoFitOrFail`); the last is about the
accumulator's steps, so only of the specification.

For the files, `ToolProofs` proves `OnlyOverlapsLoseEdits` for any number of calls,
sessions, threads and pieces, in `FileSpec` and so in the specification of the runs. From
it follows that the edits of one session whose calls are never aborted are all in the file
whenever no call is writing or was cut off in it, as long as no write call has replaced it
(`FileOneSessionLosesNothing`). Some of the parts of `FileInv` say who can meet: a session
without an aborted call has at most the call it waits for at work (`LiveIsAwaited`), so
what an edit misses comes from elsewhere (`MissedAgrees`); two calls that write know of
each other, and an edit knows of all that wrote while it read or held the text
(`WritersAgree`, `MixedAgrees`). The others say what is where: what a lone writer has
written, and what an edit that missed nothing has read, is a first part of one text
(`PartsAgree`), so such an edit, which reads to the end of the file, has read a whole text;
and its own text, like the file when nobody writes, contains every finished edit but for
those that a broken write, a write call or an edit that missed something has overwritten
(`TextsAgree`, `DiskAgrees`).

Assumptions. `StoreAssumption` and `RunAssumption` say that absent values differ
from present ones, that `Aborted` is an outcome and that a run may commit whatever it
produces; `SQLiteAssumption` says the same of the tables; `NullAssumption`, that no opener
and no version is `NULL`; `FileAssumption`, that no call is both an edit and a write and that none is `None`;
`NamesAssumption`, that the names of result tools are names and can be written in lower
case. The others are about numbers: `LoopAssumption`, `LimitAssumption`, `GrepAssumption`
and both `BoundsAssumption` say that limits and bounds are naturals (as `CaptureAssumption` of
the cap and `FileAssumption` of the pieces, of which there is at least one), `BoxAssumption` that
the box is not empty, `CapAssumption` that a pipe is no larger than asyncio's buffer,
`FindAssumption` that the capture holds the byte limit and a path, `OutputAssumption` that
the rolling buffer, twice the byte limit, still holds the limit when it has lost a cut
character.

Only proved, not among the properties of a run: `TimesAgree` (the runs give the clock one
reading), `StoreTypeOK`, `TypeOK` of the lifecycle and of the loop, `HistoryAppendOnly`,
`RowsAreOfEndedRuns`, `SettledOnce`, `RequestsReplay`, `EndedRunsAreNotHealed`,
`ReportedShellIsReaped`, `SecondAbortFrees` and `FileOneSessionLosesNothing`.

Only model-checked: the liveness properties `StreamEnds`, `AbortReturns`, `CallReturns`
and `OnlyAnOpenPipeWedges`, since TLAPS does not reason about fairness and `ENABLED` here.
Every invariant, action property and refinement of a passing run is a theorem.

## Left to do

`AgentLoop` implements the part of a task that `RunLifecycle` assumes; `CappedExecute`
implements the one that `FindResults` and `GrepResults` take in one step (`Capture`).

## Not modelled

Row and JSON codecs of the store, prompt composition, tool schemas and argument validation
by pydantic, the contents of results and the phases of messages in OpenAI requests, the
HTTP transport, the other arguments of rg and fd, path spelling variants and the sniffing
of image types in read, image pixels, diffs, and the wording of messages: stateless
translations whose failure is an error path that the models have. The order of
`list_sessions`. Output items of one response that interleave: `stream_assembler.py:329`
keeps one active block, and the model's service, like the documented one, streams items
one after another. The provider and the operating system are external; the models let
them do anything the code has to cope with, within the bounds above.
