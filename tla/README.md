# oi.c: a model of the turn, its tools and requests, and the durable session

oi.c is an agent harness in C: a library (an epoll reactor, an LLM client, tool
processes, an append-only session log) and a command-line program that holds
conversations with a model, runs the tools it asks for, and keeps every session in a
log from which it can be resumed. This directory holds TLA+ modules of it: the durable
conversation and the loop around it, the reactor with the processes and the network
request it drives, the session directories that several processes share, and the keys
that come from the terminal. TLC checks them on small instances, TLAPS proves what
matters most for all instances.

## 1. Inventory

Paths are relative to the repository; `src/` below is its source directory.

| Component | State | Operations | Here |
|---|---|---|---|
| Log grammar, `cli_history_replay.c` | `replay_builder`: phase, turn ids, tools started/resolved, partial, queued input, context | one `apply_*` per record kind; legacy prefix; end-of-log verdict | `HistoryReplay` |
| Records and store, `cli_history.c`, `cli_history_store.c` | records in memory, next id | validity of a record; `append` replays the extended log before writing | `HistoryReplay`, `Conversation` |
| Repair, `cli_history_repair.c` | none | results and marker for an interrupted log | `Repl!RepairOnOpen` |
| Conversation driver, `cli_conversation.c` | busy, steering, request / tool / permission pending, `tool_index`, `model_steps`, live messages | start, reply, tool output and exit, resolve permission, steer, cancel, repair | `Conversation` |
| Interactive loop, `cli_repl.c` | queue slot, draft, turn input and signal contexts | prompt, dequeue, submit during a turn, Ctrl+C, signals, permission keys, escape timer, /compact, settings, end of turn | `Repl`, `Composer` |
| Program start, `cli.c` | `persistence_context` (turn id, sticky error) | persist callbacks, opening with repair and draft, administrative session commands | `Conversation`, `Repl`, `Sessions` |
| Session switch, `cli_session_switch.c` | old and new session | prepare, close, adopt, roll back | `Sessions`; what it leads to: `Repl` |
| Compaction, `cli_compact.c` | none | choose a prefix, ask for a summary | `Repl!Compact` |
| Sessions, `cli_sessions.c` | directories, lock of each log, working directory | create, rename, list, trash, restore, delete, import, open with settings, rebuild | `Sessions` |
| Metadata, `cli_session_metadata*.c` | a cache file replaced by rename, its lock | load, merge, write | `Sessions` |
| Session object, `session.c`, `arena.c` | arena and log of a session | create, fail, destroy | `Sessions` |
| Record file, `sesslog.c` | the file, its lock | header, framing, torn-tail truncation, append with rollback | `SessLog` |
| Reactor, `reactor.c`, `reactor_epoll.c` | descriptors with generation, timers, processes, the batch in hand | add, modify, remove, start and cancel, step, run | `Reactor` |
| Tool process, `tool_exec.c`, `tool_registry.c` | permission, pipes, exit, timeout | request, resolve, write, cancel, handlers, one `on_done` | `ToolExec` |
| Model connection, `llm_conn.c` | resolving, connecting, handshake, established; write queue; resolver job shared with a thread | open, write, close, readiness | `LlmConn` |
| Model request, `llm.c`, `llm_http.c`, `llm_sse.c` | parser states, assembled tool calls, `saw_done` | feed, events, timeout, cancel, finish once | `LlmRequest` |
| Composer, editor, input, prompt state, history, selector | input buffer, decoder, line, menu, history | keys to events to a submitted text | `Composer` |
| One-shot loop `cli_loop.c`; commands; rendering, markdown, UTF-8; JSON, codec, config | sequential, not durable | formatting and parsing | not modelled (the command filter: `Composer`) |

How they interact: one thread runs the reactor; it calls back into the tool and the
model request, they into the conversation, it into the event callback of the REPL or of
the one-shot loop, and that, through the presenter, into `persist_conversation_event`,
which appends to the log. The return value travels back: a failed append is a failed
event, and the conversation ends the turn. Terminal and signals are descriptors of the
same reactor while a turn runs. The only other thread is the resolver's. Other oi
processes are met through the file system only: the `flock` of a log, the lock of a
metadata cache, and rename.

What is hard: (a) the order of records within a turn, when any append, request or
output may fail and the turn must still be closed in the log; (b) cancel, steering and
the answer to a permission question arriving in any state; (c) the process dying
between any two records, and the reopening; (d) the queue, which exists in memory and
in the log; (e) batches of events, handled after the turn, the call or the descriptor
they belong to is gone; (f) exit, end of output, timeout and exec error of a child in
any order; (g) the resolver thread and a close that does not wait for it; (h) bytes cut
anywhere, by the network and by the terminal; (i) two processes on one session, one of
which dies. `PROJECT.json`, "hazards", lists each at its line with the properties that
watch it.

## 2. Modules

| Module | What it is |
|---|---|
| `HistoryReplay` | for each kind of record, when the log accepts it and what it leaves (pure operators) |
| `Dialogue` | what a session is to the user, the model and the tools: one transcript, each message by whom it is due from |
| `Conversation` | the driver: one action per piece of a callback up to an append; implements `Dialogue` |
| `Repl` | the loop around it: opening, prompt, queue, events of a turn, end of turn, death; implements `Dialogue` too |
| `DurableLog` | what `sesslog.h` promises: an append-only sequence of records |
| `SessLog` | the bytes of the file, the lock, the scan, the rollback; implements `DurableLog` |
| `Reactor` | registrations, tokens and batches of the event loop (operators on one record) |
| `ToolExec` | tool calls on that reactor, with children and clocks as environment |
| `LlmConn` | the connection: states, interest, write queue, the job shared with the resolver (operators) |
| `LlmRequest` | the request on that connection: handlers, parsers, callbacks, server |
| `Sessions` | session directories, metadata cache, switch, between processes |
| `Composer` | from bytes of the terminal to the draft, through four readers |
| `HistoryProofs`, `ConversationProofs`, `ReplProofs` | lemmas and theorems about the log, the driver and the loop |
| `SessLogProofs`, `SessionsProofs`, `RequestProofs`, `ToolExecProofs`, `ComposerProofs` | theorems about `SessLog`, `Sessions`, `LlmRequest`, `ToolExec` and `Composer` |
| `MCConversation`, `MCRepl`, `MCSessLog`, `MCToolExec`, `MCLlmRequest`, `MCComposer` | the instances TLC runs (`Sessions` needs none) |

`HistoryReplay`. `oi_cli_history_store_append` replays the whole log with the new
record before it writes it, so a log is described by the state of that replay at its
end. The record `History` is `struct replay_builder`; `AcceptsTool` and `AfterTool` are
`apply_tool_message`, and so on. Texts are dropped, except for those of user input,
which the queue compares. Record ids follow from the order. The transition record that
separates an untyped prefix is folded into `LegacyHistory`. `AcceptsResolved` leaves out
the id of the queued record, of which there is at most one.

`Conversation`. A callback such as `on_tool_done` is not one step: it may append several
records, each append may fail, and the process may die in between. `pc` names the next
piece ("launch", "repair", "marker", ...), or where the code has returned to the
reactor (`Waiting`). `hist` is the log, `live` the messages sent to the model; they are
separate variables in the code too, and that they agree is a theorem, not an assumption.
`Wrote` and `WriteFailed` are the two ways an append ends: it is refused by the grammar,
or it is accepted and fails on the way to disk; in both cases `last_error` is set for
good. `Faults` selects what may go wrong. Two variables are for checking only: `ran`, the
calls whose process was spawned, and `rejected`, that the grammar refused something.
`hazard` collects the mishaps after which a refusal is the known result; every property
that excuses one names it, so the excuses are the following list and no more:

| hazard | what happened |
|---|---|
| storage | an append failed |
| start left open | the request of a new turn could not be started (section 5) |
| closed twice | output failed after the final reply was recorded |
| start unannounced | output failed after the start of a call was recorded |
| ids | a reply carried the same call id twice |
| late submit, switched past the queue | section 5 |

`Repl`. Extends `Conversation` with the loop. `InBatch` is the heart of it: events of a
turn stay enabled after the turn ended until `LeaveLoop`, because one reactor step hands
out a batch. `ProcessGone` leaves the log and nothing else. `Reopen("open")` is cli.c's
path (repair, hand back a queued text as draft, restore settings), `Reopen("switch")`
that of `/session switch`.

`Dialogue`. The abstract specification of the two modules above. It knows no log, no
process and no failure: there is a transcript (`said`), whose message is `due`, the calls
of the last reply without a result (`open`) and those of them that were `ran`, the
transcript a reply is awaited to (`asked`), and at most one text that is `waiting`. It
promises that the model is asked with the transcript as it stands and its reply follows
just that; that a call is run at most once, and its result does not say otherwise
("completed" only if it ran, "not executed" only if it did not); that a turn ends with
every call answered; that a text which came early is said in a turn of its own or handed
back; and that only whole turns are replaced by a summary. In `KeepsDialogue` the
transcript is the log's, `asked` is what `live` was when the request left, and `waiting`
the queued input of the log. So cancel, steering, repair, death, reopening and a failed
append have to look, from outside, like one of these steps or like nothing.

`SessLog`. The file is a sequence of bytes and nothing else is known of it: framing, torn
tails and garbage are found by reading, as in `scan_for_valid_end`. To keep it small a
byte is a bit, the length prefix two bytes and the header two, which leaves every
boundary there is: a cut prefix, a cut payload, a length beyond the file, a length
beyond the maximum. A write is one step with every possible cut; the lock is that of
`flock`. `mem` is `store->typed_history`. `KeepsPromise` is the refinement: the log of
`DurableLog` is what reading the bytes yields. The one exception sesslog.h makes, a
rollback that fails, is the variable `stuck`: the bytes before it still keep the
promise. This is what allows `Conversation` to treat an append as something that
happens or does not, and a death in the middle as one or the other.

`Reactor`. One record holds the program's tables (`entries` with generations, `count`
for `registered_count`, timers and processes as `watches`) and the kernel's (`file`,
what a descriptor refers to; `epoll`, the generation a token carries). The kernel's half
is what makes staleness a statement: a token says in `for`, which the code cannot see,
whose event it is. `Poll` takes everything that is ready, `Handled` and `PassOver` work
it off in any order. Descriptors are handed out lowest first, so one that a handler
closed comes back in the next spawn of the same batch. The generation wraps at `GenMax`
(30 bits in the code).

`ToolExec`. A handler that makes no callback is one action. `on_stdout_event` is cut at
`on_output`, and `maybe_finish` at `on_done`, because the embedder may act there: start
the next call (`IsNext`), cancel this one, write or close its stdin. Every step of a
spawn may fail and is undone (`SpawnFails`, `Undone`). The world is the child (exec or
its failure, output, exit, a heir that keeps the pipe open) and the clock. `got` is what
`on_output` was given. Signals are not delivered to anybody else: the window between
reaping a child and forgetting its number (section 5) is not seen here.

`LlmConn`, `LlmRequest`. The connection is a record and its operations sets of results,
since the network and the TLS library decide; `LlmRequest` has the handlers. The resolver
thread has the three steps in which it touches the job (`Resolve`, `ThreadEnds`), and
`JobAfterClose` is the side of `oi_llm_conn_close`. The reply is a sequence of tokens
(status, header, body piece, line end); `ReadChunk` hands any prefix of what has arrived
to the parsers, so every cut is tried, and the parsers are cut again at each callback, where
`Cancel` may come. The write queue is counted in two pieces, which distinguishes empty,
part sent and full. `flags` are the objects whose `destroyed_flag` is set (connection,
request, the two parsers), and `Running` the calls that, where the thread is now, have yet
to look at theirs; `touched` is set when a request ends and the two differ, for then a call
goes on with what was freed or a flag is written whose call has returned, and when
`on_delta` cancels and the code does not look at all.

`Sessions`. Each access to the file system is a step: `OpenLog` and `LockLog` are two,
as are the reading of the cache and its replacement, and `probe_lock` and the move that
it allows. `job` is where a process is in its command. The ghosts: `chosen` and `named`,
what the user last asked for; `behind`, a log with a change that its cache has not
mirrored (which the code reports and tolerates); `raced`, that a process came into one
of the known gaps between a check and the act (`InGap`, `Unseen`). Two invariants excuse
`raced`, and section 5 says what happens in those gaps.

`Composer`. Bytes and their decoding are real here, for they are the subject: sequences
of named bytes, cut anywhere by `Read`, decoded in `Hear`, with what is undecided left
in the buffer for the next reader. `owed` is the list of events the pressed keys mean
and `hearing` compares the decoded ones with it: "whole", "torn" by the escape timeout,
or "wrong". `walk` is the first walk through the history since a submission. What a key is
(`Keys`, with its bytes and the events they mean) is a constant; `Sends` says what a
terminal may send for a sequence of events, and `KeysAssumption`, which TLC evaluates for
the keys of the instance, that every key is such a sequence.

## 3. Runs

| Run | Instance | What it shows | States |
|---|---|---|---|
| `conversation` | 2 calls, replies of 0, 1, 2 calls and of a repeated one, 2 rounds, 2 turns, all faults | log and live context agree whatever fails; every refusal by the log has a known cause; ended turns are closed; a spawned call has its start in the log; each request is one the chat protocol admits; each turn ends | 58,701 |
| `repl` | 1 call, 1 message, 1 command, 2 turns, 2 openings, crash at any point, failing storage | the same through restarts, compaction and switches; queue and log agree; accepted input is not lost; the whole is one `Dialogue`; nothing begins ahead of queued input; work done is never denied; the queue drains, a turn comes back | 675,284 |
| `sesslog` | 2 processes, records of 0 to 2 bits, files of 11 bytes, all faults | memory and file agree; nothing acknowledged is lost, changed or reordered through deaths, short writes and reopening | 25,895 |
| `tools` | 2 calls, 9 descriptors, generations 1 to 3, 1 chunk of output | no event reaches a handler it was not meant for; nothing of a call outlives it and the reactor's count is right; a reported end comes after all output; a call with a timeout ends | 117,771 |
| `request` | 2 addresses, TLS, 15 replies, cancel from any callback but `on_delta` | the resolver's job is freed once; no readiness is missed; what is told is what was sent, and success means all of it; whoever still uses what an end frees is told, and nobody else; a request ends | 454,263 |
| `sessions` | 2 processes, 2 sessions, 2 models, 1 name, 3 commands, 3 logs, death anywhere | the chosen model survives cache, crash and move; a rename and a refresh do not undo each other; a switch is whole or not at all; a command ends | 616,460 |
| `composer` | 15 kinds of keys, 4 presses, 2 commands, history of 2 | the keys arrive as pressed whoever reads; the history gives the draft back | 3,221,728 |
| `start_left_open`, `late_submit`, `switch_pending`, `panel_gone`, `cancel_in_delta` | small | section 5 | |

Bounds of the conversation: `MaxTurns` and `MaxOpens` are of the model (`AtBound`,
`ReplAtBound` keep them from looking like deadlocks); `MaxSteps` is the program's
`max_model_steps`. Two calls suffice for "one done, one open", which is the only
distinction the repair loops make; two rounds for a stale index of an earlier round; two
turns for what one leaves to the next; two openings for
a log that another process left behind. A repair that is itself interrupted is not opened
again within that bound; that the next opening takes it up is proved for any number of
openings (section 4, `ReplProofs`). The REPL run uses one call per round because the loops over calls are
already covered by `conversation`; a message and a command take the two ways out of the
queue. `LegacyLengths` are the untyped logs a run may begin with; they may not hold more
turns than `MaxTurns`, which counts those of the log.

Bounds of the others. `sesslog`: `MaxFile` cuts off appends, never a header. `tools`: the second call is started from `on_done` of the first
and reuses descriptors that the open batch still speaks of; nine descriptors are what one
call keeps and another opens, so a spawn also runs out; three generations let the number
wrap within the run, without letting one descriptor come round within one batch, which
2^30 registrations would take. `request`: a second address is tried after the first
failed; the replies are complete, incomplete and malformed ones by length and by chunks,
with a comment behind `[DONE]`, with text behind the end of the body, and with a last line
that lacks its newline and holds two fragments, which are told from
`oi_llm_sse_parser_finish`.
`sessions`: three commands are, say, a rename, the refresh it meets, and a switch; with
one session, three processes on a smaller instance (981,788 states) gave nothing new.
`composer`: four keys are enough for Escape, text, a sequence behind it and a turn's end
in between; a paste is one key, and so are the two
slashes of a literal slash; the history is full at two.

Deadlock is checked except in `sessions` and `composer`, which stop when the commands or
keys of the bound are used up and nobody is inside one; `CommandEnds` says nobody is stuck.

Fairness of `conversation` and `repl`. Weak fairness of the pieces of a callback: the
code does not return to the reactor before it is through. Weak fairness of the model's
answer and of a tool's exit: both have a timeout (`--timeout-ms`); with the timeout
switched off, or against a child that keeps the output loop busy (a listed hazard), the
liveness results do not apply. Nothing is assumed of the user: `TurnEnds` and
`TurnComesBack` allow a turn to wait for a permission answer, `QueueDrains` does not need
it, since a question that is on the screen takes all keys and nothing can be queued
behind it. That two of the assumptions are consequences of the code is what `tools` and
`request` show.

Fairness of the others. `tools`: the loop of the program runs and armed timers run out;
nothing is asked of children, whose output is bounded. `request`: a handler that was
entered goes on, the timer runs out, and the resolver thread goes on once it has its
answer, which is not assumed ever to come; the handling of an expired timer is strongly fair, because the tokens of one batch all get
their turn and so other events cannot shut it out. `sessions`: a process in a command
takes its next step; waiting for a lock is a step that is not enabled, so this assumes
nothing of the holder beyond its own steps. `composer`: only safety and an action
property.

## 4. Proofs

`ConversationProofs` proves, for all sets of calls and texts, any replies, any
`max_model_steps` and any number of turns, from `TextAssumption` and
`ConversationAssumption` only:

| Theorem | States | Rests on |
|---|---|---|
| `TypeCorrect` | `Spec => []TypeOK` | `Typed`: types and `IndexInRange` |
| `LiveIsDurable` | `Spec => []LiveMatchesHistory` | inductive once typed |
| `StartsAreLogged` | `Spec => []WriteAhead` | the log's `began` grows only within a round and `ran` follows it |
| `WorkIsNotDenied` | `Spec => WorkIsNeverDenied` | `WriteAhead`: a result "not executed" is accepted only for a call without a start |
| `RequestsAreAnswerable` | `Spec => []RequestIsAnswerable` | `Requested` and `LiveIsDurable` |
| `RecordsAreAccepted` | `Spec => []NoUnprovokedRejection` | `InStep` |
| `EndedTurnsAreClosed` | `Spec => []EndedTurnIsClosedUnlessHazard` | `InStep` |
| `DialogueIsKept` | `Spec => KeepsDialogue`: the driver implements `Dialogue` | `TalkInv` |

`TypeOK` is not inductive: `tool_index` is only ever used below the number of calls
because of where the turn is, which `IndexInRange` adds. `InStep` is `hazard = {} =>
Coupled`. `Coupled` says what the two state machines, the driver's and the log's, know
of each other: the driver's turn id is the log's; at "idle" the log expects a user
message; waiting for the model it expects an assistant message; while calls are served
the log's calls are the driver's and those before `tool_index` are the resolved ones; a
call that is about to be repaired as unknown is the one that began. Neither half is
inductive alone. `Requested` says what the grammar leaves of the messages in the log
(`Shape`: while calls are open, what follows the last reply is one result for each call
that is resolved; otherwise each call of each reply has its result), and that a request is
sent only when the log expects an assistant message; that the live messages are the log's
then makes the request answerable. For the refinement no part is new but `Spawned` (the
tool awaited was spawned): `TalkInv` puts the types, `WriteAhead`, `Requested` and
`LiveMatchesHistory` together with it. Each abstract step that writes has a lemma of its
own, which follows from what the grammar accepts and needs no word of which callback
wrote it; what remains is that a step which writes nothing asks, spawns, gives up a reply,
or is silent (`SilentStep`). The invariants were checked by TLC on the instance of
`conversation`. `HistoryProofs` gives the operators' effects once, as lemmas.

`ReplProofs` extends this to the loop, for any number of openings, compactions, switches
and deaths and any of the mishaps, from `ReplAssumption` besides:

| Theorem | States |
|---|---|
| `ReplTypeCorrect` | `ReplSpec => []ReplTypeOK` |
| `LiveIsTheLogs` | `ReplSpec => []LiveMatchesLog` |
| `InputIsKept` | `ReplSpec => []AcceptedInputIsKept` |
| `QueuesAgree` | `ReplSpec => []SlotMatchesLog` |
| `PromptsAreBetweenTurns` | `ReplSpec => []PromptIsBetweenTurns` |
| `ReplRecordsAreAccepted` | `ReplSpec => []NoUnprovokedRejection` |
| `ReplRequestsAreAnswerable` | `ReplSpec => []RequestIsAnswerable` |
| `QueueIsNext` | `ReplSpec => NothingOvertakesTheQueue` |
| `ReplDeniesNoWork` | `ReplSpec => WorkIsNeverDenied` |
| `ReplKeepsDialogue` | `ReplSpec => KeepsDialogue`: the loop with all its deaths and reopenings implements `Dialogue` |
| `QueuedInputIsHandedOn` | `ReplSpec => InputIsHandedOn`: queued input leaves the queue only as the user message, draft or command it becomes |
| `OpeningHandsBack` | `ReplSpec => [](via = "open" => PendingIsHandedBack)` |
| `RunsFailForACause` | `"present" \notin Faults` implies `ReplSpec => []FailureHasACause`: a run that ends with an error had one of the mishaps |
| `OnlyStorageFails` | without the late Enter, the switch, and the faults "request" and "present", and with no reply that repeats a call, `ReplSpec => []OnlyStorageEndsTheRun` |

Its `IInv` is the conjunction of eight parts. `Placed`: where the loop is says where the
turn can be (at the prompt, in a command and after exit it is idle; a queued text is
held only where the loop looks for one). `LiveWhileItLasts`: the live messages are the
log's from the end of the opening on, and as long as anything may still be sent, which
covers the unwinding after the loop has failed. `InStepWithLog`: while `hazard` is empty,
`Coupled` holds and the slot is the log's pending record; between taking the text from
the queue and starting its turn (`Taken`) the log has consumed it and the driver has not
begun, and that gap is what makes the two disagree by one turn id for a moment.
`TurnedAway`: once a text is queued, the turn under way launches nothing more, and this
gives `QueueIsNext`. `Requested`, `WriteAhead`, `AcceptedInputIsKept` and the types are
the remaining parts. The actions are sorted first by what they do to the conversation
(take a step of it, leave it alone, write on the loop's account, end the process), so
each lemma of `ConversationProofs` is used once for all actions that take such a step.

The last five rest on `IInv` and a little more. For `ReplKeepsDialogue` the steps of the
driver are those of `DialogueIsKept`; new are what the loop writes itself (queue, repair,
draft, checkpoint) and the death, which loses at most a reply. `QueuedInputIsHandedOn`
needs `SlotIsOwed`: what the loop holds is what the log owes; it says of every step what
`AcceptedInputIsKept` says of every state. `QueueInSight` (in a session that was opened,
the log's pending input is in the slot, or the loop has given up) is why a draft is not
forgotten, and its hypothesis `via = "open"` is exactly what `switch_pending` takes away.
`Caused` says of `last_error` what `FailureHasACause` says of the end of the run, and
`OnlyStorageFails` adds that each other mishap has a fault or an input as its only source;
section 5 shows what becomes of the property without two of its hypotheses. The
assumptions of these theorems choose among the inputs and faults of the environment, as
the runs do; none is about the program.

`SessLogProofs` proves, for any processes, any `Radix`, any header, any records up to
`MaxRecord` and any of the faults, from `SessLogAssumption`:

| Theorem | States |
|---|---|
| `LogTyped` | `Spec => []TypeOK` |
| `MemoryIsTheFiles` | `Spec => []MemoryMatchesFile` |
| `PromiseIsKept` | `Spec => KeepsPromise`: the bytes implement `DurableLog` |

Reading a file is recursive: the scan for the last valid end and the list of records are
functions defined by recursion over offsets. The first half of the module shows that
these functions exist (`ScanExists`, `FromExists`: there are readings up to any offset,
by the least offset without one, and two readings agree) and what they are at each
offset. On this rest the facts about bytes: what is read up to a valid end does not
depend on what follows (`ReadsOn`), a file cut there reads the same (`CutReads`), a whole
frame adds one record (`WholeFrameAppends`), and part of a frame adds none
(`CutFrameAddsNothing`), whatever its bytes are. The second half is then short: `IInv`
says that one process has the lock (`Alone`), that who has the log open has exactly the
records of a clean file (`Held`), and that a torn tail nobody could cut off begins at a
clean end (`Spared`). `PromiseIsKept` maps initial states to initial states and each step,
a death in the middle of a write included, to an append or to a stutter.

`SessionsProofs` proves, for any processes, sessions, models and names, any number of
commands and logs and any of the faults, from `SessionsAssumption`:

| Theorem | States |
|---|---|
| `SessionsTyped` | `Spec => []TypeOK` |
| `SwitchesAreWhole` | `Spec => []SwitchIsWhole` |
| `LogsAreExclusive` | `Spec => []ExclusiveLogs`: no log is open in two processes |
| `ChoicesAreKept` | `Spec => []ChoiceIsKept` |
| `CachesAreMerged` | `Spec => []CacheIsMerged` |

The inductive invariant `IInv` is about processes in the middle of a command, where
`SwitchIsWhole` says nothing: what the place in a command says of the command
(`FitsIn`), where the process stands (`StandsIn`), which logs it has locked, exactly
(`Locks`, `LockedIn`), that the log of the command is not its session's (`ApartIn`), and
which metadata lock it may have (`Guards`). A switch needs all of them at once: it holds
two logs for a time, stands in the new directory already, and whichever step fails must
lead back. The last two theorems need a second invariant on top, `~raced => Steady`: as
long as nobody has come into a gap between a check and the act it allows,

- who uses a session, uses a live one, and nobody else is between the check and the act
  on it (`Where`);
- no two sessions have one log (`OneEach`), so that a record written by one process is
  not a change of another's session;
- what a process carries between two accesses to the file system is still true when it
  uses it (`Has`): the model it replayed from the log, the cache it has read and is about
  to replace, for which it holds the lock of the cache, and what it will publish;
- log and cache say what was chosen and named last (`Chosen`, `Merged`), but for changes
  in `behind`.

Each step of a command has a lemma that says which of these it needs and which it
re-establishes. TLC checked both invariants on the instance of `sessions`.

`RequestProofs` proves `JobIsFreedOnce` (`[]ResolverJobIsFreedOnce`) and `NoWakeupIsLost`
(`[]NoLostWakeup`) for any number of addresses and any replies, with and without TLS,
from `LlmConnAssumption`. Its `IInv` adds `Handover`: for each step of the thread and
each state of the connection, which side has still to give the job up. The property alone
is not inductive, since "freed at most once" does not say that nobody will free it again.

Five more theorems are about the parsers and the end of the request. They use
`LlmRequestAssumption` besides, which says that a reply is a sequence of tokens
(`Token`) and nothing about their order:

| Theorem | States | From the invariant |
|---|---|---|
| `RequestTyped` | `Spec => []TypeOK` | `Typed`, `FlagsFit` |
| `SuccessIsEarned` | `Spec => []OkIsEarned`: `OI_OK` only after a status of success, the whole body, a `[DONE]` with only comments behind it, and tool calls complete then and the same now | `Typed /\ Closing` |
| `RepliesAreWhole` | `Spec => []ReplyIsWhole`: what the embedder is told is what the body says, in its order and once, and `OI_OK` comes only with all of it | `Typed /\ Closing /\ Reading` |
| `NothingFollowsTheEnd` | `Spec => EndIsFinal`: after `on_done` or a cancel no callback, no second outcome and no further read | `Closing` |
| `CancelledIsLeftAlone` | `Spec => []CancelledIsNotTouched`, if the embedder takes events, or if no event of a reply has both text and a tool call | `Typed`, `FlagsFit`, `OneAtATime` |

The types are not inductive alone. That what is left of a chunk or of the body is never
counted below zero needs `Sound`: while the parser is in a body, something is left. That
at most two pieces are queued needs `Queue`: nothing before the connection is there.
`Closing` says that once `[DONE]` was seen without an error the tool calls are valid and
nothing waits to be emitted; so nothing that follows can change them. `OkIsEarned` is
what `ReplyIsWhole` says of success read without the reply, and no run checks it by itself.

`ReplyIsWhole` compares the events with the reply read as a whole, which the model never
does: the body begins after the first blank line, it ends where the headers say (by length,
or at the chunk of size 0), and what it says is a set of places, `Said`, in the order of
the reply. The n-th thing told must be what is said at the n-th place. Because this counts
places and does not build a sequence, it can be proved without induction over the reply.
The invariant `Reading` has these parts:

- `Cut`: what waits in the chunk is the part of the reply just before `wire.read`, so the
  parsers have seen exactly the tokens up to `Parsed`, wherever the reads cut it;
- `Framed`: the state of the HTTP parser (length, chunked, what is left of the body, which
  line comes next) is what the reply's tokens up to there say;
- `Kept`: what was told and what waits in `emits` is all that the completed lines of the
  event stream say, with the line in hand at its place, and `sawDone` is set exactly if
  one of them was a `[DONE]` that only comments follow;
- `InOrder` of both together, always, and `WellEnded` once the request is `OK`.

`Framed` and `Kept` are claimed only while the request may still end well (`Clean`: no
error, no junk, a status of success). A request that is not clean tells nothing more, so
what it told before stays in order. TLC checked this invariant on the instance of
`request`, with and without cancelling from `on_delta`.

`CancelledIsLeftAlone` rests on `FlagsFit`: the flags set are at each place those of the
calls on the stack, for which `oi_llm_sse_parser_finish` may run only when the parser of
HTTP is done. It also draws the line of `cancel_in_delta`: an embedder that cancels in
`on_delta` is safe as long as nothing of the same event is still to be told. `OneAtATime`
carries that from the tokens of the reply to the line in hand and to `emits`, wherever
the reads cut them.

`ToolExecProofs` proves, for any number of calls, any finite set of descriptors, any
`GenMax` and any output, from `ReactorAssumption`, `ToolExecAssumption` and
`NobodyAssumption` (the value that stands for nobody is not an end of a call):

| Theorem | States |
|---|---|
| `ToolsTyped` | `Spec => []TypeOK` |
| `NothingOutlives` | `Spec => []NothingOutlivesItsCall` |
| `OutputArrives` | `Spec => []OutputIsWhole` |
| `StaleEventsDropped` | `MaxCalls <= GenMax` implies `Spec => []StaleEventsAreDropped` |
| `CallsEndOnce` | `Spec => EndIsFinal`: a freed call is not reported, resumed or freed again; one reported done is freed next |

The code closes and unregisters by number, and a number is given again as soon as it is
closed. What makes this right is `Owned`: a descriptor refers to an end of a call exactly
when the call's own field holds its number, and only running calls hold any. Beside it
`IInv` says that the program's table and the kernel's epoll set agree (`Agree`), that the
count is exact (`Counted`), how far a call and its child have come together (`Fits`: end
of file has been read only when nobody is left to write, an exit reported only when the
child is reaped) and that the call a callback is about is running (`Stands`). Each
operation of the reactor has its lemma; a spawn is one chain of them for each place at
which it may fail. TLC checked `IInv` on the instance of `tools`.

`StaleEventsDropped` is about history: the generation in a token must differ from that of
every later registration of the same descriptor. Its invariant `Dates` dates a token by
the call it is for. Calls are started one after the other (`InLine`), so that a token for
call c has been followed by registrations of at most those started since; each of them
registers a descriptor at most once, or, for a stdin that has been drained and is written
again, once more after its token is gone from the batch (`May`); hence a generation that
was given since can equal the token's only after `GenMax` calls (`Dated`). The hypothesis
is not a convenience: with one generation and two calls TLC finds the property violated.
The code has 2^30 - 1 generations.

`ComposerProofs` proves, for any characters, keys, commands and seeds, any `HistoryMax`
and any number of keys pressed, from `ComposerAssumption` and `KeysAssumption`:

| Theorem | States | From the invariant |
|---|---|---|
| `ComposerTyped` | `Spec => []TypeOK` | `IInv` |
| `DraftIsRestored` | `Spec => DraftComesBack` | `IInv` |
| `KeysArrive` | `Spec => []KeysArriveWhole` | `IInv /\ Heard` |

`IInv` is the types (`Buffers`, `Readers`, and `PromptOK` for editor, menu and history)
and `Walking`: before a walk the history is not navigated, during the first one it is and
its draft is the text the walk began with. The rest of the code must leave that draft
alone, which has a lemma for every event of `Apply`.

`KeysArriveWhole` speaks of the events taken so far; `Heard` says what makes the next one
right: while `hearing` is "whole", what is in the buffer followed by what is not yet read
is what a terminal sends for the events still owed, beginning in the decoder's paste state
(`Sends(input \o tty, owed, pasting)`). Where a read cuts does not change this
concatenation. A key pressed adds its bytes at the end, which are again such a sequence
(`SendsBoth`), unless an Escape was waiting there. The heart is `EventArrives`: given any
part of the bytes of an event, and whatever follows them, the decoder asks for more or
finds that event and takes just its bytes; it needs that no escape sequence of the table
begins another (`SequencesDiffer`), and that a cut end of a paste is not text. The
hypotheses in `Sends` are those of the code: pasted text cannot hold the end of a paste,
and an Escape is known for one only if nothing follows it. TLC checked a recursive reading
of `Heard` on an instance of three keys before it was proved.

Only model-checked, and why:

- liveness (`TurnEnds`, `QueueDrains`, `TurnComesBack`, `CallEnds`, `RequestEnds`,
  `CommandEnds`), and with it the fairness it needs: out of the prover's reach.

Every safety property of the passing runs is stated by a theorem. Those without a run of
their own (`ExclusiveLogs`, `OkIsEarned`, `InputIsHandedOn`, `FailureHasACause`, and
`EndIsFinal` of a request and of a call) were agreed with TLC on the instance of the
component's run before they were proved.

## 5. Disagreements

Each of these is a run whose one property is what a document or comment says and which
TLC finds violated.

- `start_left_open`: REPL_PLAN.md promises that any turn ending early is repaired in
  place. `oi_cli_conversation_start` ends the turn without repair when the request
  cannot be started. The next message is refused by the log and ends the run.
- `late_submit`: CLI.md says only a durable-storage or structural failure ends a run.
  An Enter in the batch that ended the turn is recorded as queued input, refused, and
  treated as such a failure; its text is lost.
- `switch_pending`: CLI.md says queued text is handed back on the next open.
  `prepare_history` of the switch repairs but does not hand it back.
- `panel_gone`: a comment says conversation events cannot fire outside a turn. The
  cancel at the end of a failed turn does emit tool messages, with `turn_input` cleared.
  The panel is looked up before the message is presented and appended, so the process
  ends with it in neither the log nor the live context, and the call stays open in the log.
- `cancel_in_delta`: llm.h says cancel is safe from within `on_delta`. After `on_delta`
  `handle_sse_event` does not ask whether the request is gone and goes on to its tool
  calls.

How far three of these reach is a theorem (section 4): a session that is opened and not
switched to does hand back its text (`OpeningHandsBack`); without the late Enter and the
switch, and with requests that start and output that is drawn, only storage ends a run
(`OnlyStorageFails`); and a cancel from `on_delta` is safe when no event carries both
text and a tool call (`CancelledIsLeftAlone`).

Met while modelling, and without a run of their own (where a property comes near one, it
is stated so that the case is excused by name):

- CLI.md says Down past the newest entry gives the draft back. It does on the first walk;
  after Up, Down and more typing, a second Up and Down gives the draft of the first
  (`DraftComesBack` and `DraftIsRestored` speak of the first walk).
- A queued literal slash loses the slash that marks it (`Meant`), and Ctrl+C hands that
  text back as the draft, though a comment says verbatim (`cli_repl.c:782`): `//x` comes
  back as `/x`, which the next Enter takes for a command.
- An escape sequence left over by one reader is complete in the buffer of the next, but
  the 40 ms timer may come first and tear it (`hearing` is "torn").
- Ctrl+C behind a key that decides a selector waits in the buffer for the next byte; a
  digit typed ahead or pasted answers a selector that appears.
- `cli_sessions.c` calls its probe before trash and delete structural. The lock is given
  up before the move, so a session opened in between is moved or emptied under its
  process, and an import may replace a log that another process made (`raced`).
- The lock that a probe or a rebuild holds for a moment makes a concurrent open report
  the session as busy.
- `oi_tool_call_cancel` signals the process group of a child that may have been reaped
  already while its output is still open (`tool_exec.c:222`).

## 6. Not modelled, and the plan

Within the modelled parts: memory exhaustion, ephemeral sessions (no log), the lazily
prepared automatic session, the summarising request of /compact, limits on sizes, the
read-only commands, the codec and validation of metadata, the tool registry and
everything that is only drawn.

Not modelled at all: the one-shot loop, which runs one turn of `Conversation` and
returns; rendering, markdown and the terminal; JSON, the history codec, configuration
and byte buffers. They are sequential, keep nothing between calls but buffers, and are
within reach of ordinary tests.

Left, in this order:

1. The summarising request of /compact, during which Ctrl+C and death come.
2. Pure parts against reference definitions: prefix selection, UTF-8 stream, markdown
   blocks.
