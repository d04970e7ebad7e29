# A verification development for WinBot

WinBot is a Windows automation server: a client sends requests over stdin
(MCP, JSON-RPC 2.0, or a simpler legacy protocol), the server runs tools (UI
automation, input, browser, shell, files, Lua scripts) and writes responses to
stdout. This directory holds TLA+ modules for the parts of it in which order,
concurrency or failure decide correctness, the TLC configurations that check
small instances of them, and theorems about them that TLAPS checks for every
instance. Paths below are relative to the repository's `src/` unless they say
otherwise.

## 1. Inventory

| component | state | operations | interacts with |
|---|---|---|---|
| `core/ThreadPool.h` | queue, counter of unfinished tasks, stop flag, one jthread with its stop token per worker, two condition variables | `enqueue`, `waitIdle`, `stop`, `workerLoop` | called by the MCP server; runs its closures |
| `core/McpServer.cpp` | `m_running`, `m_initialized`, `m_activeRequests` (id to cancellation flag and stop source), stdout under `m_sendMutex` | `run`, `stop`, `processMessage`, `handleToolsCall`, `cancelRequest`, `notifyToolsListChanged` | pool, registry, kill switch, stdin and stdout |
| `core/ToolRegistry.cpp` | tools by name, in order, under a shared mutex; change callback | `registerTool`, `registerOrReplaceTool`, `unregisterTool`, `dispatch`, `snapshot` | server (dispatch, list), loader |
| `services/LuaToolLoader.cpp` | modification times and names of loaded scripts | `loadAll`, `reload`, `hasChanges` | registry, Lua runtime |
| `core/ToolServer.cpp`, `Protocol.h` | none between lines | `run`, `parseRequest` | registry, audit log, kill switch |
| `security/KillSwitch.cpp` | triggered flag, hook thread and its message queue | `install`, `uninstall`, keyboard hook | polled by servers, Lua hook, debugger |
| `security/PermissionSystem.cpp` | configuration | `checkPath`, `checkFileDelete`, `checkProcess`, `checkShellCommand`, `promptUser` | tools; stdin in the legacy mode |
| `security/AuditLog.cpp` | file under a mutex | `log`, `note` | legacy server, `main` |
| `services/LuaRuntime.cpp` | one interpreter under a mutex; per call: hook counters, deadline | `execString`, `execFile`, `executeTool`, `loadToolDefinitions` | browser, UIA, permissions, kill switch |
| `tools/ShellTools.cpp` | per call: process, pipes, job object | `runCommand`, `httpGet` | permissions |
| `platform/browser/BrowserAutomation.cpp` | CDP socket, message id | `connectToPage`, `sendCdpCommand` | one page, shared by all callers |
| `tools/InputTools.cpp`, `platform/uia/UIHandle.cpp` | input mutex | move, click, type, focus and act | the desktop |
| `platform/uia/UIAutomationScanner.cpp` | COM automation object | find, wait, select | the desktop |
| `platform/uia/UIADebugger.cpp` | named handles, output capture | `execute`, `repl` | UIHandle; one instance for all calls of `debug_uia` |
| `services/Scheduler.cpp` | tasks under a mutex, worker thread | `addTask`, `removeTask`, cron loop | callbacks |
| `services/SiteProfileRegistry.cpp` | vector of profiles | `reload`, `match`, `saveProfile` | Lua runtime |

What is hard in this code, per component (the list with lines is under
`hazards` in `PROJECT.json`):

* **ThreadPool**: notifications are sent after the mutex is released; the
  counter is decremented in another critical section than the pop; `stop` may
  be called by several threads and races with sleeping workers. It is right
  when no task is lost, duplicated or overtaken, when `waitIdle` returns if and
  only if everything accepted has returned, when no wakeup is lost and `stop`
  ends.
* **McpServer**: a call passes from the reader to a worker, and may be
  cancelled, stopped, or fail at each step; responses come from four places; the
  end of input, the kill switch and `stop()` end the server in three ways. It is
  right when each request gets exactly one response, cancellations are honoured
  and reach every call in flight, no response is lost on the way out, and the
  reader is never blocked by a tool.
* **Registry and loader**: replacement while tools run, reload while calls
  arrive, name clashes between scripts and built-in tools, the ordering of
  `list_changed` against `tools/list`.
* **KillSwitch**: a thread blocked in `GetMessage`, ended by a posted message
  that may come before the queue exists, or never.
* **LuaRuntime and ShellTools**: a script may catch the errors that are to end
  it; one interpreter serves all calls; a command ends, times out and is
  cancelled at once, writes more than is kept, and leaves processes behind. They
  are right when every call returns, no script pays for another, the output of
  a command that ended is complete, and nothing of its job is left.
* **BrowserAutomation**: one WebSocket for all callers, with no lock, over which
  answers come late, to the wrong caller or not at all. It is right when an
  answer belongs to the command it is returned for, no key is typed twice or
  skipped by a call that reports success, and every call returns.
* **Scheduler**: a wait of 30 seconds against minutes, callbacks under a lock. It
  is right when no minute of a task is missed, a round fires exactly the tasks
  that match, and the destructor returns.
* **Desktop**: events of several callers on one mouse and keyboard; handles that
  are snapshots of a desktop that has gone on; a search by points. It is right
  when the events of a call stay together, a refresh finds the same element, and
  a whole name wins over a part of one.

## 2. The modules

`ThreadPool` is `core/ThreadPool.h`. One action is one block under `m_mutex`, or
one thing done between two blocks (a notification, `request_stop`, `join`, the
task). `wpc` and `cpc` are the control states of workers and callers; a thread
blocked on a condition variable is in state `asleep` or `idleAsleep`, which
only a notification or a spurious wakeup leaves. `accepted`, `refused` and
`finished` are history variables. The constructor is `Init`; the destructor is a
call of `stop`.

`TaskPool` is what the pool promises, without mutex, condition variable, counter
or worker: tasks are submitted, started in that order, each once, and finish;
a waiter is released only when nothing is pending or running; after a close
nothing more is accepted. It says nothing of liveness.
`ThreadPoolRefinement` maps one to the other (`Abstract == INSTANCE TaskPool`).

`McpServer` is `core/McpServer.cpp` on top of the pool, which it takes with
`Pool == INSTANCE ThreadPool WITH Callers <- Threads, Tasks <- Lines`: each
action of the server is at most one action of the pool. A line is read at most
once, with a kind the client chooses, and stands for the request it carries. The
kinds are the branches of `run` and `processMessage`. `pc` is where a thread is
in `run` or `stop`, `tpc` where a worker is in the closure of `handleToolsCall`.
`cancelled` merges the `cancelled` flag and the stop source of an
`ActiveRequest`, which are set one after the other and always read together.
The tool is two actions, `Dispatch` and `ToolReturns`; its outcome, success or
error, is one `Result`. A line that is not JSON is `garbled`, answered by a
parse error, or `unprintable`: with bytes that are not UTF-8 in what that answer
quotes, serialising it throws outside every `try` (`AnswerThrows`), `run()` is left
without its drain, and the destructor of the server calls `stop()`. `shared` is a
history variable: the calls whose id was used by another call in flight. The action delay after a reply is time spent before
`Erase`, and the lookup and the flagging in `cancelRequest` are one step (the
comments say why that loses nothing).

`KillSwitch` is `security/KillSwitch.cpp`: the thread that holds the keyboard
hook, its message queue (which `PeekMessage` creates, and without which a posted
message is lost), the callback, and `install`, `uninstall` and the destructor of
the static `s_thread` on the side of the owner. `Permissions` holds the decisions
of `security/PermissionSystem.cpp` as operators; `ToolChecks` is what is asked
before an operation, of a tool, a script or the loader, as the sequence of
obstacles it meets. A call names a file. `Expansion` is what `expandEnv` makes of a
name and `Location` where a name leads, which is the business of the file system;
`checkPath` judges the place of the expanded name, and the tools act on the name as
it was given. Places are sequences of characters, since the code compares
characters; regular expressions are matched outside (a command is in `Dangerous` or
not). `GrantedOnly` compares the places acted on by components (`LiesIn`), and a
component is the function from its positions to its characters.

`LegacySession` composes them into the legacy mode: `main()` from `install` to its
two exits, the loop of `core/ToolServer.cpp`, the prompts, which read the stdin
of the requests, and the audit log. A line is its place in the input; what it
carries is chosen when it is read. `op` is the operation being checked and `todo`
the obstacles left before it. A tool that runs a script (`lua_exec`, `lua_run`, the
tool of a script) is no operation that is over at once: the script does one thing
after another (`ScriptCall`), each with its own check and prompts in the middle of the
call, and what is refused there is an error it may catch. `reload_lua_tools`, and
`main()` before its loop, load scripts, which is to check and run them
(`LoadScript`). `answers` says which lines the prompts of each request have taken.
Of `result` only the fitness for JSON matters: bytes that are not UTF-8 may be
everywhere, only in the cut to the 256 bytes of the audit record, or only behind
it. The action delay is not a step. Not modelled: a `kill_hotkey` of the wrong type, which throws before
`install`, so that nothing is left to remove.

`ToolRegistry` is the vector and the index of `core/ToolRegistry.cpp`;
`ToolCatalogue` puts beside it the scripts on disk, the loader
(`services/LuaToolLoader.cpp`), the built-in tools `main()` registers between
`loadAll` and the server, and a client that lists the tools again whenever it
was notified. `reload()` is divided where it looks at the disk or changes the
registry (`rpc` is its pass, `file` the script it is at, `drops` and `adds` the
names still to go and to come), since scripts are written and removed at any of
these points; it has one control state because the loader's mutex admits one
reload. Every write has a modification time of its own, not always a later one,
and a time may be unreadable. A tool has the version of its script that gave it
its schema. The change callback is a step of its own, as it is called after the
lock is released, and a list is sent some time after its snapshot. What a call
of a tool runs is the operator `Execute`. Left out: `hasChanges`, which changes
nothing and which only tests call; descriptions and schemas beyond their
version; calls that run while their tool is replaced, which keep the script they
have read.

`ShellCommand` is `runCommand` of `tools/ShellTools.cpp`, one action per step of
its loop (token, wait, drain, judgement) and of its end (terminate, wait, last
drain, close). Beside it run the command and a background process that the
command may start at any time: in the job if there is one by then, `free`
otherwise. What the code does not look at is in the model: the job may not be
created, may not take its limit (`noLimit`), or not take the command (`empty`), and
then terminating it terminates nothing. Output is counted in chunks, each marked with who wrote it, and time
in slices of `kSliceMs`.

`ScriptRun` extends it to the execution of scripts in `services/LuaRuntime.cpp`: the
interpreter is one state (`args`, `ip`, `tries`, `count`, `time`) under `mutex`, and
a script a sequence of six kinds of instruction. `Hook` is `luaHookCallback`: it
counts and raises an error, which `pcall` may catch (`tries`). `winbot.shell` is
`ShellCommand` without a stop token, in whose time no hook runs, unless it is
refused, which the script may catch; `run_command` is
`ShellCommand` with one, without the interpreter. There is one command at a time,
as the instance has one caller that runs any.

`CdpSession` is `platform/browser/BrowserAutomation.cpp`: a tool is the sequence of
its commands (`Plans`), a command one pass of `sendCdpCommand`: read `m_msgId`, send,
then test the time and receive until a message has the id. A message comes in one
piece or in two, with any time between them: `wsReceive` waits for each piece with
its full timeout (`receipt`) and does not look at the time the command has taken; a
piece that another caller has taken is missing (`taken`). `m_msgId++` is two
steps. `toPage` and `toClient` are the socket. The page answers each command in
order, sometime, with a result or an error, sends events, and may go away.

`Cron` is `cronMatches` on expressions that are taken apart already, with `Denotes`,
what a field means, as the reference (`CronAsDenoted` compares the two on `Fields`);
`Scheduler` is the thread of
`services/Scheduler.cpp` with the clock as a variable, and the users that add and
remove tasks and destroy it. `MaxDelay` is how late a thread may be.

`UiTree` holds the finders of `platform/uia/UIAutomationScanner.cpp` as operators on
trees (a tree is a sequence of elements with depths, in the order of the walk). The
walk of `findBestMatch` is stated by its result: the first element with enough
points to end it, or else the first of those with the most. `InputTools` has the
calls of `tools/InputTools.cpp` as sequences of events between `lock` and `unlock`:
`Calls` is the set of all of them, over `Places`, `Buttons` and `Words`; a combination of
keys is taken apart already, into its modifiers and its other keys. `UIHandle` extends both to the operations of
`platform/uia/UIHandle.cpp` that a script calls on its handle, with a desktop
that turns into another one at any time, a user who moves the focus, and other
callers of the input tools. A wait polls until something is found or `GiveUp`.

The `MC` modules hold the instances, the `...Proofs` modules the theorems. An
operator whose comment says *Mutant of* is no part of the model: it is the named
definition with a plausible mistake, kept to show that a property notices it.

## 3. The runs

Names are model values. Deadlock is checked for the pool, the catalogue and the
desktop, where somebody may always go on; the other configurations switch it off
because `run`, `main`, a browser or script call and the scheduler end, and hangs
are the subject of liveness properties instead.

| run | question | bounds |
|---|---|---|
| `pool` | order, wakeups, one stopper; `waitIdle` and `stop` return when they should; `ThreadPool` implements `TaskPool` | 2 workers, 2 callers, 2 tasks: both callers may race into every pair of calls, and a task may wait for a busy worker |
| `server_safety` | one response each, cancellation, exact `m_activeRequests`, nothing lost on the way out | 4 lines (initialize, two calls and a cancellation fit), 7 kinds, among them both that are not JSON, 2 workers |
| `server_stop` | another thread in `stop()`, a client that reuses one id: which calls a cancellation cannot reach, and silence after `run` | 3 lines, 1 worker, 1 stopper |
| `server_liveness` | answers, the end of `run`, the reader | 3 lines, 1 worker, kill switch: a call may run while another waits, and a line that ends `run` by an exception follow either |
| `server_stop_hangs` | violated: `run` hangs after a concurrent `stop` | 3 lines, 1 worker |
| `legacy` | consent, one use of each line, audit before response, the hotkey, the exits of `main` | 3 lines: a request with two prompts answered fits, and a request sent ahead may be taken for an answer; 10 contents, with a path inside, beside and below the directories named and a name that is judged as another; scripts of up to 2 operations, of 4 kinds, in a request or at the startup |
| `catalogue` | whose a tool is, no stale script, the client's list | 3 writes to 2 scripts: one defines a tool, another redefines it and adds one with a built-in's name, and either changes or goes in the middle of a reload; a write may fail to load |
| `script` | complete output, nothing left of a job, scripts do not feel each other, every call returns | 2 workers; scripts that loop and catch everything, nest two `pcall`s around a command (which may be refused), sleep, or are short; 4 events and 1 slice for a script, 2 slices for a command: the command may outlast the script; a pipe of 2 chunks, 1 of them kept, 2 written |
| `browser` | own answers, steps as planned, every call returns | 2 callers, one with any of four tools (those with several commands, a poll or an answer that may be of no use; `eval` and `read` add no step of another kind), one with `navigate`; 1 tick for a command, 1 for `browserWaitFor`, 1 message on its way, in one piece or two: an answer may be late, stolen whole or in part by the other caller, or behind an event |
| `scheduler` | a round fires what matches, cron fields, no minute missed, the destructor returns | minutes of 6 ticks, a wait of 3, a delay of 1 in each place (the code: 60 and 30 seconds), 19 ticks: three whole minutes from any start; 3 definitions of 2 tasks; fields over the numbers 0, 1, 5 and text that is none |
| `desktop` | input calls are whole, refresh keeps its element, the whole name wins | 4 desktops of at most 7 elements: a calculator, its keys anew with a namesake before the old one, a page of links without runtime ids, the window gone; a script and one other caller, 4 input calls |
| `match_priority` | violated: a window with a part of the name is preferred to the whole name | as `desktop` |

Bounds: each line is sent once, each task enqueued once, each caller of the pool
has one call at a time and each caller of a browser or script one call; `MaxCalls`
bounds what the scripts of one request do, and stands for scripts that come to an
end, as the hook makes them (`CallsReturn` of `ScriptRun`); `MaxTime`
bounds the writes of scripts, `MaxWrites` the output of a command, `MaxFrames` the
frames on their way, `MaxClock` the clock. In `ScriptRun` the count and the time
stop just above their limits, where they make no difference. The state spaces
are explored completely, from a few thousand to some million states.
Symmetry (of lines with their ids, workers and files) is used for safety only.

Violated runs are disagreements between the code and what a comment or the
README says; `findings` in `PROJECT.json` quotes both sides.

Fairness. `Fairness` of the pool: a thread inside the pool's code goes on, and
a task returns; no call is ever bound to be made. `ThreadFairness` of the
server is the same for `run`, `stop` and the closures. That tools return
(`ToolFairness`) is not part of the specification but an antecedent of the
properties that need it (`EveryRequestAnswered`, `RunEnds`, `StopEndsRun`),
since a tool is code of another component with its own timeout;
`ReaderNeverBlocks` holds without it. `ClientFairness` of the server says
the client sends something or closes the pipe, without which `run` may wait for
ever. In `LegacySession` both threads go on and the client closes its end at last;
no key is bound to be pressed, and no message to reach the hook thread but the
one `uninstall` posts. In `CdpSession` callers go on, the constructor ends and
time passes; the page owes nothing. In `Scheduler` the thread goes on (a callback
returns) and the join ends. In `ScriptRun` workers go on, a sleep
ends and what has been terminated dies; a command that runs need never end nor
write. All are weak fairness of a thread's steps, which stay enabled until taken:
no lock is held across actions but `m_luaMutex`, and with one call per worker it is
free for good in the end, so that nothing is assumed of who gets it.

## 4. The theorems

Every invariant and every action property of a passing run is stated by a theorem
for all values of the constants. The assumptions are those named in the modules
(`PoolAssumption`, `ServerAssumption`, `SessionAssumption`, `SchedulerAssumption`,
`InputAssumption`, `HandleAssumption`, ...), which TLC evaluates on the instances;
hypotheses beyond them are said below. The shape is always the same: an inductive
invariant made of named parts, a lemma that the initial states have it, one step
per action that a step keeps it, and the property as a consequence.

**The pool.** `ThreadPoolProofs` proves `Spec => []PoolInv` for every finite
non-empty set of workers and any callers and tasks (`PoolAssumption`). `PoolInv`
joins nine parts because they need each other: the type invariant needs the
counter to be positive before a decrement, hence `ActiveCount`; `FifoNoLoss` and
`RunOnce` need `OnePlaceEach`, which says where a task is; the parts of
`NoLostWakeups` need `ActiveCount` and `OneStopper`. There is one lemma per part and
kind of thread, over what a step changes (`CallerFrame`, `WorkerFrame`, the
`...Sets` lemmas for the set counted). `WaitIdleSound`, an action property, follows
from the invariant: an idle pool has no queued and no running task, and each
accepted task is queued, running or finished. The second part of the module proves
that the pool implements `TaskPool`, one lemma per action: each maps to an action of
`TaskPool` or to a stutter.

**The server.** `McpServerProofs` has two layers. `LineInv` follows a line from the
client to its `enqueue` (the pool takes a task once) and ties the place of a thread
in `run` or `stop` to its place in the pool. So `PoolInv` is kept by every step of the
server (`PoolInvHere`, by `PoolProofs == INSTANCE ThreadPoolProofs`), and
`Places` says of it what the rest needs: where a line that was handed over is. Then
each step of the server leaves all lines alone or is one of ten kinds (`LineStep`), and the
parts of `ServerInv` are preserved by each kind: `OnlyCalls`, `EntriesInFlight` and
`ExecutedByWorker` say which lines may be in the pool, in `m_activeRequests` and at a
tool, `Answers` who has the reply of a request if nobody has sent it, `Cancellation`
what a cancellation finds, `DrainedPool` that nothing is left in the pool when `run`
has come out of `waitIdle`. `ServerRepliesOnce`, `ServerHonoursCancel` and
`ServerQuietAfterRun` hold also when clients share ids and other threads call
`stop()`. `DrainLosesOnlyRefused` does too: after the drain every request has its
reply but those the pool has refused. That none is refused needs that no other
thread calls `stop()` (`Stoppers = {}`), and then `DrainAnswersEverything` is
`DrainAnswersAll`. A client that uses an id twice overwrites an entry, and the guard
of one call then erases that of another: `ActiveUnlessIdShared` says that no other
call is lost to cancellations, whatever the ids and whoever calls `stop()`, and
`ActiveIsInFlight` makes it exact where ids are unique and only `run()` stops the
server. The runs `server_safety` and `server_liveness` are instances of both
hypotheses, `server_stop` of neither; the invariants in a run are those that hold
there. `ServerQuietAfterRun` and the theorems on the drain are about a `run()` that
no exception has ended (`Escaped`): it skips the drain then, and if another thread is
already inside `stop()` the destructor does not wait for the workers.

**The legacy mode.** `LegacySessionProofs` proves, for any input, any scripts and any
configuration of the permissions, that `WM_QUIT` reaches a thread that can receive
it, which `uninstall()` then joins (`QuitReachesThread`), and that at most one request
follows the hotkey. Both rest on `SessionInv`: `PlaceInv` ties the place of `main()` to that of the owner in
`KillSwitch`, `HookInv` that of the hook thread to its queue and its hook, `LateInv`
says that the loop test has seen a clear flag while nothing late was read.
`UseInv` follows a line that was read: requests are in the order of the lines
(`InOrder`), no answer is a request or the answer to another prompt (`AnswersApart`),
and each line is in one place (`Accounted`, `LogInv`); from it `EachLineOneUse` and
`AuditLeads`. `CallInv` follows an operation, of a tool, a script or the loader,
through its prompts: what has been answered and what is left are together what
`ToolChecks` asked for, so whatever is done met no denial and got a yes for each of
its prompts (`OnlyWithConsent`, for any requests and scripts).
That these checks are the right ones is `ChecksMeant`, for every configuration and
every operation on names that `expandEnv` leaves as they are; on others the check
judges another file than the one acted on, and there is nothing to prove. Its heart is `SubpathLiesIn`: `isSubpathOrEqual` compares prefixes
of normalised strings and looks at one character after the prefix, and yet decides
whether the components of one path are the first of the other. One direction
follows the characters that agree (`CharactersToComponents`); the other takes the
least character at which the paths could differ, inside a component, at its
beginning or at a separator (`ComponentsToCharacters`). The paths are any that
`IsCanonical` admits: on a drive, no two separators in a row, of either kind and in
any case, with one at the end or none, or a bare drive; `LowerOf` is any function
that sends no other character to the backslash. With it `ActsOnlyGranted` is
`GrantedOnly` for every configuration. Paths of a share (`\\server`) are not covered.

**The catalogue.** `ToolCatalogueProofs` proves, for any scripts, contents and
names, that the loader and the registry agree (`LoaderAndRegistryAgree`), that a
script taken to be unchanged is the one that was loaded (`ScriptsUpToDate`), and
that the client catches up (`ClientCatchesUp`). The race between the scan and the
load is the heart of the second. `FreshInv` says that nothing has seen a time of the
future; by it a script that the scan has found changed never gets the remembered
time back (`SeenInv`), so while its tools are replaced one by one it is not taken
for unchanged, and what was loaded is still on disk if the time is that of the scan
when it is remembered (`LoadedInv`). `OwnInv` adds to `LoaderOwnsTools` what holds of
the script in hand, `VersionInv` that its old tools are among those to go.
`ClientInv` says which list is current while one is on its way.

**Commands and scripts.** `ScriptRunProofs` proves, for every timeout, pipe and
output limit, that the command and its job are gone when `runCommand` returns
(`CommandGone`), but for a command that its job did not take and what a job without
its limit holds, and that the output of a command that ended by itself is complete
(`OutputRead`). `ShellInv` says what each place of the loop knows of the processes:
before the assignment there is no job, so that a background process of that time is
not taken to be in it (`NotStarted`, `InJob`); the end of the command is seen before
the drain that empties the pipe, after which only the background can write
(`EndSeen`, `Emptied`). These are theorems of `ShellSpec`, and `RunsShellCommand` is
`Spec => ShellSpec`: every step of a script is one of the command's or changes
nothing of it. `ScriptsApart` is `OwnRun` for any scripts and workers: who is in a
script has the mutex (`OneInside`), and a short script has had fewer events than its
place in the script and no time at all (`Charged`), which `Enter` begins with and
nobody else can change.

**The browser.** `CdpSessionProofs` proves `OwnAnswer` and `StepsAsPlanned` for any
callers and plans. `Issue` is everything that was sent: what the page has carried out
(`log`), followed by what is on its way to it (`toPage`); what is known of a place in
it stays true as it grows. `WireInv` says that the commands of a caller are there in
order, each with its id and its step of the plan, and that an answer is that of a
command in the log. For each caller, `CommandInv` ties its place in `sendCdpCommand` to
the command in hand, and `PlanInv` says how far it is with its plan and that each step
before was carried out or may fail. Both theorems exclude behaviours in which two
commands got one id (`IdsClash`), as the properties do, where they are about answers.

**The scheduler.** `SchedulerProofs` proves `RoundFiresAll` for any callbacks and
edits between rounds, `CronAsDenoted` for all fields and values, and `MinuteCovered`
when a wait and three delays fit into a minute and two waits fill one
(`Wait + 3 * MaxDelay <= Minute`, `Minute <= 2 * Wait`, as 30 and 60 seconds do): `TimeInv`
bounds the clock by the place of the thread, `CoverInv` says of a minute under way
that a task was fired, will be by the round that has read the clock (`Pending`), or
that the clock will be read before the minute is over (`InTime`), `CountInv` that no
third round fits.

**The desktop.** `UIHandleProofs` proves `InputWhole` for all calls in `Calls`, any
callers and any desktops. A piece of a call is `Inner` if it takes and gives back the
mutex evenly and releases what it presses; it is shown of each call by the way it is
built (`InnerJoin`, `InnerLocked`), for all places, texts and combinations. The
invariant says what the rest of a call under way is, from the depth at which its
caller holds the recursive mutex (`Rest`): events only at a depth above zero, zero
only at the end, a release for everything that is down. The second half is about
trees of any elements: `BestMatch` says what `findBestMatch` returns, and gives
`WholeNameWins` (the points of a part of a name never reach those of a whole one,
unless it is of a window) and, with what a search for the runtime id finds,
`RefreshedIsSame`, for any desktop that the old one may have turned into. The least
element of a set of numbers comes from the library's theorem on well-founded
relations (`Least`), since induction with a predicate cannot be instantiated.

**Type invariants.** `TypeOK` of `ThreadPool` is a property of the run; those of
`McpServer` and `CdpSession` are theorems (`ServerTypeCorrect`,
`BrowserTypeCorrect`); `ShellTypeOK` and those of `LegacySession`, `ToolCatalogue` and
`KillSwitch` are in substance parts of the invariants proved. `InputTypeOK` and the
others that no configuration lists document the variables and hold on the instances.

**Only model-checked.** All liveness: `CallsReturn`, `StopEnds`, `WaitIdleEnds`,
`SessionEnds`, `CallsEnd`, `RunEnds`, `EveryRequestAnswered`, `ReaderNeverBlocks` and
`DestructorEnds` need fairness and `ENABLED`, which are out of the
prover's reach.

## 5. Not modelled

See `components` in `PROJECT.json` for each part and the reason. The UIA debugger
forwards to handles and keeps a map of them; site profiles are loops over a
vector; screen capture, file and window tools are calls of the system without
state of their own. Left out of the modelled parts: wording of responses, the
JSON itself, the negotiated protocol version, logging; exceptions thrown by
memory exhaustion; a write to stdout that fails; of lines that are no request only two kinds are
told apart, those answered with an error (`garbled`) and those whose error text
cannot be written (`unprintable`); the texts of browser scripts, coordinates, the
curve of the mouse, and the COM calls of the scanner, of which only the tree
counts. Assumed: the files do not change between the check of a path and its use;
a WebSocket message ends (the inner loop of `wsReceive` asks for further pieces
without looking at the time it has spent, so a message of endless pieces would
keep it past every timeout); trees of the desktop are at most 32 levels deep, as
the walk is; nobody gives `select` a window title, as no caller does.

### What the code does and no run shows

These came up while the modules were written. Each is a step or an operator of a
module, or a note at its hazard, and none is needed for a property above.

* On the kill switch `run()` drains the queue as well: tools that were still
  queued are started (`README.md:36`, "to terminate operations instantly").
  `run_command` does not look at the kill switch at all.
* A line that is not JSON and holds bytes that are no UTF-8 ends `run()`: the text
  of the parse error quotes them, and `dump()` throws outside every `try`
  (`core/McpServer.cpp:145`, against "until stdin closes or stop() is
  called", `core/McpServer.h:54`). `AnswerThrows` is that step. `QuietAfterRun`
  is then only of a `run()` that no other caller of `stop()` is racing: with one,
  the second `stop()` returns before the workers are joined.
* A client that gives two calls one id gets both answers, but a cancellation finds
  neither or the wrong one (`ActiveUnlessShared` says which ids are exact).
* `run()` sets `m_running`: a `stop()` before it is lost.
* `checkPath` judges `weakly_canonical` of the expanded name; the file tools open
  the name as it was given (`security/PermissionSystem.cpp:113`,
  `tools/FileTools.cpp:12`). A name that holds a variable is judged as one
  place and acted on as another, so `ActsOnlyGranted` is of plain names only.
* A script asks from inside its own call: what it did before a denial is done, and
  it may catch the denial and go on. Lua's own `require` reads files that nothing
  checks, and scripts loaded at startup leave no audit record.
* `readLineStdin` does not test `m_running`, against its comment
  (`core/McpServer.cpp:69-70`): a client that is silent keeps `run()`.
* A response with bytes that are no UTF-8 makes `dump()` throw and ends the legacy
  server: in the audit log when they are among the first 256 bytes or the cut
  makes them (`security/AuditLog.cpp:17`), in the reply otherwise, after the
  record has been written.
* An exception that leaves `main()` leaves the hook installed, and the destructor
  of `s_thread` joins for ever (`security/KillSwitch.h:22`).
* Two scripts with a tool of one name, or of a built-in's: unloading one
  unregisters the tool of the other (`services/LuaToolLoader.h:31`).
  `LoaderOwnsTools` excludes names that another owner has had.
* A script that is replaced by an older copy is never loaded
  (`services/LuaToolLoader.cpp:72` compares with `<`); between the unregistering and
  the registering of an updated script a call of its tool is an error.
* The results of `SetInformationJobObject` and `AssignProcessToJobObject` are not
  looked at (`tools/ShellTools.cpp:67`). With an empty job a timeout ends
  nothing: the command runs on while the response says it was terminated. A process
  that a command starts before the assignment, or without a job, outlives it (`README.md:165`, "without leaving orphaned child processes").
* `drainPipe` has no bound: with `Endless = TRUE` a command that writes without end
  keeps `runCommand` past its timeout, and `CallsReturn` fails.
* `winbot.shell` waits up to 30 seconds by default, and a script may run for 10: the
  hook that would end the script is not called meanwhile. Globals a script sets
  are there for the next one: the interpreter is shared.
* `m_msgId++` is not atomic: two commands may get one id and each other's answer.
  `OwnAnswer` excludes that (`IdsClash`).
* `clickSelector` parses a JSON string that was serialised twice, finds no `x` in
  it and never moves the mouse. `typeInto` sends a text byte by byte: a character
  of several bytes is no UTF-8, and `dump()` throws.
* The focus is taken and keys are sent in two steps without a lock
  (`platform/uia/UIHandle.cpp:215`): the keys go where the focus is by then.
* `findDescendant` searches child by child: a part of a name in the first child
  wins over the whole name in the second. `WholeBeatsPart` is of
  `findBestMatch` only.
* A cron task is fired twice in most of its minutes; callbacks slower than half a
  minute miss minutes; a list that holds a range matches nothing; a callback that
  adds or removes a task waits for itself.
* All calls of `debug_uia` share one debugger without a lock; the pointer that
  `SiteProfileRegistry::match` returns is into a vector that `saveProfile` replaces.

## 6. Plan

1. *Done*: `ThreadPool`, `TaskPool`, their refinement and proofs; `McpServer`
   with its first theorem; `KillSwitch`, `Permissions` and `LegacySession` with
   their theorems; the tool catalogue with its theorems.
2. *Done*: script execution and the shell (`ScriptRun`, `ShellCommand`) with
   their theorems; the browser (`CdpSession`), the scheduler (`Scheduler`, `Cron`)
   and the desktop (`UiTree`, `InputTools`, `UIHandle`).
3. *Done*: the theorems of the server, the browser, the scheduler, the input calls
   and the searches; with them every safety property of a passing run is proved.
4. Open: `findDescendant` and `findParent` on all trees, as `findBestMatch` is;
   `TaskPool` used by the server directly, where its proofs now use the pool's own
   invariant; paths of a share in `Permissions`.
