# barrahome-agent: formal models

TLA+ models of the terminal agent behind barrahome.org, the TLC runs that check
them on small instances, and TLAPS proofs of the results that do not depend on
the size of the instance.  References such as `store.go:128` are to files of the
repository (`src/internal/...`, `src/cmd/...`).

## 1. The system

One process (`serve`), started by a supervisor process under a sandbox, answers
`POST /stream`: it admits the request, takes the visitor's session, runs one
turn of a conversation with the model (which may call read-only tools over the
site's content), streams the answer, and stores the history in memory.

| Component | State | Operations | Hard because |
|---|---|---|---|
| Session store `session/store.go` | map id -> entry (conversation, turns, checked-out flag, instants), forced-eviction counter | `Checkout`, release function, `Sweep`, `Len`, `ForcedEvictions` | lock held only for each step: minutes pass between a checkout and its release, in which the entry may be evicted and its id reused |
| Limiter `limits/limits.go` | map address -> window, in-flight counter | `Acquire`, release closure, `Sweep` | two counters under one lock, lazily rolled windows deleted by a sweeper, instants read before the lock |
| HTTP server `httpapi/server.go` | usage totals; per handler: request, session, slot, history | `handleStream`, `/healthz`, `Usage.Add` | concurrent handlers over store and limiter; six return paths with two deferred releases; the history is written outside any lock |
| Agent loop `agentloop/loop.go` | per run: conversation, usage total | `Run`, `streamTurn` | rounds, tool calls, forced final answer, aborts at any emit, accounting on errors |
| Model client `moonshot/stream.go` | per call: text, tool-call fragments by index, usage | `Stream` | fragments interleaved, stream cut short, usage in two places |
| Content tools `content/*.go` | none (reads the workspace) | `list_dir`, `read_file`, `search_content`, `Resolve` | links and missing leaves in a path, bounds at their boundary, a tree somebody edits meanwhile, files that block |
| Supervisor, sandbox `cmd/.../main.go`, `sandbox/policy.go` | signal contexts, worker process | `supervise`, `RunWorker`, `serve`, drain | two processes, and three timeouts in a row (drain, kill grace, Docker's grace), each begun by another process; signals at any moment; a worker that hangs |
| Configuration `config/config.go` | none | `Load` | none: a pure function of the environment |

Interactions: `handleStream` reads the clock once (`server.go:134`) and passes
that instant to `Limiter.Acquire` and then to `Store.Checkout`; it gives
`sess.Messages` to `agentloop.Run`, writes the returned history back
(`server.go:217`), and its deferred calls release first the session and then
the slot.  Two sweeper goroutines, started by `serve` (`main.go:149-152`), call
the two `Sweep`s with their ticker's instant.  The store and the limiter know
nothing of each other.

What makes each part correct:

* store: a checkout is exclusive; the flag and the outstanding releases agree;
  the map is bounded; turns are spent once and never refunded; only the deadline
  backstop takes a session from its holder; a stale release resurrects nothing.
* limiter: the counter is the number of requests inside; no window admits more
  than its quota, and only who is let in is charged; lazy windows act as
  punctual ones.
* server: an answered turn is in the conversation; no turn overwrites another;
  every return path gives everything back; the two caps fit together.
* agent loop: the conversation grows by whole exchanges, in which every tool
  call is followed by its result; model calls are bounded; the visitor saw what
  is kept; usage is reported once however the turn ends.
* model client: only a complete message leaves, assembled in index order.
* content tools: a path resolves to what it means and stays inside; a text cut
  short is never passed off as whole; search finds what listing and reading
  show; every call answers.
* supervisor: streams have their time to finish; only a hung worker is killed;
  a stop is over before Docker's patience is; a worker that ends is replaced.

## 2. The modules

| Module | What it is |
|---|---|
| `SessionStore` | the store: one action per critical section |
| `SessionLedger` | what the store promises: a table of conversations, each with at most one holder |
| `SessionStoreProofs` | theorems about `SessionStore` |
| `Limiter` | the limiter: one action per critical section |
| `LimiterTimed` | the limiter under a clock, with a history of admissions |
| `HourlyQuota` | what the per-address quota promises: windows that close on time |
| `LimiterProofs` | theorems about `Limiter` |
| `StreamServer` | handlers over one store and one limiter, the sweepers and the clock |
| `StreamServerProofs` | theorems about the composition, and about `TurnTiming` |
| `AgentLoop` | one visitor's turns through `agentloop.Run`, with the usage totals |
| `Conversation` | what the loop promises: histories made of whole exchanges |
| `ModelStream` | one response of the model put together from its chunks |
| `AgentLoopProofs` | theorems about `AgentLoop` |
| `TurnTiming` | `StreamServer` with model calls that take time |
| `Supervisor` | the supervisor, its worker's life from start to exit, and Docker |
| `SupervisorProofs` | theorems about `Supervisor` |
| `ModelStreamProofs` | theorems about `ModelStream` |
| `Content` | the model's tools over a file tree, one call at a time |
| `ContentProofs` | theorems about `Content` |
| `DataInduction` | induction in a form the provers can use; no part of the system |
| `MCSessionStore`, `MCLimiter`, `MCAgentLoop`, `MCModelStream`, `MCTurnTiming`, `MCSupervisor`, `MCContent` | instances for TLC: symmetry, views, constraints, sets of inputs (`StreamServer` needs only `MCStreamServer.cfg`) |

`StreamServer` instantiates `SessionStore` (its callers are the handlers) and
`Limiter` (its requests are the handlers) over its own variables; every handler
step that touches a component is that component's action.

### Correspondence to the code

**`SessionStore`.**  `sessions` is the Go map; its values are addresses in
`heap`, because a release function closes over the entry itself and may outlive
its place in the map (`store.go:155-162`).  `grant[c]` is what caller `c` has of
`Checkout`'s results: the error, and the release function as the captured entry
with its `released` flag.  `Checkout` is one critical section with five
outcomes (known, new, busy, turn limit, full), in the code's order; eviction
is part of `CheckoutNew`.  `LruIdle` is a set because Go's map order makes any
least-recently-seen idle session the victim.  `Release`, `Sweep` are the other
critical sections; `WriteMessages` is what a holder does without the lock;
`Drop` is the caller's return, after which its release function is garbage.
Each `Checkout` and `Sweep` takes an arbitrary instant: callers read the clock
before they queue for the lock.  Addresses nothing refers to may be reused.

**`Limiter`.**  `perIP` is the map of windows, `inFlight` the counter, `slot[q]`
what a request has: a closure not yet called, one already called, or one of the
two errors.  A window that has rolled over is replaced even when the request is
then refused, as in `limits.go:49-59`.  `LimiterTimed` adds the clock, the delay
between a clock reading and the lock (at most `MaxLag`), and `admitted`, a
history of the requests let in that only properties read: `BurstBound`, and
`HourlyQuota`, which has the same history.  There only a request that is let in is
charged, and it is in the history; so a limiter that charged the quota for a
request it then refuses as busy would not implement it.

**`StreamServer`.**  `pc[h]` is where a handler is between two steps of other
goroutines.  `Arrive` is the validated request with its clock reading; `Acquire`
and `Checkout` are the calls with their refusals; `NoFlusher` is the 500 after
the checkout; `StartRun` hands `sess.Messages` over; `EndRun` is the return of
`agentloop.Run`, with a history or an error; `Commit` is line 217; `SendDone`
line 219; `FreeSession` and `FreeSlot` are the deferred calls in their order.  A
history is abstracted to the number of exchanges in it.  `since` is a history
variable: the instant a handler's `Checkout` succeeded.

**`AgentLoop`.**  The handler of one visitor, who waits for a turn to end before
the next (the store's busy check makes any other request fail).  `convo`,
`total` and `round` are `Run`'s variables; `pending` is what is left of the loop
over `assistant.ToolCalls`; `pc` says which call comes next: the model's
(`ModelReplies`, `ModelFails`), an event's (`EmitToolStart`, `Notice`,
`EmitFails`) or a tool's (`RunTool`, with the event that announces its result).
`Return` is the deferred usage report and what `handleStream` does with the
result; its last event may or may not arrive, since its error is dropped.
`history` is `Session.Messages`.  A message is its role, its tool calls and the
call it answers.  Text deltas are `ModelStream`'s; `sent` has the other events.
`billed` is a history variable.  The model is assumed to return
no tool calls when it is offered no tools: the code assumes it as well.

**`ModelStream`.**  `script` is what the upstream would send before `[DONE]`;
`ReadChunk` is one turn of the scanner's loop; `VisitorGone` is `onText`'s error;
`EndEarly` is every way the response ends without `[DONE]`, the failed
request included; `ReadDone` is the sentinel and the assembly.  `Whole` is the
reference: it reads the same script all at once, by index and by field, where
the code folds chunk by chunk.  A fragment's function name behaves as its id and
a choice's finish reason as its usage, so each pair has one representative.

**`TurnTiming`.**  `StreamServer` in which a running turn is a number of model
calls in a row, none longer than the HTTP client's timeout.  Time passes only
in model calls: tools read local files, and writes to the visitor are taken to
be prompt, so what it shows of too short a deadline holds all the more with a
slow reader, and what it shows of a sufficient one holds for readers that keep up.

**`Supervisor`.**  `sup` and `worker` are the two processes, `drain` the worker's
second goroutine (`main.go:173-180`) and `watcher` the goroutine of `RunWorker`
(`policy.go:102-116`).  `SendTerm` is what that goroutine does when the context
is done, `Kill` what it does `KillGrace` later, `SupExit` the return of
`proc.Wait`, of `RunWorker` and of `supervise`.  In the worker, `Notify` and
`Listen` are `serve`'s two steps from its start to its listener (a SIGTERM before
the first ends it), `BeginDrain` and `EndDrain` the call of `srv.Shutdown` and its
return, `ListenReturns` `ErrServerClosed`, `Exit` the end of `serve` after
`<-drained`.  `Fail` is any exit with an error, `Wedge` a worker that is alive and
never takes a step again, which only SIGKILL ends.  Time is counted from the
stop request.  A step that waits for nothing may be late, all such steps of a
shutdown together by at most `Lag`: `Tick` charges `slack` while one is due, so a
late hand-over pushes every later deadline back as it does in the program.
Docker (`Stop`, `Restart`, `Start`) is outside the repository and follows
`compose.yaml`; that it never has to kill the container is `StopFitsGrace`, so its
kill is no action.  Sessions are in memory: a restart begins with none,
which is `StreamServer`'s initial state.

**`Content`.**  `tree` maps each existing path, a sequence of names, to a node:
directory, file (its size, and whether it has the searched words), link (its
target) or FIFO.  `Follow` is what `filepath.EvalSymlinks` and the system do with
a path; `Resolve`, `ListDir` and `Search` are the functions of the same names
over it.  `Walk` lists what `WalkDir` comes to, in lexical order, and `Search`
folds the callback (`Look`) over that list.  `read_file` goes step by step
(`CallReadFile`, `Stat`, `Open`, `Read`), and between any two of them the author's
editor makes a file grow (`Grow`), removes what is no directory (`Unlink`) or puts
something else in its place (`Replace`: a directory, a link, a FIFO, whatever
`Written` has).  `Open` and `Read` do what the system does with that: a FIFO is
waited at, a directory opens and cannot be read, a file that is already open stays
what it is.  `stale` is a history variable: an edit was made since `Stat`.
`search_content` and `list_dir` are atomic, and directories stay where they are.
`blocked` is a call that waits for the writer of a FIFO and never answers.
`search_content` does not go through `Resolve` (it opens the paths `WalkDir` gives
it), so links lead it anywhere the sandbox's policy lets it read.
`SearchAgreesWithListing` compares it with `list_dir` and `read_file` for all links,
and names the one case in which they differ: `FoundOutside`, a link out of the root
that leads to a file with the words, which search shows and `read_file` refuses.
`HitsAreInside` states what the repository's README says instead, and is violated.

Operators whose comment names a mistake (`SpentLate`, `ReturnedLeak`, ...) are
not used by any specification: they are plausible slips in the definition that
follows them, kept to confirm that the properties notice them.

## 3. The runs

| Run | Module / cfg | Shows |
|---|---|---|
| `store` | `MCSessionStore` / `MCSessionStore.cfg` | the safety of the store: exclusivity, flags, capacity, turns, leases, no resurrection; store-full only when every session is held; `SessionStore` implements `SessionLedger` |
| `limiter` | `MCLimiter` / `MCLimiter.cfg` | slots conserved, quota kept, `HourlyQuota` implemented: punctual windows, and refusals that charge nothing |
| `limiter_late_clock` | ... / `MCLimiterLate.cfg` | the burst bound when clock readings are late |
| `stream` | `StreamServer` / `MCStreamServer.cfg` | no lost update, done means recorded, nothing leaks, leases last; a hung run does not lock its session for ever |
| `agent_loop` | `MCAgentLoop` / `MCAgentLoop.cfg` | whole exchanges, bounded calls, visitor and history agree, usage accounted |
| `model_stream` | `MCModelStream` / `MCModelStream.cfg` | the assembled reply is the whole reply or nothing |
| `turn_fits` | `MCTurnTiming` / `MCTurnTiming.cfg` | a deadline with room for every call is never passed by a live turn; the concurrency cap keeps the store from being full of held sessions |
| `turn_defaults` | ... / `MCTurnTimingDefaults.cfg` | the default times leave no such room (violated, see below) |
| `stop` | `MCSupervisor` / `MCSupervisor.cfg` | the three deadlines of a shutdown in their order, streams' time, a stop that ends, a service that returns |
| `content` | `MCContent` / `MCContent.cfg` | paths mean what they say, whole means whole, search agrees with listing and reading but for links out of the root, `read_file` opens no FIFO it could have seen |
| `content_links` | ... / `MCContentLinks.cfg` | a search follows a link out of the root (violated, see below) |
| `content_fifo` | ... / `MCContentFifo.cfg` | a search over a tree with a FIFO never answers (violated, see below) |

### Bounds, and why they are enough

* `store`: one place, so that three callers can fill it over and over (one of
  them holding a force-evicted entry, one released twice) and every new
  visitor evicts or is refused; two ids and two histories, so that a write and a
  stale release show; two turns, so that a session is used again and reaches the
  cap.  TTL 0 and deadline 0 in a clock of two instants make both kinds of
  sweep happen, with instants out of order.  `MaxForced` caps the forced-eviction
  counter (a state constraint): the counter is only ever incremented and read.
  Four addresses: one in the map, three held.  With one place the choice of the
  victim among several idle sessions does not come up; no property depends on
  it beyond the victim's being idle, and the theorems hold for any number.
* `limiter`: three requests for two slots, two addresses, two windows' length of
  time.  Without delay (`MaxLag = 0`) lazy and punctual windows agree exactly.
* `limiter_late_clock`: an hour of three ticks and a delay of one; two requests
  keep being reused.  The bound is tight: with the whole hour in `Span` instead
  of the hour less the delay TLC finds three admissions too many.
* `stream`: two handlers and two ids for one place, so that a visitor evicts
  the other's idle session or finds the store full; a delay of one tick between
  the clock reading and the checkout; a deadline of one tick in a clock of two,
  so that a session is taken from its holder and its id used again while the
  holder goes on; two turns, so that a history is built on.  Two requests are let
  in and every further one meets its refusal: longer sequences of requests are
  `store`'s (three callers, without end) and the theorems', which hold for any
  number.  No symmetry and no view, since liveness is checked along.
* `agent_loop`: two turns, so that a history is built on and a failed turn's
  remains would show; two rounds, replies with none, one and two tool calls (an
  id may come back in a later round or turn), replies with and without a usage report.
* `model_stream`: every sequence of at most four of nine chunks: text, usage
  alone and beside text, a call begun and continued, two indexes out of order,
  a fragment next to text, and a second choice, which is not ours.  Four chunks
  let every pair of features meet on either side of a third.
* `turn_fits`: two handlers for one slot and one session, so that one waits while
  the other runs and the caps meet; two calls of two ticks each and one tick of
  delay; the deadline of four is tight, with three TLC finds an eviction.
* `turn_defaults`: the code's defaults in half minutes, with one session.
* `stop`: the defaults and `compose.yaml`'s grace in units of five seconds (6, 2
  and 10) and one unit of lateness; without the margin TLC finds a drain in good
  order killed.  Three streams: one that ends, one cut at
  the deadline and one that never was.
* `content`: some two hundred trees of a root (its own name hidden) with three
  entries: a file of a size on either side of each limit, a directory with a
  hidden file in it, a FIFO, and links to a file, a directory, themselves, the
  outside and nothing; requests that reach through every one of them, to leaves
  that exist and that do not.  One edit, with which a file grows, goes, or
  becomes a directory, a link out of the root or a FIFO: read_file has one window
  between a size and the text it is for, and one between a look and an opening.
  The limits are two bytes, three bytes and two matches.
* `content_fifo`, `content_links`: the same trees without links in the first place,
  or with nothing but files and links there.

Symmetry is over ids, callers and addresses, none of which is ordered or named
by a property.  The views drop only what no action will read again: entries
nothing refers to, and a handler's locals before it sets them.

Deadlock is checked wherever the system never stops: a store, a limiter and a
server can always take a step (a sweep at least).  `agent_loop` stops when the
session's turns are spent, and `model_stream` when `Stream` has returned; in
`content` a blocked search never goes on.  Their configurations do not check it.

### Fairness

`stream` and `stop` assume some.  In `stream`, handlers that wait for nothing run (weak
fairness of `Prologue` and `Epilogue`, not of `Arrive`), the Go scheduler's
promise.  Nothing is assumed of `EndRun`: a run may hang for ever, the case the
deadline exists for.  The sweeper is weakly fair because its ticker keeps firing
(`store.go:248-257`).  `Tick` is strongly fair: `Prompt` makes the clock wait
while a handler is between its clock reading and its checkout, which models that
those steps take no appreciable time, so handlers that come and go for ever may
disable `Tick` again and again, and time passes all the same.  The property is
stated for checkouts whose deadline lies within the instance's clock.

In `stop`, what goes on by itself (`Progress`: each process's next prompt step,
and Docker's restart) is weakly fair, and so is the clock.  Nothing is assumed of
visitors (`Finish` and `Accept`), nor that anybody stops or starts the
container, nor that a wedged worker comes round: a stop ends all the same.
`ServiceReturns` allows for a stop request that comes before the restart.

### What the violated runs show

`store.go:227-230` reads the forced-eviction count as a leak detector: zero "in
normal operation", growing when "some caller is leaking checkouts (never
releasing)".  A model call may take up to 120 s (`main.go:158`) and a turn makes
up to four of them by default, against a deadline of five minutes
(`store.go:33`): `turn_defaults` reaches an eviction in a turn whose calls all
stay inside their timeout and whose handler does release.  `turn_fits` shows
that the count does stay at zero when the deadline has room for every call.

`tools.go:84-86` has `read_file` refuse anything but regular files, because
"opening a FIFO with no writer blocks forever", and `tools.go:187-189` promises
an answer to every call.  `search_content` opens every entry that is not a
directory and is small enough (`tools.go:153`), FIFOs included: `content_fifo`
reaches a call that never answers, and with it a turn that keeps its session
and its slot.

The repository's `README.md:175-177` says of the tools' paths that "symlinks
leaving the root are all rejected before touching disk, and Landlock would refuse
them anyway".  `Resolve` does reject them for `list_dir` and `read_file`;
`search_content` has no counterpart (`tools.go:131-153`): `os.ReadFile` follows a
link wherever it leads, and `content_links` reaches a hit in a file outside of the
root.  The second half of the sentence is the policy's, which is not modelled: what
it does not let the worker read counts as absent.

## 4. The proofs

Assumed of the constants, in the modules that declare them and evaluated by TLC
in the runs: finite sets of goroutines and ids, positive caps and quota
(`config.envInt` and `NewStore` admit nothing else), instants that are natural
numbers, margins of a shutdown that exceed the scheduler's lateness, chunks and
inodes of the right shape, finite trees whose root is a directory reached through
directories (`config.go:111` and `NewResolver` see to it; ".." is no name), and a
value for "nobody" that is no entry and no caller.  Nothing is assumed of how
many there are of anything.  Two theorems have a hypothesis of their own,
discussed below: `SlowIsNotLeaked` (`Room`) and `HourlyQuotaKept` (no late clock
readings).

* **Store.**  `IInv` adds two facts to the properties: an entry sits in the map
  under its own id (`IdsMatch`), so an entry never has two places; and a
  caller's entry stays flagged until that caller releases it, in the map or not
  (`HolderMarked`).  `ExclusiveCheckout` alone is not inductive: after a forced
  eviction an entry is held and unmapped, and it is `HolderMarked` together with
  `FlagMatchesHolder` that keeps anybody else from being given it.  From `IInv`
  follow the invariants and, step by step, the action properties
  `TurnsNeverRefunded`, `OnlySweepBreaksLease`, `NoResurrection` and
  `FullOnlyWhenAllHeld`; the last needs `HoldersCoverFlagged`: distinct flagged
  sessions have distinct holders, so there are at least as many.
  `StoreImplementsLedger` goes through the actions: a checkout is the ledger's
  `Start` (with the eviction, if any) or `Resume`, a write by the holder its
  `Record`, a release its `Finish`, a sweep its `Forget`; a refusal, and whatever the
  holder of an evicted entry does, changes nothing in the table.  `IInv` is what
  excludes a second holder.
* **Limiter.**  `SlotsAccounted` with the type invariant and `QuotaBound` is
  inductive as it stands; that the counter is natural follows from its being a
  cardinality.  Under the clock, `HourlyQuotaKept` maps each window, read as if it
  closed on time (`EagerWindow`), to `HourlyQuota`'s, and the history to its
  history: an admission is charged and recorded (`AdmitShows`), a refusal neither
  (`RefuseShows`), a tick closes what the code rolls over later, and a sweep deletes
  only what is closed already.  It holds
  for readings that are not late (`MaxLag = 0`): a late one charges the window it
  was read in, which a punctual quota does not.  What holds with late readings is
  `BurstBound`, and `BurstInv` is why: it relates `admitted`, the history, to the
  windows in the map.  A span of time that is still growing holds at most
  one quota besides what the present window has charged, and nothing besides if
  it began after that window was put in the map, which is at most `MaxLag` after
  its start (`Charged`); for an address without a window it holds at most one
  quota (`Settled`).  When a window is replaced or swept, every span
  still growing began after it was put there and so holds no more than its
  count: the address is `Settled` again.
* **Server.**  `StepIsStoreStep` and `StepIsLimiterStep` show that every step of
  the server is a step (or stutter) of each component, so both components'
  invariants hold in the composition (`ServerUsesStore` states it for the
  store).  `HandsMatchPc` says what a handler has in hand at each point.  Then
  `NeverFull`: at the moment of a store-full refusal every session would be
  flagged, hence held by a distinct handler with a slot, and the refused handler
  has a slot as well - one more than `MaxConcurrent`.  `SlotsCoverSessions` and
  `NothingLeaks` follow from the same invariant.  `NoLostUpdate` and
  `DoneIsRecorded` need to know that nobody else writes an entry in the minutes a
  handler has it, evicted or not, and `LeaseLasts` how late `checkedOutAt` may be: with
  `Recent` (a reading is at most `MaxLag` old until the checkout), `Lease` says of each
  holder that its lease began no later than its entry records plus `MaxLag`, that
  the entry still has the history it read, and its own once committed, and
  that it is mapped unless this handler itself has overrun its deadline (`Overran`)
  and an eviction was counted.  `LeaseEndsOverrun` is why: a sweep that takes the
  entry finds its lease over, so the handler has had it for longer than the
  deadline less `MaxLag`, and stays so as time goes on.  Other visitors' evictions
  excuse nothing.
* **Timing of a turn.**  `TimedIsUntimed` makes every step of `TurnTiming` a step of
  `StreamServer`, whose invariants carry over.  `Pace` adds that the n-th call of a
  turn begins at most (n - 1)(`CallTimeout` - 1) after the checkout and none lasts
  longer than `CallTimeout`; a turn is then over after `LongestTurn`, and under
  `Room` (`MaxLag + LongestTurn <= CheckoutDeadline`) no sweep finds it overdue.  The
  defaults do not satisfy `Room`, which is what the run `turn_defaults` shows.
* **Agent loop.**  The usage accounts are inductive once the open turn is counted
  with them (`Accounts`), next to the state's type and to `CallsToAnswer`: a
  handler between two tools has one left to answer.  `TurnInv` describes an open
  turn: the history and a question (`Opened`), then replies whose calls are all
  answered, in order and before the next reply, but for those of the last
  (`Shape`), as many of them as the round says (`Counts`).  A turn that returns with
  success has its last reply without calls, so it is an exchange of `Conversation`
  (`TurnsAreWhole`), and `Counts` bounds the model calls.  `ShowInv` counts events
  against messages: what was sent is a start and a result for each tool message
  of the turn, and the start of the one at work.
* **Model client.**  `StreamInv` says of every moment what `Whole` says of the end:
  after `pos` chunks, text, usage and partial calls are what reading the script's
  first `pos` chunks all at once, by index and by field, comes to.  That one more
  chunk keeps it is the lemma `MergeIsOneMore`, carried over a chunk's fragments by
  `MergeAll`.  `WholeReplies` and `TextWasShown` hold for every script, of any length.
* **Content.**  `TreeOK` is all the paths need: a directory at the root, inodes of
  the right shape.  Whatever `EvalSymlinks` returns is canonical (directories all
  the way to something that is no link), a canonical path and each of its parts
  evaluate to themselves, and what is missing behind a path is missing behind
  what the path evaluates to (`MissingBehind`; the number of links followed
  counts, so `OneMoreLink` shows that a larger allowance changes nothing but
  "too many links").  So a path made by `resolveExistingAncestor` has parts that
  evaluate to themselves, hence inside, and parts that do not exist
  (`ResolvedInside`).  For `WholeMeansWhole`, an open file is in the tree until it is
  read.  `SearchAgreesWithListing` also needs `SiteOK`: the tree is finite, with
  directories down to the root, and stays so because an editor leaves directories
  where they are (`EditIs`).  The proof reads both sides of the comparison from the tree alone.
  *What is wanted*: a path that leads to a file with the words is opened by
  `read_file`, or leads out of the root, and no other path is either (`ReadableIs`),
  and the names that `list_dir` marks as
  directories lead to just the paths behind unhidden directories (`NavigableIs`).
  *What is found*: `Walk` satisfies its equation because it can be built from the
  deepest entries up (`WalkIs`); it lists those same paths, each once and in the
  order `Less` (`WalkLists`), for which the entries of a directory are counted in
  order (`NthFacts`, `ChildFacts`).  Folding `Look` over such a list keeps the
  first `MaxSearchMatches` that match (`HeldStep`, `SearchHolds`).  The
  property speaks of the moment a search answers: the search leaves the tree as
  it is (`WantedStays`), and no other step makes such an answer (`NoSearchStep`).
  `FifosAreRefused` rests on `SeenFile`: as long as nobody edits, `Open` finds the
  regular file that `Stat` saw.  With an edit in between it may find a FIFO and
  wait; the code has that window, and the property allows for just that.
* **Induction.**  The library's induction theorems take a predicate, which the
  provers cannot instantiate.  `DataInduction` draws induction over numbers and over
  finite subsets from the minimal element that a well-founded relation gives
  to each set, the predicate being a set.  With it the recursive functions
  (`Follow`, `Walk`) and the library's folds, sums and `FlattenSeq` are shown to exist and so
  to satisfy the equations they are written as.
* **Supervisor.**  What makes `KillOnlyTheWedged` inductive is where each process
  may be at an instant: `SupervisorInTime` (a request not yet handed on is as
  old as the lateness so far, a worker being waited for as old as the kill grace
  and the lateness) and `WorkerInTime` (the same of a worker that makes progress,
  with its own deadline).  A worker that could still take a step when the kill is
  due would be both below `ShutdownTimeout + Lag` and at `ShutdownTimeout +
  Margin`, which `SupervisorAssumption` excludes (`Lag < Margin`); that Docker's
  grace exceeds the kill grace and the lateness gives `StopFitsGrace`.
  `DrainKept` (a drain ends with open streams at its deadline only) gives
  `StreamsGetTheirTime`.

Every invariant and every action property that a passing run checks is stated by
one of these theorems.  Only model-checked: liveness under fairness
(`LocksAreReclaimed`, `StopCompletes`, `ServiceReturns`), which the prover does
not reach.

## 5. Not modelled, and why

Request validation, the origin check and `clientIP` are pure functions of one
request.  `Len`, `ForcedEvictions` and `/healthz` only read.  Wording of errors,
logging, headers and the sandbox's policy are data.  A handler's panic has the
effect of an error from `Run`: the deferred calls run.  `Config` is the modules'
constants.  Lines of a response that carry no JSON are skipped by the code and
by `ModelStream`.  Edits during a search or a listing, and of directories, are
left out.  The wording of what a tool answers is left out, and files the
worker may not read count as absent.  Nothing bounds how long a slow reader may
hold a slot, and nothing replaces a worker that hangs without a stop
request: the code promises neither, so there is nothing to state.  Process
identifiers, which the system may reuse for a group just reaped, are left out.

## 6. Plan

Done: every component's model with its runs, and proofs of every safety property
the passing runs check, the three refinements included.  What is left is out of
the prover's reach: the three liveness properties, which stay with TLC.  A change
of the code starts at the definition that PROJECT.json maps to its lines.
