# A verification project for ishakat

ishakat is a terminal agent: the user talks to a language model, and the model
may call tools on the user's machine.  This directory holds TLA+ models of the
parts whose behaviour over time matters, the TLC configurations that check them
on small instances, and TLAPS proofs of what matters most.

- [The system](#the-system): its parts, their state, what can go wrong
- [Modules](#modules): which module models what, and how
- [Runs](#runs): what is checked, the bounds, the fairness
- [Proofs](#proofs): what holds for every value of the constants, and why
- [Where the code differs from what it says](#where-the-code-differs-from-what-it-says)
- [Not modelled](#not-modelled) and [Plan](#plan)

Paths are relative to `src/internal/` unless they begin with `src/`.

To repeat a check: `tlc -config MCServe_serve.cfg MCServe.tla`; a proof:
`tlapm AgentLoopProofs.tla`.

## The system

Four *doors* use one engine: the terminal interface (`tui/`, started by
`app/app.go`), the headless run (`app/headless.go`), the websocket server
(`app/serve.go`, `wsproto/`) and the command line (`src/cmd/ishakat`).  A door
owns a conversation (`convo/`), asks the engine (`engine/`) for a turn, lends it
a registry of tools (`tools/`) behind a permission guard (`permissions/`,
`mission/`, `trust/`), shows what happens, and records what was said in a
session file.  Which provider a turn reaches comes from the configuration
(`config/`, `oauth/`) and the catalog of models (`catalog/`, `curation/`).

| Part | Modules | State | Operations | Hard behaviour | What makes it correct |
|---|---|---|---|---|---|
| Agent loop (`engine/agentloop.go`) | `AgentLoop`, `TurnContract` | history; iteration; calls in progress; counters for cap, repetition, futility, spend | one turn: request, drain, budget, run the calls, again | cancellation at any wait, partial batches, six ways to leave a batch | every call has one reply behind its message; limits hold; a turn ends |
| Handshake retry (`engine/engine.go`, `retry.go`) | `AgentLoop`, `Headless` | attempt | `open`, `retryAfter` | cancellation racing a timer | bounded; at most one request after a cancellation |
| Answer stream (`provider/`, `engine/streambuf.go`) | `Stream` | scanner, open calls, bounded channel, buffer | decode, emit, receive, drain | two goroutines; bodies that end anywhere | order, no loss, an honest verdict, an end |
| Headless door (`app/headless.go`, `sink.go`, `agentturn.go`) | `Headless` | what was printed and saved, exit code | one prompt | signals | the exit code tells the truth |
| Websocket door (`app/serve.go`, `wsproto/`) | `Serve` | slots, tracked connections, busy flag, pending requests | prompt, answer, close, shutdown | three goroutines per connection, writes that block | slots are returned, one turn at a time, answers fit, connections end |
| Session store (`convo/store.go`) | `SessionStore` | a directory of JSONL files | `New`, `Append`, `Load`, `List`, `SetTitle`, `Delete`, `Rotate` | a death between two writes, other processes | a fault costs one entry; recent sessions stay |
| Recorder (`app/session.go`) | `SessionStore` | file id, pending title | `Append`, `AppendMission`, `SetTitle`, rotation | first append creates the file | titles and messages reach the file |
| Conversation (`convo/message.go`, `compact.go`) and its commands (`tui/compact.go`, `retry.go`, `slashrun.go`, `confirm.go`) | `Conversation` | messages, some summaries of others; the compaction in progress | submit, `/compact`, `/new`, `/resume`, `/retry`, the switch dialog | late answers, indices into a history other commands change | calls travel with their replies, nothing is summarised or recorded twice |
| Modes of a turn (`tui/root.go`, `agentturn.go`, `toolapprove.go`, `askuser.go`, `queueedit.go`, `steering.go`) and tool review (`app/toolreview.go`, `ask/`) | `TuiTurn` | mode, live turn, dialog, queues, tick | keys, messages, ticks | requests, answers, cancellations and ends cross | one turn at a time; a waiting turn is visible; no text is lost; turns end |
| Permission guard (`permissions/guard.go`) | `Guard` | autonomy, tiers, mission rules, scope, grants | `Authorize` and five setters | reads at separate points of a lock, a person in between | nothing denied runs; what runs was earned |
| Missions and trust (`mission/`, `tui/mission.go`, `toolscope.go`, `trust/`) | `Mission` | the dialogs, the session's missions, trust.json | compile, confirm, scope, replay | an end between two dialogs, a resume | constraints outlive the program |
| Tools on disk (`tools/`) | `Tools` | manifest and state per name, registry per door | create, edit, probe, archive, revive, delete | two doors, crashes, edits by hand | disk never claims what was not tested |
| Evolution (`evolve/`, `tui/suggest.go`) | `Evolve` | ledger, suggestion budgets | observe, offer, accept, refuse | files without a lock | offers are earned, refusals last |
| Catalog and curation (`catalog/`, `curation/`, `app/catalog.go`, `modelref.go`) | `Matching`, `Catalog` | cache, session list, hidden and kept models | refresh, merge, curate, resolve | overlapping refreshes, services that fail | listings survive; no guess stands for a name |
| Model switch (`tui/picker.go`, `confirm.go`, `effortcmd.go`, `engine/hotswap.go`) | `ModelSwitch` | label, engine, selector, dialog, fallback count | choose, confirm, resume, fall back, effort | choices applied late, switches that fail half-way | label and engine agree or it was said; a turn is not disturbed |
| Configuration and login (`config/`, `oauth/device.go`, `tui/login.go`) | `Config` | config.toml, credentials.toml, device logins | add, remove, set, reset, poll | whole-file edits, kills between two files | nothing lost, nothing half, it loads; polling ends |

The hazards found while reading, each at its line, are in `PROJECT.json`.

### How the parts interact

`Update` of the interface (`tui/root.go`) is one goroutine that takes one message
at a time.  `submit` puts the text into the conversation and its file and starts
either a plain turn (`engine.Start`, a goroutine that fills a `StreamBuf` drained
by a tick) or an agent turn (`agentTurnCmd`, a goroutine that runs
`RunAgentTurnStreaming` on a private copy of the history).  The agent turn comes
back only through messages: a request for permission or an answer, with a
channel for the reply, and at the end `agentTurnDoneMsg`, whereupon
`finishAgentTurn` folds its messages into the conversation and the recorder
appends them.  What the user types meanwhile goes into a queue under a mutex,
which the loop polls before each request (`AgentSink.Inject`).  Cancelling is
closing a context; everything that waits selects on it.

## Modules

### AgentLoop and TurnContract

`AgentLoop` is `runAgentTurn` statement by statement in control and abstract in
data: a tool call is its name and an element of `Args`, a failure text an
element of `Failures`, an answer its calls and whether it has text or thoughts.

| State | Code |
|---|---|
| `pc` | where the loop stands: `top` (start of an iteration), `pace` (the floor between requests), `open`, `backoff`, `stream`, `call` (about to look at call `i`), `running`, `ended` |
| `history` | `hist.Messages`, the roles, the calls, what each reply answers |
| `resp`, `i`, `attempt`, `iteration` | the answer being drained, and the loop variables |
| `callsThisTurn`, `last`, `lastFailure`, `futileRun` | the counters behind the cap, loop detection and futility |
| `cost`, `ctxDone`, `hasRunner` | the estimated spend, the context, `opts.Runner != nil` |
| `starts`, `ends`, `late`, `ran` | history variables: the two tool events sent, requests after the cancellation, tools run |
| `result` | the `AgentResult` |

Each action is one stretch between two points where the outside acts:
`BeginIteration`, `Pace`, `Open`, `Backoff`, `StreamEvent`, `StreamClosed` (with
everything up to the first call), `OverCap`, `Looping`, `StartCall`,
`ToolReturns` (success, failure, cancellation, refusal) and `Cancel`, which may
come anywhere.  The cap, the budget and the retry limit follow the code's own
conventions for zero and negative values.

`TurnContract` is what a turn promises the owner of its history, in three
variables: calls asked, calls answered, verdict.  `AgentLoopRefinement` maps the
loop onto it by reading the calls and the replies off the history.

### SessionStore

Recorders in different processes on one directory.  A step is one call on the
file system; between two steps any process may die, and a write may fail and
leave the beginning of its line.  A file is what reading it tells: the id of its
header (0 if it cannot be read), whether the header loads and has a typed title, the
appends that parse, whether its last line is whole (`torn`), and its time, the number
of its last write, which orders `List`.  `Written` is an append (behind a torn line
neither parses), `Loads`, `List` and `Rewritten` are the functions of `store.go`,
`Surplus` is what `Rotate` deletes; the actions (`Acts`) are the recorder's (`Start`,
`Resume`, `New`, `AppendLine`, `TurnWritten`, `RotateList`, `Delete`, `NamePending`,
`NameWrite`, `NameRename`, `Quit`) with their failures (`NewTorn`, `AppendTorn`,
`NameFails`, `Die`).  Two terminals may hold one session: a second `--resume` finds
what the first one writes.
`bound`, chosen at the start from `Bounds`, says which recorders there are and how
much happens.  A terminal recorder rotates after each append, the headless and serve doors
after a turn.  `acked`, `titled` and `faults` are history variables.

### Conversation

What one terminal session keeps: the messages, the plan of the compaction on the
screen, the answers under way, and the files.  A turn is one of the shapes an
agent turn can leave (`Turns`).  `PlanCompact`, `Active`, `ApplySummary` and
`DropOldest` are translated; the actions are `Submit`, `EndTurn`, `Retry`,
`NewConversation`, `ResumeChosen`, `Restart`, `StartCompact`, `CancelCompact`,
`CompactDone`, `DropOldest`.  `setup`, chosen at the start from `Setups`, says which
commands the session has, and whether a summary takes a while.

### TuiTurn

The interface around a running turn.  `mode` is Root's, all overlays opened from
the chat being one (`overlay`) and the two dialogs that answer the turn being
one (`dialog`); `turn` is what the goroutine does: working, handing over a
request (`sending`), `waiting`, `ending`.  `settings` (tools or not, delivery of
each queue one by one or in a batch) is fixed at the start.  Every key that
matters is an action, every message that Update takes (`TakeDone`,
`TakeRequest`, `TakeStray`) has the branch in which Update drops it, and an
answer sent to nobody blocks Update for good, as an unbuffered channel does.
`lost` records what was dropped.  The request of a sub-agent whose parent has
given up (`stray`) outlives its turn.

A picker sends what was chosen as a message (`Choose`) and stays open until Update
takes it (`TakeChoice`), in any mode: with a submit in between, it puts the chat or a
confirmation over a live turn (`covered`).  From that chat a second turn can be started
(`StartOver`).  Root then holds nothing of the first, but the goroutine of one with tools
goes on as `older`, takes from the one queue of steered texts, asks (`OldInject`, `OldAsk`,
...), and ends: its `agentTurnDoneMsg` names no turn and ends whichever is on the screen
(`TakeOldDone`), whose goroutine then is the older one.  `crossed` tells that this
happened: the two histories share an array that both append to without a lock, so what
they hold is not followed any further.  Not followed either: the goroutine of a *plain*
turn that was replaced, which writes to a buffer nobody reads, and a third turn while an
older goroutine is left.  A conversation that `/resume` puts aside stays in `hist`.

### Stream and Headless

`Stream` is one answer between the provider's bytes and the screen: the scanner
of an event stream, the decoders of four dialects (OpenAI chat and responses,
Anthropic, Gemini), the bounded channel, the engine's goroutine and the buffer
that the tick drains.  A piece is text, a thought, a fragment of a call, usage, or
the end mark; a body may stop anywhere or fail, and the user may cancel at any
moment.  `Handshakes` is what an HTTP answer may be; `Slot` is each decoder's rule
for the call a fragment belongs to; `Dispatch`, `Emit`, `Receive`, `Finish` and
`Drain` are the goroutines' steps; `sent` and `said` are history variables.

`Headless` extends `Stream` with the door that has no screen: `way` holds its
options, `Connect` and `Wait` the handshake with its retries, `DispatchLine` to
`EndLine` the same pipeline printing lines, `AgentReceive` and `AgentTurn` the last
request of a turn with tools, `Close` what is printed, saved and returned.

### Serve

Per connection: the upgrade and its slot (`Connect`, `Upgrade`, `Track`, `Freed`),
the reading goroutine (`BadMessage`, `Prompt`, `Answer`, `PeerCloses`, `Echo`,
`ReadFails`, `Leave`, `Untrack`, `Closed`), the goroutine of each turn (`Resolve`,
`TurnSends`, `Request`, `SendRequest`, `Reply`, `WorkEnds`, `Reset`) and the idle timer,
whose close may meet the others'.  A write to a peer that has stopped reading
holds the connection's mutex (`stuck`) until the connection is closed.  `Signal`
and `Exit` are shutdown.  `used` remembers for which request an answer was used.

### Guard and Mission

`Guard` is `Authorize`, one action per visit to the mutex: `Begin` (hard denials by
configuration), `ReadMission`, `ReadScope`, `ReadAutonomy`, `ReadGrant`, `Reviewed`.
Between two of them the setters may act (`SetAutonomy`, `AddMissionRules`,
`SetBashScope`, `SetToolTiers`).  Commands, paths and URLs are sequences of words;
`BashTier`, `IsCompound`, `ContainsAfterMeta`, `BashFamily` and `RequestKey` work on
them as the code does on strings.

`Mission` extends it with the person: a goal is compiled (`Compile`, `NearestCue`),
confirmed (`Submit`, `ResolveMission`), given tools (`ResolveToolScope`) and recorded; a
restart replays the record (`RulesOf`, `ScopeIn`).  Trust and the autonomy saved with
it are `Greet`, `ResolveTrust`, `RunTrust`, `PermissionsAutonomy`.

### Tools and Evolve

`Evolve` is the ledger: `Observe` counts a command under the pattern it fits or
widens, `DecideSuggestion` weighs the budgets, and each writer's load and save are two
steps, those of an answer to the dialog included (`AcceptLoads`, `DismissLoads`,
`RejectLoads`).  Any number of programs suggest (`Uis`) or only count (`Others`), over
the same two files.  `executed` is what really ran, in order; `starred` tells whether a
record has lost its first word, `overwritten` the last week in which a program replaced a
suggest.json that another had written since it read it, and `refused`, beside each
ledger that is held, what had been refused when it was read.  `Tools` extends it with the directory of tools: every operation is its file
accesses in order (`EditReads`, `EditWrites`, `EditLoads`, `EditSaves`; `ProbeReads`,
`ProbeLoads`, `SelfTest`, ...), by two doors, with
a crash between any two and edits by hand.  A manifest is one of a few bodies.
`Evaluate` is gate 1: duplicates, numbers, and what the ledger says of the URL.
`passed`, `made`, `ran`, `spoilt` are history variables; `spoilt` names are those an
interruption or a second operation at the same time left behind.

### Matching and Catalog

`Matching` is the fuzzy score as the dynamic program it is: a row for each rune of the
query, which gives the positions it may land on and what the match is worth so far
(`FirstRow`, `NextRow`; a position that is not in the row is at minus infinity), beside a
reference definition over all placements (`Worth`, the sum of what each rune gains).
`Catalog` asks for their agreement over the samples before the first step.  `Catalog` has the cache on disk, refreshes
at the start, at a login and by hand (`Discover`, `Save`, `Apply`), the
merge with what is declared and what models.dev says, curation by rules and by the
person, aliases, `Resolve` and the default at the start.  How well a text fits a
reference is the table `Fit`.  `latest`, `raced`, `hid`, `gained` are history variables.
Its names begin with `Catalog` because `TuiProofs` speaks of it and of `TuiTurn`.

### ModelSwitch

The selector with its filters and queries, the dialog of `CheckSwap`, `/model`,
`/resume`, `/effort`, the fallback after failures and the switch after a compaction,
while the catalog changes underneath.  A choice is a message (`chosen`) that Update
applies in whatever mode it then is.

### Config

Programs that run a list of edits (`Edit`: read the file, change one entry, replace
the file) with a kill between any two, and device logins whose polling has its
interval, two deadlines and a service that slows it down, from a terminal or from
the wizard, which can be closed meanwhile.  `Loads` is what `Load` and `Validate` ask
of the two files; `wrote`, `given`, `raced`, `overlapped`, `half`, `bare` are history
variables.

### Composition

`Mission` runs over `Guard`, `Tools` over `Evolve`, `Headless` over `Stream` and `Catalog`
over `Matching` in one state space, since they share state.  The others meet at
what they promise each other: `AgentLoop`'s histories are the `Turns` of
`Conversation` (the cut answer included); `Conversation`'s file is a file of
`SessionStore` without faults; `TuiTurn`'s goroutine is `AgentLoop` seen through
`Inject`, the reviewer and its end; `Stream`'s verdicts are the answers `AgentLoop`
drains; `Serve`'s turn is an `AgentLoop` whose requests go to a client.

## Runs

Two workers, no run over about two minutes.

| Run | Constants | Shows |
|---|---|---|
| `turn` | 2 argument payloads, 2 failures, batches of 2, cap 3, 1 retry, budget 4 with 1 spent, 1 steering message | the loop implements `TurnContract`, keeps its limits and rules, and ends |
| `store` | `keep_last` 1, 3 sessions; a terminal with 4 appends, 1 rename and 2 faults; a terminal and another door with 5 appends, or 2, a rename and a fault; two terminals with 3 appends and a fault, or 2 and a rename | what faults and writers beside cost, what rotation deletes |
| `convo` | `keep_last_turns` 1; 7 messages with asynchronous compactions, or 6 with all commands, with and without the switch dialog's cut | what travels to the model, what is recorded |
| `tuiturn` | 3 texts, 2 requests, 2 ticks, 1 choice of a picker, every delivery mode | modes, queues, liveness |
| `tui_orphan` | the same, 3 ticks | a stated property the code does not keep |
| `guard` | 8 requests of every kind, 3 configurations, 2 goals; calls and changes up to 3 together | what runs, what a restart keeps |
| `serve` | 1 slot, 2 clients, 2 prompts of one of them, 1 request each, 1 fault | slots, turns, answers, ends |
| `stream` | 3 pieces, a channel of 1, 4 dialects, 3 ways to name calls; the doors without a screen with one dialect and 1 retry | order, verdict, exit code, end |
| `tools` | 1 name, 5 manifests, 2 doors, up to 4 operations, 1 edit by hand; 2 suggesting programs with 2 commands in 2 weeks, or one with 3 | what disk and ledger claim |
| `catalog` | 2 providers, 3 models, 2 starts, refreshes and curations one or two at a time, an alias named as a model | listings, choices |
| `config` | 2 providers, 2 programs or 2 logins, a kill or a reset | edits, keys, polling |
| `switch` | 3 models of 2 providers, 2 turns, 1 choice, 1 refresh, 2 keys | label and engine |

Several instances of one module share a run: a constant named `Bounds` (or
`Setups`) is a set of records, and the initial state picks one.

Why the bounds are enough:

- `turn`: cap 3 with batches of 2 puts the cap inside a batch and between two; two
  payloads and two failures make repetition and futility both happen and not
  happen; three identical failures need three calls.  One retry is the first
  and the last.  The budget is reached after three answers of one call, and not
  by batches of two, so that each limit is the one that ends some turn.
- `store`: two faults are a cut line and a second fault on what the first one left;
  three sessions with `keep_last` 1 let one be rotated while another is written.  Two
  terminals need two appends to write one session by turns, and a rename to fall
  between an append and its rotation.
- `convo`: seven messages hold three questions with a call and a reply among them: a
  first compaction, a turn, and a second over what the first left.
- `tuiturn`: three texts are one that starts the turn and two in a queue, or one in
  each; two requests are one left behind and one of the next turn.  `MaxTicks` only
  bounds the ticks keys can add (every ctrl+c adds one); a follow-up's own tick
  is never bounded away.  One choice is the one that comes late: submit, choice taken,
  submit is the shortest way to two turns, and the third text is one that both may take.
- `guard`: a change needs to fall between two reads of one call, and a second call
  to find what it left; no read depends on more than one earlier change.
- `serve`: one slot and two clients make the slot change hands; two prompts are the
  turn that ends and the one that begins; the second client has none, so the
  first one's turns meet another connection's upgrade and close.
- `stream`: three pieces are two fragments of one call and one of another, or a text
  among them; a channel of one fills up at once.  The doors without a screen need
  one dialect only: the decoders are the screen's, and what the door adds does not
  look at them.
- `tools`: the interleavings are those of two operations of several file accesses; a
  third and fourth make archive and revive follow them.  Names are independent
  but for the count that `MaxTools` limits.  With budgets of one, two programs and two
  weeks are enough for one to exceed the other's budget, to overwrite what it wrote, and to
  offer what it has just refused; three commands of one are what a wildcard and a merge
  need.  At most two suggestions are made in a week, one above the budget.
- `catalog`, `config`: what can be lost needs two writers, what can be stale a read
  before the write of another, what can be half a kill between two files.
- `switch`: the first turn is the one a late choice meets, the second the one that
  runs on the wrong engine.

`tools` is symmetric in its doors and in its programs with a screen; no run with liveness uses symmetry.
`CHECK_DEADLOCK FALSE` stands where the bounds or the program let it stop: a
store whose bounded appends are spent, a program that has exited, an interface
blocked for ever on a channel.  The agent loop is checked for deadlock.

### Fairness

- *Agent loop.*  `FairSpec` asks that the loop's own steps are taken (weak
  fairness of `Internal`) and that whatever it waits for notices a cancellation
  (`ctxDone /\ External`): providers and tools take the context and the code
  selects on it.  `Termination` adds, inside the property, that provider and tools
  answer at all; `CancelEndsTurn` does without it.  The user's cancellation is
  never obliged.
- *Interface.*  `FairSpec` asks that goroutines run, that Update takes a message
  sent to it, that timers fire, and that a dialog on the screen is answered or
  cancelled in the end.  No other key is obliged; in particular nobody has to
  cancel or to close the queue editor.  Nothing that happens behind a late choice is fair.
- *Websocket door.*  The server's own steps are taken (`Server`); a client need do
  nothing.  `ConnectionsEnd` assumes, inside the property, that clients go on
  reading what they are sent, because a write has no deadline (see below).
- *Stream and the door without a screen.*  Goroutines and the tick run; the body and
  the handshake answer only once cancelled, since the HTTP request has the
  context.  Nothing else of the provider is obliged.
- *Configuration.*  The loop of a device login polls again while it polls
  (`Poll`); services may answer anything.
- The other modules state safety only.

### The properties

Each is commented in its module; several are conjunctions whose parts have a name
and a comment of their own.

- `CallsAnswered` and `RepliesBelong`: the history is never in a state a provider
  rejects, wherever the turn ends, except by a cut answer (see below).
  `WithinLimits` is the cap, the budget and one late request; `LoopRules` is paired
  events, no repeated call, nothing after the third identical failure or a verdict, each
  read off the whole history rather than the counters.
- `StoreKeeps`: over any order of deaths, failed writes, resumes and rewrites, and
  whoever writes beside, files load, titles last and rotation catches up
  (`RetentionBounded`); a fault costs one entry (`LossBounded`), unless a session is
  renamed while another recorder runs; a recorder alone in the directory keeps the
  session it uses (`LiveKept`).  `KeepsRecent`: alone, a deletion always finds
  `keep_last` newer sessions listed at that moment.
- `CompactionCoherent`: no call travels without its reply, the last turns stay, and
  nothing is summarised twice.  `RecordedOnce`: the file is what was said, once.
- `ScreenAgrees`: screen and goroutine agree although they only exchange messages
  (`OneTurn`, `BusyMeansTurn`, `WaiterShown`, `StreamDrained`); the exception is a turn that
  a late choice has `covered`, until it and all behind it have ended.  `TextsDelivered`:
  queues lose, double and reorder nothing, unless two turns with tools `crossed`.  `TurnEnds`
  needs all of them.
- `RunsAllowed`: what ran matches no denial in force when its call began, and was
  earned by tier, configuration, grant, answer or autonomy.  `ConstraintsSurvive`:
  at rest the guard has what the session's record says.
- `CountsHold`, `AnswersFit`, `ConnectionsEnd`: slots and turns of the websocket
  door, whose request an answer decides, and that ends arrive.
- `AnswerFaithful`: the screen shows a prefix of what was sent, in order, and all of it
  when the answer is called complete, calls included.  `ExitTells`: what a script may
  conclude from the exit code.  `ProgramSettles`: a cancellation ends everything.
- `ShelfTruthful`: a state file that says verified means this manifest passed, and a
  name without a tool is free.  `EvolutionEarned`: offers and tools rest on commands
  that ran, budgets hold (that of a week as long as no program overwrote in it what another
  wrote), and a refusal that was written before the ledger was read lasts until a record
  becomes `*`.
- `ListServes`: the cache keeps what could not be refreshed, what is declared stays on the
  list, and no text is guessed at.  `ChoiceHolds`: a session starts on a provider that can
  be asked, or on what an alias makes of its model (`BootServes`); a query matches when its runes lie in the reference in order, and its score
  is that of the best placement or falls short by no more than a contiguity bonus a rune.
- `EditsHold`: settings and keys are what was last written, pairs are whole, the
  files load.  `PollingEnds`.
- `LabelBacked`: label and engine differ only when the switch said so.
  `TurnsUndisturbed`: nothing but a late choice changes anything under a turn.

Every property has a mutant of the code in `PROJECT.json` (the `Mut...`
operators): a plausible slip at that place which makes it fail.

## Proofs

Eight modules hold theorems, proved for every value of the constants: any number of
calls, callers, connections, prompts, texts, models, programs, manifests and
restarts, answers, queries and channels of any length, of which the runs check a few.  They rest on the named assumptions of the
modules and on nothing else (limits are numbers; sets are what they are said to be; a
tool's tier is one of four; a query and a reference are sequences; finitely many clients; a command has a token; no
manifest is the empty one; the first configuration loads; a catalog lists models, and a
provider its own; no text is at once a model and not).

| Module | Theorem | Property | Inductive invariant |
|---|---|---|---|
| `AgentLoopProofs` | `TypeCorrect` | `TypeOK` | `TypeInv`: and inside a batch the index points into it |
| | `CapHolds` | `CapRespected` | `CapInv`: no more starts than counted calls, and the cap |
| | `AtMostOneLateRequest` | `OneLateRequest` | `LateInv`: none before the cancellation, and after a late one the loop can only leave |
| | `BudgetHolds` | `BudgetGate` | `BudgetInv`: the same for every place between the budget check and the next answer |
| | `LimitsHold` | `WithinLimits` | the three before it |
| | `CallsAlwaysAnswered`, `RepliesAlwaysBelong` | `CallsAnswered`, `RepliesBelong` | `HistoryInv` |
| | `VerdictsAreFinal` | `VerdictsFinal` | `VerdictInv`: a turn that runs has met no verdict |
| | `EventsAlwaysPaired` | `EventsPaired` | `EventInv`: events name the calls in order, replies tell which ran |
| | `FutilityAlwaysStops` | `FutilityStops` | `FutileInv`: the counters are what the history says, and no three failures alike are in it |
| | `RepeatNeverRuns` | `RepeatNotRun` | `RepeatInv`: `last` is the last call the history has |
| | `RulesHold` | `LoopRules` | the four before it |
| | `TurnKeepsContract` | `ImplementsContract` | `TypeInv` and `VerdictInv` |
| `MissionProofs` | `OnlyAllowedRuns` | `RunsAllowed` | `GuardInv` |
| | `ConstraintsOutlive` | `ConstraintsSurvive` | `RecordInv` |
| | `GuardTypeCorrect` | `TypeOK` | `GuardInv`, `ScreenInv` |
| `ServeProofs` | `CountsAlwaysHold` | `CountsHold` | `CountInv` |
| | `AnswersAlwaysFit` | `AnswersFit` | `AnswerInv` |
| | `DoorTypeCorrect` | `TypeOK` | `CountInv`, `DoorInv` |
| `TuiProofs` | `ScreenAlwaysAgrees` | `ScreenAgrees` | `AgreeInv` |
| | `TextsAlwaysDelivered` | `TextsDelivered` | `DeliveryInv` with the two others |
| | `TurnTypeCorrect` | `TypeOK` | `TypeInv` with `AgreeInv` |
| | `CatalogTypeCorrect` | `CatalogTypeOK` | `CatalogTypes` |
| | `ListAlwaysServes` | `ListServes` | `CatalogTypes`, `CacheInv`, `ShownInv` |
| | `ChoiceAlwaysHolds`, `BootAlwaysServes` | `ChoiceHolds`, `BootServes` | `CatalogTypes`, and `MatchHolds` of the score |
| `AnswerProofs` | `LabelAlwaysBacked` | `LabelBacked` | itself |
| | `TurnsAlwaysUndisturbed` | `TurnsUndisturbed` | `BusyInv` |
| | `SelectionAlwaysThere` | `TypeOK` | `SwitchInv`: the selection is a row of the list shown, and what a choice may name is a model |
| | `FaithfulAnswers` | `AnswerFaithful` | `SInv`: each piece is in one place, and each call is open or delivered |
| | `ExitCodesTell` | `ExitTells` | `HInv`: `SInv`, and what the door has printed and saved of it |
| | `ProgramTypes` | `HTypeOK` | `HInv` |
| `ConvoProofs` | `HistoryTypeCorrect` | `TypeOK` | `PlanInv`: the plan on the screen is that of the history there is |
| | `CompactionAlwaysCoherent` | `CompactionCoherent` | `PlanInv`, `FilesPlain`, `CoherentInv` |
| | `AlwaysRecordedOnce` | `RecordedOnce` | `PlanInv`, `RecordInv` |
| | `StoreTypeCorrect` | `StoreTypeOK` | `StoreInv`: and whose file is whose |
| | `StoreAlwaysKeeps` | `StoreKeeps` | `StoreInv`, `AloneInv`, `CostInv`, `RetainInv` |
| | `RecentAlwaysKept` | `KeepsRecent` | `StoreInv`, `AloneInv` |
| `ConfigProofs` | `ConfigTypeCorrect` | `TypeOK` | `ConfigInv` |
| | `EditsAlwaysHold` | `EditsHold` | `ConfigInv` |
| `ToolsProofs` | `ShelfAlwaysTruthful` | `ShelfTruthful` | `ShelfInv` |
| | `ShelfTypeCorrect` | `TypeOK` | `ShelfInv`, `EvolveTypes` |
| | `MadeAlwaysEarned` | `MadeWasEarned` | `CountInv` |
| | `OffersAlwaysRan` | `SessionInv`, `OffersRan` | `CountInv`, `SessionInv` |
| | `EvolutionAlwaysEarned` | `EvolutionEarned` | those and `WeekInv`, `RefuseInv` |

*The agent loop: histories.*  `CallsAnswered` says nothing inside a batch, which is
where a reply may go missing, so it is not inductive.  `HistoryInv` splits the history:
outside a batch every message is settled; inside one, everything up to the batch's
own assistant message is settled, that message stands at a known place and has the
calls of the answer, and exactly the first `i - 1` of them have their replies behind
it.  `ReplyStep` takes it over one reply, `CloseBatch` over the synthetic replies
that close a batch early (`NotExecutedShape`), and `AnswerStep` over an answer, whole
or cut.  Both theorems follow.

*The agent loop: rules.*  `StepKinds` says once what a step may be to the history: it
goes on, gives up, injects steered texts, takes an answer, or, in a batch, waits for
a call, refuses one, or takes a reply and then goes on, ends the batch or ends the turn
(`GoesOn`, `GivesUp`, `Injects`, `Answers`, `Waits`, `Refuses`, ...).  The four
invariants are then proved kind by kind.  Each ties a counter to what it stands for:
`lastFailure` and `futileRun` to the last results of the history that a runner gave
(`Counter`), `last` to the call before (`Remembered`), `starts` and `ends` to the calls that are
past (`Past`, `Told`).  A history with no three failures alike but for its end, and
counters that tell how it ends, is what makes the third failure the last.

*The refinement.*  `TurnContract` knows a log, the calls that wait and a verdict.  The
mapping reads the log off the history entry by entry, so what a step appends to it
is what the contract lets it append.  Steps in a
batch map to `ContractBatch`, the others to `ContractOutside`; waiting is a stutter.
`VerdictInv` gives the contract's result: it is given only at the end.

*The guard.*  `RunsAllowed` speaks of calls that have returned; what they were
allowed by was read earlier, while others changed the guard.  `GuardInv` records
what each place of a call has settled (`Passed`): after the mission read no rule
that was in force when it began matches, after the scope read the scope of its
beginning does if nothing changed, after the autonomy read a call under a read-only
autonomy is a controlled one.  `Goes`, `Denies` and `Allows` are the three ways a
read ends, `SetterStep` what a change by others leaves.  Rules are only ever added
while a call is under way, which is why the first is stable.  `RecordInv` is what the
guard has in terms of the session's record and of the goal between its two dialogs.

*The websocket door.*  The slots in use are those of the handlers between a
successful check and their last deferred call (`Holders`).  Three parties may close a
connection and one of them gives its slot back; `Roles` says which of them may
be where, so that `CloseReturns` can count.  `TurnInv` ties the busy flag to the one
turn that lives.  For the answers, an id names one request of its connection for
good, because `nextId` only grows, and a request's channel holds nothing but what was
meant for it: an answer that comes late or twice finds no channel.

*The interface.*  `ScreenAgrees` needs what the queue editor remembers: the mode it
returns to still fits the goroutine (`QueueInv`).  `covered` carries it through a late
choice: it is set whenever one is taken over a live turn, and reset only by the end of a
turn that leaves nobody behind, so that a goroutine Root has forgotten is always behind it
(`OldIsCovered`).  For the texts, every step is one of
six moves of a text between the queues, the history and nowhere, or leaves them
alone (`TextsStay`, `TextSubmitted`, `TextSteered`, ...).  Each move keeps that a text
is in one place and that the places are in order, while no two turns have crossed; that
they then never uncross (`CrossedStays`) is what makes the exception final.

*The catalog.*  A refresh reads the cache, asks for a while and replaces the file, so what it
holds of a provider it could not list must still be what that last listed: true as
long as no other refresh ended in between (`CacheInv`), and false after one did, which is why
`ListServes` speaks of refreshes that do not overlap (`raced`).  What is declared is in the
list a refresh carries before it is shown (`ShownInv`), because no step takes a provider
away from a configuration and the rules pass over what is declared.  That `/model` never guesses is
proved of any list: of the references a text fits the unique one is taken (`LeastOne`,
`BestIsOne`), and aliases are followed by a recursive function (`HopFacts`).
Where a session starts (`BootServes`), the provider picked is one that can be asked, but the
reference put together for it goes through the aliases once more, and nothing keeps an
alias from having the name of a model (see *Met while modelling*): `Aliased` shows that
only what such an alias stands for can come out instead.

*The score.*  `MatchHolds` compares the dynamic program with all placements, for queries and
references of any length.  Every value of a row is backed by a placement of the runes so far
that ends there and is worth as much or more (`RowsGrounded`, by `NextBacked`), so the score is
never too high.  Every placement is in the rows, rune by rune, and ahead of them by a
contiguity bonus for each rune after the first at most (`RowsReach`, by `NextReached`): a
row keeps, for a position, the best of what came before, and that may not be the neighbour
whose run would have gone on.  That the rows and the sums exist as the recursions define them goes by
the least length for which they would not (`ScoreRows`, `WorthSums`).

*The model switch.*  A selector that shows rows has its selection on one of them.  The
rows are groups flattened into one sequence, and folding a group must find its
header in the new rows: `GroupHolds` and `FirstOfGroup` show that every candidate's provider
has one, whatever is collapsed, so the index after `Turned` exists; every other
change goes through `Rebuild`, which clamps.  What flattening yields is proved from
its definition: `Joins` says of a function that it glues a sequence of sequences
together, a least counterexample shows there is one, and it is the one `FlattenSeq` takes.

*The answer stream.*  `AnswerFaithful` compares the screen with all that was sent, but a piece
on its way is in the line, in the decoder's hand, in the channel or in the buffer, and
a fragment of a call waits in the decoder until its call is complete.  `SInv` says where
everything is.  `Flow`: what is shown, buffered, in the channel and in the hand is, in
that order, what the decoder has `heard` (everything but the event whose blank line is
still to come); after a failure it is a prefix, one event short at most unless the turn was
cancelled.  `CallFlow`: the calls delivered and those open are together the
calls heard, each once, and each open one has the fragments of its call so far
(`Accounted`); `Placed` is what makes each dialect's way of finding the call of a
fragment find the right one, as with an anonymous fragment, which belongs to the
last call because `chat` opens its calls in order.  A cancellation drops calls
that are being flushed, so `CallFlow` holds only while there is none (`Sound`), and that is
enough because a cancelled turn is never complete.  `UsageOK` follows the last usage
report, and `ErrorTold` the error behind an answer that ended badly, until the verdict.
Every step is one of six to the stream: the provider speaks, an event is dispatched, the body
ends, an event is put in the channel, one is taken from it (`Took`), or the reader settles
what it has (`Settled`); the doors differ only in which of their actions are the last two.
That a sequence of numbers stays the same while pieces of it change hands rests on
`FlatConcat`, the same for every way of counting (`NumJoin`, `LoudJoin`, `PlacesAppend`).

*The exit code.*  At `Close` the code is read off the verdict, so `ExitTells` needs what the
verdict means (`SInv`) and what was done before: the text printed is the text in the
message (`ReadOK`), with tools only once the answer is complete, since a request that fails prints
nothing; no error and no end was printed yet (`QuietOK`); and a session that
should be there and is not has been warned of, in a warning that no later line
takes back (`StoredOK`, `WarnedStays`).

*The conversation.*  A step says something new, recalls a file, summarises a plan, or
opens or drops a plan (`StepKinds`).  That `PlanCompact` plans whole exchanges, and the
recent turns not at all, is proved from its definition; `PlanInv` carries it to
the moment the summary arrives.  No file has a summary in it (`FilesPlain`), which is what
makes a recalled history coherent.  `RecordInv` numbers what is said: the files are
ascending, apart from each other, and have everything that is in the history.

*The session files.*  `ConvoProofs` covers both models of package convo.  `DirKinds` says
once what a step may do to the directory, and `FilesStay` what stays true of a file through
any of it.  Three arguments rest on it.  What a fault costs: an entry is lost by the
append *after* the fault, so `CostInv` counts a torn last line as a cost to come; an
append behind it turns one cost into another, and a rewrite pays none, because alone, or
before any rename, what it copied is still what is there (`CopyInv`).  What rotation deletes:
between its listing and its last deletion `VictimsInv` keeps that every victim has
`KeepLast` newer files besides the victims that go before it, so deleting the most
recent of them first never reaches a session that is recent (`SurplusBehind`,
`NotSurplus`).
That it catches up, with any number of recorders: the sessions that nobody is about to append to
or to delete are `KeepLast` at most, or some recorder is on its way to rotate
(`RetainInv`); at rest these are all there are.

*The configuration.*  Nine kinds of step (`StepKinds`), one per edit of a file and a few
that touch none.  What a program reads is stale only if another edits meanwhile, so
most of the invariant is about the time nobody has overlapped (`AloneInv`): what is
held is what is there (`Fresh`), the second edit of a pair finds what the first one made
(`Prepared`), and what is half or without an address has been cut by a kill or was
removed without having been added (`Backed`, `Explained`).  `LoginInv` and
`VerifiedInv` follow a key from the service to the file: a login saves only a token that
was granted, and checked unless the person said not to.

*Tools.*  An operation is a dozen file accesses, and another door may act between any two.
`ShelfInv` says for every place of an operation what it may still believe of the
name it works on, unless that name is spoilt; there is one lemma for each
file access that changes something, and one for what accesses by others leave.

*Evolution.*  Writers of the ledger load it and replace it later, so records are lost.
`CountInv` survives that, since it is an upper bound: no ledger, on disk or in the hands of a
writer, counts more for a pattern than commands that fit it were run (`Counts`,
`Earned`), merged and widened records included (`Merged`, `ObserveCases`).  Hence
what is offered or made had run, with any number of writers.

The budget of a week is kept in a file that is read and replaced in the same way, by as
many programs as suggest, and a count written from an old copy is lost.  `WeekInv` says
that this is the only way: no copy is of a later week than the one that has begun
(`Begun`), and unless some program overwrote, in the week the file counts, a file it had not
read, the file has counted every suggestion of that week (`Counted`).  So the decision of
a program that did not overwrite anything was made on the true count.

A refusal is kept in the ledger.  `RefuseInv`: as long as no record became `*`, every copy of
the ledger that somebody may write back has each refused pattern marked, there is one
record of a shape (`Tame`), and what a program offers was unmarked in a ledger where all
it knew to be refused was marked.  A refusal is in `rejected` only if nobody else held a
ledger to write while it was written (`alone`): one that meets another writer may be lost,
and the model does not claim otherwise.  What another screen refuses after the ledger was
read may still be on offer; the property says so with `refused`.

All of it was model-checked first.  Where an induction over the history was needed,
the least element of a set of positions serves.  Left to TLC
is liveness under fairness and ENABLED, which the prover does not reach: `Termination`,
`CancelEndsTurn`, `TurnEnds`, `ConnectionsEnd`, `ProgramSettles`, `PollingEnds`.

## Where the code differs from what it says

`tui_orphan` is a run that shows one: a request under way when the turn is
cancelled opens a dialog nobody waits behind; answering it blocks Update
(`tui/toolapprove.go:165`), against `app/toolreview.go:56-61`.

For the following, the property the comment promises is stated in its module and
does not hold; adding it to the module's cfg shows the counterexample.

| Property | What the code does |
|---|---|
| `AgentLoop!EveryExitClosesCalls` | a cancellation while the answer streams leaves the tool calls that had arrived without replies (`engine/agentloop.go:484`, against 568-575) |
| `SessionStore!AckedSurvives` | after a cut append, a resumed recorder appends to the cut line, so a second, acknowledged entry is lost (`convo/store.go:155`, against 152-153) |
| `Conversation!StaleAnswersDropped` | the answer to a cancelled compaction is applied to the next one if that is on the screen when it comes (`tui/root.go:1720`, against 1715-1719) |
| `TuiTurn!RequestsShown` | with the queue editor open over a turn (alt+up), a request of the turn is dropped and the turn waits until it is cancelled (`tui/root.go:1731`, against `tui/agentturn.go:158-162`) |
| `ModelSwitch!LabelMatchesEngine` | a switch to a model whose provider cannot be prepared changes the label and keeps the engine; later turns reach the old provider under the new name (`tui/root.go:2198`, against `tui/engine.go:77-81`) |
| `Serve!IdleFrees` | the close of an idle connection waits behind a write to a peer that stopped reading, and the slot is never freed (`wsproto/wsproto.go:114`, against `config/schema.go:485-488`; under `FairSpec`) |
| `Tools!OnlyVerifiedRuns` | nothing asks `CanUse` before a declared tool runs: unproved and archived ones do (`tools/registry.go:120`, `tools/declarative.go:726`, against `tools/tool_probe.go:54-55`) |
| `Evolve!OncePerPattern` | two commands that differ in their query merge into `*`, under which a refused pattern is offered again (`evolve/ledger.go:314`, against `evolve/suggest.go:79-82`) |
| `Catalog!LoginListed` | a refresh begun at the start that ends after a login's replaces its list and its cache (`app/catalog.go:349`, against `tui/login.go:142-147`) |
| `Config!AddEnables` | `provider add` with a connection of one's own returns before it enables it, and says it is enabled (`config/connection.go:47-53`) |
| `Config!StaleIgnored` | a late answer of a cancelled login acts on the next wizard (`tui/root.go:1758-1762`) |
| `Mission!FooterTellsAutonomy` | a saved autonomy is shown at the next start, but the guard is never given it (`app/projecttrust.go:71`, against `app/truststore.go:38-41`) |
| `Mission!NegationHeeded` | in "don't use X" the cue that begins later, "use", wins (`mission/mission.go:154-158`) |
| `Headless!PartialShown` | with tools, the text that arrived before a failure is returned "so the caller can show" it, and is neither shown nor saved (`app/agentturn.go:297-340`, against `engine/agentloop.go:479-481`) |

Met while modelling, without a property of their own (or with the exception named
in a property's comment):

- *Sessions and conversation.*  A process that dies inside `rewrite` leaves
  `.tmp-*.jsonl`; `List` accepts it under the id of the session it copies, and
  `Rotate`, when it reaches it, deletes the session itself (`convo/store.go:353`).
  A line appended between `/name`'s read and its rename by another terminal that resumed the
  session is lost (340), and a session that another program rotates away in between is
  back after the rename (389).
  `/new` and the `/resume` overlay do not tell the recorder (`tui/slashrun.go:120`).
  A compaction is not recorded: a restart brings the history back
  (`tui/compact.go:163`).  `/retry` removes the last assistant message even if it is a
  summary (`tui/retry.go:30`).  Drop-oldest of the switch dialog counts messages, not
  turns, and may separate a call from its reply (`tui/confirm.go`).
- *Turns.*  `modelChosenMsg` and `sessionChosenMsg` look at no mode (`tui/root.go:1702-1706`),
  and a picker stays open until they come (`tui/picker.go:905`): enter, esc and a submit at
  once, and the chat, or the confirmation of a swap, is over a live turn.  The next submit starts a
  second one and forgets the first with its `cancel`; the first one's `agentTurnDoneMsg` then
  ends the second on the screen (`tui/agentturn.go:75-80`), and the histories of both append to one
  array.  An agent turn whose end arrives while the queue editor is open stays
  busy on the screen.  A text steered in a turn without tools, or after the loop's
  last poll, is shown at once but delivered later, behind what was submitted in
  between (`tui/steering.go:301`).  A follow-up is not submitted after an automatic
  compaction until another turn ends.
- *Guard and missions.*  `[autonomy].default` is never read; `/resume` inside a session
  does not replay missions (`tui/root.go:2231`, `convo/mission.go:43`).
- *Websocket door.*  `closeAll` holds the lock that connections need to leave while
  it closes each (`app/serve.go:248`).  Without sessions or tools each prompt starts
  without history (694).  The busy flag is reset after `done` is sent, so a prompt
  sent at once may be refused.  A model that cannot be resolved ends in an error
  without `done`.
- *Streams.*  Nothing limits the wait for a body (`provider/openai/openai.go:63`).  Calls
  pending when a body is cut are flushed by one decoder and lost by another.
- *Headless.*  With tools nothing is printed until the loop ends, although
  `app/headless.go:331-336` says "as it lands".  A signal after the answer was whole
  exits 130 with "partial response kept".  A plain answer that failed is saved
  without a mark.
- *Tools and evolution.*  Commands of the shell can never be crystallised
  (`tools/tool_create.go:552`).  A create or delete that is cut leaves a name nobody can
  use (483, `tools/tool_delete.go:143`).  A probe hashes whatever manifest is there when
  it ends (`tools/tool_probe.go:124`) and sets the environment of the whole process
  (186).  Two programs that
  suggest at once overwrite each other's suggest.json, and together exceed the budget of a
  week (`tui/suggest.go:97-145`).  The decay of refusals compares weeks by equality (`evolve/suggest.go:273`).
  A ledger line over 1 MiB makes the ledger unloadable.
- *Catalog.*  An alias with the name of a model (`a1`, for a model of another provider)
  makes `pickBootModel` start on that provider, with a credential or not: it checks the
  provider it walks over, and `lookupModelProvider` expands aliases also in the reference
  it put together itself (`app/modelref.go:126`, 519).  Keep does not win over deprecated (`catalog/merge.go:158`), `/model keep`
  cannot pin a model a rule hides (`tui/slashrun.go:275`), `RecordModelUse` and
  `RecordFailure` are never called, an exact but hidden reference may be taken by a
  fuzzy match, and two sessions overwrite each other's curation file
  (`app/curationstore.go:71`).
- *Model switch.*  The fallback's count of failures survives a switch
  (`tui/root.go:656`, 2981), and so does the effort level of the old model
  (`tui/effortcmd.go:181`).  A refresh moves the model under the selector's index
  (`tui/picker.go:169`).  Fallback and resume skip `CheckSwap`.
- *Configuration.*  `provider remove` of a provider never added writes an entry
  without an address, and the next start fails.  Two programs that edit at once
  lose one edit.  An add cut between its two files leaves an enabled provider
  without a key.  A device code's request has no timeout.

## Not modelled

`PROJECT.json` lists every component with its status.  Left out for good:
rendering, menus and text editing (no state that outlives a frame), the native
tools (input and output), flag parsing, environment probing, themes, skills and
instruction files (read once).  Abstracted inside the models: the texts
themselves, sizes and durations, output truncation, wording of notices, drafts
of the input box, scrolling; the encoding of requests; the merge of
configuration layers; the token estimate.  In `SessionStore` a session is resumed by
`--resume`, so the most recent one; the overlay's choice does not reach the recorder.
What fits a name is a table in `Catalog`, and I/O errors of saves, other than a death, are left
out of `Tools`, `Catalog` and `Config`.

## Plan

1. *Done*: the modules above, the refinement of `TurnContract`, and the proofs of
   `AgentLoop` (refinement included), `Mission`, `Serve`, `TuiTurn`, `Catalog`,
   `ModelSwitch`, `Stream`, `Headless`, `Conversation`, `SessionStore`, `Config` and `Tools`.
2. Abstract specifications for `Stream` (a sequence handed over once, in order, with
   a verdict) and for `Config` (a map edited entry by entry, which `EditsHold` is the
   core of).
3. `Mission` with the provisional rules of sub-agents.
