# A TLA+ verification project for VITOS

VITOS is a lab workstation image for cybersecurity teaching: collectors report what students do
to an event bus, an AI engine scores it and raises alerts, administrators act through `vitosctl`
and a web dashboard, and a dual-approval "ghost mode" gives researchers an isolated network. This
directory models the parts whose correctness depends on ordering, concurrency, failure or
arithmetic, checks them with TLC, and proves the most important results with TLAPS. Paths below
are relative to `src/vitos-v1/packages/` unless they say otherwise.

## 1. The system

| Component | State it keeps | Operations | Interacts by | What is hard |
|---|---|---|---|---|
| **vitos-busd** `vitos-monitor/busd/main.go` | connection sets, log file and `.1`, one mutex | accept, scan, broadcast, rotate, stop | two Unix sockets | fan-out against registration, drops, `Stop`, crashes; a reader that stops reading; rotation step by step |
| **collectors** `vitos-monitor/bpf`, `collectors`, `vitos-tools/usr/sbin/vitos-run` | the loader's connection | emit a line, one connection per event or one for all | publisher socket | reordering between connections, a bus that is not there |
| **AI engine** `vitos-monitor/ai/vitos_ai` | windows, last scores, models, `alerts.jsonl` | connect, ingest, classify, score, suppress, alert, isolate | subscriber socket, HTTP to Ollama, `vitosctl` | awaits in the loop, late events, restarts, end of file |
| **risk scorer** `scorer.py`, `intent.py` | none | `score` | called by the engine | thresholds, rounding, out-of-range confidence |
| **vitosctl ghost** `vitos-monitor/cli/vitosctl/main.py` | files in `pending/` and `active/` | enable, approve, disable, list | files only | overlapping commands, kills between two writes |
| **vitosctl session** same file | none (interfaces, processes) | freeze, isolate, revert | kernel | stale pids, interface names cut to 8 characters |
| **ghost launch, watchdog** `vitos-ghost` | namespace, tunnel, kill-switch | launch, reassert | files, kernel | order of steps, a step failing under `set -e` |
| **dashboard events** `vitos-dashboard/backend/app/events.py` | rings, client queues | bus loop, replay, stream | subscriber socket, SSE | replay against live events, full queues, reader exceptions |
| **dashboard alerts** `alerts.py` | file offset per client | replay, tail | the alert log | half-written lines |
| **dashboard auth, audit** `auth.py`, `audit.py` | sessions in SQLite, the audit log | login, lookup, logout, entry | cookies | expiry and revocation while requests run; an entry is a step after its command |
| **dashboard session control, roster, reports** `sessions.py`, `students.py`, `reports.py` | none | freeze, isolate, release; list; report | `vitosctl`, the alert log | overlapping requests, lines that are being written |
| **terminal proxy** `ttyd_proxy.py` | ttyd per session | attach, kill | websockets, processes | reuse, death, two directions ending apart |
| **web client** `vitos-dashboard/web/src/lib/sse.ts` | one EventSource | connect, back off, unmount | SSE | a timer that fires after the unmount |
| **first boot, SSO** `vitos-base`, `vitos-sso` | accounts, consent database | init, consent, join, purge | files | interruption between steps |
| **retention, audit, scopes** `vitos-vit-bhopal`, `vitos-hardening` | log files | daily sweep | files | deleting a file that is open |
| **image build, kernel, installer, website** | none at run time | | | |

A line travels collector → `vitos-busd` → AI engine (and dashboard) → `alerts.jsonl` → dashboard and
`vitosctl alerts`; a Critical verdict calls `vitosctl session isolate`, and so does an administrator
in the dashboard. `PROJECT.json` lists every component with its status and every hazard at its
source line, with the properties that cover it or the reason why none does.

## 2. Modules

| Module | Models | Extends |
|---|---|---|
| `BroadcastLog` | what the bus promises: one order of lines, readers that join at its end and receive it gap-free until they leave | |
| `EventBus` | `vitos-busd`, its clients and systemd; instantiates `BroadcastLog` | |
| `MCEventBus` | instances | `EventBus` |
| `EventBusProofs` | theorems | `EventBus` |
| `RiskScorer` | `RiskScorer.score`, as operators | |
| `RiskObservation` | one observation that only gets worse | `RiskScorer` |
| `RiskScorerLemmas`, `RiskScorerProofs` | lemmas about the operators; theorems | `RiskScorer`; `RiskObservation` |
| `BehaviorEngine`, `MCBehaviorEngine` | `service.py`, `features.py`, the interface of `anomaly.py` and `intent.py`, with the bus and systemd around them | `RiskScorer` |
| `BehaviorEngineProofs` | theorems | `BehaviorEngine`, `RiskScorerLemmas` |
| `GhostApproval`, `MCGhostApproval` | `vitosctl ghost enable/approve/disable` | |
| `GhostApprovalProofs` | theorems | `GhostApproval` |
| `EventStream` | the dashboard's `events.py`, with the bus and the process around it | |
| `SseClient` | `sse.ts` on a page that follows a student, composed with the streams it opens | `EventStream` |
| `SseClientProofs` | theorems about the streams and the page | `SseClient` |
| `AlertLog` | `alerts.jsonl` with its writer, the alert stream, the roster, the reports and the sweep | |
| `AlertLogProofs` | theorems | `AlertLog` |
| `AdminSession` | `auth.py`: sessions, and a request up to the point where it acts | |
| `Dashboard`, `MCDashboard` | what the request then does: `sessions.py` over `vitosctl session`, `reports.py`, `ttyd_proxy.py`, `audit.py` | `AdminSession` |
| `DashboardProofs` | theorems | `Dashboard` |

Definitions whose comment says "Mutation" are not part of any specification: each is a plausible
bug, kept beside the definition it would replace, that the properties must catch.

### EventBus

*State.* `pubs`, `subs`, `mu`, `logF` are the fields of `Bus`; `cur` and `old` the two log files;
`pst` is at once the state of a publisher connection and the program counter of its handler
(`scan → have → write → (rotate) → fanout → scan`, or `close → done`); `sst` the state of a subscriber
connection; `written ≥ buffered ≥ scanned` count a publisher's lines in the socket, in the scanner's
buffer and returned by it; `deaf` holds the accept loops an error has ended; `received` and `taken` are what was written to a subscriber's socket and
what it has read. `sent` and `start` are history.

*Steps.* An action is what no other goroutine can see in half. `broadcast` is `Lock`, `WriteLog`,
`Rotate`, one `SendTo` or `Drop` per subscriber in any order (Go's map order is random), `Unlock`.
`Stop` is a goroutine with its own program counter `stopPc`, and `Exit` may end the process while
it is half-way, because `Run` returns as soon as `b.stop` is closed. A `Crash` or an `Exit` closes every
socket; bytes in a subscriber's socket stay readable. The write deadline is modelled by its
effect: `Drop` is possible when the socket is full, and fairness makes it happen if nobody reads.
The result of `logF.Write` is not looked at, so `WriteLog` may leave the file as it was and goes on to broadcast. Any
error of `Accept` (no descriptor left) ends its loop for good: `AcceptFails`; dials go on to be queued.

*Abstractions.* A line is (publisher, number); log size is counted in lines; a timed-out write's
fragment is never a line for a reader that splits at newlines; a write to the log that fails half-way, which glues
its fragment to the next line of the file, is one that wrote nothing; socket files, modes and flags are
left out.

### RiskScorer

Anomaly, label risk and confidence are integers in hundredths, the composite in ten-thousandths
until `Round`, which is Python's round-half-to-even. The confidence is any integer: `classify()`
returns whatever number the language model wrote. Not modelled: the last-bit error of binary
floating point, which can matter only exactly at a rounding tie or threshold.

### BehaviorEngine

*State.* `win` is `FeatureExtractor._events`, `last` is `last_score` (100 for an absent key, as in the
code's `get`), `trained` the keys of `AnomalyModel._models`, `alerts` the alert log, `inq` what waits in the
socket and in `buf`, `proc` where the coroutine is. `fed` and `done` are history: what was ingested
since the process started, and all verdicts.

*Steps.* The loop body is one action, `Process`, unless it awaits the classifier; then it is
`AskClassifier` up to the `await` and `Classified` after it, and the loop reads nothing in between. `Skip` is the
code's two `continue`s, `Eof` the `break`, `Raise` an exception out of the loop. systemd restarts a process that
failed, not one that exited with status 0, and restarts the engine with the bus if it is running.
`Cast` delivers a broadcast, or drops the engine when its socket is full for the bus's five seconds.

*Abstractions.* The window's eight counters feed only the anomaly model, and no student ever has
one; what a trained model answers is any score. A flow without a port is no breach (`NoPort`). `isolate` is recorded, not carried out.

### GhostApproval

A command is a process with a program counter. `write_text` is an open that truncates and one write:
`EnableOpen`/`EnableWrite`, `ApproveOpen`/`ApproveWrite`. A file that an open has emptied is `Empty`, one mixed from two writers `Torn`: a write over text of another length, or
over a mixture, may leave the tail of it. A
writer whose file was unlinked under it goes on writing to nobody (`orphan`, `lost`). `Kill` may end a
command between any two system calls. `who` is the caller as the command
learns it, from `SUDO_USER` or `USER`; that a person could set these is outside the model. User and profile names are taken to identify the file name
made of them. `owed`, `revoked` and `alone` are history; `alone` says that so far no command ran while
another one did and none was killed, which is how administrators who take turns use the tool.

### EventStream and SseClient

*State.* An event is its position in `feed`, the lines the bus has broadcast, and a line is the student
it names, `Noise` (no JSON, no student) or `Poison` (one that `readline()` or `ev.get()` raises on).
`task`, `sock`, `eof` are the loop over the bus, `ring` and `subs` the module's dictionaries, `st[c]` a
request for a stream: its generator's place, its queue, what is left of its replay and what it has
yielded. `link` holds the streams whose browser is there. In `SseClient`, `eff` is one record for each
effect of the hook (its source, its `cancelled`, its timer) and `items` what the page shows.

*Steps.* Everything runs in one event loop, so a step is what happens between two awaits; the
critical sections of `_lock` contain no await, and nobody waits for it. The queue is registered with
the request (`Register`), the replay is read later (`Begin`), when the response has begun: what `Seam`
is about. `Abandon` is a browser that goes before that: the generator never runs, neither does its
`finally`, and its queue stays registered for ever (no property says otherwise). `Poison` ends the
loop for good: `start_bus_task` is called only at startup. A page that selects another student runs the
cleanup of the last effect; `Fire` is a timer's `connect()`, which does not look at `cancelled`.

*Abstractions.* Delays are left out: a timer that is set fires at some time. A message is shown when it is
yielded. The limits are 1, 1 and 2 where the code has 256, 50 and 1000 or 200.

### AlertLog

*State.* `file` holds the files there have been, `path` the one that has the name, `fd` the one the engine has
open. The line of alert `a` is three chunks, head, rest and newline: only head and rest together are
JSON. `tail[t]` is a stream's file, its position and what it has sent.

*Steps.* `Write` appends one or more of the chunks left, so that a reader (`Open`, `Follow`) or the engine's end (`EngineDies`)
may come between any two. `Sweep` removes the name, not the file. The readers read the whole file at once and change nothing, so they are operators of the state. The PDF
report and `vitosctl report` filter the file in the same way, so they share `AlertsFor`, of which `ReportMd` prints the last rows; the
roster has a loop of its own, in which a later line overwrites an earlier one (`TheirLines`, `Latest`). `ReadsCurrent` relates both to what was
written and the roster to the last row of a report.
`_tail`'s `exists()`, `touch()` and `open()` are one step: if the sweep comes between the first and the last of them, the
stream fails with nothing sent and the page asks again, which changes nothing.

*What the properties concede.* A stream that meets a line half written sends the half in its replay,
or drops it when it follows, and never sends the alert: `torn`. A crash leaves a half that glues itself to the
next alert: `Spoilt`. After a sweep the engine goes on writing to a file without a name until it is restarted.

### AdminSession and Dashboard

*State.* `rows` is the table, `req[r]` a request: its place `pc`, the row its `SELECT` returned, the user it was
admitted for. `link` holds the interfaces that `vitosctl session isolate` sets, named after the first eight
characters of the session id (`VethOf`); `proc`, `inst`, `lock` are the ttyds, `_instances` and `_lock`; `term[r]` is a
request's ttyd and the two directions of its bridge. History: `issued` and `revoked`, the requests whose command `ran`
and those for which `ip` has `acted`, who set an interface last (`by`, nobody if it was set past the console), and which requests were
over when a request came (`prior`).

*Steps.* Handlers run in threads, each SQL statement is atomic, so a lookup is `Select` and `Check` with other requests
between. A session command and its audit entry are two steps (`Isolate`, then `AuditControl`), a report and a terminal
are logged before. `AuditFails` is `audit.write` raising: the command has run and has no entry, or the report or terminal is not
given. `CommandFails` is a `vitosctl` that exits with an error before or after `ip` has done its work. `Elsewhere` is the same
command run past the console, by the engine (`service.py:50-58`) or in a shell. In `ttyd_proxy.py` a step ends at an await: `Spawn` holds the lock until `Register`. `GatherEnds`
needs both directions to have ended, or `Type` to raise. `Crash` takes the requests and, in the unit's
control group, the ttyds; the table and the log stay.

*Abstractions.* An entry is one short line to a file opened to append; one written in part counts as not written. Which lab sessions exist is
open: nothing in the repository writes `/run/vitos/sessions`, so `Freeze` may find its pid file or not.
Group membership is the guard of `Login`: it is looked at only there. Session ids that fail the pattern are refused before anything happens.

## 3. Runs

Every run finishes within three minutes with two workers.

| Run | Question | Instance |
|---|---|---|
| `EventBusOrder` | `SegmentOrder`, `CaughtUp`, the proofs' invariant `OrderInv`, and `ImplementsLog`: `EventBus` implements `BroadcastLog` | 2 publishers × 1 line, 2 subscribers, sockets of 1 line, stop, crash, the end of the subscribers' accept loop, symmetry |
| `EventBusLog` | `PublisherFifo`, `LogSuffix` with an over-long line, failed boots and renames, stop, a crash | 2 × 3 lines, no subscriber, rotation after every line, 2 boots |
| `EventBusLive` | broadcasts end, lines are broadcast | 2 × 1 line, 1 subscriber, a log that cannot be written or reopened, the end of the publishers' accept loop, `FairSpec` |
| `RiskScorer` | `HardRule`, `BandsAgree`, `Monotone` | 15 anomalies, 13 confidences around every threshold |
| `EngineAlerts` | `AlertPerFinding`, `InBusOrder`, `LearningMode`, `WindowComplete`, `EventuallyJudged` | any 3 events of 2 students, late, bad and raising lines among them, window 1, socket of 2, 1 crash, `FairSpec` |
| `GhostDual` | `DualControl` for overlapping, killed commands; `FreshWhenAlone`, `RequestKept` for those that are neither | 5 commands, 3 people, 2 grants, symmetry |
| `EventStreams` | `Gapless`, `Seam`: what a stream sends; `ItemsOfUrl`: what the page shows; `BusLoopReturns`, `Reopens`, `EventuallyShown` | 2 students, 2 selections, 2 streams, 2 lines, queue and replay of 1, 1 fault, `FairSpec` |
| `AlertLog` | `TailExact`, `ReadsCurrent`; `Delivered` | 3 alerts of 2 students, 1 stream that reads back 4 chunks and replays 2 lines, 2 crashes, 1 sweep, `FairSpec` |
| `Dashboard` | `Authorised`, `Audited`, `LinkExplained`, `NoOrphan`, `WritableAsked`; `TerminalEnds` | 2 requests of any of the 7 kinds, 1 key, 2 lab sessions with one interface, 2 ttyds, 1 fault (crash, dead ttyd, failed command or entry, a command past the console), `FairSpec` |

*Why the bounds are enough.* Two publishers are needed for a broadcast to wait for another, two
subscribers for the loop over `b.subs` to be half-way, two lines in all for order; a socket of one
line is full as soon as its reader is slow. What `EventBusOrder` checks is proved for all values, so
the run there is a check of the definitions. For the log, the third line after a rotation after
each is the first case where `.1` is overwritten, and a second boot the first that finds a log. The
engine needs two sessions to mix, a third event to find the socket of two full while the first is
being classified, and a window shorter than the spread of timestamps. Two approvals of one request
around a revocation take four commands; the fifth is there to interfere.

For a stream the first event can be in the ring, the queue or both, and the second finds the queue full; two selections are a
cleanup with a timer set, two streams a fan-out that could stop at the first. Three alerts are one that is cut, one glued to it and one
behind; four chunks are a replay that begins in the middle of a line. Two requests are the least that overlap: a release
between an isolation and its entry (which puts the two entries in the other order), a second attach while ttyd starts, a DELETE under a bridge, a logout under a lookup. Those
that need more (a third request that reuses what two others did) are what the theorems about `Dashboard` are for.

`CHECK_DEADLOCK FALSE` everywhere: clients may hang up, the daemon may have exited, events and
commands run out; a system at rest is no error. That nobody waits for ever is what the liveness
properties and `CaughtUp` are for.

### Disagreements between the code and what is written about it

Each is a run that must be violated, with the quotation in `PROJECT.json`.

| Run | What happens |
|---|---|
| `EngineReturns` | the engine exits with status 0 when the bus goes and does not come back with it |
| `GhostRevoked` | two approvals around a `disable`: the revoked request is active again |
| `ReadOnlyTerminal` | a terminal asked for read-only is the writable one that is already there |

Others were met while modelling and are visible in the definitions, without a run of their own:

* *Engine.* The service passes `is_baseline=False` and never commits a session, so no anomaly model is ever trained
  (`anomaly.py:9-11`, `src/README.md:60-61` say it is); `LearningMode` is what follows. Without an anomaly score the
  composite is at most 30 · 0.95 + 10, so the acceptance trace of the SP1 design (its line 331) cannot raise a Warning.
  The window drops events only from the left, so one older than 60 s stays behind a newer head (`features.py:11`
  "Rolling"); `WindowComplete` states the half that holds. `Score` makes a Warning of a composite up to
  100 that misses one of the three signals of Critical, where the design's bands end at 79.
* *Bus.* A dial returns before the connection is registered, so a line published at once may miss it, which
  `busd/bus_test.go:27-60` does not expect. A line whose write to the log fails is broadcast and not in the log: `LogSuffix` needs its
  premise that no write and no reopen fails. A connection accepted just before `Stop` and registered after its sweep
  is closed only by the end of the process.
* *Ghost.* `RequestKept` needs its premise `alone`: two overlapping `enable`s with names of different lengths can leave a
  `Torn` file after both reported `pending`.
* *Dashboard.* `POST /api/scopes/active` and `DELETE /api/term/...` write no audit entry, and a session command that fails writes none
  (SP5 design, line 105: "All `POST` actions are logged"). `freeze` of a session without a pid file is logged "ok". `release`
  only raises the interface: nothing sends SIGCONT (line 96: "reverts isolate/freeze"). `isolate` ignores the exit status of
  `ip`, so an entry "ok" may stand for nothing; `LinkExplained` speaks of the others.
* *Conflicting admins.* The SP5 design (line 198) answers them with "Last-write-wins; the audit log captures who did what when". The command
  and its entry are two steps, so the entries of requests that overlap can be in the other order: the isolation runs, the release runs and is
  logged, then the isolation is logged. The last entry says isolated and the interface is up; the entries' times are whole
  seconds and there is no sequence number, so the log cannot tell. The interface is also set without any entry: by the engine
  (`service.py:50-58`, `137`; as shipped it never gets there, see `LearningMode`), by `vitosctl session isolate` in a shell, by a command
  that fails after `ip` has worked, and by one whose entry a crash or a failing `audit.write` takes, after which the
  administrator sees an error. `LinkExplained` says that there is nothing else: an
  interface that is not as its last entry says was set by somebody without an entry, or by a logged request that
  overlapped the one of that entry; and requests that did not overlap are logged in their order.
* *Interface names* are cut to eight characters of the session id, so two sessions may share one (`vitos-run` makes the id of the
  time in seconds): isolating one isolates the other. The properties speak of interfaces and take no side.
* *Streams.* The "Reconnect-forever loop" (`events.py:34`) ends at a line over 64 KiB or one that is JSON but no object. A
  reconnected page appends the replay to what it shows. A timer that was set before its effect ended brings another
  student's events to the page: the exception in `ItemsOfUrl`.

## 4. Fairness

*EventBus.* Weak fairness on what a goroutine can do on its own: the Go scheduler runs every runnable
goroutine, and a blocked write ends by its deadline (`Drop`). Strong fairness on the steps that wait
for `b.mu` (`Lock`, `RegisterPub`, `RegisterSub`, `Unregister`): `sync.Mutex` hands the lock to a waiter that has starved
for a millisecond. Clients get none: they need not write, read or leave. `LineIsBroadcast` excuses
a daemon that stops or fails, and a connection that waits for an accept loop an error has ended.

*BehaviorEngine.* Weak fairness on the coroutine (`classify` returns within its four-second timeout)
and on systemd's restarts. The bus need not broadcast.

*EventStream and SseClient.* Weak fairness on the loop over the bus, on each generator, and on a page's noticing that its
stream has gone and reconnecting: the event loop and the browser run what can run. The bus need not come back
or send, nobody has to select or leave, and no fault has to happen.

*AlertLog.* Weak fairness on a stream's polling. The engine may stop in the middle of a line for ever.

*Dashboard.* Weak fairness on the coroutines of a terminal, which wait only for the lock and for ttyd, and on noticing that ttyd has ended. Nobody has to
type, leave or print, which is why a bridge with one live end may stay.

## 5. Proofs

`tlapm` checks every proof to its leaves; the assumptions are the named `ASSUME`s of each module,
which TLC evaluates in every run.

* **`EventBusProofs`**: `TypeCorrect`, `OrderInvariant`, `SegmentOrderCorrect`, `CaughtUpCorrect`, `Implementation`. `TypeOK` is
  proved in three parts (daemon, publishers, subscribers), since most steps leave two of them alone. `SegmentOrder` is not
  inductive: a step of the fan-out extends a stream by `CurrentLine`, and nothing in `SegmentOrder` says that this
  is `sent`'s last line, that the subscriber is exactly one line behind, or that no second handler is in
  the loop. `OrderInv` adds just that: `Mutex` (who holds `b.mu` is who is in `broadcast`), `Casting` (the
  line in hand is the last one sent), `Pending` and `Progress` (who is in `todo` is one line behind,
  every other subscriber is level), `Fresh` and `Queues` (nothing reaches a connection before its
  registration). `CaughtUp` is `Progress` with an empty `todo`. For `Implementation` every action is shown to
  map to a step of `BroadcastLog` or to a stutter under `phase`, with `OrderInv` supplying that the line
  delivered is the next one.
  `PublisherFifoCorrect` and `LogSuffixCorrect` are about the two histories. For the first, the lines of a living connection that were
  broadcast are exactly those before its handler's current one (`UpToDate`). For the second, the log is
  open for every broadcast (`LogOpen`) and who is about to rotate holds a file of more than `MaxLog` lines (`Full`), so that
  what the rename drops is neither needed nor newer than what stays; `Full` needs `Mutex`.
* **`RiskScorerLemmas`**, **`RiskScorerProofs`**: `HardRuleCorrect`, `BandsAgreeCorrect`, `MonotoneCorrect`, for all integer inputs. The lemmas bound
  and order `Clamp` and `Round`; monotonicity of `Round` at a tie is the step a sampled test would miss.
* **`BehaviorEngineProofs`**: `TypeCorrect`, `InBusOrderCorrect`, `LearningModeCorrect`, `WindowCompleteCorrect`, `AlertPerFindingCorrect`. That scores are in 0..100
  comes from the scorer's lemmas. `InBusOrder` needs to know where an event can be: the numbers in the
  socket increase and are above the one being classified, which is above all verdicts. `LearningMode` needs that
  `trained` stays empty, so the anomaly is 0 and Critical out of reach. `WindowComplete` speaks of the
  newest records of a session; its invariant adds that all of them are broadcasts, and
  `CompleteNext` that appending one event to both sides and cutting what is stale for it keeps the window complete. `AlertPerFinding`
  holds because the engine is silent only below 20, which is Normal; that the alerts are in the order of the events is `InBusOrder`.
* **`DashboardProofs`**: `TypeCorrect`, `AuthorisedCorrect`, `NoOrphanCorrect`, `WritableAskedCorrect`. `Authorised`
  holds because a row, once issued, is never changed but only deleted, so what a lookup has read is what was issued, and
  because a key that was logged out when the request came is not in the table any more. `NoOrphan` rests on
  the lock: whoever is between `Spawn` and `Register` holds it, so no other request can overwrite `inst` or start
  another ttyd, and what `Register` overwrites has ended. `WritableAsked` follows a request from its entry in the log to the ttyd it starts.
  `AuditedCorrect` and `LinkExplainedCorrect` are about the audit log. For `Audited`, a request is in the log at most once, and has run
  exactly if its entry is written or is its next step (`LogInv`). `LinkExplained` compares the interface with the last of its
  entries, but what a step changes is an entry or an interface, never both. Its invariant `LinkInv` therefore says of each interface
  that it is as the request that set it last wants it (`AsLastSet`), and that this request was not over when any other one
  that has set it came (`SetInOrder`); that requests which were over when one came
  stay over and are logged before it (`PriorOver`, `InTheirOrder`) turns this into an overlap.
* **`GhostApprovalProofs`**: `TypeCorrect`, `DualControlCorrect`, `FreshWhenAloneCorrect`, `RequestKeptCorrect`. The invariant follows a request from the admin who filed it
  (`Genuine`) through the memory of the approve that read it (`ReadBacked`) to the token, so that nothing
  depends on what other commands do to the files in between. The other two speak of commands that take turns (`alone`):
  `InTurn` says that the one that runs finds the files as it left them and that whatever is on file was put there by
  commands that have ended.

* **`SseClientProofs`**: `TypeCorrect`, `GaplessCorrect`, `SeamCorrect`, `PageCorrect`. `Gapless` says what a stream has been
  sent, not how: a step of the bus loop takes an event from the socket, puts it into a ring and offers it to every queue. The
  invariant `SInv` therefore keeps, besides the order of `seen` and of what is in the socket (`OrderInv`), that a ring is the end
  of its student's part of `seen` (`RingInv`), and for each registered stream (`StreamsInv`) that what follows the replay is
  increasing, its own, and everything its own since the registration but what was dropped (`Joined`). `Seam` needs in addition that
  the replay leaves out nothing between its first event and the registration (`Replayed`), which is what `RingInv` gives it. `PageCorrect` rests on
  `EffectInv`: a source belongs to one effect and streams that effect's student, and an effect that was cancelled
  without its timer has no source; `ItemsInv` then looks at what is shown.
* **`AlertLogProofs`**: `AlertTypes`, `TailCorrect`, `ReadersCorrect`. Neither property says where in a file the chunks of a line are. `FilesInv`
  does: a part is behind the one before it, and a head is behind the chunks of earlier alerts only. `PendInv` says how much of the
  last line is still to be written and that the rest of it is the end of the engine's file; `EndInv` that the file that is written next
  ends with a newline unless a crash spoilt its end, which is what makes the next alert `Spoilt` and no other; `KeptInv` that
  an alert that is not has a line of its own as far as it is written. A stream's invariant (`Passed`) speaks of heads it has passed; that
  it survives the growth of the file needs that a line whose head was passed was JSON then (`LineShrinks`).

*Lemmas on data.* What an enumeration of a set or a slice of lines contains is proved with the library's facts on finite
sets and on the well-foundedness of `<` (`InOrderLists`, `SmallestExists`, `LastLinesUp` in `AlertLogProofs`), with a rank
function in place of an induction.

*Only model-checked:* liveness (`BroadcastEnds`, `LineIsBroadcast`, `EventuallyJudged`, `BusLoopReturns`, `Reopens`,
`EventuallyShown`, `Delivered`, `TerminalEnds`), which needs `ENABLED`; and the three violations. Every safety property that a
passing run checks is a theorem. What a recursive definition computes for every input is out of reach, since the library's induction
theorems take an operator as a parameter; the modules that are proved about contain no `RECURSIVE` operator and state order and
content of a sequence by its indices.

## 6. Not modelled

* *Collectors* beyond their part as publishers. `fanotify-tap.py` and `udev-tap.py` open a connection per event and give up on it
  when the bus is away; their events carry no `student_id`, so the engine and the dashboard skip them. `loader.go`
  redials only after a failed write on a connection it has. What they read are kernel interfaces.
* *`vitosctl scope`*: it overwrites `active.yaml` in place and restarts the engine, whose scope is a constant of `BehaviorEngine`; an
  engine that starts in between would read a torn scope.
* *Ghost Mode launch and watchdog, first boot, SSO join, `vitos-run`*: sequential shell scripts whose steps are other programs'
  effects on the kernel and the account files. Two hazards of theirs are listed without a property.
* *The isolation forest, the language model, the window's counters*: data that no property tells apart in the system as shipped.
* *The sweeps of the event log and of the audit log*, which differ from that of the alert log only in their terms.

Left out for good: image and kernel builds, installer, boot loader, branding, website and CI (no
state in the running system), the isolation forest's arithmetic, the language model, report
rendering and table layout.
