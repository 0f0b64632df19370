# A formal model of agentswap

agentswap is a local daemon that stands between coding agents (Claude Code, Codex) and their
upstreams. It holds a pool of accounts - subscriptions signed in over OAuth and API keys - and
sends every request with whichever account can still serve it: it refreshes tokens, backs off from
overloads, moves on when a quota is spent, parks a request until a quota comes back, and hands a
session over to a supervisor when the wait is too long. A command line edits the pool behind the
daemon's back, and a second half of the program moves whole sessions from one agent to another.

This directory holds TLA+ modules for that program, TLC configurations that check them on small
instances, and TLAPS proofs of what they say for every instance. Paths below are relative to `src/`.

    tlc -config EngineOne.cfg MCEngine.tla    # any run: the configuration and its module
    tlapm EngineProofs.tla                    # any proof module

`PROJECT.json` is the index: components, runs, the definitions with the lines they translate,
hazards, theorems, and for every property a mutation of the model it catches.

## 1. Inventory

| component | state | operations | hard part | what makes it correct |
|---|---|---|---|---|
| **Engine** `internal/engine/engine.go`, `select.go`, `sticky.go` | per request: skipped accounts, streak, renewals, deadline; shared: health of each account, last observed windows, sticky map | `Execute`, `selectAccount`, `park`, `backoff`, the four marks | many requests on shared health; deadlines computed from an old `now`; loops that must neither spin nor stop | no attempt begins against a verdict, and only a late answer undoes one; a subscription is condemned only after its renewals; no hot loop; an error says no more than what happened; an overload is waited out |
| **Refresh coalescing** `internal/engine/refresh.go` | calls in flight by account | `refreshGroup.do`, `refresh` | rotating tokens, each good for one exchange; cancellation; followers with no timeout | one exchange at a time; never a retired token; followers are released |
| **Account store** `internal/store` | accounts and health in memory, two files, `writeMu` and `mu` | `Open`, `UpdateAccount`, `Upsert`, `Remove`, `Reload`, `MutateHealth`, `FlushHealth`, `ResetHealth` | two processes write the same files; memory and file change at different moments | the newest token is never lost; an operator's edit survives; a conclusion reaches the disk; an old verdict never hits a new credential |
| **Daemon life cycle** `cmd/agentswap/serve.go` | flusher, signal, deferred calls | `cmdServe`, `RunHealthFlusher` | order of shutdown | ends, and leaves its health behind |
| **Account commands** `cmd/agentswap/{accounts,login,set,token,notify}.go` | a copy of both files | open, edit, write, forgive, notify | minutes between the read and the write; a daemon that may or may not be there | as for the store |
| **Lane classification** `internal/lane` | none | `Classify`, `ClassifyInBand`, `Observe`, `RetryAfterHeader` | headers that contradict each other, resets already past | every answer gets the outcome its windows justify |
| **Head probe** `internal/engine/http.go` | pipe, buffer, goroutine, timer | `probeHead`, `do` | a goroutine, a timer and a reader race over one body | no byte lost or doubled; the goroutine ends |
| **Proxy and waiter** `internal/proxy` | committed or not, ping timer | `relay`, `pump`, `fail`, `writeTicket`, `handleReload` | keepalives commit a 200 before the outcome is known | exactly one status; errors in the form the client can still read |
| **Supervisor** `internal/supervisor` | one ticket file per lane, resumes left | `Run`, `WriteTicket`, `PendingSince`, `ConsumeTicket` | proxy and several supervisors share a file; interrupted writes | a refused session is resumed after the reset and no other is |
| **Session teleport** `internal/session/{manager,types,archive}.go` | files being staged, published, undone; `kimi.json` | `Teleport`, the writers' steps, rollback | crashes and failures between files; two transfers at once | nothing half written is discovered; a failure leaves nothing |
| **Session adapters** `internal/session/{claude,codex,opencode,kimi}.go` | a native log per harness | read, `Validate`, write | five forms, none of which can say all the others say | what was said and done is told in order; every call keeps its answer; what was moved can be moved on |
| **Delegated runs** `internal/session/*branches.go` | who spawned whom, as each harness records it | `linkBranches`, the tree readers, sidecars | the spawning call is found by tokens in results | a run is attached where it was spawned; the tree survives every move |
| **Compaction** `internal/session/{compact,digest}.go` | the ladder's rung, the archive so far | `Compact`, `applyReduction`, `collapseOldTurns` | what leaves the session may be somebody's answer | nothing is lost; the session stays valid |
| **Harness definitions** `internal/session/definition*.go` | skills, agents and settings in five layouts | copy | formats | a copy means what its original meant |
| **Install** `internal/install`, `cmd/agentswap/setup.go` | agents' settings files | install, uninstall | editing files others own | uninstall restores; install twice is install once |
| **Importer** `internal/importer` | other tools' credential stores | import | duplicates, expired credentials | nothing imported twice |
| **Service, daemon file, configuration, status** | unit file, `daemon.json`, `config.json` | write, read, clear | a second daemon | `daemon.json` names the live daemon |

They interact as follows. The proxy hands a request to `Engine.Execute`; the engine reads accounts
from the store, writes health to it, and refreshes tokens through `refreshGroup`, which writes them
back with `Store.UpdateAccount`. The flusher copies health to `state.json` every few seconds and at
shutdown. A CLI command opens its own copy of both files, writes all of `accounts.json` back, and
posts `/_agentswap/reload`, on which the daemon re-reads the file and forgives accounts whose
credential changed. When a wait exceeds `park.max_hold` the engine returns `ErrParkTooLong`, the
proxy writes a ticket, and `agentswap run` resumes the session after the reset.

The session half runs in a process of its own and meets the daemon nowhere. `Manager.Teleport` reads
a session and its runs with the source's adapter, validates both, lets `Compact` reduce them and
stage an archive when they are too long for the target, and hands them to the target's writer, which
stages and publishes the files; what fails is undone.

## 2. Plan

Order: what decides whether a user's accounts keep working comes first.

1. **Engine** - the request loop (done), with `EngineProofs`.
2. **Credential**, implementing **Lineage** - a rotating token between upstream, memory, file and
   CLI (done), with `CredentialProofs`.
3. **HealthFile** - a verdict on its way through memory, flusher, shutdown, file and CLI (done),
   with `HealthFileProofs`.
4. **Handoff** - tickets between proxy and supervisors (done), with `HandoffProofs`.
5. **Response**, implementing **Exchange** - waiter, head probe and pump (done), with
   `ResponseProofs`.
6. **Classify** and **Verdict** - answers to outcomes (done), with `ResponseProofs`.
7. **Transcript**, the four logs and **Transfer** - sessions through any route of moves (done).
8. **Delegation** - delegated runs (done), with `DelegationProofs`. **Compaction** - the ladder and the
   archive (done), with `CompactionProofs`. **Publish** - the files of a transfer (done), with `PublishProofs`.
9. **Install**, **DaemonFile**, **Import** - files that others own. Not begun.

Compositions: Credential and HealthFile put daemon and CLI together. Response extends Classify: what
an attempt is taken for is what the lane makes of its answer. Transfer composes the four logs; each
of them extends Transcript, which Compaction shares. Engine takes the outcome of an attempt as an
input, so what it shows holds whatever Classify does.

Not proved, and open: the routes of Transfer; liveness, which is TLC's.

## 3. The modules

### Engine

One lane's accounts and any number of requests. `pc[r]` is where `Execute` stands: `select` is the
top of the loop, `refresh` `send` `renew` are the three blocking exchanges (`ensureFresh`, the
attempt, the `RefreshAuth` branch), `wait` and `parked` the two sleeps. Each branch of the `switch` on
`outcome.Action` is an action: `Relay`, `Fatal`, `Condemned`/`Renews` (`RefreshAuth` past and within the
budget), `BacksOff`/`GivesUpOn` (`RetrySame` on an overload or transport failure), `Throttled`, `Exhausted`.
`park` and `unusable` are `Park`, `CannotPark`, `Unusable`. `Reload` and `ResetHealth` are the operator, in
the two steps `handleReload` takes.

Time is relative: a stored deadline is the ticks left until it, `Tick` takes one off everywhere, and
`lag[r]` is the age of the `now` that `Execute` read at the top of its loop and computes deadlines from.
What an upstream answers is an input. Attempt counts, logging and request building are left out.

`Execute` reads the accounts under one lock and concludes under another, and what happens in between is
what the properties are about. Two histories tell it: `moved[r]` are the accounts `r` has looked at
(the one it sends with, or all of them between `park` and `unusable`) and that somebody else has changed
since; `hopes[r]` the accounts that were overloaded or unreachable for it and that nobody has judged,
reloaded or removed since. They guard nothing.

### Credential and Lineage

One subscription. A token is a sign-in (`line`) and how often it was rotated (`gen`); the upstream
honours exactly one generation and retires it when it grants the next. `refreshGroup.do` is `Join`,
`Delete`, `Done`; `Engine.refresh` is `Get`, then the exchange in the two halves that can be torn apart
(`Grant` at the upstream, `Reply` at the daemon), then `UpdateMemory` and `UpdateFile` under `writeMu`.
`ReloadRead` and `ReloadAdopt` are the two halves of `Store.Reload`. `CliOpens`, `CliWrites`, `CliNotifies`
are a command with its own copy of the pool. `Events` chooses what else may happen: transport
failures, clients that leave, failing writes, reloads, revocation, restarts, and shutdowns that cut
an exchange off. `mishaps` is the history of what has gone wrong: an exchange that failed unrefused,
and a token that was lost on its way from the upstream's grant to the file, or overwritten there. `Lineage` is the abstract specification: a token is exchanged at most once, only while
it is the newest, and what comes back is what the daemon holds next.

### HealthFile

One account's health as the serial number of the write that made it; `about` says what each write
concluded. `Ask` is a request that takes a clone of the account, `Mark` its answer: any of the engine's
marks (`MutateHealth`), about the credential of the clone (`asked`) and entered under the account's id, whatever
credential the pool holds by then; `late` remembers the verdicts that came in so. `Tick`/`WriteEnds` are
the flusher's snapshot and its write, `Stop`, `LastFlush`, `DeferredFlush` the end of `cmdServe` in its
order: Serve returns, the flusher is told and awaited, the deferred flush runs, the process ends. Marks go on after `Serve`
returned, since `http.Server.Serve` does not wait for handlers. Commands (`login`, `add`, `remove`, `other`)
write `accounts.json`, then `state.json` if they forgive, then notify. `Events` are a failing disk, a kill,
and a command that overlaps a shutdown.

### Handoff

Supervised sessions (`Runs`), clients nobody supervises (`Bare`), and one ticket file per lane. `Refuses`
is the proxy's `ErrParkTooLong` branch up to the truncated file, `Answers` the rest of `os.WriteFile` and
the 503; between the two the ticket is torn. `ChildExits`, `AtLimit`, `LooksAtAnthropic`, `LooksAtOpenAI`,
`Resumes` are one turn of the loop in `supervisor.Run`: `PendingSince` reads the two lanes one after the
other, `Counts` is its three tests, `Consumes` removes whatever ticket is there by then. A ticket carries
the ticks to its reset and its age, a session the ticks since its child was started. `told` and `due` are
what a child has been told, which the supervisor cannot see: the properties compare what it does
with them. A child is taken to have the answer to its last request before it exits, and one that is
started again by hand to be started after the grace; a command that cannot be resumed is one with
no resumes left.

### Classify and Verdict

`Classify` is the rules of both lanes over what they read of an answer: its status, whether it failed
inside a 200, the error's type and code, and the figures that say when a limit lifts. A wire is a
record of those; a figure is Absent, in the past (-1), now (0), short or long, relative to the cutoff
between a burst and a spent quota. `LaneClassify` is `Lane.Classify` (`classifyStatus`, `classify429`,
`ClassifyInBand`); its result is an action and the wait or the reset it names. How a header or body is
parsed is left out, and what a rounded, dated or missing figure becomes is kept. `Verdict` says what
is expected of the rules, whichever answer comes next.

### Response and Exchange

One request from `guardHost` to the last byte. `pc` is the handler: `Accept`, the attempts (`Send`), the
probe (`Sampled` when the sample is full or the body over, `ProbeTimeout`), the engine's waits under the
keepalive waiter (`WaitStart`, `Ping`, `WaitEnd`, `GiveUp`), then `Relay` and the pump. Each attempt has the
goroutine of `probeHead`, which is the only reader of its body: it buffers a head, hands it through
an `io.Pipe` that the handler may have closed, passes the rest on or drains it. A body is a sequence
of pieces, each what one `Read` returns; the buffered body of an error status goes out piece by piece
too, from memory. The handler reads it itself (`ReadErrorBody`), up to a limit and for as long as the
upstream stalls. A wait sets a write deadline a minute beyond its end, which only the pump's first write
lifts; `DeadlinePasses` is an answer that takes longer than that minute, and a flush or write after it severs
the client (`Sever`). A first small write may still be buffered when the deadline is lifted, so the pump's
first write may fail or not. Upstreams stall, end, break off or refuse in the first event;
clients hang up. Which attempt follows which is Engine's subject and a free choice here. `Exchange` is
what the client is promised: one status line, then pieces of one answer in order, then the end.

### Transcript, the logs, and Transfer

`Transcript` is the canonical history (`Event`, `Part`) with `Validate`. `ClaudeLog`, `CodexLog`,
`OpenCodeLog` and `KimiLog` (both generations) each have the records of one native form, its reader and
its writer: how parts become records of their own, where text is gathered and flushed, how an answer
is told from a failure, what becomes of a part the form has no place for, of a prompt typed ahead,
and of a plan. `Transfer` records a log of any of the five, then moves it: read, validate,
write, again and again. Times, titles, models and JSON are left out.

### Delegation

`Delegate`, `Resume` and `Quote` are what a harness records when a run is spawned, called again, or named
in the result of some other call; `Tree` is what the reader of that harness makes of it: Claude's
labels and tokens, Codex's parents, OpenCode's search through the calls, the old Kimi's results.
OpenCode's `load` calls itself in the loop over a stream's children: `Load` takes the loops that are open as
one sequence, the innermost first, and a `Turn` handles the next child. Every run opens one loop, so `Turns` of
them are enough (`SearchEnds`). `Ordered` states what `orderedBranches` finds out: no unknown parent, no
cycle.
`Move` writes the tree with the target's sidecars, `Refuse` is a tree that is not one.

### Compaction

`TryRung` applies the next rung of the ladder to the untouched source, as `Compact` does: every part by
`Reduced`, the collapse of old turns at `Boundary`, the digest in front. Lengths are in bytes as in
the code. The archive is a sequence of named files, so that two payloads under one name are seen; a
name is the event, what it is, what distinguishes it and the counter, so that call ids which
`sanitizeName` joins, or which end in another's counter, are told apart here and not in the code.
Three exceptions are part of the properties, each a named condition on the source: `Crowded`, three
payloads of one event for one file name, whose third takes the file of the second; `SelfAnswered`, an
assistant's own picture that answers a call and becomes a text; and `PicturesApart`, pictures of two
events for one call, which `Validate` then refuses.

### Publish

A transfer is a sequence of file steps that depends on its target (`ClaudeSteps`, `CodexSteps`,
`KimiSteps`, `LegacySteps`, `OpenCodeSteps`), behind those of the archive. `Make`, `Look`, `Draft`, `List` and
`Name` take the next one, `Fail` is an error at it with the writer's and the manager's undoing, `Crash` the
death of the process. Two transfers share `kimi.json` and its fixed temporary name. `Discovered` is what
discovery lists of a transfer's files: the main thread, and of the old Kimi any directory with a wire log,
the staged tree included.

## 4. Runs

The runs listed in `PROJECT.json`; all of them pass.

| run | what is in it | what it shows | states |
|---|---|---|---|
| EngineOne | one request, two subscriptions, parking on, every kind of answer, resets already past | an overload is waited out; the budget of renewals is per account; `ErrCredentialsRejected` means all were refused; no hot loop | 213,190 |
| EngineLive | two requests, one API key that the operator may replace or reload | no attempt begins against a verdict, only one under way may take it back; once the upstream serves, every request is answered | 49,127 |
| CredentialDaemon | three requests, reloads, restarts between refreshes, revocation | one exchange at a time; nothing retired presented, nothing lost; implements Lineage | 12,736 |
| CredentialLive | exchanges that fail, are cancelled, not saved or cut off; a sign-in, a disable or another command | only losses lose the account; only refusals and failures condemn it; followers are released | 143,086 |
| HealthCommands | sign-ins, removals, other commands, daemon up or down, answers to requests sent before | condemned only over the credential it has, or by a late answer; a stop saves; conclusions reach the disk | 338,787 |
| HealthStops | failing disk, kills, every command, overlapping the shutdown | the shutdown ends | 793,180 |
| HandoffAlone | one session, run again and again | resumed if and only if refused, after its reset, as often as allowed | 703 |
| Response | one request, two attempts, stalls, breaks, late failures, hang-ups, late first bytes after a wait; beside it every wire for the lanes | implements Exchange; no byte lost or doubled; probe, goroutines and handler end; figures win over guesses; a longer wait is not answered sooner; in band is as by status | 81,196 |
| Transfer | logs of up to four records in five forms, moved twice | the story is kept; every call keeps its answer and outcome; what was moved moves on; queued prompts appear once | 101,598 |
| Delegation | three runs, three calls, a quoting result, two moves, five forms | attached where spawned; a recorded tree is found whole and can be moved; moves keep it | 50,186 |
| Compaction | sessions of up to four turns, all rungs | nothing is lost, markers resolve; the session stays valid and answered | 48,180 |
| Publish | two transfers into any form, failing and dying anywhere | what is discovered is whole; all or nothing; the archive is there before its session and as long as it, each with its exceptions named | 51,268 |

### Further configurations

`EngineTwo` (two requests that share a subscription and a key: CondemnedAfterRenewals, VerdictsStand,
RejectedMeansAllRefused, OverloadNeverSurfaces, 307,541 states), CredentialLive with every event
(`Events = {"reload", "restart", "shutdown", "transport", "cancel", "disk", "revoke"}`, `Spec`,
`SYMMETRY AnyCaller`: OnlyLossesLose, CondemnedOnlyForCause, 1,990,144), `HealthDaemon` (stops, kills
and restarts: TypeOK, SavedWhenClean, StopSaves, EventuallySaved, 4,897) and `HandoffShared` (two
sessions and a bare client on one lane, failing disk: NeverResumedEarly as long as resets do not move
earlier, an instance of the theorem NeverEarlyTogether, 302,739) pass as well. The type invariants of
Credential, Handoff, HealthFile, Response and Delegation, NoWastedExchange and SavedWhenClean hold in the
runs above and may be added to them; all of them are theorems.

### Known counterexamples

What the code does where a comment, a document or a fair expectation says otherwise. Each row is a
property that TLC finds violated; a name with .cfg is a configuration to run as it is, the others are
a configuration of the list with the constants given and the property put in place of its own. They
document what the passing runs leave out, and they are what to run after a change to the code they
point at.

| name | instance | property | what happens, and where |
|---|---|---|---|
| late answer | EngineTwo; EngineLive | NoLateAnswerOverturns | a late success revives an account that another request's 401 has condemned (`engine.go:522`; "invalid never recovers on its own", `health.go:70`) |
| EngineStaleVerdict.cfg | | VerdictsAreCurrent | a refusal of a replaced credential condemns the new one (`engine.go:562`) |
| EngineSharedStreak.cfg | | OverloadsAbsorbedFirst | overloads of one account count against the next (`engine.go:173`; `config.go:65-67`) |
| throttle of zero | EngineOne: `OAuth = {a1}`, `Answers = {"relay", "throttle"}`, `RetryAfters = {0, 1}` | NoHotLoop | a throttle whose retry-after reads as zero is retried at once for ever (`engine.go:344`; the exhausted path has a floor, `engine.go:539-543`) |
| outage | EngineOne: `OAuth = {a1}`, `RotateAfter = 1`, `Answers = {"relay", "transport"}` | NoHotLoop | `rotate_after = 1` and an unreachable upstream: rounds with no backoff (`engine.go:225`; `docs/configuration.md:143`) |
| parking off | EngineOne: `ParkEnabled = FALSE`, `Answers = {"relay", "overload"}`, `Spec` | OverloadNeverSurfaces | overloads end in `ErrNoAccounts` (`engine.go:400`; `docs/configuration.md:144-145`) |
| parking off, one refused | the same with `Answers = {"relay", "auth", "exhausted"}` | RejectedMeansAllRefused | one refused account is reported as all (`engine.go:383`; `engine.go:51-52`) |
| CredentialStaleAnswer.cfg | | AnswerIsNewer | a caller that joins the tail of a refresh is handed the token it came to replace (`refresh.go:38`) |
| CredentialCliRewrite.cfg | | NeverPresentsRetired | a command open across a refresh takes the file, and then the daemon, back to a retired token (`login.go:53`) |
| others' cancel | CredentialStaleAnswer: `MaxGen = 2`, `Events = {"cancel"}` | CondemnedOnlyIfRefused | the leader's client goes away and its followers condemn the account (`refresh.go:75`; `health.go:12`) |
| unreachable | the same with `Events = {"transport"}` | CondemnedOnlyIfRefused | an endpoint that cannot be reached condemns the account (`engine.go:210`; `health.go:12`) |
| cancelled grant, shutdown | the same with `Events = {"cancel"}`, `{"shutdown"}` | LineageKept | a rotated token is lost with the client, or with the process (`refresh.go:75`, `serve.go:121`) |
| failing disk | CredentialStaleAnswer: `Events = {"disk", "restart"}` | NeverPresentsRetired | a token that could not be written, then a restart (`refresh.go:86`) |
| disable, sign-in | CredentialCliRewrite: no deadlock check, `CliOps = {"disable"}`, `{"login"}` | DisableSurvives, LoginSurvives | a refresh overwrites a disable, or a new sign-in, the daemon has not yet reloaded (`store.go:291`) |
| HealthLateAnswer | HealthCommands | NoLateAnswerCondemns | a 401 of a credential that was replaced during the exchange condemns the account for the new one (`engine.go:562`) |
| HealthDisk | HealthDaemon: `Events = {"disk"}` | StopSaves | a conclusion whose write failed is never written again (`store.go:387`) |
| HealthLate | HealthDaemon: `Events = {}` | FinalIsSaved | a request marks the account after the last flush (`serve.go:121`) |
| HealthAddKey | HealthCommands: `MaxCli = 1`, `Commands = {"add"}` | CondemnedForCause | a new credential inherits an old verdict (`accounts.go:312`) |
| HealthOverlap | HealthCommands: `MaxCli = 1`, `Commands = {"login"}`, `Events = {"overlap"}` | CondemnedForCause | the last flush overwrites what a command forgave during the shutdown (`serve.go:98`) |
| HandoffOthers.cfg | | ResumeMeansRefused | a session that ended on its own is resumed over another client's refusal (`ticket.go:91`; `ticket.go:81-82`) |
| HandoffOtherLane | HandoffOthers: `Runs = {s1, s2}`, `Bare = {}`, `LaneOf <- TwoLanes` | NeverResumedEarly | a session waits for the other lane's reset, the sooner one (`ticket.go:97`) |
| HandoffTwoRuns | HandoffOthers: `Runs = {s1, s2}`, `Bare = {}` | GivesUpOnOwnExit | a refused session finds its ticket torn or consumed, and gives up (`run.go:94-95`) |
| ResponseLateFailure.cfg | | LateFailureIsAnEvent | after a ping an answer with an error status is relayed into the 200 as if it were a body (`waiter.go:66`; `http.go:131`) |
| severed | Response | NeverSevered | a client that stayed is severed, because the answer after a wait starts more than a minute late: the deadline is lifted only behind the pump's first write (`waiter.go:58-60`; `proxy.go:217`) |
| in band | Response | InBandIsItsStatus | a failure in a stream whose answer carries a figure is not what its status would be (`lane.go:85-104`) |
| shortest | Response | ShortestIsNotDearest | a limit about to lift, whose figure rounds to zero, is set aside for five hours (`openai.go:284`) |
| TransferOpenCall.cfg | | NoCallLeftOpen | a picture in a user's message leaves the call it answers open (`codex.go:598`) |
| picture | TransferOpenCall | MediaKept | a message that is one picture reaches the old Kimi as its text, which is none (`kimi.go:1539`; `README.md:236`) |
| two texts | TransferOpenCall | MovesOnAlways | of a result's two texts a target makes two results, which `Validate` refuses at the next move (`kimi.go:1302`) |
| guess | Delegation | NoGuessedLink | a run whose call has no result is attached to another call whose result names it (`docs/sessions.md:251`) |
| cycle | Delegation | AlwaysMovable | two runs named by each other's results are each other's parents, and the session is refused (`branches.go:27`; `docs/sessions.md:174`) |
| pictures apart | Compaction | AlwaysValid | pictures of two events that answer one call become two results of it (`compact.go:363`) |
| own picture | Compaction: `Turns <- MCSelf` | AnswersKept | the text that stands for an assistant's own picture leaves the call it answered open (`compact.go:349-356`) |
| growth | Compaction | NeverGrows | a rung leaves a session larger than it came (`compact.go:168`) |
| overwritten | Compaction: `Turns <- MCCrowd` | NothingOverwritten | the third of three payloads with one name takes the file of the second (`archive.go:111-118`) |
| PublishListed.cfg | | CommittedIsListed | two transfers lose each other's entry in `kimi.json` (`kimi.go:1684-1721`) |
| outlived archive | Publish | ArchiveOutlivesSession | a compacted session whose OpenCode rollback failed stays, and its archive is removed: its markers name files that are not there (`opencode.go:469-473`, `manager.go:145-146`; `docs/sessions.md:362-363`) |
| staged | PublishListed | StagedIsNeverListed | the old Kimi's discovery lists the staged tree of a transfer that runs or died (`kimi.go:223-233`) |

### Bounds, and why they are enough

- Engine: two accounts are one to give up on and one to go to; two requests are one whose answer is
  stale and one that made it so. EngineOne has one request, and every kind of answer; EngineLive and
  EngineTwo have two, with the answers that change a verdict, on a key that may be replaced and on a pool of
  two. What the three check of safety is proved for any number of both. Resets are 0 (already past), 1 and one beyond `MaxHold`, so a request
  may run on, park, or be told to come back. `MaxLag` saturates above every wait, so a deadline
  already past when it is written occurs; `MaxStreak` is where backoff reaches its cap; `MaxReloads` 1
  is a credential replaced once.
- Credential: three requests are a leader, a follower, and one that arrives late. `MaxGen` 3 leaves
  a renewal after a renewal. One command crosses everything the daemon does. CredentialLive has the four ways a
  refresh can fail to end well; the larger instance beside it adds reloads, restarts and revocation, without liveness.
- HealthFile: four marks are one written, one in the snapshot, one in memory and one after the stop; two commands are one
  that replaces a credential and one that writes what it read before.
- Handoff: two sessions and a bare client are one to be refused, one to consume, one to overwrite.
  `Grace` 1 is a ticket coarser than the start it is compared with; resets of 1 and 3 fall on either side
  of it; `MaxAge` 4 lets an old ticket outlive its run. A tick is longer than a file operation.

- Response: two attempts are one refused and one relayed. A head of two pieces can be full, ended by an
  event, by the body or by the timer; bodies of up to three have a head, a boundary and a tail, and
  error bodies of one and three pieces end before and beyond `ErrorLimit`. A first answer that is waited for
  and a second that starts late are enough for the deadline. The
  wires are every combination of four figures in the past, short and long, of dates and cutoffs, and of
  the error names that a rule mentions. Deadlock is not checked: a request ends.
- Transfer: four records are a call, its answer, what stands between them and what follows; two
  moves are one that writes and one that has to read what was written. The records of each harness
  are the ones its reader tells apart, with one, two and no texts to an answer, pictures, failures,
  plans and prompts typed ahead.
- Delegation: three runs nest to any shape a tree of three has; three calls leave one to resume or to
  name another's run. Call ids are only compared, so they are symmetric.
- Compaction: four turns are enough for a call and its answer on either side of a boundary. `Keeps` is
  <<2, 1>> where the code keeps 60, 30, 14 and 6 turns: what it is compared with is the number of
  events, so short sessions with short keeps meet the same cases. The byte lengths fall on either side
  of every limit of the ladder; one budget is met early and one late.
- Publish: two transfers of two runs each; every target, so that every pair of them meets. One of the
  projects is known to `kimi.json` already. Transfers, moves and compactions end: no deadlock check.

The theorems below need none of these bounds but the ones the model itself is given.

### Fairness, and why the code justifies it

- `Step(r)` weakly fair: a goroutine runs, and an exchange ends, since the HTTP client's transport
  either answers or fails. Nothing is assumed of what it answers; EventuallyAnswered takes "the
  upstream serves" as its hypothesis.
- `Tick` strongly fair in EngineLive: time passes, however busy requests are. NoHotLoop does not
  assume it: a loop with no rest is exactly what it forbids.
- Credential: each caller's step, and strongly `UpdateMemory`, since a Go mutex hands itself to a
  starved waiter. No fairness for reloads, except that one that holds the lock goes on.
- HealthFile: the flusher's ticker fires, a write of a file ends, and the two shutdown steps of
  `cmdServe` run. No fairness for marks, signals, commands or kills.
  A command that has begun to write goes on; whether one is begun is the user's.
- Response: the handler's steps and a `Read` or `Write` that can return are weakly fair, since goroutines
  run; `GiveUp` strongly, since `Execute` returns in the end. Nothing is assumed of the upstream, which
  may stall at any piece, nor of the client: the reading of an error body ends of itself only once the
  client has left and with it the request's context.
- Handoff: handlers and the supervisor's own steps weakly, `Tick` strongly, since time passes however
  often clients ask. No fairness for children, which may run for ever, or for their user.

## 5. Proofs

| module | theorem | says |
|---|---|---|
| EngineProofs | TypeCorrect | `Spec => []TypeOK` for any accounts, requests and configuration |
| | BudgetIsPerAccount | `Spec => CondemnedAfterRenewals` |
| | VerdictsAlwaysStand | `Spec => VerdictsStand`: only the operator, a reset or an answer already under way takes a verdict back |
| | RejectedIsRefused | parking on: every account rejected is said only when every account was, but for those changed by somebody else meanwhile |
| | OverloadsNeverSurface | parking on: no error of the engine's own while there is an account that was only overloaded |
| CredentialProofs | CredentialTyped, RefreshesAreCoalesced | types, and one exchange at a time, whatever happens |
| | LostOnlyByLosses | whatever happens: the account is lost, or a retired token presented, only after an answer, a write or an account was lost |
| | CondemnedHasCause | whatever happens: condemned only after a revocation or a failure around a refresh |
| | RetiredNeverPresented, NothingWasted | for the daemon alone |
| | DaemonImplementsLineage | the daemon alone refines Lineage |
| HealthFileProofs | HealthFileTyped | types, whatever happens |
| | CleanIsSaved, StopsSaved | no commands, disk intact: clean means saved; a stop saves |
| | OldVerdictsForgotten | commands of any number, disk intact: condemned only over the credential it has, or by a late answer |
| HandoffProofs | HandoffTyped | types, and never more resumes than allowed, whatever happens |
| | ResumedRightly | a session on its own: resumed only if refused and not early, given up on only without a reset ahead |
| | NeverEarlyTogether | one lane, any number of sessions and clients, failing disk, resets that do not move earlier: never resumed before the reset it was told of |
| ResponseProofs, on Verdict | FiguresAlwaysWin | for every answer and either lane: a figure still to come wins over the guess |
| | InBandAlwaysItsStatus | for every answer and either lane: a failure inside a stream without figures is treated as its status |
| | LongerNeverSooner | for every answer and either lane: one that asks for a longer wait is not acted on as if it asked for a shorter |
| ResponseProofs | ResponseTyped | types, and no goroutine of `probeHead` holds more than its limit |
| | StreamStaysIntact | the client has a prefix of one answer, and all of it if it stayed to the end and was not severed before the first piece |
| | ExchangeKept | waiter, probe goroutines and pump refine Exchange |
| PublishProofs | ListedIsWhole, AllIsThereOrNothing, ArchiveComesFirst | any number of runs and transfers, failing or dying anywhere: what discovery lists is whole, a failure leaves nothing, the archive is there before its threads and as long as they; each with the exceptions of its property |
| DelegationProofs | DelegationTyped | types, for any runs, calls and moves |
| | RunsAreAttached | every harness's own session: a run whose spawning call is recorded is attached to that call or to none |
| | RecordedTreesMove | a session that records its spawning calls can be moved, and no run recorded up to the main thread is left behind |
| | TreesSurviveMoves | any number of moves, any targets: every run keeps its parent and its call |
| | LinksAreRecorded | the invariant behind them |
| CompactionProofs | NothingIsLost | every session, budget and length: after each rung every part is in the session or the archive, and every marker finds it |
| | ReductionsStayValid | the same: each rung leaves a valid session, and every call it keeps that was answered still is |

**TypeCorrect** needs that selection returns a usable account. `First` chooses from a non-empty set by a
total order, which takes the well-founded order of the naturals (`FirstIsSelectable`, `ChoiceIsUsable`),
and that backoff and allowance are naturals (`LeastOfTwo`).

**BudgetIsPerAccount** rests on `RenewalsCounted`: every refusal counted against an account is matched by a
renewal this request has been through, or is in, until it has been through as many as are allowed. Alone the property is not inductive: the
step that condemns compares `auth`, and only the invariant ties `auth` to `renewed`.

**What others change meanwhile.** The other three theorems of the engine are about any number of
requests and reloads; the last two assume only that parking is on (the rows "parking off" above show
why). Each is false as a plain statement about the pool, because `Execute` looks under one lock and
concludes under another, and the histories say by exactly what: what somebody else has changed since the
look. So the first thing proved is that they are complete (`UnmovedIsUnchanged`): what a request has
looked at and is not in `moved` is as it saw it, but for waits that run out. `WhatAStepWrites` bounds what
one step may touch, `WhereItLooks` says which steps look. On these rest the three invariants.
`ServedByAvailable`: an attempt under way is with an account that is available or in `moved`, so what an
answer takes back was concluded after its attempt began. `UnusableMeansRefused`: an error is decided
only when no account of the pool that is not in `moved` will recover. `HopesAreThere`: an account that was
only overloaded stays in the pool and available. The last is not inductive without `NoIdleWait` (an
account that waits for nothing has no wait left), since `park` would otherwise sleep or give up beside
it (`ParkTakesWhatIsThere`).

**CredentialProofs.** `LocksHeld`: the leader in flight is the one `calls` names and the writer of the file
is the one `writer` names; it gives OneExchange under every event. LostOnlyByLosses and CondemnedHasCause
assume nothing either. `Intact` says of each copy of the token, as long as none was lost, that it is what the
upstream honours unless a refresh that will replace it is under way: memory until the answer is in, the
file until it is written, the reload's buffer and the leader's hand likewise. It is inductive
only with `LocksHeld`, which makes "under way" one leader (`LeaderDecides`), and with `OneLineage`, that every
token is of the first sign-in until there is a second. The hypothesis cannot be dropped: each of the
losses is a counterexample above. `FailuresHaveCauses` follows a failure from the exchange through `Delete`
and `Done` to every follower that condemns the account over it. For the daemon alone (no commands, clients that stay, no lost answers, restarts only between refreshes) the invariant `Coherent` says
where each copy of the token stands: memory is the newest unless an exchange is on its way, the file
is as new as memory unless a write holds the lock, and the reload's buffer is as new as the file.
Neither half is inductive alone: a reload needs that the file is current, the file's write that
memory is. From it follow RetiredNeverPresented, NothingWasted and the refinement, whose mapping takes the
answer on its way from the leader's label.

**HealthFileProofs.** Types need a counting argument: a command writes the health at most twice, and how
many writes it still may make is added to those made. `Kept`: what is not marked dirty is in the
file, or in the snapshot on its way there, and once told to stop both memory and the last snapshot
are at least as new as then. `Agreed` is about what the file may still say: an old verdict can stand
in the file only while a newer write of it is due, and a command that writes back what it read either
makes such a write due, by telling the daemon, or read a file that was right, because no daemon ran.
A verdict is right (`Fine`) if it is about the credential in place, or is one of the answers in `late`, which
came in when their credential had been replaced (HealthLateAnswer); only `Mark` adds to those.
It excludes `add` (HealthAddKey shows why), a failing disk, a kill in the middle, and a command that
overlaps a shutdown (HealthOverlap).

**HandoffProofs.** `OwnTicket`: once its child was refused, a session's ticket is about that refusal and
no older than its start; before that, a ticket still ahead is older than the grace (which holds from
tick to tick because an age saturates only past every reset). `OwnWait`: what it found or waits
for is that ticket. Neither other clients nor a failing disk may be there: HandoffOthers,
HandoffOtherLane and HandoffTwoRuns show what each of them breaks.
NeverEarlyTogether allows both, on one lane, as long as nobody is told of an earlier reset than a session was
before, and those who are being refused at one moment are told of the same (`NoEarlierReset`). Its
invariant needs no owner for a ticket: `Patient` says that whatever whole ticket lies on the lane is
no sooner than what any session was told, because a handler empties the file before it answers and no
tick passes until it has. Without `NoEarlierReset` TLC finds an early resume on the same instance.

**Verdict,** in ResponseProofs. The properties are about one step of asking a lane, so no invariant beyond the type
of the wire is needed; the work is in the rules. `WireFields` gives the types, `DerivedFigures` what the
figures become, `Throttled` which branch a 429 takes, and `AnthropicFigures` and `OpenAIFigures` the wait or
reset of each lane, for any cutoff and any guess that fit the assumptions of Classify. `LongerNeverSooner`
compares two answers that differ only in the wait they ask for (`OnlyTheWaitDiffers`), through each of those branches.

**ResponseProofs.** `Intact` follows a piece of an answer from the upstream to the client: what is read
and not delivered is held, in order, in the probe's sample or in the pipe; the pipe's end stands
only behind the last piece; and a delivery is the next piece of the one attempt that was chosen. Prefix
alone is not inductive, because the goroutine that reads and the handler that delivers meet only in what
is held between them. `Severable` says who can stay and have nothing of its answer: the first piece lifts the
deadline, so only a client that waits for it behind a deadline that has passed. The refinement takes Exchange's status line, pieces and end from `Placed` and
`Delivered`, action by action; every step of a goroutine of a lost attempt is a stutter.

**PublishProofs.** `There(steps, n)` is what the disk holds after `n` of a writer's steps, and
`Published` says that each transfer's disk is exactly that. So a property of every interleaving becomes one
of every prefix of every list of steps: `Orderly` states it, and one lemma for each of the five
writers (ClaudeIsOrderly and the others) and one for the archive prove it from where things stand in the list. The assumption
added to Publish is what the file system gives: finitely many runs, whose names are none of the fixed
file names.

**DelegationProofs.** `LinksAreRecorded` is the invariant `IInv` of all three. Before a move it says what the
records of a harness can be: a run is started by one call, of a stream older than itself (`Spawned`); call
ids are unique in their stream, and in the session for Claude (`Numbered`); which results may name a run
before it is spawned, or from another stream (`Naming`); and what stands beside a run is true of the call that
started it (`Recorded`). None of the three properties is inductive, since each compares a reader's result with
the records, and the next call adds to both. After a move the harness is another and the results still say
what the first one wrote, so `Carried` says that what stands beside a run is its link in `first`, that the call
it names is its parent's (`Owned`), and that a run without a call is named by no result of a stranger (`Silent`), or
a target's reader would move it there. One lemma per harness shows that its reader recovers exactly such
links (`ClaudeFirst`, `KimiFirst`, `LegacyFirst`, `CodexFirst`, and `LinkMoved` for all of them after a move).
OpenCode reads all runs at once: `Searching` says of an unfinished search that what it has found hangs
together, and that whatever a found stream links is found or still in an open loop; `Work`, the members of the open
loops and one loop for every run not found, falls with every turn, so the search has ended by `Turns`
(`SearchEnds`). Its definition is a recursive function, of which only existence must be shown (`LoadTurns`, by
`Stepwise`). That a tree has no cycle follows from `Spawned`: in any set of runs the least has its parent
outside (`OrderedByBirth`). Its two exceptions are in the properties: old Kimi's last result may be a later
call of the spawner, and an OpenCode run that a second stream called may be found there first.

**CompactionProofs.** `ReductionsAreSound` is the invariant of both theorems: the source knows its places, and the last
rung's `Result` is a valid stream with an archive that together account for every place. Nothing
about the last rung carries over to the next, which starts from the source again, so the work is in
`Candidate`, that is, in two nested folds. The prover has no induction for them, but it has the
well-founded order of the naturals: what holds at 0 and from each number to the next holds throughout,
or there were a least number where it does not (`Stepwise`). With it `PartsInOrder` and `EventsInOrder`
unfold each fold, by its definition over sets of indices, into a chain of single steps, and `PartStep` says what a
step may do: keep the part, drop it, or put it in a file with a marker in its place or none.
`Cut` is what such a step preserves: each part of the stream stands for one place of the source, in
order and in that event's role, an answer for an answer of the same call; each place done is covered,
by a part or a file; and no two files share a name while the source is not `Crowded`. That names do not collide is
not inductive alone: it needs that every file's name is that of the one place it holds, with the
counter 1 or 2. From `Cut` follow the clauses of `Validate` (`CutIsProper`, `CutHasOneResult`) and that answers
stay (`CutStaysAnswered`). The collapse and the digest are both selections of events with a note among them,
and `SelectionStaysValid` asks of one only that a call and its answer go or stay together,
which is what `Boundary` looks for (`BoundaryIsWhole`, `CollapseSelects`).

**Only model-checked:** liveness (NoHotLoop, EventuallyAnswered, FollowersReturn, EventuallySaved,
ShutdownEnds, RefusedIsResumed, ReadersEnd), which is beyond the prover with its fairness and ENABLED;
and Transfer's four invariants. Transfer composes ten readers and writers, each a fold that keeps
an open message of its own form; the chains that unfold Compaction's two
folds would be needed for every one of them, with an invariant for each pair of forms. What a counterexample above shows to be false
in general is proved, where it is, under the hypotheses that exclude the counterexample.

## 6. Not modelled, and why

- Engine and Response are not one model: Engine's `Relay` ends where Response's begins, and Response
  takes the choice of the next attempt as free. Their product adds no question of its own.
- Install, importer, harness definitions: they edit files that other programs own, one write each
  and no concurrency; what could go wrong is in formats and file names.
- `daemon.json`: one file written, read and cleared, by a daemon whose life cycle is HealthFile's.
- Of the session half: discovery, titles, models, times, token counts and JSON itself; a child that
  OpenCode cannot export; the text of the digest, which is one length.
- `Store` with many accounts in one file: Credential and HealthFile follow one account, and the rest of
  the file is the command "other". Loading and validation are left out.
- Service manager, status output, prompts, flag parsing: I/O and wording.
