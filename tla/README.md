# Verification of Joyus Desktop

TLA+ modules that model the stateful core of Joyus Desktop, TLC configurations
that check them on small instances, and theorems about them checked by TLAPS.
`PROJECT.json` ties every modelling definition to the source lines it stands
for and lists runs, theorems, mutants, findings and hazards.

| Module | Models | Runs | Proofs |
| --- | --- | --- | --- |
| `Handoff` | `executeHandoff`: moving a desktop session to the cloud | `MCHandoffSafety`, `MCHandoffLiveness`, `MCHandoffTimeout` | `HandoffProofs` |
| `HandoffContract` | what `executeHandoff` promises its callers | (as a property of `MCHandoffSafety`) | `HandoffProofs` |
| `RuntimeAction` | `executeRuntimeAction`: an agent's action under policy | `MCRuntimeSafety`, `MCRuntimeClock`, `MCRuntimeDenial` | `RuntimeActionProofs` |
| `ManagedTooling` | manifest poll, change handler, settings reconciler | `MCManagedToolingSafety`, `MCManagedToolingRevocation` | `ManagedToolingProofs` |
| `SkillSync` | `syncSkills`, by two processes | `MCDesktop`, `MCServicesRollback` | `ServicesProofs` |
| `DesktopSync` | the desktop's own sync: startup and periodic | `MCDesktop`, `MCServicesPins` | `ServicesProofs` |
| `ControlPlaneQueues` | token refresh, event emitter | `MCDesktop` | `ControlPlaneQueuesProofs` |
| `HandoffVerification` | the receiving side's check of a handoff | `MCDesktop` | `ServicesProofs` |
| `Recon` | the export of a Recon engagement: scan, gate, record, archive | `MCDesktop` | `ReconProofs` |
| `Sessions` | task branches, worktrees, close with PR | `MCDesktop` | `SessionsProofs` |
| `Environments` | remote environments and deployment polls | `MCDesktop` | `WorkspacesProofs` |
| `LocalSites` | local sites in DDEV | `MCDesktop` | `WorkspacesProofs` |
| `ServerProcesses` | MCP servers, the sidecar process, its requests | `MCDesktop` | `WorkspacesProofs` |
| `GithubLogin` | the GitHub login flow | `MCDesktop` | `WorkspacesProofs` |
| `ReconSetup` | credentials: file, keychain, wizard, launch | `MCDesktop` | `WorkspacesProofs` |
| `DriftSignals` | drift of a session, from detector to page | `MCDesktop`, `MCWorkspacesDrift` | `WorkspacesProofs` |

`MCServices` and `MCWorkspaces` put together parts that share no state, and
`MCDesktop` puts these two together: an initial state picks the part that moves
and the others stay where they are, so a run is the sum of the parts' state
spaces and not their product.

To repeat a run: `tlc -config MCHandoffSafety.cfg MCHandoff.tla`; to repeat the
proofs: `tlapm HandoffProofs.tla`.

## 1. Inventory

The program is a Tauri host (Rust), a Node sidecar it starts, a React UI, and
packages that the sidecar and the agent runtime use. Paths are relative to the
repository; `DC` is `apps/desktop-companion/src`, `P` is `packages`.

### Modelled

**Desktop-to-cloud handoff** (`DC/handoff*.ts`, `DC/snapshotAssembly.ts`,
`P/policy-client/src/handoff*.ts`, `snapshotEncryption.ts`).
*State*: the module-level set `activeHandoffs`; per call a state machine, an
abort controller, a timer, the policy token's expiry, and the uploads.
*Operations*: `executeHandoff` asks the policy service for a token, assembles,
signs and encrypts the snapshot, opens a handoff at the control plane, uploads
snapshot and artifacts in parallel with tus, and completes the handoff.
*Interactions*: policy service, control plane and upload server; callers pass
an external abort signal. *Hard*: concurrent calls for a session, an abort or
timeout at any await, parallel uploads that fail, resume or stall, lost
answers. *Correct when*: one handoff per session; nothing leaves the machine
without an allow; the token covers the whole call; the cloud session is never
partial; an abort stops everything; the error code tells whether a retry is
safe; every call ends.

**Runtime policy enforcement** (`DC/runtimeExecution.ts`,
`runtimeOrchestrator.ts`, `authorization.ts`, `controlPlaneWiring.ts`,
`P/policy-client/src/replayCache.ts`, `policyClient.ts`, `P/session-agent`).
*State*: the replay cache on disk; per call the decision, plan, action and
provenance results. *Operations*: resolve the policy, verify the token, reserve
its id, plan, execute, check provenance, submit the output event.
*Interactions*: policy service, decision registry, output ledger at the control
plane. *Hard*: calls racing for a token, restarts that prune the cache, clock
changes, each request failing, an event recorded although its answer is lost.
*Correct when*: a decision authorizes one action; degraded mode covers only its
risks; an external tenant's action is reported to the ledger before it counts as allowed;
enforced provenance; a ledger that agrees with what ran.

**Managed tooling** (`DC/sidecar/configCheckPoller.ts`, `configCheckWiring.ts`,
`P/settings-reconciler`). *State*: two Claude Code settings files, a registry of
managed entries and a tenant config on disk; the last manifest and its hash in
memory. *Operations*: poll the distribution manifest; on a change sync skills,
reconcile both settings files (read, merge, back up, replace), write the
registry, roll back on failure. *Interactions*: distribution endpoint, skill
sync, the user and Claude Code editing the same files. *Hard*: failure between
files, failing rollbacks, crashes in between, edits during a reconcile, changes
that must be handled eventually. *Correct when*: a rollback restores, a success
installs the manifest and leaves nothing stale, the registry owns every managed entry,
changes are handled.

| Component | State | Operations and what is hard | Correct when |
| --- | --- | --- | --- |
| Skill sync (`P/skill-sync`) | lock file, git cache, metadata, installed skills | sync by CLI and sidecar as two processes, each git and copy step failing, a process stopped while it holds the lock, the user editing skills | one sync at a time; what is recorded as installed is all there; the user's edits are backed up; no failure leaves the lock behind |
| Desktop sync (`P/desktop-sync`) | clone, staged and installed files, metadata, timer, status | startup and timer syncs in one clone, failing steps, a pin that moves, stop and start during a sync | a pin that stays is installed in the end |
| Token refresh, event emitter (`P/policy-client`) | timers, requests in flight; queue, drain loop, failure log | cancel during a refresh; emit at the end of a drain, retries, flush at shutdown | refreshes do not multiply; an event goes out or is accounted for |
| Handoff verification (`P/policy-client/src/handoffVerification.ts`) | the parts that arrived, the errors found | parts cut, repeated, reordered or damaged | what is accepted is what was sent |
| Session manager, wiring, event bridge (`P/session-manager`, `DC/sidecar/sessionWiring.ts`, `DC/eventBridge.ts`) | task branches in SQLite, git worktrees, pollers | file events, resume, delete, close with push and PR, all suspended at git and gh; a lost answer, a rejection that ends the sidecar | one live row per session and worktree; work leads to a row unless git hangs; a PR is in its row |
| Drift detector (`P/drift-detector`) | paths observed per task branch | counts directories, topics and time; its signal passes sidecar, host and page | a confident signal becomes a banner |
| Environment monitor (`P/environment-monitor`) | rows of environments, debounce timers, rounds | rounds, debounced polls and the initial sync overlap, each three gh calls long | the newest row comes to show what GitHub says |
| Local provisioner (`P/local-provisioner`) | rows of sites, clones, DDEV projects | provision, start, stop, remove and `syncAll` overlap at git and ddev, which may fail | a site nobody works on says what its DDEV project is, whatever failed |
| MCP server processes, sidecar, host (`P/mcp-registry`, `DC/sidecar/main.ts`, `ipc-handler.ts`, `src-tauri/src/sidecar.rs`) | process map, detached processes, pending requests | exit events, stops that wait, watchdog; the sidecar or the host dies; quit | a server that runs is in the map; stops and requests end |
| Recon engagements (`DC/sidecar/recon.ts`, `src-tauri/src/recon.rs`, UI) | a directory per client, archive, override record | files written during scan and export, exports of one directory that overlap, a scanner that breaks, overrides | what the scanner flags is in an archive only by a recorded override or a later write |
| GitHub login (`DC/sidecar/github-auth.ts`, UI) | one flow, a callback server, a timer | callback, denial, time-out, cancellation and the host's own limit race; browser command and server close have no limit | the answer comes, and the flow ends unless it waits for one of these two |
| Credentials (`DC/sidecar/credentials.ts`, `src-tauri/src/keychain.rs`, UI) | flat file, keychain, wizard | overlapping saves, a migration that fails half way, two gates that read one store each | a launch uses what was saved last, but for blanks around it |

### Not modelled

Detectors and usage collectors (stateless probes), MCP governance (stateless
decisions without a caller in `apps/`, one cached mode), the tool wrappers,
telemetry (fire and forget), the updater channel (one pure function), the phases
of the onboarding page, the Recon pages and processes, and rendering. Section 6 gives the reasons,
`PROJECT.json` lists all 26 components with their status.

## 2. Plan

Order: by how much depends on the behaviour and how hard it is to test.

1. `Handoff`, `HandoffContract`, `RuntimeAction`, `ManagedTooling` with their
   proofs. **Done.**
2. `SkillSync` and `DesktopSync`, `ControlPlaneQueues`, `HandoffVerification`,
   `Recon`, composed by `MCServices`. **Done.**
3. `Sessions`, `Environments`, `LocalSites`, `ServerProcesses`, `GithubLogin`,
   `ReconSetup`, `DriftSignals`, composed by `MCWorkspaces`; all of them checked by `MCDesktop`. **Done.**
4. Proofs of `ControlPlaneQueues`, `HandoffVerification`, `Recon`. **Done.**
5. Proofs of the other parts of `MCServices` and `MCWorkspaces`, and of the two
   compositions. **Done.**
6. A step of `ManagedTooling` (`SyncSettles`) is the whole of `SkillSync`. The
   refinement would need one module with both states; `SyncSettles` allows any
   outcome, so it rests on nothing of `SkillSync` but that a sync ends. **Left.**

No module that is proved about uses a RECURSIVE operator.

## 3. The modules

### Handoff

A call of `executeHandoff` runs synchronously between awaits, so an action is
what one event of the Node event loop does up to the next await: `Begin` or
`Refuse` (the synchronous start), `AuthorizationAnswered` (policy answer, token
check, snapshot assembly), `InitiateSettles`, the upload callbacks
(`SnapshotSent`, `SnapshotErrors`, `OffsetDiscovered`, `ArtifactSent`,
`ArtifactErrors`), `CompleteSettles`, `ExternalAbort` and `TimerFires`. `pc[c]`
names the await; `sm[c]` is the `HandoffStateMachine`, `activeHandoffs` the
module's set, `snap` and `art` the promises of the uploads, `sent` the requests
issued. `cloud` is external: `CloudStep` handles a request when it likes, also
after the desktop gave up, so a lost answer is a request handled and an answer
that never comes. Snapshots, keys and contracts are abstracted to how each step
can end (`Preparations`, `Codes`). Retries inside a request are part of the
request. The abort listeners stay registered after a part has arrived, so an
abort deletes finished parts as well (`StopSending`, `StopSnapshot`: `withdrawn`).
`tokenExpiresAt` is `Unreadable` if the answer's date is none. `now` counts units of which `Timeout` is `timeoutMs`; a timer
that is due runs before the clock moves.

`HandoffContract` is the caller's view: a call is refused, or claims its
session until it fails or completes; it completes only after the cloud has the
session; a failed call promises nothing about the cloud. `Handoff` implements
it under the mapping at the end of `Handoff.tla`.

### RuntimeAction

`pc[c]` is the await at which a call is suspended: `deciding` (request),
`verifying` (token verifier), `planned`, `executing`, `checking` (provenance),
`submitting` (output event). `planRuntimeExecution` is synchronous up to the
registry: `DecisionRefused`, `DecisionReplayed`, `RegistryUnavailable`,
`DecisionReserved` are its exits. `PolicyUnavailable` is the catch block of
`resolvePolicyState`, which covers the request (`RequestFails`) and the verifier
(`VerifierThrows`) alike.
`consumed` is the replay cache, which survives `Restart`; the cache is pruned
there and the calls in progress are `lost`. `ledger` is what the control plane
recorded, with or without the desktop learning of it. The interface
`DecisionJtiRegistry` has one implementation in the repository, the replay
cache, to which it is bound here. A decision is the response's
`policyDecisionJti` with the signed token that came with it; the code reserves
the former and verifies the latter without comparing them, so `Decisions` has
every combination. `OutputSubmitted` is an answer with a success status; whether
the event was `recorded` is another matter, since the body is not read.

### ManagedTooling

Polls do not overlap (`polling` flag), so one `pc` says where the poll is
suspended: `fetching`, `syncing`, then per settings file `read`, `backup`,
`write`, then `registry`, or `undo` per file, and `config` (tenant config).
Every I/O step has a failing disjunct. A settings file is a function from ids
(event and matcher of a hook group, or name of an MCP server) to content;
`MatcherOf` forgets the event, since stale hooks are found by matcher alone.
The registry is a set of ids: its keys do not name the target, so an entry
wanted in both files has one key.
`UserEdits` and `Publish` act between any two steps, and `Crash` stops the
sidecar anywhere, keeping only the disk. What is published may be no valid
manifest (`Malformed`), which the poller refuses at each poll. Skill sync is the external step
`SyncSettles`, with the statuses the handler distinguishes. `before`,
`disturbed`, `torn` and `lapsed` are history variables: they record the files
at the start of the reconcile, an edit since, a failed rollback step, and a
reconcile that was cut short.

### SkillSync and DesktopSync

`at[p]` is where process `p` of `syncSkills` is suspended: `locking` until it
has the lock file or its retries are over (`yielding` then rewrites the
metadata without the lock), the git steps, `copying` file by file, `writing`.
`SyncStopped` ends a process anywhere, `ReleaseFails` is a lock file that
cannot be removed; both leave it. The disk is
`lockFile`, `gitCache`, `metadata`, `skills`; a file's text is a model value,
the user's own text another. `late` is a history variable: the files the user
changed after the process had compared them. `DesktopSync` has two runs,
`startup` and the timer's, which alone respects the flag `syncing`; both use one
clone, one staging directory and one destination, each of which holds the version
that was put there last. `torn` is a history variable: a run failed between its
copy and its metadata.

### ControlPlaneQueues

Token refresh: `timers` and `inFlight` are the maps of the scheduler,
`outstanding` counts requests, of which `cancelAll` forgets those under way. A
delay is a timer or none. Event emitter: `drain[d]` is an activation of
`drainLoop`, which sends the head of the queue and starts over after a failed
attempt; `ClientRetries` are the retries of the HTTP client below.
`DrainEnds` is the `finally`, a turn after the loop saw an empty queue: an event
emitted in between is in `missed` and waits for the next one. An event whose
attempts are used up goes to the failure log; if that cannot be written, which
`writeFallbackLog` swallows, it is `lost`.

### HandoffVerification

Chunks and artifacts are what they decrypt to: a chunk is its index at the
sender, 0 if it does not decrypt. `Verify` collects errors the way
`verifySnapshot` does; chunks that are not the text that was sent do not parse,
or fail the integrity check.

### Recon

`export[c]` is a call of `recon.export`, with the step it waits at, its
`override`, what its scan `found`, what it `recorded` in `.scan-overrides.json`,
and the files still to be packed. All exports of a client's directory share the
record and the archive. A file is `sensitive` if the scanner, as it reads it,
flags something; `lateFiles` are those written after the export's scan. A scanner
that breaks ends with an exit code of failure and only some findings, which an
override then waves through. Any caller may pass the override; the page never does.

### Sessions, DriftSignals

`call[c]` is a suspended call: `create` (worktree), `poll`, `health` (resume),
`changes`, `remove` (delete), `push`, `pr`, `store` (close), `bridge`.
Inserting a second live row of a session violates the index of the table; the
rejection is handled by nobody and ends the sidecar (`alive`), which only a
restart of the desktop brings back. A git call may wait for ever, since
`sessionWiring.ts:21` gives it no time limit. `lostPrs` are trees whose pull request was
made while the answer of gh was lost. `DriftSignals` has the detector's counts
(`observed`, time since the row was created), the notifications and the pages'
listeners by event name.

### Environments and LocalSites

`ghPoll[c]` is a poll, a round or the initial sync, three gh calls per pull
request: head, deployments, statuses. Each may fail. `DeployStep` is GitHub: a
push makes a new commit, a deployment moves. `envs` may hold several rows of a
pull request; the newest is the one shown. `job[j]` is an operation of the local
site manager that waits for git or DDEV. `DdevElsewhere` is somebody who uses
DDEV directly. `crossed` is a history variable: repositories that two operations
in flight shared, whose project changed behind the manager, or about which the
sidecar was stopped in the midst of an operation (`SidecarLeaves`), and that no
`syncAll` had to itself since. `unremoved` are those whose removal failed at `rm`.

### ServerProcesses

`os[p]` is what the operating system knows of a process: it `runs`, was `told`
to end by a stop, was `left` by a host that went, or is `gone`; `exits` are exit
events not yet delivered, `entry[s]` the map of the process manager. A stop
waits for its process, then removes the entry by name. `untracked` is a history
variable: processes whose entry went with the sidecar or with a stop about an
earlier process. The host kills the sidecar when it quits (`QuitHost`), and it
does not start another when the sidecar dies. A request waits for its answer or
for thirty seconds.

### GithubLogin and ReconSetup

Logins are numbered; `flow` is the sidecar's only flow, from the callback
server's start to its end. The host gives up on an answer before the flow does. The command that opens the
browser (`opening`) and the close of the callback server, which waits for every
open connection (`closing`), may take for ever.
`ReconSetup` has both stores of credentials: `StartDesktop` runs the migration,
key by key with possible failures; a value is what it says and
whether blanks are before or after it; reading the file trims the line, migration
and launch trim the value. A save reads the file, writes the
temporary file that all saves share and renames it; `launched` is a history
variable of the keys that a launch gave a value other than the one saved last.

## 4. What the runs show

| Run | Instance | Shows |
| --- | --- | --- |
| `handoff_safety` | 2 calls, 2 sessions, 2 artifacts, Timeout 2, MaxTime 3; 610,717 states | one handoff per session (`OneHandoffPerSession`), nothing leaves unless allowed, a readable token outlives the call, the cloud session is whole, an aborted call stops its transfers, withdraws what had arrived and sends nothing more, an error code outside `InDoubt` means no cloud session (`RetryIsSafe`), and `ImplementsContract` |
| `handoff_liveness` | 2 calls, 1 session, Timeout 1 | every call ends, although uploads may stall, except when an aborted artifact upload strands it |
| `handoff_timeout` | 1 call | finding: without that exception the claim is false |
| `runtime_safety` | 2 calls, 2 tokens, 2 response ids, 2 artifacts, 4 inputs, MaxTime 2; 8.46 million states | a decision authorizes one action across restarts, privileged actions are authorized or covered by degraded mode, external tenants' actions are reported, provenance is enforced, the ledger is true |
| `runtime_clock` | 2 calls, clock may be set back | finding: a decision is used twice |
| `runtime_denial` | 2 calls | finding: a denied action runs |
| `tooling_safety` | 3 manifests and a malformed one, 3 ids, 2 publications, 1 edit, 1 crash; 1.1 million states | rollback restores, success installs, registry owns, every change is handled |
| `tooling_revocation` | 3 manifests, 1 publication | finding: a revocation is dropped |
| `desktop` | 355,034 states in all. Skill sync (67,379): 2 processes, 2 versions, 2 files, 2 syncs, 1 edit, 1 stop. Desktop sync (19,050): 2 pins, 1 move, 1 fault. Queues (5,949): 2 cancellations, 2 events with 2 attempts of 2 sends. Verification (3,332): 2 chunks and 2 artifacts, up to 2 parts of each. Recon export (99,063): 2 exports of 2 files, 1 write. Sessions (19,829): 1 session with 2 rows and 2 trees. Environments (28,035): 1 PR with 2 rows, 1 push, 1 failed gh call. Sites (17,702): 1 repository, 4 operations, 1 failure. Processes (9,809): 1 server spawned 3 times, 1 request. Login (402): 2 logins. Set-up (84,390): 2 saves, 2 starts. Drift (94): 1 branch with 2 paths | what is installed is one version, the lock is held or was left by a stop, edits are saved, a pin is installed in the end if startup and ticks do not overlap, refreshes are bounded, events go out, an accepted transfer is what was sent, an archive was scanned, one live row per session and tree, work leads to a row, PRs are in their row, a status comes to be shown, a site's status is true, servers are tracked, requests end, logins end, what was saved is used |
| `pins_lag` | desktop sync: 2 pins, 1 move, no fault | finding: the metadata names a pin that is not installed |
| `rollback` | skill sync of 1 process, 3 syncs, 1 stop | finding: the wrong version is copied |
| `drift_unseen` | drift as in `desktop` | finding: no signal reaches a page |

*Why these bounds.* Two calls are what a race for a session or a token takes;
two artifacts let one fail while the other is done, stopped or under way; the
lifetimes given to tokens are exactly at the check and one above it, and the
clock passes both the timeout and the expiry. One token expires during the
runtime run and one outlives it; the four inputs lie on both sides of every
test on tenant, risk, privilege and provenance mode. The manifests add an
entry, move a hook to another event and to the other file while claiming a
user's matcher, and revoke everything; a fourth text is no manifest; two publications reach each from each,
one crash and one edit fall between any two steps. `MaxTime`, `MaxPublishes`,
`MaxEdits`, `MaxCrashes` and `Grace` are bounds of the models, not of the code:
the theorems hold for every value of them. Two skill syncs are what
the lock is for, and a stopped holder leaves it to the other; two files, so that
one is copied when the other is edited. Two exports share a
directory, and a file is written while one scans and the other packs. Two rows of a
session are what two file events make; two rows of a pull request are what the
poll and a hosted environment make. One server spawned three times has a process
that ends, one that a stop waits for, and one started meanwhile. One login can be
abandoned while the next is asked for. Two saves overlap, two starts make a
migration that is retried. Parts, paths and attempts go one above and one below
each threshold. Symmetry is used in safety runs only.
Deadlock is not checked: the calls of a run are made once each and the clock is
bounded, so the models stop when all is done.

*Fairness.* Handoff: the control-plane client bounds each request with a
timeout, so requests are answered or fail; so does the offset request of a resumed
upload; a due timer runs and time passes. Nothing is assumed of uploads, the
user or the cloud. ManagedTooling: the interval timer ticks (weak fairness of
`Poll`), the I/O of the handler ends one way or another, the sidecar is started
again, and the endpoint is reachable now and then (strong fairness of
`PollAnswered`; FR-020 has the poller skip unreachable ticks). Nothing is
assumed of success: each step of the handler may always fail.
In `desktop` the assumptions are of the same two kinds: timers fire (the sync's
interval, the poller's interval, the host's thirty seconds, the login's five
minutes, the kill timer of a stop), and commands that the code bounds with a
timeout end, with whatever result (gh calls, HTTP requests, file operations, the
git commands of the two syncs). The host emits the notifications that it read
(`NoticeEmitted`). Nothing is assumed where the code sets no limit: the git calls
of sessions (`sessionWiring.ts:21`), the command that opens the browser
(`github-auth.ts:105`) and the close of the callback server (`:211`); a property
whose end depends on one of them names the wait as an exception. Nothing is
assumed of processes that run on their own, users, GitHub or claude. One
assumption rests on the platform: the offset request of a resumed handoff upload
is a bare `fetch` (`handoffUpload.ts:114`), bounded by fetch's own limits only.

### Findings

1. **A timeout can leave a call hanging** (`DC/handoffUpload.ts:409`).
   `uploadArtifacts` waits for `Promise.allSettled`, but the abort listener
   stops an upload without settling its promise. If the snapshot is already
   sent, `executeHandoff` never returns and its session stays claimed.
   `kitty-specs/002-desktop-cloud-session-handoff/tasks.md:236` has the timeout
   end the call.
2. **A revocation can be dropped** (`DC/sidecar/configCheckWiring.ts:216`). The
   handler swallows a failed skill sync and a rolled-back reconcile, the poller
   stores the hash, and nothing retries until the next change
   (`kitty-specs/008-managed-tooling-distribution/spec.md:180`). The counterpart
   that does hold is `ChangesAreHandled`: the handler is called for each change.
3. **A denial can turn into an outage** (`DC/runtimeExecution.ts:454`). When
   the service answers deny and the verifier throws, degraded mode lets a
   low-risk action run (`kitty-specs/001-desktop-runtime-policy-enforcement/spec.md:37`).
4. **The replay cache has no grace period** (`P/policy-client/src/replayCache.ts:63`).
   The design keeps expired rows for an hour
   (`kitty-specs/005-live-control-plane-integration/tasks/WP02-replay-cache.md:145`);
   the code drops them at once, so a clock set back makes a used decision usable.
5. **A failed rollback installs the wrong version** (`P/skill-sync/src/sync.ts:324`).
   Git runs only if the metadata names another version than the one asked for. A
   sync that fails, or is stopped, after its checkout leaves the old version in
   the metadata and the new one in the cache; the next sync to the old one copies
   the new files and reports success
   (`kitty-specs/003-skill-mcp-distribution/tasks/WP04-version-pinning.md:175`).
6. **Drift signals reach no page** (`apps/desktop-companion/src-tauri/src/sidecar.rs:228`). The host
   emits `sidecar:state.driftSignal`; the pages listen to `state.driftSignal`
   (`kitty-specs/006-managed-git-sessions/spec.md:82`).
7. **A pin can be recorded without being installed** (`P/desktop-sync/src/syncLifecycle.ts:72`).
   Startup and ticks work in one clone, one temporary directory and one metadata
   file. Startup reads pin v1, the pin moves, a tick checks v2 out, startup checks
   v1 out, both copy v1, the tick writes v2 last: from then on every tick compares
   v2 with v2. `kitty-specs/003-skill-mcp-distribution/tasks/WP08-desktop-git-sync.md:180`
   has pin changes propagate, and `:190` names the lock that is missing. What
   holds without the overlap is `PinsPropagateAlone`.

### Behaviour worth knowing

What the models contain because the code does it; the properties allow it, so
none of this is a claim of a run.

- Handoff: a token whose expiry is no date gives NaN and passes the check of
  `handoffOrchestrator.ts:318`; `TokenOutlivesCall` is about the others. The
  requests of `AbortedSendsNothing` are those to the control plane: the abort
  listeners do send DELETEs to the upload server (`handoffUpload.ts:281`, `:396`),
  also for finished parts, so a call that is aborted while `complete_handoff` is
  under way may leave a cloud session whose parts are gone. `CloudSessionIsWhole`
  therefore says that all parts had arrived, and that they are still there unless
  the call was aborted. An abort during `complete_handoff` does not always fail
  the call (`tasks/WP07-handoff-orchestrator.md:179` has it fail).
- Runtime: the registry reserves the response's `policyDecisionJti`
  (`runtimeOrchestrator.ts:158`), which nothing compares with the verified token's
  own id (`policyClient.ts:171-205`): one signed token under two response ids
  authorizes two actions. `DecisionAuthorizesOnce` counts id and token together;
  the theorem `SingleUseOfTokens` has what is left of
  `tasks/WP02-replay-cache.md:28` when the service gives a token one id.
  `sendOutputEvent` (`P/session-agent/src/outputLedger.ts:125`) looks at the HTTP
  status alone, where `callMcpTool` also looks for a JSON-RPC error in the body:
  `ExternalIsReported` says that an event was answered with success, not that it
  was recorded.
- Managed tooling: a group of the user's whose matcher a manifest names is
  replaced (`reconciler.ts:122-138`), where FR-019
  (`kitty-specs/008-managed-tooling-distribution/spec.md:163`) has user entries
  never replaced; a hook moved to another event leaves its old group (`:156`),
  where FR-017 has it removed. `SuccessInstalls` claims neither.
- Skill sync: a process that does not get the lock overwrites the metadata of
  the holder; a lock file left by a stop is never reclaimed. Desktop sync: files
  of an older version stay.
- Event emitter: an event emitted in the turn between the empty queue and the end
  of the drain waits for the next one; one whose failure log cannot be written is
  gone (`eventEmitter.ts:98-100`).
- Recon: the page always passes `overrideScan` as false (`EngagementStatus.tsx:247`),
  so an export does not proceed once every finding is overridden, as
  `WP13-error-recovery-ux.md:107` and `:119` have it; `recon.export` itself takes
  the override. It writes `.scan-overrides.json` anew each time, where `:106` has
  it appended, and after a scanner that broke it records the findings that were
  read, or none. Files that the scanner does not read are outside the model.
  The pages pass `engagement_id` and the like where the host's commands take
  `engagementId` (`EngagementStatus.tsx:482-484`, `:508`, `ReconDashboard.tsx:134-138`;
  `recon.rs:73`, `:204`, `:276`); the host rejects such calls and `safeInvoke`
  swallows the rejection. Launch, status poll and cancellation are therefore not
  reached from the pages, and nothing is claimed about an end being shown.
- Sessions: git runs without a time limit (`sessionWiring.ts:21`), so work waits
  for a row as long as a hook or a prompt does. The loser of two file events leaves a worktree that no row names. A
  row without a worktree passes the health check (`worktreeManager.ts:78`) and
  resume makes it active; resume that races with delete leaves a poller behind,
  whose answer creates a new branch. After a lost answer of gh, closing fails for
  good, since the PR exists and its number is not known.
- Drift: the pages tell the detector of no dismissal, and in advisory mode no
  row exists, so no signal is made. The first change of a session is not counted.
- Environments: poll and request each make a row, rows never get a deployment's
  id, a failed statuses call stores `building`, and `stop` leaves rounds under way.
  Nothing in `apps/` creates the monitor.
- Local sites: after a removal that keeps the clone the repository cannot be
  provisioned again; a removal that fails at `rm` leaves a row `running` without a
  project; `syncAll` writes what it saw before it waited.
- Processes: the watchdog only notifies, and nothing restarts a server that
  crashed (`kitty-specs/004-desktop-application-shell/spec.md:101` has it
  restarted up to five times); a stop removes the entry
  of a server started meanwhile; quitting kills the sidecar with SIGKILL
  (`sidecar.rs:206`), so its own shutdown does not run and detached servers
  survive. Several methods that the host forwards (`sync.*`, `config.*`,
  `sites.*`, `skills.list`, `servers.stopAll`) are registered by nobody.
- Set-up: the wizard's second step cannot be passed, as one key is never
  verified and the results are more than the fields (`ReconSetup.tsx`); two saves
  that overlap lose a key. A value is stored raw, "passwords may have spaces"
  (`credentials.ts:100`), but its line is trimmed when the file is read (`:95`), and
  migration and launch trim the value (`keychain.rs:85`, `recon.rs:54`):
  `SavedIsUsed` is up to those blanks. A migration whose write fails for one key is not repeated,
  since the keychain is no longer empty, and the dashboard's readiness check,
  which reads the keychain alone, then blocks launches for ever; one that
  succeeds removes the file, and the dashboard's guard, which reads the file
  alone, sends the user to the wizard. A login that the host gave up
  on blocks the next until its flow ends, which it need not: the browser command
  and the close of the server have no time limit. Arguments that pages pass to
  `start_onboarding`, `credentials_save`, `github_auth_start`, `launch_recon` and
  others do not have the commands' parameter names; `GithubLogin` and
  `ReconSetup` are of calls that have them.

## 5. What is proved

For every value of the constants, as theorems `Spec => []...` or
`Spec => [][...]_vars` (for the later modules the specification of the part).

**HandoffProofs.** `IInv` is `TypeOK`, `Active` and for each call `Progress`
(which requests can have been sent at which await), `StateMachine` (it follows
the awaits), `Requests` (a request is sent only after an allow, the last one
only after all uploads, and the cloud acts only on requests it got), `Timer`
(deadline within `Timeout` from now, and before the token's expiry if that can be read) and
`Stopped` (aborted calls transfer nothing and have withdrawn what had arrived). The safety invariants are not
inductive alone: that the cloud session is whole, for instance, needs that the
last request follows the uploads and that a done upload stays done until an
abort withdraws it.
`TokenCovers` rests on the assumption `BufferCoversTimeout`: the check leaves
the token a buffer of 30 s and `timeoutMs` is 30 s by default; a caller that
passes a longer timeout loses the guarantee. `Implementation` shows that every
step of `Handoff` is a step of `HandoffContract` or a stutter.

**RuntimeActionProofs.** `IInv` is `TypeOK`, per call `Stage` (what is settled
at which await), `Authorized` (an allowed plan's token is in the cache or has
expired, or degraded mode covers the action) and `Provenance`, and across calls
`HeldOnce` (no two calls were allowed by one decision, id and token), `Recorded` and
`ExternalIsReported`. The disjunct "or has expired" is why pruning is safe: a
pruned decision's token is no longer valid, as long as the clock does not go back.
`SingleUseOfTokens` adds the assumption that a token comes under one id
(`OneIdPerToken`), which the code does not check.
`Spec` therefore has no `ClockSetBack`; `SkewedSpec`, which has, is the
specification of finding 4.

**ManagedToolingProofs.** `IInv` is `TypeOK`, `RollbackRestores`,
`SuccessInstalls` and `Progress`: `Stage` (which target is being handled and
which are done), `Journal` (until the user interferes, each file or its backup
is as it was found: this is what makes the rollback complete), `Merged` and
`Installs` (what is in memory, then in the files, has the manifest's entries
and nothing stale) and `Owned` (the files, or the backups a rollback would put
back, are covered by the registry). The lemmas `ReadAsReadable`,
`MergeInstalls` and `EditsKeepManaged` say what reading, merging and the
user's edits do to a file. Assumed: managed is a property of the matcher
(`IdsAssumption`), files that cannot be parsed are distinct from those that can,
and a machine starts without managed entries (`FilesAssumption`).

**ControlPlaneQueuesProofs.** `RefreshInv` adds to `RefreshesBounded` that a key
has never both a timer and an entry in `inFlight` (`Leftovers`), and that a key
with neither has at most as many requests as there were cancellations: only so
may `schedule` add one. `EmitterInv` says that at most one drain loop is active and
sends the head of the queue (`OneLoop`), that the queue is a run of consecutive
events (`Fifo`), that what left it was received, logged, or lost with its log entry after all
attempts (`Accounted`), and that
an event in it has attempts left. The theorems are about `QueuesSpec`, the part
`queues` of `MCDesktop`.

**ReconProofs.** `RInv` adds what an export knows of its scan (`ScanKnows`: if the
scanner was whole, what it did not name was clean or is in `lateFiles`), that it
goes on only when it passed or was overridden and recorded (`Gated`), and that
what is packed so far is excused already (`PackedIsExcused`). `ExportIsScanned`
alone is not inductive, since it says nothing between scan and archive.

**ServicesProofs.** *Verification*: `AcceptedWasSent`. The check compares counts
and looks for missing ids, never two artifacts. As many parts as ids that cover all
ids are a surjection between sets of one size, hence injective (`CountsSuffice`).
*Skill sync*: `SyncInv` is `Versioned` (a process that copies or writes has the
version it was asked for checked out), `Locked` (while a process works the lock file
exists, and only one works), `Progress` (what is no longer in `todo` is installed,
but for what the user touched since) and `Noticed` (a managed file with the user's
text is in `modified` or in `late`). Only a process that works alone can say of the
installed files what `InstalledAsOneVersion` says when its metadata is written.
`EditsAreSaved` is proved of each step from `Noticed`. `LockNeverForgotten` needs
that a lock file is a working process's or counted among the stops. *Desktop sync*: `DeskInv`
says which runs have a target and that two ticks never overlap; the start-up sync
has no such guard, so nothing is claimed of the files. *Composition*: a step of one
part leaves the others as they are, so each part's theorem is one about `MCServices`, and so about `MCDesktop`.

**SessionsProofs.** `SInv` adds to `OneBranchPerSession` and `PrsAreLinked` that a
call has what its await needs (`CallsFit`), that the worktree of a row, deleted or
not, is a name that git gives to nobody else (`TreesAreUsed`), that live rows have
different sessions (`SessionsAreUnique`, the unique index), and that the bound on
rows leaves room for those of the calls under way (`RoomIsKept`).

**WorkspacesProofs.** *Local sites*: `SitesInv` says of a repository whose calls did
not overlap (`crossed` is the history of overlaps) that one call works on it
(`Alone`), that its row says what DDEV was last told (`Knows`), and that a row
without a call fits its project (`Truthful`), also after git, DDEV or `rm` failed; `StatusIsTrue` is the last one without the
calls. *Processes*: `ProcessInv` adds to `ServersAreTracked` that an entry is a
process that was spawned (`EntriesFit`, `Named`), an exit event is about a process
that is gone and a stop about one that was told to end (`ExitsFit`, `StopsFit`).
*Set-up*: `SetupInv` adds to `SavedIsUsed` what a save under way is about to write
(`Intended`, unless it overlapped another), and that it brings along the values of
the keys that were saved before (`Carried`), both up to the blanks that a launch trims. `SavesFit` says that for the key of a
save under way nothing counts as saved: `SavedIsUsed` fails without it. *Environments, login,
drift*: type correctness. *Composition*: as for `MCServices`.

**Only model-checked.** Liveness and ENABLED are outside the prover's reach:
`SettlesUnlessStranded`, `ChangesAreHandled`, `PinsPropagateAlone`,
`EventsGoOut`, `WorkIsTracked`, `StatusShown`, `CallsEnd`, `LoginsEnd`.
Every invariant and every action property of a passing run is proved. Of the
properties of the violation runs six are false of the program and have no theorem;
the seventh, `DecisionAuthorizesOnce`, is proved for a clock that is not set back.

## 6. What is left out, and why

- All modules: synchronous code takes no time; wording, logging and telemetry
  are dropped; retries inside one request are part of it.
- Handoff: the contents of snapshot and keys; `pollHandoffStatus`, which
  `executeHandoff` does not call (`HandoffVerification` has the receiving side).
- RuntimeAction: routing between local and remote execution, which does not
  change the authorization; tokens of several tenants (a foreign token does not
  "fit"). Work lost by a crash after the action and before its event is
  modelled, but no property of the code can exclude it.
- ManagedTooling: backup rotation, the order of JSON keys, the count of
  consecutive failures (only logged), the repair of an unreadable registry (its
  result only supplies installation dates and counts to the next one),
  the versions of the skills themselves, the project path's dependence on the
  working directory. An edit made between read and rename is overwritten by the
  code; the model has it, and the properties set such runs apart (`disturbed`).
  What `SuccessInstalls` does not claim, against FR-017 and FR-019, is under
  "Behaviour worth knowing".
- Skill sync: the command line's arguments and the parsing of the distribution
  config; the repository's URL does not change; a file is one value.
- ControlPlaneQueues: the lengths of delays and back-offs.
- Sessions: one repository and one mission; the site panel, which formats rows.
- Recon: creation writes one directory; launch, poll and cancellation are not
  reached from the pages, so neither they nor the pages are modelled; files that
  the scanner skips.
- Environments: the activity log (append-only), project discovery, the Probo
  detector, the user's identity (cached once).
- LocalSites: the runtime detector and the Docker client only look.
- ServerProcesses: `cleanupOrphans` and the binary updater have no caller, nor
  have the writers of Claude Code's configuration. Process ids are not reused.
- ReconSetup: the wizard's third step, since the second cannot be passed; a
  keychain that fails to answer at a launch. Login: a callback's denial while
  the opener is awaited ends the sidecar, which is the loss of `serves`.
- Host and UI: the tray, the updater's shell, rendering, and the phases of the
  onboarding page, which only order calls of parts modelled here; its
  `startAll` is in `ServerProcesses`.
- MCP governance: `enforceGovernance` and `createMcpMiddleware` have no caller in
  `apps/`, decide without state, and the config poller caches one value.
- Detectors and collectors, tool wrappers, telemetry, updater channel: stateless
  or fire-and-forget, so their order does not matter.
