# NemoClaw in TLA+

NemoClaw sets up and operates sandboxed agents (OpenClaw, Hermes and others) on
an OpenShell gateway. The host side is a command-line program, `nemoclaw`: every
command is a short-lived process, several may run at once, any of them may be
killed, and all of them share a directory of state files. What is hard to get
right is therefore not in one function but between processes: who may write a
file, what a killed process leaves behind, and what the next one makes of it.

This project models that part: the onboarding session and its state machine, the
runs that drive it, the locks that protect the session, the registry and each
sandbox, the shields window that a detached timer has to close, the exclusion of
baseline policy entries, and the journal by which a sandbox is replaced. All paths
below are relative to the repository.

## 1. Inventory

| component | state | operations | interacts through |
|---|---|---|---|
| onboarding session and machine (`src/lib/state/onboard-session.ts`, `src/lib/onboard/machine/{definition,transitions}.ts`, `src/lib/onboard/session-recovery.ts`, `resume-machine-repair.ts`, `resume-repair-policy.ts`, `agent-resume-state.ts`) | `onboard-session.json`: machine snapshot (state, revision, recovery receipt), step marks, last step started and completed, failure, status, resumable, agent | create, mark a step started / complete / skipped / failed, transition, complete, finalize after an interruption, recover on `--resume`, clear agent-scoped state | file replaced by rename; read by every run |
| onboarding runs (`src/lib/onboard.ts`, `session-bootstrap.ts`, `exit-step-failure.ts`, `cancel-rollback.ts`, `machine/{runner,runtime,sequence-runner,prerequisite-repair,*-flow-phases}.ts`) | flow context (session as last seen, agent, forced selection), slice, pending results | prepare, arm the exit backstop, enter a slice or repair its prerequisites, run a phase handler, apply its results, finish, unwind, back out | onboard lock; session file; signals; exit listeners |
| phase handlers (`machine/handlers/*.ts`) | – | reuse or redo preflight, gateway, provider selection + inference, sandbox, agent set-up, policies; finalise; verify | step marks; results returned to the runner |
| onboard lock (`acquireOnboardLock` … `releaseOnboardLock`) | `onboard.lock`: an inode with a pid and a start time | create exclusively, read and judge an existing file, stat + unlink a stale one, write, release | file system; process table |
| sandbox registry lock (`src/lib/state/registry/lock.ts`) | `sandboxes.json.lock/` and its `owner` file | mkdir, stat, read owner, classify, re-check, break, publish owner, release, clean up | file system; process table |
| sandbox registry (`src/lib/state/registry.ts`, `registry/persistence.ts`, `registry-reversible-removal.ts`) | `sandboxes.json`: entries, default sandbox | register, update, remove, restore a removal, choose a default, reserve a route | registry lock |
| config file I/O (`src/lib/state/config-io.ts`) | – | read, write temporary + rename | – |
| MCP lifecycle lock (`src/lib/state/mcp-lifecycle-lock-*.ts`) | per sandbox: main record, reaper gate, deadline fence, containment; the shields timer marker | acquire, reap a dead owner's record, fence a deadline, contain, release | hard links and renames; process table; shields |
| shields (`src/lib/shields/`) | live policy, configuration lock, state file, timer marker, transition file | up, down with its roll-backs, detached timer, inline recovery | MCP lifecycle lock; detached timer process |
| baseline exclusion (`src/lib/policy/index.ts`, `src/lib/state/registry.ts`) | recorded exclusion and pending transition in the registry row; the live policy | exclude, restore, reconcile a pending transition | registry; OpenShell; shields windows; rebuild |
| sandbox replacement (`src/lib/onboard/sandbox-recreate-transaction.ts`, `src/lib/actions/sandbox/rebuild-*.ts`, `machine/handlers/sandbox.ts`) | journal in the session's checkpoint, registry row, the live sandbox | begin, plan recovery, delete, create, record, register, complete, clear | session; registry; OpenShell; onboard lock |
| other sandbox actions (`src/lib/actions/sandbox/`) | – | connect, destroy, snapshot … | OpenShell, registry, both locks |
| inference, messaging, tunnel, voice gateway (`src/lib/{inference,messaging,tunnel,voice-gateway}/`), policy presets | provider, channel and preset configuration | set up, probe, render | external services |
| OpenClaw plugin (`nemoclaw/src`), in-sandbox scripts (`scripts/`), agents and images (`agents/`) | – | – | run inside the sandbox |

Hard behaviours, each listed with its line in `PROJECT.json` under `hazards`:

* a kill between a step mark and the transition that belongs to it, and recovery
  that has to deduce the entry point from what is left;
* an exit listener that writes the session after the lock was released;
* a handler's result that arrives after somebody else moved the machine;
* an agent change that resets work behind the machine's position;
* lock files that exist before their content does; stat-then-unlink; pids, inode
  numbers and modification times that come around again; two processes cleaning
  up the same debris; an age limit that a live holder may exceed;
* a lock whose dead owner may have left a sandbox half weakened, so that freeing it
  is not always right; a record that is renamed away after it was judged, when it may
  be somebody else's by then;
* a timer that wakes when its window is long closed and the next one open; a window
  whose opening, closing or restoring is killed between two of its writes;
* a call that reports failure and took effect all the same; a baseline that changes
  between the user's consent and the repair;
* deletion by name, of a source, and of a creation that failed; a row that is the only
  record of a sandbox while it is gone; a rerun that is another kind of run.

What makes each component correct:

* session and runs: a complete session has done its work and stays complete; the
  machine moves along its graph; recovery enters before what is unfinished; a
  user who goes on resuming gets there;
* onboard lock: at most one holder, whose file stays in place; no debris blocks
  onboarding for good;
* registry lock: no update that was saved is lost; the owner file names the
  holder; no debris wedges the registry;
* MCP lifecycle lock: whoever runs an operation owns the main record; a sandbox whose
  operation died inside a shields window stays closed until an operator has looked;
  nobody waits for ever;
* shields: a relaxed policy is always covered by a marker and a state file that says
  so; `UP` means hardened; a timer ends only its own window; a window that is over ends;
* baseline exclusion: what is recorded as excluded is not in the live policy; a
  transition that was cut short can be settled;
* sandbox replacement: a command deletes the journaled source and what it has itself
  created; the source's row is kept until the replacement is registered; a rerun settles
  the journal.

## 2. Modules

| module | models | status |
|---|---|---|
| `OnboardFsm` | the session record and every pure function on it | checked, proved about |
| `Onboard` | processes that run onboarding; EXTENDS `OnboardFsm`; the lock is abstract | checked, proved about |
| `OnboardProofs` | theorems about `Onboard`: types, the lock, how the machine may move | proved |
| `OnboardWorkProofs` | theorems about `Onboard`: what a run has behind it, and recovery; EXTENDS `OnboardProofs` | proved |
| `OnboardLock` | the lock file, one system call per step | checked, proved about |
| `OnboardLockProofs` | theorems about `OnboardLock` | proved |
| `RegistryLock` | the registry lock around a load-modify-save, one system call per step | checked, proved about |
| `RegistryLockProofs` | theorems about `RegistryLock` | proved |
| `LifecycleLock` | what the sandbox mutation lock promises, without files | abstract specification |
| `McpLifecycleLock` | the four lock files of a sandbox, one file-system call per step with two exceptions | checked, proved about; implements `LifecycleLock` (section 4) |
| `McpLifecycleLockProofs` | theorems about `McpLifecycleLock` | proved |
| `Shields` | the shields window of one sandbox, one durable write per step | checked, proved about |
| `ShieldsProofs` | theorems about `Shields` | proved |
| `BaselineExclusion` | exclusion and restoration of one baseline entry, with its journal | checked, proved about |
| `BaselineExclusionProofs` | theorems about `BaselineExclusion` | proved |
| `Recreate` | the replacement journal and the commands that work through it | checked, proved about |
| `RecreateProofs` | theorems about `Recreate` | proved |
| `MC_*` | instances for TLC: symmetry sets where pids, inodes, versions and timers are interchangeable | – |

Definitions keep the names of the functions they translate
(`markStepComplete`, `applySessionRecovery`, `classifyExistingLock`, …);
`PROJECT.json` maps each one to its lines. Operators under a comment
`Mutant:` are deliberate errors used to test that a property can fail; no
specification uses them.

### OnboardFsm and Onboard

`session` is the parsed session file; timestamps, configuration values and error
texts are left out, since no decision modelled here depends on them. `NoSession`
is a missing file. `updateSession` (load, mutate, rename) is one step: it
contains no `await`, and a rename is atomic; two processes could interleave
inside it only where the exit backstop runs without the lock, and there the
window is a single synchronous function.

`pc[p]` says where `onboard()` is: `locked` (lock taken), `prepared` (session
written), `armed` (exit backstop registered), `slice` (about to enter a flow
slice), `phase` (before a handler's next step), `working` (a step is marked in
progress), `apply` (results handed to the runner), `check` (a repaired
prerequisite's result is only validated), `done`, and `unwinding`: an exception or
`process.exit(1)` has released the lock and the exit listener is still to run.
`run[p]` is the flow context; `seen` is the session object it holds, refreshed
only by the calls that return one, so that decisions are taken on stale data
where the code takes them on stale data.

A handler either reuses recorded work (`ReusePhase`, with the handler's own
condition in `MayReuse`) or starts its step and completes it. Whether recorded
work is really still usable is an external fact, a free choice wherever the code
probes it. Provider selection and inference are one handler whose results,
retries included, are returned together and applied one by one.

A slice whose durable state lies behind its first phase re-runs the earlier
phases as repairs: their step marks are written, their results only validated
(`CheckRepair`), and the machine stays where it is.

Disruptions: an error or exit in a handler, a refused configuration, a failed
agent set-up, a cancelled policy prompt that rolls the sandbox back and clears the
session, a pause of verification, SIGINT/SIGTERM (the deferred handler records the
failure under the lock and re-raises: one step), and a kill.

### OnboardLock

`path` is the inode that the lock file's name leads to, `content` what is in each
inode, `fd` the descriptor each process holds. Every `openSync`, read, `statSync`,
`unlinkSync` and `writeSync` is a step of its own, except that
`readLockFileSnapshot` reads content, inode and age of one open file, and is one.
A payload remembers whether its writer has ended since (`gone`), which is what the
comparison of start times finds out; the one second of slack of that comparison
and hosts without `/proc` are left out. `ReuseInodes` says whether the file system
may hand out an inode number that some process still remembers.

### RegistryLock

A `version` stands for the (inode, mtime) pair that `stillSameLock` compares; every
change of the directory's entries gives it a new one. The recursive removals are one
step. `registry` counts the updates of each process that `sandboxes.json` contains,
`saved` those that `save()` returned from.

### LifecycleLock and McpLifecycleLock

`file` holds the owner record at each of the four paths (main, reaper gate, deadline
fence, containment): a token, the owner, and the takeover token of the shields window
that was in force when it was written (`bound`). `aside` holds the records that a reclaim has
renamed into quarantine and not deleted or put back. `marker` is the shields timer marker.
A hard link publishes a record and a rename claims one. Every existence test, read,
link, rename and unlink is a step, in a reclaim by a reaper as in the release of the main
record, which reads its token and then reclaims (`ReleaseMain`). Two sequences are one step,
because what another process can do in between does not change the outcome: the release of the
reaper gate and of the fence (`Release`; nobody else renames or removes the record of a live process
there), and the publication of containment (`Contain`, `mcp-lifecycle-lock-acquisition.ts:178-189`:
an existence test, the marker for the text of the record, and a link that fails where one is
there). A release that loses its record to a reclaim can rename that of a newer owner; it
then puts it back, as the code does. `pc` names follow the functions: `acq_*` and
`pre_*` are the gates before the link, `post_*` the same gates looked at again after
it, `reap_*` the reaper gate, `claim`/`claimed`/`restore` the rename of a stale record,
its verification and its return, `drop_*` and `end_*` a release, `fence_*`, `cr_*`, `cm_*`
and `pub_*` the deadline fence of a recovery. The synchronous twins of these functions have
the same steps.

`LifecycleLock` says what callers count on: one operation at a time, begun under the
window in force; a death inside a window, or a restore that fails for good, condemns
the sandbox; only an operator lifts that. The refinement maps the holder to the process
at `op`, `bound` to the `bound` of the main record, the window and its expiry to the
marker, and `condemned` to `unsafe`, a history variable that is set where an operation
ends without proof that what it started has stopped. `ImplementsLock` therefore says
that no interleaving of reapers, fences and containment lets a command into a sandbox
that has to stay closed, and that the record a later process judges by is always the
holder's. It is checked for three processes, and proved for any number of them in the runs
that avoid two races (section 4). With five processes one of them, the finding of section 6,
is a step that `LifecycleLock` does not allow.

### Shields

`policy` and `config` are the sandbox; `sfile`, `marker`, `trans` the files. Labels
`d_*` are `shields down`, `b_*` its roll-back, `u_*` `shields up`; `rpc[r]` is a
recovery, by the timer of window `r` or inline (`0`). The lifecycle lock stands for
what `McpLifecycleLock` shows of it: one holder, commands kept out past the deadline,
a dead holder reclaimed when no window covered it and contained otherwise. Init is a
sandbox never locked or one in lockdown. With `OpenClaw` a roll-back first tries to give
a sandbox that had no lockdown its mutable default again; other agents are locked at once.

The code learns of a `policy set --wait` only its exit status. A push of `shields down` that
reports failure may have taken effect (`index.ts:3918-3924`): the model then calls the policy
`stray`, so that it is told from one whose push was confirmed (`permissive`); `stray` may
be captured as the next window's snapshot. The pushes that put a policy back are ambiguous
in the same way. Removing the marker or a transition file is best effort in the code, and
fails at every place in the model where the code goes on regardless (`TryDropMarker`,
`TryClearTrans`).

### BaselineExclusion

One key of one sandbox. Digests stand for the contents of the entry in the release's
baseline, in the live policy and in the record. A command shows the entry, asks,
reconciles what an earlier one left, decides, journals, pushes, reads back, and commits
or clears. The environment installs releases, changes the live policy (`drifted`), opens
and closes shields windows, rebuilds. A push may report failure after it took effect.

### Recreate

`row`, `live` and `journal` outlive a command; `cmd` is the one that runs, since the
onboard lock admits one. Generations, live identities and row fingerprints are tokens;
a fresh one differs from every one that something refers to. `Plan` is
`planSandboxRecreateRecovery`, read at the moment the code reads it. `rebuild` runs the
inner onboarding in the same journal; when that throws, it puts back the row it started
from in the cases where the code does (`snap`). `Edit` is any other command that writes
the row while no replacement runs.

A creation that fails may leave a sandbox, or is followed by a delete by name: at once, when
the sandbox does not become ready or its dashboard cannot be reached (`Undo`,
`sandbox-gpu-create-run-attempt.ts:385`, `dashboard.ts:244`, `hermes-dashboard.ts:221`), or
before a second attempt without the GPU (`Fallback`, `sandbox-gpu-create-attempt.ts:169`).
`cmd.made` and `cmd.taken` are history variables: the sandbox that the command has created,
and whether somebody else took the name after the command's last look (`Foreign`).

`Start("fresh")` is an onboard that begins a new session; a rerun that finds the session in
progress is `Start("resume")`, with or without the flag (`entry-options.ts:119`).

## 3. Runs

| run | instance | shows |
|---|---|---|
| `onboard_recovery` | 1 process, 3 runs that are not plain resumes, 2 disruptions, 1 retry, 2 agents | `TypeOK`, `CompleteMeansDone`, `RecoveryEntersBeforeUnfinishedWork`, `CompletedStaysCompleted`, `ResumeConverges` |
| `onboard_overlap` | 2 processes, 2 runs, 2 disruptions, 1 retry, 2 agents | `CompleteMeansDone`, `CompleteIsClosed`, `ReceiptDescribesSnapshot`, `MachineMovesLegally` |
| `onboard_lock` | 2 processes, 3 inodes, 3 attempts, 1 fault, 1 slow write | `TypeOK`, `MutualExclusion`, `HolderKeepsFile`, `DebrisNeverBlocks` |
| `registry_lock` | 2 processes with 2 updates each, 3 versions, 2 attempts, 1 fault, 1 slow update | `TypeOK`, `NoLostUpdate`, `OwnerFileNamesHolder`, `EveryUpdateGetsThrough` |
| `mcp_lock` | 3 processes, 7 tokens, 2 windows, 2 crashes, 1 timeout, 1 failed restore | `TypeOK`, `HolderOwnsMain`, `FailClosed`, `ReaperSparesHolder`, `ImplementsLock` |
| `mcp_lock_liveness` | 3 processes, 7 tokens, 1 window, 1 crash | `NobodyStuck` |
| `shields` | 2 windows, 2 restore attempts, 3 faults, OpenClaw | `TypeOK`, `NoUntrackedWindow`, `UpIsHardened`, `OnlyOwnWindow`, `DeadlineHonoured`, `ExpiredWindowEnds` |
| `baseline_exclusion` | 2 digests, 3 faults, 3 changes by others | `TypeOK`, `ExcludedStaysOut`, `RepairConverges` |
| `recreate` | 3 commands, 7 tokens, 4 faults | `TypeOK`, `DeletesOnlyItsOwn`, `SourceRecordKept`, `ClearedMeansRegistered`, `RerunSettles` |
| `recreate_rerun` | rebuild only, 1 fault | a counterexample to `RerunContinuesCreation`, section 6 |
| `recreate_fresh_rerun` | a new onboard and resumes, 1 fault | a counterexample to `RerunContinuesReplacement`, section 6 |
| `mcp_lock_displaced` | 5 processes, 10 tokens, no window, no crash or failure | a counterexample to `Serialized`, section 6 |

Why the bounds are enough. A session is interrupted at one point, resumed, and
interrupted again during the repairs of the resume: two disruptions reach every pair
of such points; three runs allow a first run, an agent change and a change back;
plain resumes (same agent, nobody else alive) are not counted at all, so a session
can always be carried on. Two processes suffice for an exit listener that meets
another run; onboarding itself is serial under the lock. In the two file locks the
safety properties speak of the states before a fault (`Undisturbed`), where two
processes that try again reach a holder, a waiter that judges it and the next holder,
and the theorems hold for any number; the liveness properties speak of what follows a
fault. The inode and version sets are large enough that a fresh one always exists (a
process remembers at most one besides the linked one). The code's retry budgets (5 and
120) are scaled to 2 or 3, where a budget runs out within the run; the theorems hold for
every budget.

For the lifecycle lock a process is one command, so three processes are a dead owner, a
reaper that dies or is overtaken, and a third that meets what both left; seven tokens
are what four files and three observations can name. A process that has ended is dead to
the others, so stale records need no crash. Three commands do not reach everything: the race
in which only the look at the gates after the link keeps a reaper from an entering command
takes four, and the releases and reclaims that displace a record five. Those are the
business of the theorems, which hold for any number, and of `mcp_lock_displaced`. The
liveness run has no timeouts (`MaxLate = 0`): nobody needs one to get on. Processes are
interchangeable, so one of them stands for all in `NobodyStuck`. Two shields windows are an old
timer and a new window; three faults allow a failure, a failed roll-back and a kill or
reboot. In `baseline_exclusion` three changes are a release, a foreign change and a
window around one transition. In `recreate` four faults let two runs of one transaction
stop and the world change twice between them; commands themselves are not counted.

CHECK_DEADLOCK is off where the system really stops: the user of `Onboard` has finished,
the updates of `RegistryLock` are done, every process of `McpLifecycleLock` has run its
one command, no window is left to open in `Shields`, and there is nothing left to
exclude in `BaselineExclusion` when the release has dropped the entry.

Fairness. `WF(Proceed(p))`: a live process is scheduled. Disruptions have none.
`Onboard` adds weak fairness of a plain resume: `ResumeConverges` is a statement
about a user who follows the printed advice to run `onboard --resume`. The lock
modules add weak fairness of `Start` (the command is tried again) and of `Age` (time
passes). The properties are conditional on nothing else, except
`EveryUpdateGetsThrough`: commands whose owner write fails clean up by path, can
remove each other's directory and thereby make each other's owner write fail, so it
assumes that such clean-ups come to an end. `McpLifecycleLock` needs only that each
process is scheduled and each operation ends; no command is ever repeated.
`Shields!RetrySpec` adds that timers wake at their deadline, that the user tries again,
and that the operator does what the containment error asks for. `BaselineExclusion` and
`Recreate` add strong fairness of a rerun of the command that the journal names, which
is what the error texts and docs tell the user to do; strong, because other commands of
the same user may disable it again and again. A fresh onboard, which discards the
journal, gets no fairness.

Limits of what the runs say:

* `CompleteMeansDone` leaves out the sandbox step. Reuse of a sandbox is decided by
  the checkpoint and the machine's position (`checkpointProvesSandboxStepComplete`),
  not by the step's mark, so a session may complete with a sandbox step that is not
  marked complete (for instance after an agent change reset it).
* `RecoveryEntersBeforeUnfinishedWork` is checked for one process (section 4 has more). With two, an exit
  listener of an earlier run can fail a step of the run now under way, which goes on
  to mark later steps before its result is refused; the recorded failure is erased by
  those marks (section 7), and recovery follows the later one. `CompleteMeansDone`
  holds there all the same, because the slices repair their prerequisites.
* `NoUntrackedWindow`, `UpIsHardened`, `ExpiredWindowEnds`, `RepairConverges`,
  `DeletesOnlyItsOwn` and `RerunSettles` name their exceptions in their definitions; each
  exception is a state that the code really reaches, listed in section 6 or 7.
* `MutualExclusion`, `HolderKeepsFile` and `NoLostUpdate` speak of the states before the first
  fault. What two cleaners of the same debris can do to each other after a crash
  (`onboard-session.ts:1116`, `registry/lock.ts:153`) is outside them, and known (section 7).
* `NobodyStuck` says nothing of an acquisition that times out while it publishes containment
  (`mcp-lifecycle-lock-acquisition.ts:169`); `FailClosed` is checked with one.

## 4. Theorems

All are checked by TLAPS for every value of the constants.

`OnboardProofs` shows, for any set of processes and agents and any bounds:
`TypeCorrect`, `ReceiptCorrect`, `CompleteClosed`, `MovesLegally`, `StaysCompleted`.
The inductive invariant `IndInv` has these parts and reasons:

* `TypeOK` with `WorkInHand`: typing needs that a process that works has a step to
  mark and one that applies has a result to apply;
* `LockHeld`: whoever is between acquisition and release is the holder, so only one
  process at a time can move the machine deliberately;
* `CompleteIsQuiet`: nobody is in a handler while the session is complete, so no
  step mark can reopen it. It is kept because the only way to `complete` is a result
  applied by the lock holder, who then is `done`, and because the exit listener leaves
  terminal sessions alone;
* `CompleteIsClosed` and `ReceiptDescribesSnapshot` themselves.

The proof goes once through the actions for types (`NextTyped`), once for the lock
(`NextLockHeld`), and once to sort every step into the kinds of session change it can make
(`NextSessionStep`); the remaining invariants and both action properties are read off
those kinds. `OnboardFsm`'s functions have their own lemmas (what they preserve of the
snapshot, and that they yield sessions).

`OnboardWorkProofs` shows `CompleteMeansDone` for any number of overlapping processes
(`CompleteDone`). Nothing in the session file itself implies it: the machine's position says
nothing about step marks, and marks are written by runs that may have been failed, crashed or
resumed with another agent. What implies it is that every run goes through the three slices
from the first and repairs what lies before its entry. `WorkInv` adds to `IndInv`

* `OnCourse`: a run starts with the first slice and stays within the phases of its slice;
* `ResultsInOrder`: only the last result of a handler leads out of it, the results before it
  are the back and forth between provider selection and inference;
* `WorkSound`: the steps behind the phase a run is at (`Behind`, `DoneSoFar`) are recorded
  complete, the session carries the run's own agent, and the session object in the flow context
  claims no reusable step that the file has lost (`SeenHolds`, which is what the reuse of
  preflight and provider selection relies on). The way out is a session that an exit listener
  failed under the run; it stays failed (`StaysFailed`), and then no result applies any more.

The proof splits a step into somebody else's, who can only fail the session (`OthersStep`,
from `LockHeld`), and the run's own, with one case per action (`SoundStep`).

`RecoveryEntersRight` shows `RecoveryEntersBeforeUnfinishedWork` for any number of processes
as long as no exit listener fires while another run is under way (`LateListener`): its
hypothesis is `[][~LateListener]_vars`, the only behaviours that are left out. That they have
to be left out is the observation on `onboard-session.ts:1406` in section 7; TLC finds the
counterexample with two processes. `RecoveryEntersRightAlone` is the case of one process at a
time, in which a late listener cannot happen. The invariant `RecoveryInv` adds that nothing
before the step started last is unfinished (`InStartOrder`, kept by `StartPhase` because of
`WorkSound`), and that a failed session names that step and has nobody at work on it
(`FailedIsRecorded`).

`OnboardLockProofs` shows `TypeOK` without any hypothesis, and `MutualExclusion` and
`HolderKeepsFile` for any number of processes, inodes, attempts and faults, if no inode
number that somebody remembers is reused (`~ReuseInodes`). Both properties hold
until the first crash or failing write, or write that takes 30 s (`Undisturbed`).
`DisturbanceCounts` says that a fault is never forgotten, so that a state before any
fault was reached without one. The invariant `LockInv` says that the linked file belongs to exactly one owner who has it
open, that a judged payload that is still linked names a live holder, and that a lock
found stale is no longer the linked one (`StaleIsGone`), so that the stat before the
unlink always fails.

The restriction is necessary. With a crash there is debris, and two cleaners that have
both passed the stat can unlink in turn, the second one the lock that the first has
made meanwhile. The comment at `src/lib/state/onboard-session.ts:1106-1115` says so
("a sufficiently unlucky race can still slip through").

`RecreateProofs` shows `TypeOK`, `DeletesOnlyItsOwn`, `SourceRecordKept` and
`ClearedMeansRegistered` for any set of commands, any number of identities (at least
seven, so that a fresh one exists) and any number of faults. None of them is inductive.
`IndInv` adds what a command may rely on at each place: until the replacement is
registered, what a failing rebuild would put back is the row that is there (`SnapIsRow`);
between the opening and `record` the journal does not name a replacement (`JournalAt`); the
sandbox about to be deleted is the source, or in a clean-up the one the command has made,
unless another has taken the name, and the one about to be recorded is not the source
(`SourceAt`); past the registration the row is the replacement's (`TargetAt`). There is one
lemma per action; steps that end a command need only the types.

`BaselineExclusionProofs` shows `TypeOK` and `ExcludedStaysOut` for any contents and any
bounds. The invariant adds that a command's journal is its own (`OwnJournal`), that what its
last look at the live policy showed still holds where it writes the record by it (`Looked`),
that `again` tells whether there was an exclusion (`Remembers`), and that what an open window
will put back agrees with the record of the time it was opened (`WindowSound`).

`RegistryLockProofs` shows `TypeOK`, `NoLostUpdate` and `OwnerFileNamesHolder` without any
hypothesis on the constants. The last two hold until the first crash or failing call, or
until a holder stalls for the 10 s after which its lock is broken by design (`Undisturbed`,
with the same argument as above). The invariant `RegistryInv` says
that one process at most claims the lock, that the directory exists exactly while it does,
and that its entries are those the claimant has made so far (`SingleClaimant`, `DirIsClaimed`,
`Entries`); that an owner read under a version that is still the directory's is the one that
is there now, and that whoever judged a lock stale will find it changed (`SnapshotsTrue`), so
that nobody is at a removal (`NothingStale`); and that what the claimant has loaded is what
the file contains (`LoadedIsCurrent`), which is what makes its save lose nothing. The
restriction is needed: after a crash two waiters can break in turn, and a holder that
stalls is overtaken; either loses an update.

`ShieldsProofs` shows `TypeOK`, `NoUntrackedWindow`, `UpIsHardened` and the action property
`OnlyOwnWindow` for any number of windows, faults and restore attempts, without further
hypotheses. `ShieldsInv` adds `Exclusion` (at most one command or recovery is past the
lifecycle lock), `CommandKnows` and `RecoveryKnows` (what the policy, the configuration and
the files are at each place of `shields down`, its roll-back, `shields up` and a recovery),
and `AttemptsCounted` (a recovery that retries has attempts left). No snapshot is of a
confirmed relaxation (`Snapshots`), so that no roll-back or restore brings one about. The two
properties about
files are parts of it: each write of a command is covered by the ones it made before, so a
kill at any place leaves them true.

`McpLifecycleLockProofs` shows `TypeOK` and `HolderOwnsMain`, and that two operations run
at once only while a record lies in quarantine (`SerializedUnlessAside`), for any finite set
of processes and any number of windows, crashes, timeouts and failing restores. `Supply` says
that the set of tokens is infinite: they are random UUIDs, and with fewer a process could
find none that is fresh. TLC runs with as many as can be in use. The invariant `LockInv`
holds whatever a release renames. It consists of

* `Types`: `TypeOK`, what a process will return to after a shared routine (`Returns`), and
  that the quarantine is finite, so that a fresh token exists;
* `ReaperHeld`, `FenceHeld`: whoever is past the link of the reaper gate or of the deadline
  fence still owns it;
* `FenceOrReaper`: each of the two looks at the other after linking its own, so a fence
  holder past that look and a reaper past its own are never there together;
* `Observed`, `Judged`, `Mine`: a reaper has read the record it judges and its owner has
  ended, and a release deletes only what its own process published, so that no other record
  is deleted;
* `Owned`: a process that has linked its record finds it at the main path or in quarantine
  until it takes it away itself.

`Owned`, kept by `Judged` and `Mine`, is `HolderOwnsMain`.

`ReaperSparesHolder` does not hold of every run: a release that has lost its record to a
reclaim may rename that of a newer owner and put it back later, under the eyes of a reaper
that has judged another one. `ReaperSparesHolderCorrect` is about the runs in which every
release that has renamed has its own record in its hands (`OwnRelease`). `SparingInv` is
`LockInv` with `Upright`, that nobody is about to put back what a release renamed, and
`Spared`: where a reaper faces the record of a process that has passed its last look at the
reaper gate, that is the record it has read; so an owner that lives and linked later has
still to look at the gate. `Protocol` is common to both invariants, and there is one lemma per
kind of step for either.

The last part of the module shows `FailClosed` and `ImplementsLock`, the refinement of
`LifecycleLock`. Neither holds of every run: two races undo them, and the theorems are about
the runs in which those do not happen, for any number of processes, windows, crashes,
timeouts and failing restores.

* `Undisplaced`: `OwnRelease`, and no record lies in quarantine whose owner may still enter.
  This is the finding of section 6.
* `Relies` is the step of section 7 by which a failing restore releases its record while the
  publisher of the containment it counts on may still take that back. It does happen with
  three processes, where a fourth is missing to do harm.

`FailInv` says that a condemned sandbox is protected by a containment record whose publisher
is past taking it back (`Settled`) or by the main record of a dead process that a window
covers (`DeadCovered`), and that no command is past its look at containment (`Condemned`).
The rest keeps that so. `ReadsIt` and `SparedIt` say that a reaper at work has read the very
record that is there, when that record protects the sandbox or an operation; with `Claims`,
that what it renames is bound to no window and no window is open, it never renames either.
`ContainedOwns` says that only the publisher takes containment back; `Bounds` and `Windows`,
which the refinement needs besides, that a record carries the window its owner saw, and that
a recovery's window is over and never opened again. The proof sorts the steps into a few
kinds (`Travels`, `Publishes`, `Rewrites`, the end of an operation, the environment) and
shows for each kind that it keeps `FailInv` and that it is a step of `LifecycleLock` or none.

Only model-checked:

* liveness, which is out of the prover's reach;
* what `OwnRelease`, `Undisplaced` and `Relies` leave out: there `ReaperSparesHolder`,
  `FailClosed` and `ImplementsLock` are false for enough processes, and the run shows them
  for three.

## 5. Assumptions about the environment

`rename`, `link`, `mkdir`, `unlink` and `open("wx")` are atomic; a process's descriptor
keeps its inode from being reused; nobody but NemoClaw writes these files; clocks are
good enough to tell an age of 10 s or 30 s; random tokens do not repeat; start identities
tell a process from a later one with its pid (where the lifecycle lock compares them).

## 6. Where the docs and the code disagree

`mcp_lock_displaced`: the comment of `withMcpLifecycleLock`
(`src/lib/state/mcp-lifecycle-lock-acquisition.ts:1697`) says that it "Serializes the complete
MCP lifecycle for one sandbox across processes", and `docs/reference/commands.mdx:1361` that
mutations "serialize per sandbox". A reclaim renames whatever is at the main path
(`src/lib/state/mcp-lifecycle-lock-storage.ts:220`). It may take the record of an owner that
linked after the judgement; the comment there foresees it, and the record is linked back
unless the path is taken, in which case it stays in quarantine "for diagnosis". The displaced
owner does not learn of it: after its link it looks at the three gates and the marker
(`mcp-lifecycle-lock-acquisition.ts:526`), not at the main record. If it is slow, and the
reaper gate is gone when it looks, it enters beside the owner of the new record. TLC needs
five commands; none dies, since a command that has ended counts as a dead owner
to one that read its record before. The theorem `SerializedUnlessAside` says that this is
the only way.

`recreate_rerun`: `docs/manage-sandboxes/recover-rebuild-sandboxes.mdx:268` says that a
rerun of a rebuild "continues creation when the recorded OpenShell gateway explicitly
reports the source sandbox as absent". `confirmDeleted`
(`src/lib/actions/sandbox/rebuild-recreate-journal.ts:207`) advances the journal to
`deleted` whatever its phase, and the destroy phase calls it on every rerun; once the
journal is at `creating`, the advance throws "cannot move backward"
(`src/lib/onboard/sandbox-recreate-transaction.ts:409`). A rebuild that stopped while it
created the replacement is refused by each rerun. `RerunSettles` holds with this state
as a named exception.

`recreate_fresh_rerun`: `docs/reference/commands.mdx:361` says of an onboard that printed
`Journaled replacement` to "rerun the original onboarding command with the same target
settings. The replacement can continue without an explicit `--resume` flag", and line 742 that
"a later same-target onboarding run continues the active replacement". The rerun finds the
session in progress and is a resumed run (`src/lib/onboard/entry-options.ts:119`). Its sandbox
handler begins the transaction with a fingerprint of its own
(`src/lib/onboard/machine/handlers/sandbox.ts:1479`); that of the journal is of the object
`{version: 1, ...intent}` (`src/lib/onboard/onboard-recreate-journal.ts:41`), so
`assertSameTransaction` (`src/lib/onboard/sandbox-recreate-transaction.ts:307`) refuses it. The
branch that continues an active journal (`onboard-recreate-journal.ts:94-102`) is in the model
(`OpenFresh`), but no command reaches it: the tests that show it working
(`onboard-recreate-journal.test.ts:229`, `:253`, `:277`) call it themselves. A rerun whose
session is recorded as failed, or one with `--fresh`, starts a new session and drops the
journal. `RerunSettles` has the state as a named exception.

## 7. Observations

States and behaviours met while modelling. Each is in the model; none contradicts a
property as it is stated.

* The exit backstop fails the step started last, which may be complete
  (`src/lib/onboard/exit-step-failure.ts:37`); recovery then repeats it.
* A step mark that is written after an interruption was recorded erases the recorded
  failure (`src/lib/state/onboard-session.ts:1406`, `:1412`); the handler's result is
  then refused as an invalid transition.
* A process that has the pid of a crashed run takes the dead lock for its own
  (`src/lib/state/onboard-session.ts:978`).
* An inode number may be the same for a new file (`src/lib/state/onboard-session.ts:1122`);
  with `ReuseInodes = TRUE` `MutualExclusion` fails.
* The re-check and the removal of a stale registry lock are separate calls
  (`src/lib/state/registry/lock.ts:153`); after a crash two waiters may break in turn, and
  an update is lost.
* A push of `shields down` that reports failure and took effect is not undone: the command
  records UP and drops the marker, and the relaxed policy stays in force with nothing to end
  it (`src/lib/shields/index.ts:3924-3969`). The comment there says "Nothing was weakened:
  configuration is still locked and the restrictive policy is unchanged", which is so when
  OpenShell rejects the policy. `src/lib/policy/index.ts:1556` treats the same failure as
  ambiguous. `NoUntrackedWindow` and `UpIsHardened` leave this policy (`stray`) out.
* A sandbox that never was in lockdown is recorded as UP when OpenShell refuses its
  window (`src/lib/shields/index.ts:3935`); `UpIsHardened` allows the mutable default there.
* A window whose opening was killed before the handover is contained again by each recovery
  (`src/lib/shields/index.ts:346-410`; `OpeningCut`).
* A marker can outlive its window for good (`Stranded`). It does when the opening is killed
  before the state file says DOWN, and when a restore or a `shields up` is killed, or cannot
  remove the marker, after the state file says UP (`src/lib/shields/timer.ts:488-508`,
  `src/lib/shields/index.ts:3601-3617`, `:4372-4385`). From its deadline on the marker keeps
  every command out, `shields up` included
  (`src/lib/state/mcp-lifecycle-lock-acquisition.ts:508`), and no recovery takes it up, since
  the state is not DOWN (`src/lib/shields/index.ts:1020`). The sandbox is hardened, and locked
  until somebody removes the file by hand. `ExpiredWindowEnds` names this kind and the one
  before.
* An exclusion recorded inside a shields window is undone in the live policy when the
  window closes; a pending restore whose target a release has changed is never repaired.
* A replacement that stops between the creation of the sandbox and its registration is
  refused by every plan until a fresh onboard starts over; so is one whose source row was
  edited after the journal was opened, and one whose rebuild put the old row back after
  registering the new one.
* The proof handed to the backup selection is computed before the journal advances to
  `deleted` (`src/lib/onboard/sandbox-recreate-transaction.ts:692`), so a run that finds
  the source already absent refuses a pre-upgrade backup once.
* The intents of rebuild, resume and fresh journals differ, so `onboard --resume` does not
  continue a rebuild's journal.
* `FailClosed` needs a bound on failures. With four processes and two failing restores: a
  timer that gives up publishes containment and pauses before it checks that it still has
  authority; a command's failing restore finds the containment and relies on it; the holder of
  the fence restores and closes the window; the timer finds its authority gone and takes the
  containment back (`src/lib/state/mcp-lifecycle-lock-acquisition.ts:169`). In the code the
  pause is inside one synchronous function.
* A record that a reclaim puts back after its owner was turned away at the gates has no
  owner that will release it; everybody, that owner included, waits for a live process until
  its acquisition times out (30 minutes, `mcp-lifecycle-lock-acquisition.ts:40`). It takes
  four commands.
* Deletion is by name: a sandbox that appears between the look and the delete is deleted,
  and so is one that takes the name before a failed creation is cleaned up
  (`src/lib/onboard/sandbox-gpu-create-run-attempt.ts:385`); `cmd.taken` marks these cases.
* A release reads its token and then renames what is at the path
  (`src/lib/state/mcp-lifecycle-lock-storage.ts:186`). With five commands that can be a newer
  owner's record, which is out of its place until it is put back, or stays in quarantine.

## 8. Not modelled

* Onboarding: checkpoints, damaged session files, the event stream, rebuild flows that
  enter with the lock already held.
* Onboarding, writes that the code makes one after the other and the model in one step:
  `clearSession` and `saveSession` of a new run (`src/lib/onboard/session-bootstrap.ts:285-286`),
  the two session updates of agent set-up (`machine/handlers/agent-setup.ts:64-104`) and those
  of an agent selection (`runtime-control-flow.ts:115-125`). An error between handlers
  (`agent-setup.ts:78`, `src/lib/onboard.ts:4100-4107`, `:4281`) is modelled as a signal or a
  kill there, not as an exception.
* Onboard lock: close, unlink and exit after a failed write are one step; the release by pid
  alone (`src/lib/state/onboard-session.ts:1182-1199`) is left out.
* Lifecycle lock: corrupt records and records of another host or pid namespace, which are
  only waited for or contained.
* Shields: windows without a timer, the lease of a rebuild, `clearShieldsState`, the
  transition lock's internals, policy composition, seals and drift, a corrupt state file.
* Baseline exclusion: a push whose child outlives the command, a rebuild inside a window.
* Replacement: image retirement, gateway selection and authority, backup contents, several
  sandboxes that share one session. The last session writes of a run
  (`machine/handlers/sandbox.ts:1645-1661`, `:1755-1810`) are one step.
* Registry: the choice of the default sandbox, reversible removal, route reservations.
* Inference, messaging, policy presets, tunnels, the voice gateway and the remaining
  sandbox actions: sequences of calls to external programs, and data transformation with
  little shared state. Plugin, scripts, agents and images run inside the sandbox.

## 9. Plan

Done: the modules of section 2, their runs, and the theorems of section 4. To come:

1. `Registry`: register, update, remove, reverse a removal, choose the default, under an
   abstract lock that `RegistryLock` implements.
