# waytorandr in TLA+

Specifications of [waytorandr](../src/README.md), a display profile manager for Wayland: the command
line `waytorandr`, the daemon `waytorandrd` and the files they share.  TLC checks the modules on small
instances; TLAPS proves the theorems below for all of them.  Paths without a directory in front are
paths of the repository (`daemon.rs` is `src/bin/waytorandrd/src/daemon.rs`, `write.rs` is
`src/bin/waytorandr/src/commands/write.rs`); `README.md:n` and `TODO.md:n` are the repository's own.

    tlc -workers 2 -config daemon_safety.cfg MCDaemon      # a run: <run>.cfg, module as listed below
    tlapm DaemonProofs.tla                                 # the proofs of a module

1. [Inventory](#1-inventory)  2. [Modules](#2-modules)  3. [How state and actions correspond to the code](#3-how-state-and-actions-correspond-to-the-code)
4. [What is checked](#4-what-is-checked)  5. [What the documentation says and the code does not do](#5-what-the-documentation-says-and-the-code-does-not-do)
6. [What is proved](#6-what-is-proved)  7. [What is left out](#7-what-is-left-out)  8. [Plan](#8-plan)

## 1. Inventory

### Components

| component (code) | state it keeps | operations | what makes it correct |
|---|---|---|---|
| display identity (`core/src/model/identity.rs`) | none | primary key, match score, completion from the cache of known outputs | completion never loses what is known |
| topology and output state (`model.rs`, `planning/normalize.rs`) | none | setup and state fingerprints, comparison, normalisation | the same arrangement compares as the same |
| matcher and planner (`planning/matcher.rs`, `planning/planner.rs`) | none | score a profile, choose the best, plan it for a topology | what is planned and applied compares as in place |
| presets (`planning/planner/presets.rs`) | none | ten layouts computed from a topology, recognising them | as above |
| runtime state (`state.rs`, `workflow/persistence.rs`) | `state.toml`: last profile, lifecycle, remembered layouts by fingerprint, known outputs | record an observation, record the daemon's start | remembered layouts are filed under their own fingerprint; the cache never forgets |
| profile store (`store.rs`, `store/*`) | `waytorandr.json`: profiles, default profile and default layout by fingerprint, built-in output | save, remove, set and clear defaults, queries | a change of one setup leaves the others alone |
| selection (`workflow/selection.rs`) | none | default profile, default layout, best match, remembered layout, in this order | what was made the default is chosen |
| atomic files (`core/src/persistence.rs`) | a file, its lock, temporary files | lock, load, change, write, sync, rename, sync the directory, unlock | no torn file, no lost update, no stuck lock |
| watch loop (`daemon/watch.rs`) | backend, watcher | connect, poll, reconnect, run the policy | every change seen is tried at, and nothing is decided from before it |
| topology policy (`daemon.rs`, `daemon/persistence.rs`) | none between passes | wait for a stable topology, read the files, decide, apply, record, retry | what is recorded is in place; it comes to rest |
| wlroots backend (`wlroots/src/backend.rs`, `backend/protocol.rs`) | connection, serial, last answer; the watcher's baseline | enumerate, validate, apply, poll | what is reported of a plan is what happened to it |
| workflow and engine (`workflow/execution.rs`, `engine.rs`) | none | plan, validate, hooks, apply, read back | hooks run before anything is applied; nothing is applied unverified; what is reported happened |
| hooks (`engine/hooks.rs`) | a child process, its pipe, a deadline | spawn, wait, time out, kill, collect the output | one that hangs does not hold the attempt up |
| commands (`commands/write.rs`, `commands/action.rs`) | none | save, set, set --profile, set auto, remove, cycle | what was saved comes back, what was set is recorded |
| migration (`store/migration.rs`, `store/legacy.rs`) | `profiles.json`, `profiles/**/*.toml`, the old defaults in `state.toml` | rename, merge, unlink, remove directories, add and clear defaults | no profile or default lost, none brought back, repeatable after a death |
| GNOME (`crates/gnome`) | none (Mutter's serial is read anew each time) | read Mutter's state, build a request, verify, apply | one primary; a request made of an old state does nothing |
| KScreen (`crates/kscreen`) | none | read the configuration, build commands, run them | the commands make of that configuration what was planned |
| loader (`backend-loader`) | none | choose a backend by the session and by what answers | falls back in the order of the session |
| read-only store, status and list, service, output, completion, notification, desktop switchers | none | | |

### How they interact

The daemon is one sequential process: the loop polls the watcher every half second; a change is first
written to `state.toml`, then the policy runs to its end.  Every invocation of the command line is a
process of its own.  They share three things and send one another nothing:

* the displays, through the compositor: every look is a new connection, and what one process applies is
  what the other sees at its next look;
* `waytorandr.json` and `state.toml`: readers take no lock; a writer holds an exclusive lock while it
  loads, changes and replaces the file.  No lock spans two files, or a look at the displays and a write.

### Where it is hard

A pass of the daemon and a command are long sequences of reads, decisions and writes, and in between
displays come and go, the compositor cancels what was submitted, other commands edit the store, hooks hang
and processes die; any of them may find files of an earlier version and start to migrate them.  Identities are completed from a cache that grows, so that the *fingerprint* that profiles,
defaults and remembered layouts are filed under depends on when it is computed.  The daemon's own apply
changes what its watcher looks at.  An answer of the compositor may come after the client gave up.
`PROJECT.json` lists every such hazard with its line and the properties about it.

## 2. Modules

    Identity -- Topology -- Matching -- Presets -- StateFile -- ProfilesFile --+-- Daemon   -- MCDaemon
                     |         |          |  |                                 |      \-- DaemonProofs
                     |         |          |  +-- Detection --+-----------------+-- Commands -- MCCommands
                     |         |          |                  |                        \-- CommandsProofs
                     |         +-- Heads -|------------------+-- Planning -- MCPlanning
                     |                    |                          \-- PlanningProofs
                     |                    |                    (Daemon and Commands use Heads too)
                  Timings -- Gnome, KScreen --+
                               Loader, Hooks -+-- Engine -- MCEngine
                                                    \-- EngineProofs
    OperatorProofs: lemmas about the operators of the upper row and Heads, for DaemonProofs,
                    CommandsProofs, EngineProofs and PlanningProofs
    AtomicStore <== FileStore -- FileStoreProofs     Submission -- SubmissionProofs
    Migration -- MCMigration
              \-- MigrationProofs

| module | models |
|---|---|
| `Identity`, `Topology` | identities, output states, fingerprints, comparison, normalisation |
| `Matching` | rules, scores, best matches, the plan of a profile |
| `Presets`, `Detection` | the ten preset planners; recognising a preset or a layout in a topology |
| `StateFile`, `ProfilesFile` | the two files as values, every update as an operator, selection of a target |
| `Heads` | what a submitted plan does to the compositor's heads |
| `Daemon` | watch loop, policy and recording, against an environment |
| `Commands` | every command that changes something, several at once |
| `FileStore` | one file under its lock, with failures, deaths and loss of power; implements `AtomicStore` |
| `AtomicStore` | what the file promises: a set of updates that grows; a loss of power undoes none that was reported |
| `Submission` | `submit_with_retry` and `submit` on one connection |
| `Planning` | profiles and presets set on displays that change connectors and report the same |
| `Timings` | modes and scales as GNOME and KScreen give them, next to those of a topology |
| `Gnome`, `KScreen` | a desktop's state as a topology; a plan as a request to Mutter, or as commands for kscreen-doctor |
| `Loader`, `Hooks` | which backend is used; one hook, its process, its pipe and its descendants |
| `Engine` | one attempt to apply a layout on GNOME or Plasma: connect, plan, validate, hooks, apply, read back |
| `Migration` | several processes that open the store and migrate what earlier versions left |

`Daemon` and `Commands` use the files as variables that are read and replaced in one step.  `FileStore`
justifies that: it implements `AtomicStore`, in which an update is one step and a reader never sees half a
file; `Migration` relies on it too.  `Daemon` and `Commands` use a submission as one step with the outcomes succeeded, failed, cancelled and (it took
effect but the answer did not come) unanswered.  `Submission` justifies the first three for calls that
submit when nothing is outstanding, and shows what happens to others (section 5, `submission_late`).

## 3. How state and actions correspond to the code

`PROJECT.json` maps every definition to its lines.  The abstractions are these.

**Values.**  Connectors and texts of identities are opaque; the texts the code normalises away (empty,
"unknown", ...) are the absent value.  Scale and transform are one opaque value, and the width it gives a
mode is a constant function.  The order of a hash map is a choice of the step that iterates
(`IterationOrders`); names are compared by the constant `Rank`.  The profile list is a set: where the
code takes the first of several that the order of the file decides, any of them may be taken.

**Daemon.**  `pc` is the place in the code, every wait, read, write and submission is an action.

| action | code |
|---|---|
| `Connect`, `ConnectFails`, `RecordStarted` | `watch.rs`, connecting and `record_daemon_started` |
| `PollFails`, `PollUnchanged`, `PollChanged`, `PersistObserved` | `run_watch_step`, `handle_topology_change`; the wlroots watcher |
| `SampleFails`, `SampleAgain`, `SampleDone` | `wait_for_stable_topology` |
| `ReadState`, `ReadSettings`, `ReadFails`, `DecideToApply`, `DecideFails`, `DecideToRemember` | `maybe_apply_matching_profile` with its three unlocked reads |
| `ValidateAccepted`, `HooksSucceed`, `ApplySucceeds`, `ApplyUnanswered`, `ApplyFails`, `TopologyChanged`, `Snapshot`, `SnapshotFails` | `apply_plan`, `engine.rs`, the backend, `finish_applied_topology` |
| `Record`, `RecordLifecycle`, `RecordFails` | `daemon/persistence.rs`: two updates |
| `Hotplug`, `CompositorExits`, `CompositorStarts`, `Crash`, `EditStore` | the environment; systemd restarts the daemon |

The deadline of a wait is a choice: a sample may be taken as good at any time.  A sample reads the
displays and the cache in one step.  The compositor cancels a configuration only when the displays changed
after the sample, and may refuse any.  A sample, a read, a snapshot after an
apply and a write of the outcome may fail at any time, whether or not the watcher's own connection lives: each
sample opens a connection of its own and reads `state.toml` (`workflow/topology.rs:15-16`), and the policy's error is only
logged (`watch.rs:154`).  A failing write outside of the policy ends the daemon, which is a `Crash`.
The ghosts `epoch`, `sampledAt`, `triedAt` and `baselineAt` number the changes
from outside, so that a property can say "unless the displays changed since".

**Commands.**  `Program(c)` is the sequence of steps command `c` takes, `run[p].todo` what is left of it,
and each step is an action named for it (`Look`, `ReadContext`, `Plan`, `Apply`, `StoreProfile`, ...).
`ReadLayouts` is `is_implicit_default_for_setup`, which may put further steps in front.  `Fails` ends a
command before any step: an error, a refused submission or a signal.  The ghost `quiet` says that nobody
else has changed anything since the command started.

**FileStore.**  A file's content is the set of updates it contains.  `visible` is the file a process
opens, `entries` are the files the directory may name after a loss of power; both differ between the
rename and the sync of the directory.  A temporary file is named by process and write, and stays when
the process dies.

**Submission.**  A roundtrip delivers everything sent, and the client keeps the last answer only; so only
the last undelivered one is kept (`inbox`).  The compositor answers when it likes; the ghost `late` holds the
calls that submitted while an answer to an earlier configuration was still to come.

**Planning.**  A display is a model value; `Reports` says what it reports of itself on a connector, and two
that report the same are twins.  `Replug` puts displays on other connectors and wherever the compositor likes;
`Save`, `SetProfile` and `SetPreset` are the planners between a look at the displays and `Heads!Configure`.
Nothing comes between the steps of one command: that is what `Commands` is about.  The ghost `owners` says
which display each entry of the profile was made of.

**Engine.**  `pc` is the place in `apply_plan_cycle` and `Engine::apply_plan`; a phase of hooks runs `left` more of
them, one `Hooks` after the other.  `read` is the state the backend has read and works on; a display may change
between that and the request (`MonitorsChange`, `OutputsChange`).  A request to Mutter carries the serial of what was read; a
command for kscreen-doctor says what differs from it.  Of GNOME's and KScreen's values the order of monitors and
modes is kept, refresh rates are numbers that round, scales are percentages.  `DesktopSilent` is every error that
ends the attempt with `Err`; `Failed` is every one that becomes a failed `ApplyResult` and runs the failure hooks.

| action | code |
|---|---|
| `Connect` | `connect_backend` with `PRODUCTION_BACKENDS` |
| `MakePlan`, `NoPlan`, `ValidateUnsupported` | `workflow/execution.rs`, `Engine::validate_plan` |
| `ReadMutter`, `VerifyAccepted`, `VerifyRefused`, `SubmitAccepted`, `SubmitRefused`, `SubmitUnanswered` | `submit_plan_request`, once to verify and once to apply |
| `ReadKScreen`, `NothingToRun`, `RunCommands`, `CommandsFail` | `KScreenBackend::apply_plan` |
| `StartHook`, `SuperviseHook`, `FinishHook`, `PreHooksDone`, `LaterHooksDone` | `run_hooks`, `execute_hook`, the phases of `Engine::apply_plan` |
| `HookProceeds` | the hook's processes: they write, start others, exit, keep the pipe or close it |

Mutter and kscreen-doctor are external.  `Gnome!Acceptable` and `Current` say that Mutter refuses a request without exactly
one primary or with an old serial, and may refuse any; `KScreen!Doctored` that kscreen-doctor carries out its arguments
in order, and changes nothing when it fails.

**Migration.**  Every process that opens the store goes through the three migrations and then does what it
is for (`Tasks`).  Each look at the disk, rename, unlink and locked update is an action; between them the others go on.
`Dies` is a death or a system call that fails: what was done stays done.  A profile is its name, its setup
and a layout; the ghosts `old`, `asked` and `chosen` say what the earlier version left and what users did since.

## 4. What is checked

| run | instance | properties |
|---|---|---|
| `daemon_safety` | panel and one port; docked, undocked, docked with the lid shut and an unknown monitor; three stores; 2 changes, 1 edit, 1 crash | `TypeOK`, `RememberedSound`, `PolicyFollowsChange`, `AppliedLayoutHolds`, `NextPassAgrees`, `KnownNeverForgets` |
| `daemon_quiet` | monitor only, panel only, panel dark; a blank default, a default that cannot be planned; 2 changes, 1 crash | `EventuallyQuiet` |
| `filestore` | 2 processes, 3 updates, 2 deaths or losses of power | `TypeOK`, `NeverTorn`, `SavedStays`, `AtomicUpdates`, `UpdatesEnd` |
| `submission` | 3 attempts, 2 roundtrips, 3 calls, 3 changes; answers at any time or never | `TypeOK`, `SuccessIsReal`, `FailureIsReal`, `AtMostOnce`, `CallsReturn` |
| `commands_together` | 2 processes, 2 commands out of 7, 1 change | `TypeOK`, `AppliedIsRecorded`, `ImplicitDefaultIsOnly`, `OthersUntouched` |
| `commands_sequence` | 2 commands out of 9 one after the other, 2 changes, displays that report less than is known of them | `SavedComesBack`, `DefaultIsFollowed` |
| `commands_cycle` | any number of `cycle`, 1 other command, 1 change | `CycleReachesAll` |
| `planning` | panel and two ports for four monitors, two of them twins, one without a serial number, all plugged in or one twin or both monitors missing; 1 profile, 1 change of cables, 4 presets in any order | `GreedyFindsMatching`, `SetRestores`, `SetSettles`, `PresetRecognised` |
| `engine` | panel, monitor, beamer; 5 sessions, 5 states of Mutter, 3 of KScreen; 5 presets and 2 profiles with 2 pre-apply and 1 later hook; 1 change | `TypeOK`, `OnePrimary`, `AppliedMatchesPlan`, `ChangesAreGated`, `FailureChangesNothing`, `AttemptEnds` |
| `migration` | 2 processes, 3 starts, 1 death; 5 tasks; 2 TOML files (one in a directory), old stores and defaults, also conflicting ones | `TypeOK`, `NothingLost`, `UsersHaveTheLastWord`, `DefaultsKept`, `FailsOnlyForCause`, `RunsEnd` |

What they show:

* `RememberedSound`, `KnownNeverForgets`: whatever is completed from the cache and whenever the daemon
  dies, a remembered layout lights a display and is filed under its own fingerprint, and the cache only
  grows.
* `PolicyFollowsChange`: no failure, retry, reconnection or crash lets the daemon return to polling before it has
  at least tried to sample the displays after the change it saw (`triedAt`), and no pass goes on with a sample
  older than that (`sampledAt`).  It does not say that every change is handled: one whose sample fails is
  skipped (section 5), and the property says that this is the only way.
* `AppliedLayoutHolds`: what a pass records is in place, unless the displays changed after its sample.
  This ties the comparison that skips an apply to what the compositor does with a plan.
* `NextPassAgrees`: another pass, reading what this one wrote, chooses a layout that is in place: passes
  do not undo one another, although each changes the state the next decides from.
* `EventuallyQuiet`: it does not react to itself for ever, and no pass hangs.
* `NeverTorn`, `SavedStays`, `AtomicUpdates`, `UpdatesEnd`: the file is a sequence of atomic updates; a
  process that dies with the lock holds nobody up.
* `SuccessIsReal`, `FailureIsReal`, `AtMostOnce`, `CallsReturn`: what is reported of a call is what happens to
  it, now or later, and it takes effect at most once, however often it is retried, unless an answer was
  outstanding when it submitted; every call ends.  So a call that gave up spoils only the calls that
  submit before its answer is there.
* `AppliedIsRecorded`, `ImplicitDefaultIsOnly`, `OthersUntouched`: a command nobody disturbs records what
  it applied under its name, makes a profile the default by the documented rule, and touches no other setup.
* `SavedComesBack`, `DefaultIsFollowed`: after a command reported success, the profile is found under its
  name (`SavedIsFound`) and planning it gives the saved arrangement; what was made the default is what `set auto`
  chooses (`DefaultIsChosen`) and is in place.  The fingerprints these are filed under were computed from several looks
  at the displays and the cache.
* `CycleReachesAll`: the position is recomputed from a stored name each time, and still every target comes up.
* `GreedyFindsMatching`: the rules, in the order of a hash map and each taking what it likes best, find a
  match exactly when there is one, if no entry of the profile fits a display of another kind (`Unambiguous`) and
  of twins saved some lit and some off none is missing (`NoneMissing`).  `SetRestores`: with the first condition
  alone each display gets back what one like it was saved with, twins among themselves and no two the same.  `SetSettles`: setting the profile once more
  changes nothing, or, with twins, for the last time.  `PresetRecognised`: `status` names what was set.
* `AppliedMatchesPlan`: what is reported as applied is in place: on GNOME whatever happened before, as the serial
  guards the request; on Plasma if nobody changed the outputs between reading and running.  `OnePrimary`: no
  request lacks a primary monitor or has a display twice.  `FailureChangesNothing`: "failed" means that nothing was
  done; a lost answer is an error instead.
* `ChangesAreGated`, `AttemptEnds`: the order of the engine, whatever hooks do.  A hook
  cannot hold the attempt up by hanging or by filling its pipe, only by leaving a process that keeps the pipe open.
* `NothingLost`, `UsersHaveTheLastWord`, `DefaultsKept`: whoever migrates at once and wherever one dies, each
  profile of an earlier version is in the store or still in its file, unless users replaced or removed it, and then
  no later migration brings it back; the same for defaults.  `FailsOnlyForCause`: a death leaves nothing
  that a later migration, alone, stumbles over.

**Bounds.**  Two displays are enough for every relation the code looks at (internal or external, first or
second, known or unknown, on or off), except for rules that compete for displays of one kind: `planning` has three
of them, and `engine` three for a mirror beside a third display.
Two changes give every "change during a pass" and the change back; a third would repeat one of them from a
state the first two reach.  One crash at any step meets every half-written record.  `MaxRetries` is 2
instead of 5 and `Roundtrips` 2 instead of 5: enough for a retry that is the last and one that is not;
the theorems hold for any value.  In `commands_together` two commands run at any interleaving of their
steps; each pair of kinds meets.  `commands_sequence` starts from a cache that knows both displays, so that
a display that reports less is completed.  In `planning` modes are 4 and 1 wide, so that a column is centred
on half a pixel; one profile saved in any state and one change of cables give every pair of a state it was saved in
and a state it is set in.  In `engine` a pipe that takes one write and one descendant are enough to block on either;
two pre-apply hooks give a failure before and after a success.  In `migration` two processes meet at any
two steps, and the third start finds what both left; one death at any step meets every half-done migration.

**Fairness.**  `Daemon`: `WF_vars(DaemonStep)`, as it is a running process that waits for nothing but time;
nothing is assumed of the environment, not even that a lost compositor returns.  `FileStore`: each process that has begun
an update goes on, and the lock is given to a process that waits.  Weak fairness is enough, as an update is
begun once and so the others run out of theirs; nobody has to begin one.
`Submission`: roundtrips are answered, so the client goes on; that the compositor answers *configurations*
is assumed nowhere.
`Engine`: `WF_vars(Attempt)`, the attempt goes on: each call to the desktop answers or fails and a hook's time runs
out; nothing is assumed of the hook's processes.  `Migration`: each process that runs is scheduled.  `CycleReachesAll` assumes no fairness but says: if cycling
succeeds for ever.

`CHECK_DEADLOCK FALSE` stands where the system really stops: all updates are done, all bounded commands
were run.  The runs of `Daemon` check for deadlock.

## 5. What the documentation says and the code does not do

Each of these runs checks one sentence, and TLC shows a behaviour of the code that contradicts it.

| run | sentence | what happens |
|---|---|---|
| `submission_late` | wlroots `backend.rs:246`, "applied successfully" | a late answer to the previous configuration is taken for this one's (`protocol.rs:250`) |
| `engine_stale` | gnome `backend/tests.rs:346-349`, a refusal whose text says "serial is stale" is a change of the topology | the text looked at is the context the call adds, never Mutter's answer: it is reported as rejected, and not retried (`backend.rs:180`) |

The models follow the code in these points too, where the documentation says otherwise; no run is spent on
them:

* README.md:219-221: hooks that time out are killed as a process group, and time-outs are clamped.
  `timeout_hook_result` kills the child alone (`Hooks!TimesOut` leaves `strays` and `holders`), and `execute_hook`
  uses the time-out as it is; their output is piped, not discarded.
* README.md:203-206: the policy tries a remembered layout when the setup changes.  Seeing the change
  overwrites what is remembered with the displays as they are then (`Daemon!PersistObserved`, `watch.rs:127`).
* TODO.md:9: no daemon path applies a blank layout.  The default `off` without a panel does (`daemon.rs:378`).
* README.md:130-136: only the only profile of a setup becomes its default.  Two first profiles saved at once both
  do, as each looks before the other is there (`Commands!ReadLayouts`, `write.rs:122`); `ImplicitDefaultIsOnly` is
  about commands that nobody disturbs.
* README.md:134-135: `set --profile vertical` applies the saved one.  One of that name that was saved under
  an identity not yet complete is a second profile, and may be found first (`store/write.rs:86`); `SavedComesBack` is
  checked where the cache knows every display before the first command.
* README.md:209-211 and 104: nothing skips an automatic apply on connector-only identity
  (`Daemon!DecideToApply`, `Commands!Select`); TODO.md:9, README.md:120 and 121: nothing refuses a blank layout
  in `set` or `save` either.
* README.md:201-203: there is no fallback for a blank topology of internal panels (`Daemon!DecideToRemember`).
* README.md:203-206: when the setup changes, the policy tries the layouts in their order.  If it fails, it is not tried
  again for this change: the watcher has taken the new setup as its baseline before (`wlroots/src/backend.rs:105`),
  and the error is only logged (`watch.rs:154`).  So one sample that fails, with the compositor alive, leaves the
  displays as they are until the set of displays changes again (`Daemon!SampleFails`).
* A display that goes and comes back between two polls is not handled, and one that comes while a pass runs is
  handled by the next poll (`Daemon!PollUnchanged`).
* With two profiles of one name in a setup `cycle` does not get past the second
  (`Commands!NextIndex`); `CycleReachesAll` is checked where names are unique.

What the models show and no documentation speaks of:

* A rule without a serial number fits any display that is now on its connector and does not contradict it.
  It may take the display another rule needs, and then the profile does not match, or does for one order of the hash map
  only; even a rule for a display that was off does so.  `Planning!Unambiguous` leaves these cases out.
* Of two twins, one saved lit and one off, one comes back alone: whether the profile matches, and whether the display
  is lit or turned off, depends on which rule the hash map yields first (`planning/matcher.rs:79`).  If the rule of the one that
  was off takes the display, the rule of the lit one, which is required, finds none.
  `Planning!NoneMissing` leaves this out.
* Of two twins, one lit and one off, saved while both were at the origin, setting the profile may light the one and
  setting it again the other (`SetSettles`); twins that others have swapped are left swapped, as the hint is compared
  with where displays are now.
* GNOME: a display that mirrors, or lies where another does with the same size, takes the scale and turn of the first
  of its group, and a scale the mode does not offer is replaced by the nearest.
* Migration: processes that start together may fail with "no such file" (`outcome = "raced"`, only if not alone);
  a reader between the two looks of `load_profiles_file` and a rename finds no profiles; a default that was
  removed with its profile while another process migrated is added again; of a TOML file whose layout the store has
  already, hooks and priority are dropped.
* KScreen: scale 10 is written as "1" (`format_scale` trims zeros of whole numbers); the checked scales do not meet it.

## 6. What is proved

| theorem (module) | for |
|---|---|
| `TypeCorrect`, `RememberedLayoutsSound`, `IdentitiesNeverForgotten`, `ChangesAreFollowed`, `RecordedLayoutHolds`, `PassesAgree` (`DaemonProofs`) | any displays, stores, modes, retries, bounds |
| `FileTypeCorrect`, `FileNeverTorn`, `SavedUpdatesStay`, `FileIsAtomic` (`FileStoreProofs`) | any processes, updates, number of crashes |
| `SubmissionTypeCorrect`, `SuccessesAreReal`, `FailuresAreReal`, `EffectsAreSingle` (`SubmissionProofs`) | any attempts, roundtrips, calls, changes |
| `TypesHold`, `RecordedIsApplied`, `SavedProfileIsFound`, `SavedProfileComesBack`, `ChosenDefault`, `DefaultIsInPlace`, `OnlyProfileIsDefault`, `OthersStayUntouched` (`CommandsProofs`) | any displays, stores, states, command lines, processes |
| `ChangesAreAlwaysGated`, `FailuresChangeNothing`, `RequestsNameOnePrimary` (`EngineProofs`) | any desktops, environments, plans, numbers of hooks, pipes |
| `MatchIsFound`, `ProfilesAreRestored` (`PlanningProofs`) | any displays, cablings, places, presets, numbers of replugs |
| `MigrationTypeCorrect`, `MigrationLosesNothing`, `LastWordIsUsers`, `MigrationKeepsDefaults`, `MigrationFailsOnlyForCause` (`MigrationProofs`) | any old files, stores and defaults, tasks, processes, deaths |

The bounds are any natural numbers.

The assumptions are the named `ASSUME`s of the modules, which say what the constants are; TLC evaluates them
in every run.  Those that say more than a type: a compositor reports topologies, each display under its own connector,
and wlroots no mirrors (`SetupsAssumption`, `EnvironmentAssumption`); there are finitely many connectors
(`SetupsAssumption` and the three that follow) and stored profiles (`EnvironmentAssumption`, `EngineAssumption`,
`PlanningAssumption`); a display reports the same on every
connector, but for the connector itself and a description that may name it (`ReportsAssumption`: it is the same on
all connectors or different on each); scale and transform are one value and its two parts
(`EngineAssumption`); no value that stands for "absent" is also a value (`NoValueAssumption` and the like).

* **Daemon.**  `OperatorProofs` proves what the operators on topologies, states and stores return, that
  completion loses nothing that is known and changes no arrangement, and which displays a plan names.  `TypeOK` is
  inductive with these.  `RememberedSound` is inductive: the only writer is `UpdateObserved`, which files
  the *completed* topology under its own fingerprint.  `PolicyFollowsChange` is inductive with the types,
  which say that an attempt at a sample is as new as the last that succeeded: so a pass, at whichever place it ends,
  hands on to the watch loop what its sample gave it.  `AppliedLayoutHolds` needs `ArrangedInv`: from the sample to the decision the snapshot is
  arranged as the displays are unless they changed; after the apply, or when the plan was found in place,
  the displays hold the plan; and the displays never mirror, since a plan with a mirror is not submitted.
  `PassesAgree` needs `PassInv` too: what a pass has read of the state is what is stored until it records its outcome,
  what it has read of the store stays so until somebody edits it, its plan is one it could choose from these
  (`Chosen`), and what it records are the displays as it saw them, or those configured by the plan (`Applied`).  So
  the next pass sees the same displays under the same fingerprint (`AfterPass`), reads the same profiles, perhaps in
  another order (`PassReread`), and chooses the same again (`SelectAgain`): a profile, which scores the same and goes to
  the same displays (`SameScore`, `SameMatch`); a built-in layout, planned once more for its own outcome
  (`AnyPresetAgain`); or what is remembered, which is now the layout the pass recorded (`OwnLayoutStays`), or what it
  was if that was blank.  Its hypotheses are those of `DefaultIsInPlace`, below: rules and entries, of the
  remembered layout too, tell the displays apart, the setup has one profile of a name, and the pass learned of no
  display what the profiles lack.  In every state of `daemon_safety` to which `NextPassAgrees` applies they are true,
  after applied and skipped plans of profiles, built-in layouts and remembered ones.
* **Commands.**  A command is a list of steps that grows while it runs, so `TypeInv` says of the list, besides the types
  of what is held, what `Control` says: which steps may still come, in which order, and that what needs the cache of
  known outputs has read it just before; and that no later step of the program was skipped (`Complete`).  `AloneInv`
  says of a command nobody disturbed what it knows at each of these steps: its looks at the displays and the files are
  current (`Current`), what was applied is in place, and recorded once that step is taken (`Effected`), the decision to
  make a profile the default is the documented one (`Decided`), what was saved is filed under the current
  fingerprint (`Filed`), and the defaults are as it decided (`Settled`).  Every action of another process
  that changes something ends the quiet; the command's own do not move what it has read.  The central lemmas are
  in `OperatorProofs`: identities that were completed are not completed further, so neither what the command applies nor
  what it records changes the fingerprint of the setup it sees; and a profile made of a topology is found again
  under the fingerprint of that topology, in whatever order the hash map of its rules is gone through
  (`SavedFingerprint`, `FiledAgain`).  `SavedProfileComesBack` adds that planning it gives the saved arrangement: if no
  rule or entry fits two displays and no display two of them (`Distinguished`), the matcher's result does not depend on
  the order (`DistinctMatch`), and a profile made of displays matches them, each with its own entry (`OwnMatch`).  Its
  hypothesis `Unmistakable` says this of the profiles of the setup, and that no two of them have one name: displays
  without a serial number may be twins, and two profiles of one name, saved before and after a display told its
  identity, are in one setup once it is known.
  It is true after every save in the states of `commands_sequence`.
  `DefaultIsInPlace` needs a third invariant, `PlannedInv`: a command that is told what to apply holds a plan of just that
  for the displays as they were before it applied it, made with the settings there are.  What applying a plan makes of the
  displays is an `Outcome` (`ConfiguredOutcome`); every built-in layout, planned again for an outcome of its own, is the
  layout there is (`PresetAgain`: the same displays are lit, rows and columns add up the modes now set, and what is
  largest or shared is so still); and a profile matched again, with its rules in any order, goes to the same displays
  (`SameMatch`).  Besides `Unmistakable` it supposes that no display became known while a profile was being set
  (`NothingLearned`), because the profile is then read with more identities filled in than when it was planned; in
  `commands_together` this happens and does no harm, and in other states of that run the hypotheses are all true.
* **Engine.**  `EngineInv` says that hooks run only in a phase that has hooks left, that an attempt past validation was
  accepted or forced, that one past the pre-apply hooks has had all of them succeed, and that the displays are
  touched only on the way to a success or an error.  `ChangesAreGated` and `FailureChangesNothing` follow, whatever a
  hook's processes do.  `OnePrimary` needs of the state only that the plan is a layout (`PlanInv`); the rest is about
  the operators that build the request: the list of a group contains each of its members once, and the groups are taken
  in a total order, which is shown by counting that every place in a finite total order is taken; so the
  primary output is in exactly one group.
* **Migration.**  `ControlInv` is `TypeOK` with `Procedure` (what a process holds at each step: only between
  the lock and the unlock what it loaded is what is stored, and what it merged is in the store before it
  unlinks) and `JsonFirst`.  Each step is then one of a few effects on the files, the store and the legacy defaults
  (`StepEffect`), and the invariants are proved of these: `NothingLost` with `UnlinkedIsStored` and
  `NothingInvented`; `UsersHaveTheLastWord` with `AskedLast`, since a process does what users ask only when it has found no
  old file left (`FilesInv`); `DefaultsKept` with what a process carries between reading the old defaults and clearing
  them (`Carries`); `FailsOnlyForCause` with `AloneInv`: what a process that is alone has listed is still there.
* **Planning.**  `PlanningInv` says that the topology is what the cabling reports, and the profile is what its owners
  reported, with a rule for each real output.  The matcher is a recursion over the rules in the order of
  a hash map; it is unfolded into its steps (`InSteps`) and followed by induction on the number of rules taken.  If
  entries and outputs fall into classes, of which all fit one another and nothing else (`FitInClasses`, which is what
  `Unambiguous` gives), then after each step a class has as many outputs in use as it had rules, or all in use
  (`Served`).  So a required rule finds an output, and an output finds an entry, exactly when the numbers allow it
  (`GreedyMatches`), whatever the order and the preferences.  A matching of any kind gives these numbers
  (`MatchingsAreEnough`).  Whether a display fits its own entry on another connector (`Portable`) is not assumed: where it
  does not, because all that is known of it is the connector, its class is the display on that connector alone.
* **FileStore.**  The invariant says that only the holder is between `load` and `done`, that its temporary
  file is the one of its last write and is whole and synced where the code renames it, and that what it
  loaded is still what is visible.  The refinement maps the file to the set of updates seen and those no
  loss of power undoes; it maps each step to an abstract step or a stutter.
* **Submission.**  Of a call that is not late, `Own` says that the one configuration outstanding or the one
  answer under way is its own, and `Once` that the compositor has at most one configuration of it left, which
  has not taken effect: also after the call gave up, since its answer may still come.  `Ends` and `Reports` tie this to
  the calls that ended.

Only model-checked:

* liveness (`EventuallyQuiet`, `UpdatesEnd`, `CallsReturn`, `CycleReachesAll`, `AttemptEnds`, `RunsEnd`), which is out of
  the prover's reach like `ENABLED` and induction over data;
* `SavedComesBack` and `DefaultIsFollowed` where a profile cannot tell two displays apart, as the theorems suppose that it
  can, and the latter where a display becomes known while a profile is being set;
* `NextPassAgrees` likewise, where displays are not told apart or the pass learned what a profile lacks;
* `SetSettles` and `PresetRecognised`, which are about hints and positions: sums of widths over sequences of displays, and
  centring;
* `Engine!TypeOK`: that rounding and trimming a scale gives a scale is a fact about the values chosen for the run, and
  kscreen-doctor's effect is a fold over its arguments;
* `AppliedMatchesPlan`: it compares the read state with the one built from the request or from the commands, by the
  same fold.

## 7. What is left out

* Setup names, the backend kind and `last_topology_fingerprint`: recorded and printed, never decided from.
* `--dry-run` changes nothing; `--force` matters to backends that cannot validate (`Engine`).
* Hooks in `Daemon` and `Commands`: pre-apply hooks succeed or fail, and the later ones change nothing the
  program reads; what they may do besides is in `Hooks`.  An error of `try_wait` itself is left out.
* Disabled heads report the default placement and their preferred mode; sizes beyond the limits and the
  32-bit sums of positions are not modelled.
* `Daemon` supposes that an answer belongs to its own configuration; `Submission` is about when it does not.
* `get_unique` and `remove_unique` have no caller.
* Parsing: of TOML, JSON, Mutter's D-Bus values and kscreen-doctor's output.  `Migration` leaves out the hooks,
  priority and rules of a profile: two are the same when name, setup and layout are.
* The watchers of GNOME and KScreen compare setup fingerprints as that of wlroots does, which is in `Daemon`.
* Read-only store: the queries of `ProfilesFile` on a file that is never written.
* Status and list, service, output, completion, notification, desktop switchers: they read and print, or hold no
  state.

## 8. Plan

Done, in this order: files (`AtomicStore`, `FileStore`), values and planning, `Daemon`, `Submission`,
`Commands`, their first theorems, then `Gnome`, `KScreen`, `Loader`, `Hooks` and `Engine`, `Migration`,
`Planning`, the theorems about `Migration`, `Engine`, `Commands` and `Planning`, and `PassesAgree`.  Next:

1. `Loader` and `Gnome`: a backend that is chosen answers, a topology that is read is well formed.
2. `Engine!TypeOK`, with an assumption that the scales are closed under rounding.
3. `Commands` and `Daemon` composed over one store, one state and the same displays, in place of
   `EditStore`: `set` while the daemon's pass runs, the daemon not undoing what a user set.
