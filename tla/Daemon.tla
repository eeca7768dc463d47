------------------------------- MODULE Daemon -------------------------------
(***************************************************************************)
(* waytorandrd: the watch loop, the topology policy and the recording of   *)
(* its outcome (bin/waytorandrd/src/daemon.rs and daemon/*.rs), against a  *)
(* wlroots compositor (crates/wlroots/src/backend.rs).                     *)
(*                                                                         *)
(* The daemon is one sequential process.  Every call in which it waits,    *)
(* reads a file or talks to the compositor is an action of its own, and    *)
(* `pc` says which one comes next; around them the displays change, the    *)
(* compositor goes away and comes back, the command line edits the profile *)
(* store, and the daemon crashes and is restarted by systemd.              *)
(*                                                                         *)
(* The ghost variable `epoch` numbers what happens to the displays from    *)
(* outside.  sampledAt and baselineAt are the epochs the daemon's newest   *)
(* sample and the watcher's baseline belong to, triedAt is the epoch of    *)
(* its newest attempt at a sample, failed ones included.                   *)
(***************************************************************************)
EXTENDS ProfilesFile, Heads

CONSTANTS
    MaxRetries,      \* daemon.rs, MAX_RETRIES
    StableSamples,   \* daemon.rs, STABLE_SAMPLES
    NoHooks,         \* the flag --no-hooks
    Setups,          \* what the compositor may report when displays change
    Stores,          \* profile stores the daemon may find at first
    EditPresets,     \* presets users make the default of a setup
    MaxChanges,      \* bound: changes of the displays and losses of the compositor
    MaxEdits,        \* bound: edits of the profile store
    MaxCrashes       \* bound: crashes of the daemon

ASSUME BoundsAssumption ==
    /\ MaxRetries \in Nat \ {0} /\ StableSamples \in Nat \ {0, 1}
    /\ MaxChanges \in Nat /\ MaxEdits \in Nat /\ MaxCrashes \in Nat

ASSUME SetupsAssumption ==
    /\ IsFiniteSet(Connectors)
    /\ \A t \in Setups :
        /\ IsTopology(t) /\ Unmirrored(t)
        /\ \A c \in DOMAIN t : t[c].id.connector = c

ASSUME StoresAssumption ==
    /\ \A s \in Stores :
        /\ IsStore(s)
        /\ \A q \in s.profiles : IsTopology(q.layout) /\ q.rules \in Seq(MatchRule)
    /\ EditPresets \subseteq VirtualPresets

VARIABLES
    hw,          \* the displays as the compositor reports them
    up,          \* the compositor answers new connections
    linked,      \* the daemon's connection and its watcher are alive
    st,          \* state.toml
    ps,          \* waytorandr.json
    pc,          \* what the daemon does next
    baseline,    \* watcher: the setup fingerprint of its last look
    observed,    \* the topology of the last change the watcher reported
    sample,      \* state fingerprint of the last sample, while waiting
    count,       \* consecutive samples that had it
    attempt,     \* passes of the policy that saw the topology change
    snap,        \* the topology the pass works on
    stateRead,   \* the state the pass read
    settings,    \* the settings the pass read
    job,         \* name, hooks and plan of the layout to apply
    reported,    \* the topology to record
    epoch, sampledAt, triedAt, baselineAt,   \* ghosts, see above
    edits, crashes                  \* counts of environment events

displays == <<hw, up, epoch>>
watcher  == <<linked, baseline, baselineAt, observed>>
waiting  == <<sample, count>>
pass     == <<snap, stateRead, settings, job>>
sampling == <<sampledAt, triedAt>>
bounds   == <<edits, crashes>>
vars == <<displays, watcher, st, ps, pc, waiting, attempt, pass, reported, sampling, bounds>>

NoTopology == <<>>
NoJob      == [name |-> NoValue, hooks |-> FALSE, plan |-> NoTopology]

Init ==
    /\ hw \in Setups /\ up = TRUE /\ epoch = 0
    /\ linked = FALSE /\ baseline = NoValue /\ baselineAt = 0 /\ observed = NoTopology
    /\ st = EmptyState /\ ps \in Stores
    /\ pc = "connect" /\ sample = NoValue /\ count = 0 /\ attempt = 0
    /\ snap = NoTopology /\ stateRead = EmptyState /\ settings = EmptyStore /\ job = NoJob
    /\ reported = NoTopology /\ sampledAt = 0 /\ triedAt = 0
    /\ edits = 0 /\ crashes = 0

----------------------------------------------------------------------------
(* Control.  Values a function of the code no longer holds are reset.      *)

ForgetPass == snap' = NoTopology /\ stateRead' = EmptyState /\ settings' = EmptyStore /\ job' = NoJob

(* Enter enforce_topology_policy, or its next pass. *)
StartPass(n) ==
    /\ pc' = "sample" /\ attempt' = n /\ sample' = NoValue /\ count' = 0
    /\ ForgetPass /\ reported' = NoTopology

(* The policy returned; its error is only logged. *)
BackToWatch ==
    /\ pc' = "watch" /\ attempt' = 0 /\ sample' = NoValue /\ count' = 0
    /\ ForgetPass /\ reported' = NoTopology

(* Mutant: one pass too many. *)
RetryPassOnceMore ==
    IF attempt < MaxRetries THEN StartPass(attempt + 1) ELSE BackToWatch

(* DaemonOutcome::TopologyChanged: another full pass, if one is left. *)
RetryPass ==
    IF attempt + 1 < MaxRetries THEN StartPass(attempt + 1) ELSE BackToWatch

----------------------------------------------------------------------------
(* The watch loop. *)

(* Connect, at startup or after the watcher failed: the backend and the    *)
(* watcher, which takes its baseline, each keep a connection.  Until the   *)
(* compositor answers, the daemon keeps trying.                            *)
Connect ==
    /\ pc = "connect" /\ up
    /\ linked' = TRUE
    /\ baseline' = SetupFingerprint(hw) /\ baselineAt' = epoch
    /\ pc' = "started"
    /\ UNCHANGED <<displays, observed, st, ps, waiting, attempt, pass, reported, sampling, bounds>>

ConnectFails == pc = "connect" /\ ~up /\ UNCHANGED vars

RecordStarted ==
    /\ pc = "started"
    /\ st' = RecordDaemonStarted(st)
    /\ StartPass(0)
    /\ UNCHANGED <<displays, watcher, ps, sampling, bounds>>

(* poll_changed on a dead connection: reconnect. *)
PollFails ==
    /\ pc = "watch" /\ ~linked
    /\ pc' = "connect"
    /\ UNCHANGED <<displays, watcher, st, ps, waiting, attempt, pass, reported, sampling, bounds>>

(* poll_changed returns None: the set of displays is the one it saw last. *)
PollUnchanged ==
    /\ pc = "watch" /\ linked
    /\ SetupFingerprint(hw) = baseline
    /\ UNCHANGED vars

(* Mutant: the watcher forgets to take the new setup as its baseline. *)
PollChangedAgain ==
    /\ pc = "watch" /\ linked
    /\ SetupFingerprint(hw) # baseline
    /\ observed' = hw
    /\ pc' = "observe"
    /\ UNCHANGED <<displays, linked, baseline, baselineAt, st, ps, waiting, attempt, pass,
                   reported, sampling, bounds>>

(* poll_changed finds another setup than at its last look. *)
PollChanged ==
    /\ pc = "watch" /\ linked
    /\ SetupFingerprint(hw) # baseline
    /\ baseline' = SetupFingerprint(hw) /\ baselineAt' = epoch
    /\ observed' = hw
    /\ pc' = "observe"
    /\ UNCHANGED <<displays, linked, st, ps, waiting, attempt, pass, reported, sampling, bounds>>

(* handle_topology_change: the topology the watcher saw is written to the  *)
(* state before the policy runs.                                           *)
PersistObserved ==
    /\ pc = "observe"
    /\ st' = UpdateObserved(st, observed, NoValue)
    /\ observed' = NoTopology
    /\ StartPass(0)
    /\ UNCHANGED <<displays, linked, baseline, baselineAt, ps, sampling, bounds>>

----------------------------------------------------------------------------
(* One pass of the policy: wait_for_stable_topology, every sample over a   *)
(* connection of its own ...                                               *)

CurrentSample == NormalizeTopology(hw, st.known)

SampleCount == IF sample = StateFingerprint(CurrentSample) THEN count + 1 ELSE 1

(* The new connection or the read of state.toml fails, be the watcher's    *)
(* connection alive or not.                                                *)
SampleFails ==
    /\ pc = "sample"
    /\ triedAt' = epoch
    /\ BackToWatch
    /\ UNCHANGED <<displays, watcher, st, ps, sampledAt, bounds>>

(* Not enough equal samples yet, and time is left. *)
SampleAgain ==
    /\ pc = "sample" /\ up
    /\ SampleCount < StableSamples
    /\ sample' = StateFingerprint(CurrentSample) /\ count' = SampleCount
    /\ sampledAt' = epoch /\ triedAt' = epoch
    /\ UNCHANGED <<displays, watcher, st, ps, pc, attempt, pass, reported, bounds>>

(* The topology is stable, or the deadline has passed and this sample is   *)
(* as good as any.                                                         *)
SampleDone ==
    /\ pc = "sample" /\ up
    /\ snap' = CurrentSample
    /\ sampledAt' = epoch /\ triedAt' = epoch
    /\ pc' = "state" /\ sample' = NoValue /\ count' = 0
    /\ UNCHANGED <<displays, watcher, st, ps, attempt, stateRead, settings, job, reported, bounds>>

(* ... maybe_apply_matching_profile: three reads, of the state, of the     *)
(* settings and of the profiles, with no lock held across them ...         *)
ReadState ==
    /\ pc = "state"
    /\ stateRead' = st
    /\ pc' = "settings"
    /\ UNCHANGED <<displays, watcher, st, ps, waiting, attempt, snap, settings, job, reported,
                   sampling, bounds>>

ReadSettings ==
    /\ pc = "settings"
    /\ settings' = [ps EXCEPT !.profiles = {}]
    /\ pc' = "profiles"
    /\ UNCHANGED <<displays, watcher, st, ps, waiting, attempt, snap, stateRead, job, reported,
                   sampling, bounds>>

(* Any of the three may fail. *)
ReadFails ==
    /\ pc \in {"state", "settings", "profiles"}
    /\ BackToWatch
    /\ UNCHANGED <<displays, watcher, st, ps, sampling, bounds>>

(* ... and the decision.  What is there already is recorded as it is; a    *)
(* plan goes to the hooks and to the compositor; a target without a plan   *)
(* is an error (ProfileMismatch, InvalidConfiguration).                    *)
Targets(order) ==
    SelectTargets(snap,
                  ProfilesForSetup(ps, SetupFingerprint(snap), stateRead.known, order),
                  settings, stateRead.remembered, order)

HookBearing(target) ==
    target.kind \in {"default", "exact"} /\ target.profile.hooks /\ ~NoHooks

DecideToApply ==
    /\ pc = "profiles"
    /\ \E order \in IterationOrders : \E target \in Targets(order) :
        /\ target.kind # "none"
        /\ \E plan \in PlansFor(target, snap, settings.builtin) :
            /\ job' = [name |-> RecordedName(target), hooks |-> HookBearing(target),
                       plan |-> plan]
            /\ IF PlanMatchesTopology(plan, snap)
               THEN pc' = "record" /\ reported' = snap
               ELSE pc' = "validate" /\ UNCHANGED reported
    /\ UNCHANGED <<displays, watcher, st, ps, waiting, attempt, snap, stateRead, settings,
                   sampling, bounds>>

DecideFails ==
    /\ pc = "profiles"
    /\ \E order \in IterationOrders : \E target \in Targets(order) :
        target.kind # "none" /\ PlansFor(target, snap, settings.builtin) = {}
    /\ BackToWatch
    /\ UNCHANGED <<displays, watcher, st, ps, sampling, bounds>>

(* remember_current_topology: nothing is applied. *)
DecideToRemember ==
    /\ pc = "profiles"
    /\ \E order \in IterationOrders : NoTarget \in Targets(order)
    /\ IF HasEnabledRealOutputs(snap)
       THEN pc' = "record" /\ reported' = snap
       ELSE pc' = "lifecycle" /\ UNCHANGED reported
    /\ UNCHANGED <<displays, watcher, st, ps, waiting, attempt, pass, sampling, bounds>>

----------------------------------------------------------------------------
(* The compositor's answers.  Every submission first catches up with the   *)
(* compositor, so the plan goes to the displays as they are now, whatever  *)
(* they were when it was made.  The compositor cancels a configuration     *)
(* when the displays change under it, and may refuse any.                  *)

Cancelled == linked /\ epoch > sampledAt

ValidateAccepted ==
    /\ pc = "validate" /\ linked
    /\ Submittable(job.plan, hw)
    /\ pc' = IF job.hooks THEN "hooks" ELSE "apply"
    /\ UNCHANGED <<displays, watcher, st, ps, waiting, attempt, pass, reported, sampling, bounds>>

(* The pre-apply hooks run before anything is applied. *)
HooksSucceed ==
    /\ pc = "hooks"
    /\ pc' = "apply"
    /\ UNCHANGED <<displays, watcher, st, ps, waiting, attempt, pass, reported, sampling, bounds>>

(* The compositor refused, a hook failed, or the connection is gone: the   *)
(* policy ends with an error.                                              *)
ApplyFails ==
    /\ pc \in {"validate", "hooks", "apply"}
    /\ BackToWatch
    /\ UNCHANGED <<displays, watcher, st, ps, sampling, bounds>>

(* ConfigFailureKind::TopologyChanged from validation or from the apply. *)
TopologyChanged ==
    /\ pc \in {"validate", "apply"}
    /\ Cancelled
    /\ RetryPass
    /\ UNCHANGED <<displays, watcher, st, ps, sampling, bounds>>

ApplySucceeds ==
    /\ pc = "apply" /\ linked
    /\ Submittable(job.plan, hw)
    /\ hw' = Configure(hw, job.plan)
    /\ pc' = "snapshot"
    /\ UNCHANGED <<up, epoch, watcher, st, ps, waiting, attempt, pass, reported, sampling, bounds>>

(* The plan takes effect, but the answer does not come within the five     *)
(* roundtrips of submit, or the connection breaks before it does.          *)
ApplyUnanswered ==
    /\ pc = "apply" /\ linked
    /\ Submittable(job.plan, hw)
    /\ hw' = Configure(hw, job.plan)
    /\ BackToWatch
    /\ UNCHANGED <<up, epoch, watcher, st, ps, sampling, bounds>>

(* The applied topology is read over a connection of its own, which may    *)
(* fail.                                                                   *)
SnapshotFails ==
    /\ pc = "snapshot"
    /\ BackToWatch
    /\ UNCHANGED <<displays, watcher, st, ps, sampling, bounds>>

(* Mutant: the topology the plan was made for is reported. *)
SnapshotOfThePass ==
    /\ pc = "snapshot" /\ up
    /\ pc' = "record" /\ reported' = snap
    /\ UNCHANGED <<displays, watcher, st, ps, waiting, attempt, pass, sampling, bounds>>

(* finish_applied_topology: a blank result is treated like a change of the *)
(* topology.                                                               *)
Snapshot ==
    /\ pc = "snapshot" /\ up
    /\ IF HasEnabledRealOutputs(hw)
       THEN /\ pc' = "record" /\ reported' = hw
            /\ UNCHANGED <<waiting, attempt, pass>>
       ELSE RetryPass
    /\ UNCHANGED <<displays, watcher, st, ps, sampling, bounds>>

----------------------------------------------------------------------------
(* Recording the outcome: two updates of state.toml.  One that fails after *)
(* the file was replaced is the update followed by the failure of the      *)
(* next, or of nothing.                                                    *)

RecordFails ==
    /\ pc \in {"record", "lifecycle"}
    /\ BackToWatch
    /\ UNCHANGED <<displays, watcher, st, ps, sampling, bounds>>

Record ==
    /\ pc = "record"
    /\ st' = UpdateObserved(st, reported, job.name)
    /\ pc' = "lifecycle"
    /\ UNCHANGED <<displays, watcher, ps, waiting, attempt, pass, reported, sampling, bounds>>

(* Mutant: what the pass leaves behind becomes the watcher's baseline. *)
RecordLifecycleAndRebase ==
    /\ pc = "lifecycle"
    /\ st' = RecordDaemonStarted(st)
    /\ baseline' = SetupFingerprint(hw) /\ baselineAt' = epoch
    /\ BackToWatch
    /\ UNCHANGED <<displays, linked, observed, ps, sampling, bounds>>

RecordLifecycle ==
    /\ pc = "lifecycle"
    /\ st' = RecordDaemonStarted(st)
    /\ BackToWatch
    /\ UNCHANGED <<displays, watcher, ps, sampling, bounds>>

----------------------------------------------------------------------------
(* The environment. *)

Hotplug ==
    /\ up /\ epoch < MaxChanges
    /\ hw' \in Setups \ {hw}
    /\ epoch' = epoch + 1
    /\ UNCHANGED <<up, watcher, st, ps, pc, waiting, attempt, pass, reported, sampling, bounds>>

(* The compositor goes away, and with it every connection to it. *)
CompositorExits ==
    /\ up /\ epoch < MaxChanges
    /\ up' = FALSE /\ linked' = FALSE /\ epoch' = epoch + 1
    /\ UNCHANGED <<hw, baseline, baselineAt, observed, st, ps, pc, waiting, attempt, pass,
                   reported, sampling, bounds>>

CompositorStarts ==
    /\ ~up
    /\ up' = TRUE /\ hw' \in Setups
    /\ UNCHANGED <<epoch, watcher, st, ps, pc, waiting, attempt, pass, reported, sampling, bounds>>

(* The daemon dies anywhere and systemd starts it again.  It also ends by  *)
(* itself when it cannot write what it does outside of the policy, in      *)
(* RecordStarted and PersistObserved.                                      *)
Crash ==
    /\ crashes < MaxCrashes
    /\ crashes' = crashes + 1
    /\ pc' = "connect" /\ linked' = FALSE /\ baseline' = NoValue /\ baselineAt' = 0
    /\ observed' = NoTopology /\ sample' = NoValue /\ count' = 0 /\ attempt' = 0
    /\ ForgetPass /\ reported' = NoTopology
    /\ UNCHANGED <<displays, st, ps, sampling, edits>>

(* The command line edits the profile store, for the setup it sees. *)
Edit(store) == ps' = store /\ ps' # ps

EditStore ==
    /\ edits < MaxEdits
    /\ edits' = edits + 1
    /\ LET now == NormalizeTopology(hw, st.known)
           fp  == SetupFingerprint(now)
       IN  \/ \E name \in ProfileNames, order \in IterationOrders :
                Edit(SaveProfile(ps, ProfileFromTopology(name, now, order), st.known, order))
           \/ \E p \in ps.profiles, order \in IterationOrders :
                Edit(RemoveForSetup(ps, p.name, fp, st.known, order))
           \/ \E p \in ps.profiles : Edit(SetSetupDefaultProfile(ps, fp, p.name))
           \/ \E preset \in EditPresets : Edit(SetSetupDefaultLayout(ps, fp, preset))
           \/ Edit(ClearSetupDefaultLayout(ps, fp))
    /\ UNCHANGED <<displays, watcher, st, pc, waiting, attempt, pass, reported, sampling, crashes>>

----------------------------------------------------------------------------
WatchStep  == \/ Connect \/ ConnectFails \/ RecordStarted
              \/ PollFails \/ PollUnchanged \/ PollChanged \/ PersistObserved
PassStep   == \/ SampleFails \/ SampleAgain \/ SampleDone \/ ReadState \/ ReadSettings
              \/ ReadFails \/ DecideToApply \/ DecideFails \/ DecideToRemember
ApplyStep  == \/ ValidateAccepted \/ HooksSucceed \/ ApplyFails \/ TopologyChanged
              \/ ApplySucceeds \/ ApplyUnanswered \/ SnapshotFails \/ Snapshot
RecordStep == Record \/ RecordLifecycle \/ RecordFails
DaemonStep == WatchStep \/ PassStep \/ ApplyStep \/ RecordStep

Environment == Hotplug \/ CompositorExits \/ CompositorStarts \/ Crash \/ EditStore

Next == DaemonStep \/ Environment

(* The daemon is a running process that never waits for anything but time: *)
(* as long as it has a next step it takes one.  Nothing is assumed of the  *)
(* environment, not even that a lost compositor comes back.                *)
Fairness == WF_vars(DaemonStep)

SafetySpec == Init /\ [][Next]_vars
Spec == SafetySpec /\ Fairness
----------------------------------------------------------------------------
(* Properties. *)

(* Every variable has its type.  Plans are typed by the keys they have:    *)
(* what a plan says of an output is checked when it is submitted.          *)
TypeOK ==
    /\ IsTopology(hw) /\ IsTopology(observed) /\ IsTopology(snap) /\ IsTopology(reported)
    /\ IsState(st) /\ IsState(stateRead) /\ IsStore(ps) /\ IsStore(settings)
    /\ up \in BOOLEAN /\ linked \in BOOLEAN
    /\ pc \in {"connect", "started", "watch", "observe", "sample", "state", "settings",
               "profiles", "validate", "hooks", "apply", "snapshot", "record", "lifecycle"}
    /\ attempt \in 0..MaxRetries - 1 /\ count \in 0..StableSamples - 1
    /\ epoch \in 0..MaxChanges /\ baselineAt \in 0..epoch
    /\ triedAt \in 0..epoch /\ sampledAt \in 0..triedAt
    /\ edits \in 0..MaxEdits /\ crashes \in 0..MaxCrashes
    /\ job \in [name : Opt(AppliedNames), hooks : BOOLEAN, plan : {job.plan}]
    /\ DOMAIN job.plan \subseteq Connectors

(* A remembered layout lights some real display, and it is filed under the *)
(* fingerprint of its own displays, although the fingerprint comes from    *)
(* identities that are completed from a cache when it is written           *)
(* (state.rs, record_topology_observation).                                *)
RememberedSound ==
    \A fp \in DOMAIN st.remembered :
        /\ HasEnabledRealOutputs(st.remembered[fp])
        /\ SetupFingerprint(st.remembered[fp]) = fp

(* What has once been learned of the display on a connector is never lost, *)
(* however little the display reports later (state.rs,                     *)
(* update_observed_topology).                                              *)
KnownNeverForgets ==
    [][\A c \in DOMAIN st.known :
        /\ c \in DOMAIN st'.known
        /\ \A field \in {"edid", "make", "model", "serial", "description"} :
            Present(st.known[c][field]) => Present(st'.known[c][field])]_vars

InPass == pc \in {"state", "settings", "profiles", "validate", "hooks", "apply", "snapshot",
                  "record", "lifecycle"}

(* After a change the watcher has reported, or a new connection, the watch *)
(* loop polls again only when the policy has at least tried to sample the  *)
(* displays, whatever failed, was retried or crashed in between; and no    *)
(* pass reads, decides, applies or records anything from a sample that is  *)
(* older than that change.  A change is skipped in one way only: its       *)
(* sample fails (watch.rs, handle_topology_change, run_watch_step and      *)
(* enforce_initial_policy; daemon.rs, enforce_topology_policy).            *)
PolicyFollowsChange ==
    linked =>
        /\ pc = "watch" => triedAt >= baselineAt
        /\ InPass => sampledAt >= baselineAt

Undisturbed == pc = "lifecycle" /\ job # NoJob /\ epoch = sampledAt

(* When a pass has recorded its outcome and the displays have not changed  *)
(* since its sample, they are arranged as it planned, whether it applied   *)
(* the plan or found it in place (daemon.rs, apply_plan).                  *)
AppliedLayoutHolds == Undisturbed => LayoutHolds(job.plan, hw)

(* After such a pass another one, reading the state just written, chooses  *)
(* a target whose layout is in place: passes do not undo one another       *)
(* (daemon.rs, maybe_apply_matching_profile; state.rs).                    *)
NextPassAgrees ==
    Undisturbed /\ edits = 0 =>
        LET now == NormalizeTopology(hw, st.known)
            fp  == SetupFingerprint(now)
        IN  \A order \in IterationOrders :
                \A target \in SelectTargets(now, ProfilesForSetup(ps, fp, st.known, order),
                                            ps, st.remembered, order) :
                    \E plan \in PlansFor(target, now, ps.builtin) : LayoutHolds(plan, now)

(* The daemon comes to rest: once the environment is quiet (its events are *)
(* bounded) it stays in the watch loop with nothing to report, or waits    *)
(* for a compositor that is gone.  It neither hangs in a pass nor keeps    *)
(* reacting to its own changes (watch.rs, run_watch_loop).                 *)
EventuallyQuiet ==
    <>[](\/ pc = "watch" /\ linked /\ baseline = SetupFingerprint(hw)
         \/ pc = "connect" /\ ~up)
=============================================================================
