---------------------------- MODULE DaemonProofs ----------------------------
(***************************************************************************)
(* What holds of the daemon for any displays, any profile store, any       *)
(* number of retries, crashes and changes.                                 *)
(***************************************************************************)
EXTENDS Daemon, OperatorProofs

USE DEF displays, watcher, waiting, pass, sampling, bounds

----------------------------------------------------------------------------
(* What the daemon is left with when a pass starts or ends. *)

LEMMA ResetType ==
    /\ IsTopology(NoTopology) /\ IsState(EmptyState) /\ IsStore(EmptyStore)
    /\ NoJob \in [name : Opt(AppliedNames), hooks : BOOLEAN, plan : {NoJob.plan}]
    /\ DOMAIN NoJob.plan = {}
<1>1. DOMAIN NoTopology = {}
  BY DEF NoTopology
<1>2. IsTopology(NoTopology)
  BY <1>1 DEF IsTopology, NoTopology
<1> QED
  BY <1>1, <1>2, EmptyStateType, EmptyStoreType DEF NoJob, Opt

LEMMA PassTypes ==
    ASSUME \/ \E n \in 0..MaxRetries - 1 : StartPass(n)
           \/ BackToWatch
           \/ attempt \in 0..MaxRetries - 1 /\ RetryPass
    PROVE  /\ pc' \in {"sample", "watch"}
           /\ attempt' \in 0..MaxRetries - 1 /\ count' = 0
           /\ IsTopology(snap') /\ IsTopology(reported')
           /\ IsState(stateRead') /\ IsStore(settings')
           /\ job' \in [name : Opt(AppliedNames), hooks : BOOLEAN, plan : {job'.plan}]
           /\ DOMAIN job'.plan \subseteq Connectors
BY ResetType, BoundsAssumption DEF RetryPass, StartPass, BackToWatch, ForgetPass

LEMMA SampleType ==
    ASSUME IsTopology(hw), IsState(st)
    PROVE  IsTopology(CurrentSample)
BY NormalizeKeepsLayout DEF CurrentSample, IsState

----------------------------------------------------------------------------
(* Type correctness. *)

LEMMA InitTypeOK == Init => TypeOK
<1> SUFFICES ASSUME Init PROVE TypeOK
  OBVIOUS
<1>1. /\ IsTopology(hw) /\ IsTopology(observed) /\ IsTopology(snap) /\ IsTopology(reported)
      /\ IsState(st) /\ IsState(stateRead) /\ IsStore(ps) /\ IsStore(settings)
  BY ResetType, SetupsAssumption, StoresAssumption DEF Init
<1>2. /\ job \in [name : Opt(AppliedNames), hooks : BOOLEAN, plan : {job.plan}]
      /\ DOMAIN job.plan \subseteq Connectors
  BY ResetType DEF Init
<1>3. /\ attempt \in 0..MaxRetries - 1 /\ count \in 0..StableSamples - 1
      /\ epoch \in 0..MaxChanges /\ baselineAt \in 0..epoch
      /\ triedAt \in 0..epoch /\ sampledAt \in 0..triedAt
      /\ edits \in 0..MaxEdits /\ crashes \in 0..MaxCrashes
  BY BoundsAssumption DEF Init
<1> QED
  BY <1>1, <1>2, <1>3 DEF Init, TypeOK

LEMMA WatchTypeOK == TypeOK /\ WatchStep => TypeOK'
<1> SUFFICES ASSUME TypeOK, WatchStep PROVE TypeOK'
  OBVIOUS
<1>1. CASE Connect
  BY <1>1 DEF Connect, TypeOK
<1>2. CASE ConnectFails \/ PollUnchanged
  BY <1>2 DEF ConnectFails, PollUnchanged, vars, TypeOK
<1>3. CASE RecordStarted
  <2>1. IsState(st')
    BY <1>3, RecordDaemonStartedType DEF RecordStarted, TypeOK
  <2> QED
    BY <1>3, <2>1, PassTypes, BoundsAssumption DEF RecordStarted, TypeOK
<1>4. CASE PollFails
  BY <1>4 DEF PollFails, TypeOK
<1>5. CASE PollChanged
  BY <1>5 DEF PollChanged, TypeOK
<1>6. CASE PersistObserved
  <2>1. IsState(st')
    BY <1>6, UpdateObservedType DEF PersistObserved, TypeOK, Opt
  <2> QED
    BY <1>6, <2>1, PassTypes, ResetType, BoundsAssumption DEF PersistObserved, TypeOK
<1> QED
  BY <1>1, <1>2, <1>3, <1>4, <1>5, <1>6 DEF WatchStep

LEMMA PassTypeOK == TypeOK /\ PassStep => TypeOK'
<1> SUFFICES ASSUME TypeOK, PassStep PROVE TypeOK'
  OBVIOUS
<1>1. CASE SampleFails
  <2>1. triedAt' \in 0..epoch /\ sampledAt \in 0..triedAt'
    BY <1>1, BoundsAssumption DEF SampleFails, TypeOK
  <2> QED
    BY <1>1, <2>1, PassTypes, BoundsAssumption DEF SampleFails, TypeOK
<1>2. CASE SampleAgain
  <2>1. SampleCount \in 0..StableSamples - 1
    BY <1>2, BoundsAssumption DEF SampleAgain, SampleCount, TypeOK
  <2> QED
    BY <1>2, <2>1 DEF SampleAgain, TypeOK
<1>3. CASE SampleDone
  BY <1>3, SampleType, BoundsAssumption DEF SampleDone, TypeOK
<1>4. CASE ReadState
  BY <1>4 DEF ReadState, TypeOK
<1>5. CASE ReadSettings
  <2>1. IsStore(settings')
    BY <1>5 DEF ReadSettings, TypeOK, IsStore
  <2> QED
    BY <1>5, <2>1 DEF ReadSettings, TypeOK
<1>6. CASE DecideToApply
  <2>1. PICK order \in IterationOrders : \E target \in Targets(order) :
          \E plan \in PlansFor(target, snap, settings.builtin) :
            /\ job' = [name |-> RecordedName(target), hooks |-> HookBearing(target),
                       plan |-> plan]
            /\ \/ pc' = "record" /\ reported' = snap
               \/ pc' = "validate" /\ UNCHANGED reported
    BY <1>6 DEF DecideToApply
  <2>2. PICK target \in Targets(order) :
          \E plan \in PlansFor(target, snap, settings.builtin) :
            /\ job' = [name |-> RecordedName(target), hooks |-> HookBearing(target),
                       plan |-> plan]
            /\ \/ pc' = "record" /\ reported' = snap
               \/ pc' = "validate" /\ UNCHANGED reported
    BY <2>1
  <2>3. PICK plan \in PlansFor(target, snap, settings.builtin) :
            /\ job' = [name |-> RecordedName(target), hooks |-> HookBearing(target),
                       plan |-> plan]
            /\ \/ pc' = "record" /\ reported' = snap
               \/ pc' = "validate" /\ UNCHANGED reported
    BY <2>2
  <2>4. ASSUME NEW p \in ProfilesForSetup(ps, SetupFingerprint(snap), stateRead.known, order)
        PROVE  IsProfile(p)
    BY SetupProfilesType DEF TypeOK
  <2>5. RecordedName(target) \in Opt(AppliedNames)
    BY <2>4, RecordedNameType DEF Targets, TypeOK
  <2>6. HookBearing(target) \in BOOLEAN
    BY DEF HookBearing
  <2>7. DOMAIN plan \subseteq Connectors
    <3>1. target.kind = "layout" => target.preset \in VirtualPresets
      BY <2>4, SelectedTarget DEF Targets, TypeOK, NoTarget
    <3>2. DOMAIN plan \subseteq DOMAIN snap
      BY <3>1, PlanKeys
    <3> QED
      BY <3>2 DEF TypeOK, IsTopology
  <2>8. /\ job' \in [name : Opt(AppliedNames), hooks : BOOLEAN, plan : {job'.plan}]
        /\ DOMAIN job'.plan \subseteq Connectors
    BY <2>3, <2>5, <2>6, <2>7
  <2> QED
    BY <1>6, <2>3, <2>8 DEF DecideToApply, TypeOK
<1>7. CASE ReadFails \/ DecideFails
  BY <1>7, PassTypes, BoundsAssumption DEF ReadFails, DecideFails, TypeOK
<1>8. CASE DecideToRemember
  BY <1>8 DEF DecideToRemember, TypeOK
<1> QED
  BY <1>1, <1>2, <1>3, <1>4, <1>5, <1>6, <1>7, <1>8 DEF PassStep

LEMMA ApplyTypeOK == TypeOK /\ ApplyStep => TypeOK'
<1> SUFFICES ASSUME TypeOK, ApplyStep PROVE TypeOK'
  OBVIOUS
<1>1. CASE ValidateAccepted
  BY <1>1 DEF ValidateAccepted, TypeOK
<1>2. CASE HooksSucceed
  BY <1>2 DEF HooksSucceed, TypeOK
<1>3. CASE ApplyFails
  BY <1>3, PassTypes, BoundsAssumption DEF ApplyFails, TypeOK
<1>4. CASE TopologyChanged
  BY <1>4, PassTypes, BoundsAssumption DEF TopologyChanged, TypeOK
<1>5. CASE ApplySucceeds
  BY <1>5, ConfigureType DEF ApplySucceeds, TypeOK
<1>6. CASE SnapshotFails
  BY <1>6, PassTypes, BoundsAssumption DEF SnapshotFails, TypeOK
<1>8. CASE ApplyUnanswered
  BY <1>8, ConfigureType, PassTypes, BoundsAssumption DEF ApplyUnanswered, TypeOK
<1>7. CASE Snapshot
  <2>1. CASE HasEnabledRealOutputs(hw)
    BY <1>7, <2>1 DEF Snapshot, TypeOK
  <2>2. CASE ~HasEnabledRealOutputs(hw)
    BY <1>7, <2>2, PassTypes, BoundsAssumption DEF Snapshot, TypeOK
  <2> QED
    BY <2>1, <2>2
<1> QED
  BY <1>1, <1>2, <1>3, <1>4, <1>5, <1>6, <1>7, <1>8 DEF ApplyStep

LEMMA RecordTypeOK == TypeOK /\ RecordStep => TypeOK'
<1> SUFFICES ASSUME TypeOK, RecordStep PROVE TypeOK'
  OBVIOUS
<1>1. CASE Record
  <2>1. IsState(st')
    BY <1>1, UpdateObservedType DEF Record, TypeOK
  <2> QED
    BY <1>1, <2>1 DEF Record, TypeOK
<1>2. CASE RecordLifecycle
  <2>1. IsState(st')
    BY <1>2, RecordDaemonStartedType DEF RecordLifecycle, TypeOK
  <2> QED
    BY <1>2, <2>1, PassTypes, BoundsAssumption DEF RecordLifecycle, TypeOK
<1>3. CASE RecordFails
  BY <1>3, PassTypes, BoundsAssumption DEF RecordFails, TypeOK
<1> QED
  BY <1>1, <1>2, <1>3 DEF RecordStep

LEMMA EnvironmentTypeOK == TypeOK /\ Environment => TypeOK'
<1> SUFFICES ASSUME TypeOK, Environment PROVE TypeOK'
  OBVIOUS
<1>1. CASE Hotplug
  BY <1>1, SetupsAssumption, BoundsAssumption DEF Hotplug, TypeOK
<1>2. CASE CompositorExits
  <2>1. /\ epoch' \in 0..MaxChanges /\ baselineAt' \in 0..epoch'
        /\ triedAt' \in 0..epoch' /\ sampledAt' \in 0..triedAt'
    BY <1>2, BoundsAssumption DEF CompositorExits, TypeOK
  <2> QED
    BY <1>2, <2>1 DEF CompositorExits, TypeOK
<1>3. CASE CompositorStarts
  BY <1>3, SetupsAssumption DEF CompositorStarts, TypeOK
<1>4. CASE Crash
  <2>1. /\ IsTopology(observed') /\ IsTopology(snap') /\ IsTopology(reported')
        /\ IsState(stateRead') /\ IsStore(settings')
        /\ job' \in [name : Opt(AppliedNames), hooks : BOOLEAN, plan : {job'.plan}]
        /\ DOMAIN job'.plan \subseteq Connectors
    BY <1>4, ResetType DEF Crash, ForgetPass
  <2>2. /\ attempt' \in 0..MaxRetries - 1 /\ count' \in 0..StableSamples - 1
        /\ baselineAt' \in 0..epoch /\ crashes' \in 0..MaxCrashes
    BY <1>4, BoundsAssumption DEF Crash, TypeOK
  <2> QED
    BY <1>4, <2>1, <2>2 DEF Crash, TypeOK
<1>5. CASE EditStore
  <2> DEFINE now == NormalizeTopology(hw, st.known)
             fp  == SetupFingerprint(now)
  <2>1. \/ \E name \in ProfileNames, order \in IterationOrders :
             ps' = SaveProfile(ps, ProfileFromTopology(name, now, order), st.known, order)
        \/ \E p \in ps.profiles, order \in IterationOrders :
             ps' = RemoveForSetup(ps, p.name, fp, st.known, order)
        \/ \E p \in ps.profiles : ps' = SetSetupDefaultProfile(ps, fp, p.name)
        \/ \E preset \in EditPresets : ps' = SetSetupDefaultLayout(ps, fp, preset)
        \/ ps' = ClearSetupDefaultLayout(ps, fp)
    BY <1>5 DEF EditStore, Edit
  <2> HIDE DEF now, fp
  <2>2. IsStore(ps) /\ \A p \in ps.profiles : p.name \in ProfileNames
    BY DEF TypeOK, IsStore, IsProfile
  <2>3. ASSUME NEW name \in ProfileNames, NEW order \in IterationOrders,
               ps' = SaveProfile(ps, ProfileFromTopology(name, now, order), st.known, order)
        PROVE  IsStore(ps')
    BY <2>2, <2>3, SaveProfileType, ProfileFromTopologyType
  <2>4. ASSUME NEW p \in ps.profiles, NEW order \in IterationOrders,
               ps' = RemoveForSetup(ps, p.name, fp, st.known, order)
        PROVE  IsStore(ps')
    BY <2>2, <2>4, RemoveForSetupType
  <2>5. ASSUME NEW p \in ps.profiles, ps' = SetSetupDefaultProfile(ps, fp, p.name)
        PROVE  IsStore(ps')
    BY <2>2, <2>5, SetSetupDefaultProfileType
  <2>6. ASSUME NEW preset \in EditPresets, ps' = SetSetupDefaultLayout(ps, fp, preset)
        PROVE  IsStore(ps')
    BY <2>2, <2>6, SetSetupDefaultLayoutType, StoresAssumption
  <2>7. ASSUME ps' = ClearSetupDefaultLayout(ps, fp)
        PROVE  IsStore(ps')
    BY <2>2, <2>7, ClearSetupDefaultLayoutType
  <2>8. IsStore(ps')
    BY <2>1, <2>3, <2>4, <2>5, <2>6, <2>7
  <2> QED
    BY <1>5, <2>8, BoundsAssumption DEF EditStore, TypeOK
<1> QED
  BY <1>1, <1>2, <1>3, <1>4, <1>5 DEF Environment

(* Every variable has its type: no retry, crash or failure of a pass       *)
(* leaves a topology, a state or a store the code could not hold, and a    *)
(* plan is only ever for connectors (daemon.rs, watch.rs).                 *)
THEOREM TypeCorrect == SafetySpec => []TypeOK
<1>1. TypeOK /\ UNCHANGED vars => TypeOK'
  BY DEF TypeOK, vars
<1>2. TypeOK /\ [Next]_vars => TypeOK'
  BY <1>1, WatchTypeOK, PassTypeOK, ApplyTypeOK, RecordTypeOK, EnvironmentTypeOK
     DEF Next, DaemonStep
<1> QED
  BY InitTypeOK, <1>2, PTL DEF SafetySpec

----------------------------------------------------------------------------
(* The state file. *)

(* The only writes to state.toml: the start of the daemon is recorded, or  *)
(* a topology is.                                                          *)
LEMMA StateWrites ==
    TypeOK /\ [Next]_vars =>
        \/ UNCHANGED st
        \/ st' = RecordDaemonStarted(st)
        \/ \E t, name : IsTopology(t) /\ st' = UpdateObserved(st, t, name)
<1> SUFFICES ASSUME TypeOK, [Next]_vars
             PROVE  \/ UNCHANGED st
                    \/ st' = RecordDaemonStarted(st)
                    \/ \E t, name : IsTopology(t) /\ st' = UpdateObserved(st, t, name)
  OBVIOUS
<1>1. CASE WatchStep
  BY <1>1 DEF WatchStep, Connect, ConnectFails, RecordStarted, PollFails, PollUnchanged,
     PollChanged, PersistObserved, vars, TypeOK
<1>2. CASE PassStep
  BY <1>2 DEF PassStep, SampleFails, SampleAgain, SampleDone, ReadState, ReadSettings,
     ReadFails, DecideToApply, DecideFails, DecideToRemember
<1>3. CASE ApplyStep
  BY <1>3 DEF ApplyStep, ValidateAccepted, HooksSucceed, ApplyFails, TopologyChanged,
     ApplySucceeds, ApplyUnanswered, SnapshotFails, Snapshot
<1>4. CASE RecordStep
  BY <1>4 DEF RecordStep, Record, RecordLifecycle, RecordFails, TypeOK
<1>5. CASE Environment
  BY <1>5 DEF Environment, Hotplug, CompositorExits, CompositorStarts, Crash, EditStore
<1>6. CASE UNCHANGED vars
  BY <1>6 DEF vars
<1> QED
  BY <1>1, <1>2, <1>3, <1>4, <1>5, <1>6 DEF Next, DaemonStep

LEMMA RememberKeepsSound ==
    ASSUME NEW remembered, NEW t,
           \A fp \in DOMAIN remembered :
                /\ HasEnabledRealOutputs(remembered[fp])
                /\ SetupFingerprint(remembered[fp]) = fp
    PROVE  \A fp \in DOMAIN Remember(remembered, t) :
                /\ HasEnabledRealOutputs(Remember(remembered, t)[fp])
                /\ SetupFingerprint(Remember(remembered, t)[fp]) = fp
BY DEF Remember, Put

LEMMA RememberedSoundStep == TypeOK /\ RememberedSound /\ [Next]_vars => RememberedSound'
<1> SUFFICES ASSUME TypeOK, RememberedSound, [Next]_vars PROVE RememberedSound'
  OBVIOUS
<1>1. CASE st'.remembered = st.remembered
  BY <1>1 DEF RememberedSound
<1>2. CASE \E t : st'.remembered = Remember(st.remembered, t)
  BY <1>2, RememberKeepsSound DEF RememberedSound
<1>3. IsState(st)
  BY DEF TypeOK
<1>4. st' = RecordDaemonStarted(st) => st'.remembered = st.remembered
  BY <1>3, RecordDaemonStartedType
<1>5. ASSUME NEW t, NEW name, st' = UpdateObserved(st, t, name)
      PROVE  st'.remembered = Remember(st.remembered, NormalizeTopology(t, st.known))
  BY <1>3, <1>5, UpdateObservedFields
<1> QED
  BY <1>1, <1>2, <1>4, <1>5, StateWrites

(* A remembered layout lights a real display and is filed under its own    *)
(* fingerprint, whatever was in the cache when it was written (state.rs,   *)
(* record_topology_observation).                                           *)
THEOREM RememberedLayoutsSound == SafetySpec => []RememberedSound
<1>1. Init => RememberedSound
  <2>1. DOMAIN <<>> = {}
    OBVIOUS
  <2> QED
    BY <2>1 DEF Init, EmptyState, RememberedSound
<1> QED
  BY <1>1, RememberedSoundStep, TypeCorrect, PTL DEF SafetySpec

LEMMA KnownStep ==
    TypeOK /\ [Next]_vars =>
        \A c \in DOMAIN st.known :
            /\ c \in DOMAIN st'.known
            /\ \A field \in {"edid", "make", "model", "serial", "description"} :
                Present(st.known[c][field]) => Present(st'.known[c][field])
<1> SUFFICES ASSUME TypeOK, [Next]_vars, NEW c \in DOMAIN st.known
             PROVE  /\ c \in DOMAIN st'.known
                    /\ \A field \in {"edid", "make", "model", "serial", "description"} :
                        Present(st.known[c][field]) => Present(st'.known[c][field])
  OBVIOUS
<1>1. IsState(st) /\ DOMAIN st.known \subseteq Connectors
         /\ st.known \in [DOMAIN st.known -> OutputIdentity]
  BY DEF TypeOK, IsState
<1>2. CASE UNCHANGED st \/ st' = RecordDaemonStarted(st)
  BY <1>1, <1>2, RecordDaemonStartedType
<1>3. ASSUME NEW t, NEW name, IsTopology(t), st' = UpdateObserved(st, t, name)
      PROVE  /\ c \in DOMAIN st'.known
             /\ \A field \in {"edid", "make", "model", "serial", "description"} :
                 Present(st.known[c][field]) => Present(st'.known[c][field])
  <2>1. st'.known = CacheIdentities(st.known, NormalizeTopology(t, st.known))
    BY <1>1, <1>3, UpdateObservedFields
  <2> QED
    BY <1>1, <1>3, <2>1, CacheNeverForgets
<1> QED
  BY <1>2, <1>3, StateWrites

(* Nothing learned of a display is lost again (state.rs,                   *)
(* update_observed_topology).                                              *)
THEOREM IdentitiesNeverForgotten == SafetySpec => KnownNeverForgets
<1>1. TypeOK /\ [Next]_vars =>
        [\A c \in DOMAIN st.known :
            /\ c \in DOMAIN st'.known
            /\ \A field \in {"edid", "make", "model", "serial", "description"} :
                Present(st.known[c][field]) => Present(st'.known[c][field])]_vars
  BY KnownStep
<1> QED
  BY <1>1, TypeCorrect, PTL DEF SafetySpec, KnownNeverForgets

----------------------------------------------------------------------------
(* Every change is followed by a pass. *)

(* Inductive with the types, which say that an attempt at a sample is at   *)
(* least as new as the last that succeeded: so a pass that ends at any     *)
(* place, by a failure or not, hands its claim on to the watch loop.       *)
LEMMA PolicyStep == TypeOK /\ PolicyFollowsChange /\ [Next]_vars => PolicyFollowsChange'
<1> SUFFICES ASSUME TypeOK, PolicyFollowsChange, [Next]_vars PROVE PolicyFollowsChange'
  OBVIOUS
<1>1. /\ epoch \in Nat /\ triedAt \in 0..epoch
      /\ sampledAt \in 0..triedAt /\ baselineAt \in 0..epoch
  BY BoundsAssumption DEF TypeOK
<1>2. ASSUME UNCHANGED <<linked, baselineAt, sampling>>,
             pc' = "watch" => pc = "watch" \/ InPass, InPass' => InPass
      PROVE  PolicyFollowsChange'
  BY <1>1, <1>2 DEF PolicyFollowsChange
<1>3. ASSUME pc' # "watch", ~InPass' PROVE PolicyFollowsChange'
  BY <1>3 DEF PolicyFollowsChange
<1>4. CASE WatchStep
  <2>1. CASE Connect \/ RecordStarted \/ PollFails \/ PollChanged \/ PersistObserved
    BY <1>3, <2>1 DEF Connect, RecordStarted, PollFails, PollChanged, PersistObserved, StartPass, InPass
  <2>2. CASE ConnectFails \/ PollUnchanged
    <3>1. UNCHANGED vars
      BY <2>2 DEF ConnectFails, PollUnchanged
    <3> QED
      BY <3>1 DEF vars, PolicyFollowsChange, InPass
  <2> QED
    BY <1>4, <2>1, <2>2 DEF WatchStep
<1>5. CASE PassStep
  <2>1. CASE SampleFails
    BY <1>1, <2>1 DEF SampleFails, BackToWatch, PolicyFollowsChange, InPass
  <2>2. CASE SampleAgain
    BY <1>3, <2>2 DEF SampleAgain, InPass
  <2>3. CASE SampleDone
    BY <1>1, <2>3 DEF SampleDone, PolicyFollowsChange, InPass
  <2>4. CASE ReadState \/ ReadSettings \/ DecideToApply \/ DecideToRemember
    <3>1. UNCHANGED <<linked, baselineAt, sampling>> /\ InPass /\ pc' # "watch"
      BY <2>4 DEF ReadState, ReadSettings, DecideToApply, DecideToRemember, InPass
    <3> QED
      BY <1>2, <3>1
  <2>5. CASE ReadFails \/ DecideFails
    BY <1>2, <2>5 DEF ReadFails, DecideFails, BackToWatch, InPass
  <2> QED
    BY <1>5, <2>1, <2>2, <2>3, <2>4, <2>5 DEF PassStep
<1>6. CASE ApplyStep
  <2>1. UNCHANGED <<linked, baselineAt, sampling>> /\ InPass
    BY <1>6 DEF ApplyStep, ValidateAccepted, HooksSucceed, ApplyFails, TopologyChanged,
       ApplySucceeds, ApplyUnanswered, SnapshotFails, Snapshot, InPass
  <2> QED
    BY <1>2, <2>1
<1>7. CASE RecordStep
  <2>1. UNCHANGED <<linked, baselineAt, sampling>> /\ InPass
    BY <1>7 DEF RecordStep, Record, RecordLifecycle, RecordFails, InPass
  <2> QED
    BY <1>2, <2>1
<1>8. CASE Environment
  <2>1. CASE Crash \/ CompositorExits
    BY <2>1 DEF Crash, CompositorExits, PolicyFollowsChange
  <2>2. CASE Hotplug \/ CompositorStarts \/ EditStore
    BY <2>2 DEF Hotplug, CompositorStarts, EditStore, PolicyFollowsChange, InPass
  <2> QED
    BY <1>8, <2>1, <2>2 DEF Environment
<1>9. CASE UNCHANGED vars
  BY <1>9 DEF vars, PolicyFollowsChange, InPass
<1> QED
  BY <1>4, <1>5, <1>6, <1>7, <1>8, <1>9 DEF Next, DaemonStep

(* The watch loop polls again only after the policy has tried to sample    *)
(* the displays as they are since the change it was called for, and a pass *)
(* that goes beyond its sample works on one as new as that change; samples,*)
(* reads and writes may fail at any time (watch.rs, handle_topology_change *)
(* and run_watch_step; daemon.rs, enforce_topology_policy).                *)
THEOREM ChangesAreFollowed == SafetySpec => []PolicyFollowsChange
<1>1. Init => PolicyFollowsChange
  BY DEF Init, PolicyFollowsChange
<1> QED
  BY <1>1, PolicyStep, TypeCorrect, PTL DEF SafetySpec
----------------------------------------------------------------------------
(* What a pass records as applied is in place. *)

SameArrangement(s, t) ==
    /\ DOMAIN s = DOMAIN t
    /\ \A c \in DOMAIN t :
        /\ s[c].id.real = t[c].id.real
        /\ s[c].enabled = t[c].enabled /\ s[c].mode = t[c].mode /\ s[c].pos = t[c].pos
        /\ s[c].xform = t[c].xform /\ s[c].mirror = t[c].mirror

(* The inductive form.  The displays a pass works on are those of its      *)
(* sample as long as nothing happened to them from outside, until it       *)
(* applies its plan; from then on they are as planned.  While the          *)
(* compositor is gone no sample is current.                                *)
ArrangedInv ==
    /\ ~up => sampledAt < epoch
    /\ Unmirrored(hw)
    /\ pc \in {"sample", "state", "settings", "profiles"} => job = NoJob
    /\ pc \in {"state", "settings", "profiles"} /\ epoch = sampledAt => SameArrangement(snap, hw)
    /\ pc = "snapshot" /\ epoch = sampledAt => LayoutHolds(job.plan, hw)
    /\ pc \in {"record", "lifecycle"} /\ job # NoJob /\ epoch = sampledAt
        => LayoutHolds(job.plan, hw)

(* A plan that is found in place is in place. *)
LEMMA MatchingPlanHolds ==
    ASSUME NEW plan, NEW s, NEW t, SameArrangement(s, t), PlanMatchesTopology(plan, s)
    PROVE  LayoutHolds(plan, t)
<1> SUFFICES ASSUME NEW c \in RealOutputs(t)
             PROVE  /\ t[c].enabled <=> (c \in DOMAIN plan /\ plan[c].enabled)
                    /\ t[c].enabled => Arranged(plan[c], t[c])
  BY DEF LayoutHolds
<1>1. c \in RealOutputs(s)
  BY DEF RealOutputs, SameArrangement
<1>2. /\ s[c].enabled = t[c].enabled /\ s[c].mode = t[c].mode /\ s[c].pos = t[c].pos
      /\ s[c].xform = t[c].xform /\ s[c].mirror = t[c].mirror
  BY DEF RealOutputs, SameArrangement
<1>3. CASE c \in DOMAIN plan
  <2>1. SameLayoutAs(plan[c], s[c])
    BY <1>1, <1>3 DEF PlanMatchesTopology
  <2> QED
    BY <1>2, <1>3, <2>1 DEF SameLayoutAs, Arranged
<1>4. CASE c \notin DOMAIN plan
  BY <1>1, <1>2, <1>4 DEF PlanMatchesTopology
<1> QED
  BY <1>3, <1>4

LEMMA WatchArranged == TypeOK /\ ArrangedInv /\ WatchStep => ArrangedInv'
BY DEF WatchStep, Connect, ConnectFails, RecordStarted, PollFails, PollUnchanged, PollChanged,
   PersistObserved, StartPass, ForgetPass, vars, ArrangedInv

LEMMA PassArranged == TypeOK /\ ArrangedInv /\ PassStep => ArrangedInv'
<1> SUFFICES ASSUME TypeOK, ArrangedInv, PassStep PROVE ArrangedInv'
  OBVIOUS
<1>1. CASE SampleFails \/ ReadFails \/ DecideFails
  BY <1>1 DEF SampleFails, ReadFails, DecideFails, BackToWatch, ForgetPass, ArrangedInv
<1>2. CASE SampleAgain
  BY <1>2 DEF SampleAgain, ArrangedInv
<1>3. CASE SampleDone
  <2>1. SameArrangement(snap', hw')
    BY <1>3, NormalizeKeepsLayout DEF SampleDone, CurrentSample, SameArrangement, TypeOK, IsState
  <2> QED
    BY <1>3, <2>1 DEF SampleDone, ArrangedInv
<1>4. CASE ReadState \/ ReadSettings
  BY <1>4 DEF ReadState, ReadSettings, ArrangedInv
<1>5. CASE DecideToApply
  <2>1. pc' = "validate" \/ (pc' = "record" /\ PlanMatchesTopology(job'.plan, snap))
    BY <1>5 DEF DecideToApply
  <2>2. pc' = "record" /\ epoch = sampledAt => LayoutHolds(job'.plan, hw)
    BY <1>5, <2>1, MatchingPlanHolds DEF DecideToApply, ArrangedInv
  <2> QED
    BY <1>5, <2>1, <2>2 DEF DecideToApply, ArrangedInv
<1>6. CASE DecideToRemember
  BY <1>6 DEF DecideToRemember, ArrangedInv
<1> QED
  BY <1>1, <1>2, <1>3, <1>4, <1>5, <1>6 DEF PassStep

LEMMA ApplyArranged == TypeOK /\ ArrangedInv /\ ApplyStep => ArrangedInv'
<1> SUFFICES ASSUME TypeOK, ArrangedInv, ApplyStep PROVE ArrangedInv'
  OBVIOUS
<1>1. CASE ValidateAccepted \/ HooksSucceed
  BY <1>1 DEF ValidateAccepted, HooksSucceed, ArrangedInv
<1>2. CASE ApplyFails \/ SnapshotFails
  BY <1>2 DEF ApplyFails, SnapshotFails, BackToWatch, ForgetPass, ArrangedInv
<1>3. CASE TopologyChanged
  BY <1>3 DEF TopologyChanged, RetryPass, StartPass, BackToWatch, ForgetPass, ArrangedInv
<1>4. CASE ApplySucceeds
  <2>1. Unmirrored(hw') /\ LayoutHolds(job.plan, hw')
    BY <1>4, AppliedPlanHolds DEF ApplySucceeds, TypeOK, ArrangedInv
  <2> QED
    BY <1>4, <2>1 DEF ApplySucceeds, ArrangedInv
<1>6. CASE ApplyUnanswered
  <2>1. Unmirrored(hw')
    BY <1>6, AppliedPlanHolds DEF ApplyUnanswered, TypeOK, ArrangedInv
  <2> QED
    BY <1>6, <2>1 DEF ApplyUnanswered, BackToWatch, ForgetPass, ArrangedInv
<1>5. CASE Snapshot
  BY <1>5 DEF Snapshot, RetryPass, StartPass, BackToWatch, ForgetPass, ArrangedInv
<1> QED
  BY <1>1, <1>2, <1>3, <1>4, <1>5, <1>6 DEF ApplyStep

LEMMA RecordArranged == TypeOK /\ ArrangedInv /\ RecordStep => ArrangedInv'
BY DEF RecordStep, Record, RecordLifecycle, RecordFails, BackToWatch, ForgetPass, ArrangedInv

LEMMA EnvironmentArranged == TypeOK /\ ArrangedInv /\ Environment => ArrangedInv'
<1> SUFFICES ASSUME TypeOK, ArrangedInv, Environment PROVE ArrangedInv'
  OBVIOUS
<1>1. epoch \in Nat /\ sampledAt \in 0..epoch
  BY BoundsAssumption DEF TypeOK
<1>2. CASE Hotplug
  BY <1>1, <1>2, SetupsAssumption DEF Hotplug, ArrangedInv
<1>3. CASE CompositorExits
  BY <1>1, <1>3 DEF CompositorExits, ArrangedInv
<1>4. CASE CompositorStarts
  BY <1>1, <1>4, SetupsAssumption DEF CompositorStarts, ArrangedInv
<1>5. CASE Crash
  BY <1>5 DEF Crash, ForgetPass, ArrangedInv
<1>6. CASE EditStore
  BY <1>6 DEF EditStore, ArrangedInv
<1> QED
  BY <1>2, <1>3, <1>4, <1>5, <1>6 DEF Environment

LEMMA AlwaysArranged == SafetySpec => []ArrangedInv
<1>1. Init => ArrangedInv
  BY SetupsAssumption DEF Init, ArrangedInv
<1>2. ArrangedInv /\ UNCHANGED vars => ArrangedInv'
  BY DEF ArrangedInv, vars
<1>3. TypeOK /\ ArrangedInv /\ [Next]_vars => ArrangedInv'
  BY <1>2, WatchArranged, PassArranged, ApplyArranged, RecordArranged, EnvironmentArranged
     DEF Next, DaemonStep
<1> QED
  BY <1>1, <1>3, TypeCorrect, PTL DEF SafetySpec

(* When a pass has recorded its outcome and nothing happened to the        *)
(* displays since its sample, they are arranged as it planned, whether it  *)
(* applied the plan or found it in place (daemon.rs, apply_plan).          *)
THEOREM RecordedLayoutHolds == SafetySpec => []AppliedLayoutHolds
<1>1. ArrangedInv => AppliedLayoutHolds
  BY DEF ArrangedInv, AppliedLayoutHolds, Undisturbed
<1> QED
  BY <1>1, AlwaysArranged, PTL

----------------------------------------------------------------------------
(* What a pass decided, decided again by the next one. *)

(* The displays, completed from the state the pass read. *)
Seen == NormalizeTopology(hw, stateRead.known)

(* The plan is one that the pass could choose. *)
Chosen ==
    \E order \in IterationOrders : \E target \in Targets(order) :
        target.kind # "none" /\ job.plan \in PlansFor(target, snap, settings.builtin)

(* The displays the pass saw, configured by its plan. *)
Applied ==
    /\ Outcome(snap, job.plan, Seen)
    /\ \A c \in DOMAIN snap \cap DOMAIN job.plan :
        job.plan[c].enabled => job.plan[c].mirror = NoValue

(* The inductive form.  What the pass has read of the state stays what is  *)
(* stored until it records its outcome, and what it has read of the store  *)
(* stays so until somebody edits it; its plan is one chosen from these,    *)
(* and what it records are the displays, seen or configured.               *)
PassInv ==
    /\ \A c \in DOMAIN hw : hw[c].id.connector = c
    /\ edits = 0 => ps \in Stores
    /\ pc \in {"settings", "profiles", "validate", "hooks", "apply", "snapshot", "record"}
        => st = stateRead
    /\ pc = "state" /\ epoch = sampledAt => snap = CurrentSample
    /\ pc \in {"settings", "profiles", "validate", "hooks", "apply"} /\ epoch = sampledAt
        => snap = Seen
    /\ edits = 0 /\ pc \in {"profiles", "validate", "hooks", "apply", "snapshot", "record",
                             "lifecycle"}
        => settings = [ps EXCEPT !.profiles = {}]
    /\ edits = 0 /\ pc \in {"validate", "hooks", "apply", "snapshot"} => Chosen
    /\ edits = 0 /\ pc \in {"record", "lifecycle"} /\ job # NoJob => Chosen
    /\ pc = "snapshot" /\ epoch = sampledAt => Applied
    /\ pc \in {"record", "lifecycle"} /\ job # NoJob /\ epoch = sampledAt
        => (reported = snap /\ snap = Seen) \/ (reported = hw /\ Applied)
    /\ pc = "lifecycle" /\ job # NoJob => st = UpdateObserved(stateRead, reported, job.name)

(* What they depend on. *)
LEMMA PassFrame ==
    /\ UNCHANGED <<hw, stateRead>> => Seen' = Seen
    /\ UNCHANGED <<hw, st>> => CurrentSample' = CurrentSample
    /\ UNCHANGED <<ps, snap, stateRead, settings, job>> => (Chosen' <=> Chosen)
    /\ UNCHANGED <<hw, snap, stateRead, job>> => (Applied' <=> Applied)
<1>1. UNCHANGED <<hw, stateRead>> => Seen' = Seen
  BY DEF Seen
<1>2. UNCHANGED <<ps, snap, stateRead, settings, job>> => (Chosen' <=> Chosen)
  BY DEF Chosen, Targets
<1>3. UNCHANGED <<hw, snap, stateRead, job>> => (Applied' <=> Applied)
  BY DEF Applied, Seen
<1> QED
  BY <1>1, <1>2, <1>3 DEF CurrentSample

LEMMA PassInvInit == Init => PassInv
BY SetupsAssumption DEF Init, PassInv

LEMMA WatchPassInv == TypeOK /\ PassInv /\ WatchStep => PassInv'
<1> SUFFICES ASSUME TypeOK, PassInv, WatchStep PROVE PassInv'
  OBVIOUS
<1>1. CASE Connect \/ PollFails \/ PollChanged
  BY <1>1 DEF Connect, PollFails, PollChanged, PassInv
<1>2. CASE ConnectFails \/ PollUnchanged
  <2>1. UNCHANGED vars
    BY <1>2 DEF ConnectFails, PollUnchanged
  <2> QED
    BY <2>1, PassFrame DEF vars, PassInv
<1>3. CASE RecordStarted \/ PersistObserved
  BY <1>3 DEF RecordStarted, PersistObserved, StartPass, PassInv
<1> QED
  BY <1>1, <1>2, <1>3 DEF WatchStep

LEMMA PassPassInv == TypeOK /\ ArrangedInv /\ PassInv /\ PassStep => PassInv'
<1> SUFFICES ASSUME TypeOK, ArrangedInv, PassInv, PassStep PROVE PassInv'
  OBVIOUS
<1>1. CASE SampleFails \/ ReadFails \/ DecideFails
  BY <1>1 DEF SampleFails, ReadFails, DecideFails, BackToWatch, PassInv
<1>2. CASE SampleAgain
  BY <1>2 DEF SampleAgain, PassInv
<1>3. CASE SampleDone
  BY <1>3, PassFrame DEF SampleDone, PassInv
<1>4. CASE ReadState
  <2>1. Seen' = CurrentSample
    BY <1>4 DEF ReadState, Seen, CurrentSample
  <2> QED
    BY <1>4, <2>1 DEF ReadState, PassInv
<1>5. CASE ReadSettings
  BY <1>5, PassFrame DEF ReadSettings, PassInv
<1>6. CASE DecideToApply
  <2>1. Chosen'
    <3>1. PICK order \in IterationOrders : \E target \in Targets(order) :
            /\ target.kind # "none"
            /\ \E plan \in PlansFor(target, snap, settings.builtin) : job'.plan = plan
      BY <1>6 DEF DecideToApply
    <3>2. UNCHANGED <<ps, snap, stateRead, settings>>
      BY <1>6 DEF DecideToApply
    <3>3. Targets(order)' = Targets(order)
      BY <3>2 DEF Targets
    <3> QED
      BY <3>1, <3>2, <3>3 DEF Chosen
  <2>2. \/ pc' = "validate"
        \/ pc' = "record" /\ reported' = snap
    BY <1>6 DEF DecideToApply
  <2> QED
    BY <1>6, <2>1, <2>2, PassFrame DEF DecideToApply, PassInv
<1>7. CASE DecideToRemember
  <2>1. job' = NoJob
    BY <1>7 DEF DecideToRemember, ArrangedInv
  <2> QED
    BY <1>7, <2>1 DEF DecideToRemember, PassInv
<1> QED
  BY <1>1, <1>2, <1>3, <1>4, <1>5, <1>6, <1>7 DEF PassStep

LEMMA ApplyPassInv == TypeOK /\ ArrangedInv /\ PassInv /\ ApplyStep => PassInv'
<1> SUFFICES ASSUME TypeOK, ArrangedInv, PassInv, ApplyStep PROVE PassInv'
  OBVIOUS
<1>1. CASE ValidateAccepted \/ HooksSucceed
  BY <1>1, PassFrame DEF ValidateAccepted, HooksSucceed, PassInv
<1>2. CASE ApplyFails \/ SnapshotFails
  BY <1>2 DEF ApplyFails, SnapshotFails, BackToWatch, PassInv
<1>3. CASE TopologyChanged
  BY <1>3 DEF TopologyChanged, RetryPass, StartPass, BackToWatch, PassInv
<1>4. ASSUME Submittable(job.plan, hw), hw' = Configure(hw, job.plan)
      PROVE  \A c \in DOMAIN hw' : hw'[c].id.connector = c
  <2>1. IsTopology(hw) /\ IsCache(st.known) /\ \A c \in DOMAIN hw : hw[c].id.connector = c
    BY DEF TypeOK, IsState, IsCache, PassInv
  <2>2. DOMAIN hw' = DOMAIN hw /\ \A c \in DOMAIN hw : hw'[c].id = hw[c].id
    BY <1>4, <2>1, ConfigureType, ConfigureKeepsIdentities
  <2> QED
    BY <2>1, <2>2
<1>5. CASE ApplySucceeds
  <2>1. ASSUME epoch = sampledAt PROVE Applied'
    <3>1. /\ snap = Seen /\ Submittable(job.plan, hw) /\ hw' = Configure(hw, job.plan)
          /\ Unmirrored(hw) /\ IsTopology(hw) /\ IsCache(stateRead.known)
          /\ UNCHANGED <<snap, job, stateRead>>
      BY <1>5, <2>1 DEF ApplySucceeds, PassInv, ArrangedInv, TypeOK, IsState, IsCache
    <3>2. Outcome(snap, job.plan, NormalizeTopology(Configure(hw, job.plan), stateRead.known))
      BY <3>1, ConfiguredOutcome DEF Seen
    <3>3. DOMAIN snap = DOMAIN hw
      BY <3>1 DEF Seen, NormalizeTopology
    <3>4. \A c \in DOMAIN snap \cap DOMAIN job.plan :
            job.plan[c].enabled => job.plan[c].mirror = NoValue
      BY <3>1, <3>3 DEF Submittable
    <3> QED
      BY <3>1, <3>2, <3>4 DEF Applied, Seen
  <2> QED
    BY <1>4, <1>5, <2>1, PassFrame DEF ApplySucceeds, PassInv
<1>6. CASE ApplyUnanswered
  BY <1>4, <1>6 DEF ApplyUnanswered, BackToWatch, PassInv
<1>7. CASE Snapshot
  <2>1. CASE HasEnabledRealOutputs(hw)
    BY <1>7, <2>1, PassFrame DEF Snapshot, PassInv
  <2>2. CASE ~HasEnabledRealOutputs(hw)
    BY <1>7, <2>2 DEF Snapshot, RetryPass, StartPass, BackToWatch, PassInv
  <2> QED
    BY <2>1, <2>2
<1> QED
  BY <1>1, <1>2, <1>3, <1>5, <1>6, <1>7 DEF ApplyStep

LEMMA RecordPassInv == TypeOK /\ PassInv /\ RecordStep => PassInv'
<1> SUFFICES ASSUME TypeOK, PassInv, RecordStep PROVE PassInv'
  OBVIOUS
<1>1. CASE Record
  BY <1>1, PassFrame DEF Record, PassInv
<1>2. CASE RecordLifecycle \/ RecordFails
  BY <1>2 DEF RecordLifecycle, RecordFails, BackToWatch, PassInv
<1> QED
  BY <1>1, <1>2 DEF RecordStep

LEMMA EnvironmentPassInv == TypeOK /\ ArrangedInv /\ PassInv /\ Environment => PassInv'
<1> SUFFICES ASSUME TypeOK, ArrangedInv, PassInv, Environment PROVE PassInv'
  OBVIOUS
<1>1. epoch \in Nat /\ sampledAt \in 0..epoch /\ edits \in Nat
  BY BoundsAssumption DEF TypeOK
<1>2. CASE Hotplug
  <2>1. epoch' # sampledAt' /\ \A c \in DOMAIN hw' : hw'[c].id.connector = c
    BY <1>1, <1>2, SetupsAssumption DEF Hotplug
  <2> QED
    BY <1>2, <2>1, PassFrame DEF Hotplug, PassInv
<1>3. CASE CompositorExits
  <2>1. epoch' # sampledAt'
    BY <1>1, <1>3 DEF CompositorExits
  <2> QED
    BY <1>3, <2>1, PassFrame DEF CompositorExits, PassInv
<1>4. CASE CompositorStarts
  <2>1. epoch' # sampledAt' /\ \A c \in DOMAIN hw' : hw'[c].id.connector = c
    BY <1>1, <1>4, SetupsAssumption DEF CompositorStarts, ArrangedInv
  <2> QED
    BY <1>4, <2>1, PassFrame DEF CompositorStarts, PassInv
<1>5. CASE Crash
  BY <1>5 DEF Crash, PassInv
<1>6. CASE EditStore
  <2>1. edits' # 0
    BY <1>1, <1>6 DEF EditStore
  <2> QED
    BY <1>6, <2>1, PassFrame DEF EditStore, PassInv
<1> QED
  BY <1>2, <1>3, <1>4, <1>5, <1>6 DEF Environment

LEMMA PassInvNext == TypeOK /\ ArrangedInv /\ PassInv /\ [Next]_vars => PassInv'
<1>1. PassInv /\ UNCHANGED vars => PassInv'
  BY PassFrame DEF PassInv, vars
<1> QED
  BY <1>1, WatchPassInv, PassPassInv, ApplyPassInv, RecordPassInv, EnvironmentPassInv
     DEF Next, DaemonStep

(* The profiles are read with the state just written as they were with the *)
(* one the pass read: nothing has been learned of a display that completes *)
(* what a profile says of it.                                              *)
NothingLearned ==
    \A q \in ps.profiles, order \in IterationOrders :
        CanonicalizeProfile(q, st.known, order) = CanonicalizeProfile(q, stateRead.known, order)

(* The displays are told apart by the rules and the entries of the         *)
(* profiles of the setup, of which no two have one name, and by those of   *)
(* the layout that is remembered for it.                                   *)
Unmistakable ==
    LET now == CurrentSample
        fp  == SetupFingerprint(now)
    IN  \A order \in IterationOrders :
            /\ \A q \in ProfilesForSetup(ps, fp, st.known, order) :
                /\ Distinguished(q, now)
                /\ \A r \in ProfilesForSetup(ps, fp, st.known, order) : r.name = q.name => r = q
            /\ fp \in DOMAIN st.remembered =>
                Distinguished(ProfileFromTopology(RememberedName, st.remembered[fp], order), now)

(* After an undisturbed pass the displays are, as the state just written   *)
(* completes them, those of the pass, configured by its plan if it was     *)
(* applied.                                                                *)
LEMMA AfterPass ==
    ASSUME TypeOK, ArrangedInv, PassInv, Undisturbed
    PROVE  /\ CurrentSample = Seen /\ IsTopology(Seen) /\ IsTopology(snap)
           /\ \A c \in DOMAIN Seen : Seen[c].id.connector = c
           /\ st.remembered = Remember(stateRead.remembered, Seen)
           /\ snap = Seen \/ Applied
           /\ SameOutputs(snap, Seen) /\ SetupFingerprint(snap) = SetupFingerprint(Seen)
           /\ LayoutHolds(job.plan, Seen)
<1>1. /\ IsTopology(hw) /\ IsTopology(snap) /\ IsState(stateRead) /\ IsCache(stateRead.known)
      /\ st = UpdateObserved(stateRead, reported, job.name)
      /\ (reported = snap /\ snap = Seen) \/ (reported = hw /\ Applied)
      /\ LayoutHolds(job.plan, hw) /\ \A c \in DOMAIN hw : hw[c].id.connector = c
  BY DEF TypeOK, IsState, IsCache, PassInv, ArrangedInv, Undisturbed
<1>2. NormalizeTopology(reported, stateRead.known) = Seen
  <2>1. NormalizeTopology(Seen, stateRead.known) = Seen
    BY <1>1, NormalizedTwice DEF Seen
  <2> QED
    BY <1>1, <2>1 DEF Seen
<1>3. st.known = CacheIdentities(stateRead.known, Seen)
  BY <1>1, <1>2, UpdateObservedFields
<1>4. st.remembered = Remember(stateRead.remembered, Seen)
  BY <1>1, <1>2, UpdateObservedFields
<1>5. CurrentSample = Seen
  BY <1>1, <1>3, NormalizeAgain DEF CurrentSample, Seen
<1>6. IsTopology(Seen) /\ DOMAIN Seen = DOMAIN hw
  BY <1>1, NormalizeKeepsLayout DEF Seen, IsCache
<1>7. ASSUME NEW c \in DOMAIN Seen PROVE Seen[c].id.connector = c
  <2>1. hw[c].id \in OutputIdentity /\ c \in Connectors /\ hw[c].id.connector = c
    BY <1>1, <1>6 DEF IsTopology, OutputState
  <2>2. Seen[c].id = IF c \in DOMAIN stateRead.known
                     THEN WithFallback(hw[c].id, stateRead.known[c]) ELSE hw[c].id
    BY <1>1, <1>6, NormalizedIdentity DEF Seen
  <2>3. CASE c \in DOMAIN stateRead.known
    <3>1. stateRead.known[c] \in OutputIdentity
      BY <1>1, <2>3 DEF IsCache
    <3>2. Present(hw[c].id.connector)
      BY <2>1, NoValueAssumption DEF Present
    <3> QED
      BY <2>1, <2>2, <2>3, <3>1, <3>2, WithFallbackAgain
  <2> QED
    BY <2>1, <2>2, <2>3
<1>8. SameOutputs(snap, Seen)
  BY <1>1, <1>6 DEF Applied, Outcome, SameOutputs
<1>9. SetupFingerprint(snap) = SetupFingerprint(Seen)
  BY <1>8 DEF SameOutputs, SetupFingerprint, RealOutputs
<1>10. LayoutHolds(job.plan, Seen)
  BY <1>1, CompletedHolds DEF Seen
<1> QED
  BY <1>1, <1>4, <1>5, <1>6, <1>7, <1>8, <1>9, <1>10

(* The profiles the pass chose from are those of the next one, read again. *)
LEMMA PassReread ==
    ASSUME TypeOK, ArrangedInv, PassInv, Undisturbed, edits = 0, Unmistakable, NothingLearned,
           NEW o \in IterationOrders, NEW order \in IterationOrders
    PROVE  LET fp == SetupFingerprint(Seen)
           IN  Reread(ProfilesForSetup(ps, fp, stateRead.known, o),
                      ProfilesForSetup(ps, fp, st.known, order), snap, Seen)
<1> DEFINE fp == SetupFingerprint(Seen)
           P == ProfilesForSetup(ps, fp, stateRead.known, o)
           Q == ProfilesForSetup(ps, fp, st.known, order)
<1>1. /\ CurrentSample = Seen /\ IsTopology(Seen) /\ IsTopology(snap) /\ SameOutputs(snap, Seen)
  BY AfterPass
<1>2. /\ IsFiniteSet(Connectors) /\ IsStore(ps) /\ IsCache(st.known)
      /\ \A s \in ps.profiles : IsTopology(s.layout) /\ s.rules \in Seq(MatchRule)
  BY SetupsAssumption, StoresAssumption DEF TypeOK, IsState, IsCache, PassInv
<1>3. P = ProfilesForSetup(ps, fp, st.known, o)
  <2>1. {CanonicalizeProfile(q, stateRead.known, o) : q \in ps.profiles}
            = {CanonicalizeProfile(q, st.known, o) : q \in ps.profiles}
    BY DEF NothingLearned
  <2> QED
    BY <2>1 DEF ProfilesForSetup
<1> HIDE DEF fp, P, Q
<1>4. ASSUME NEW x \in IterationOrders, NEW R, R = ProfilesForSetup(ps, fp, st.known, x)
      PROVE  ReadingOf(R, snap, Seen)
  <2>1. ASSUME NEW q \in R
        PROVE  /\ IsProfile(q) /\ Matchable(q, snap) /\ Matchable(q, Seen)
    BY <1>1, <1>2, <1>4, <2>1, StoredAgain
  <2>2. ASSUME NEW q \in R
        PROVE  Distinguished(q, Seen) /\ \A r \in R : r.name = q.name => r = q
    BY <1>1, <1>4, <2>2 DEF Unmistakable, fp
  <2> QED
    BY <2>1, <2>2 DEF ReadingOf, IsProfile
<1>5. ReadingOf(P, snap, Seen) /\ ReadingOf(Q, snap, Seen)
  BY <1>3, <1>4 DEF Q
<1>6. \A p \in P : \E q \in Q : ReadAlike(p, q)
  BY <1>2, <1>3, StoredAgain DEF Q
<1>7. \A q \in Q : \E p \in P : ReadAlike(p, q)
  BY <1>2, <1>3, StoredAgain DEF Q
<1>8. Reread(P, Q, snap, Seen)
  BY <1>1, <1>5, <1>6, <1>7 DEF Reread
<1> QED
  BY <1>8 DEF fp, P, Q

(* What the next pass would choose is in place. *)
LEMMA PassAgrees ==
    TypeOK /\ ArrangedInv /\ PassInv => (Unmistakable /\ NothingLearned => NextPassAgrees)
<1> DEFINE fp == SetupFingerprint(Seen)
           now == NormalizeTopology(hw, st.known)
           key == SetupFingerprint(now)
<1> SUFFICES ASSUME TypeOK, ArrangedInv, PassInv, Unmistakable, NothingLearned,
                    Undisturbed, edits = 0, NEW order \in IterationOrders,
                    NEW next \in SelectTargets(now, ProfilesForSetup(ps, key, st.known, order),
                                               ps, st.remembered, order)
             PROVE  \E plan \in PlansFor(next, now, ps.builtin) : LayoutHolds(plan, now)
  BY DEF NextPassAgrees
<1>1. /\ CurrentSample = Seen /\ IsTopology(Seen) /\ IsTopology(snap)
      /\ \A c \in DOMAIN Seen : Seen[c].id.connector = c
      /\ st.remembered = Remember(stateRead.remembered, Seen)
      /\ snap = Seen \/ Applied
      /\ SameOutputs(snap, Seen) /\ SetupFingerprint(snap) = SetupFingerprint(Seen)
      /\ LayoutHolds(job.plan, Seen)
  BY AfterPass
<1>2. now = Seen /\ key = fp
  BY <1>1 DEF CurrentSample
<1>3. /\ IsFiniteSet(Connectors) /\ IsStore(ps) /\ IsState(st) /\ IsState(stateRead)
      /\ settings = [ps EXCEPT !.profiles = {}] /\ Chosen
  BY SetupsAssumption DEF TypeOK, PassInv, Undisturbed
<1>4. /\ settings.defaults = ps.defaults /\ settings.layouts = ps.layouts
      /\ settings.builtin = ps.builtin
  BY <1>3 DEF IsStore
<1> HIDE DEF fp, now, key
<1>5. PICK o \in IterationOrders : \E target \in Targets(o) :
        target.kind # "none" /\ job.plan \in PlansFor(target, snap, settings.builtin)
  BY <1>3 DEF Chosen
<1>6. PICK target \in Targets(o) :
        target.kind # "none" /\ job.plan \in PlansFor(target, snap, settings.builtin)
  BY <1>5
<1> DEFINE P == ProfilesForSetup(ps, fp, stateRead.known, o)
           Q == ProfilesForSetup(ps, fp, st.known, order)
           R == stateRead.remembered
           S == st.remembered
<1>7. Reread(P, Q, snap, Seen)
  BY PassReread DEF fp
<1>8. /\ target \in SelectTargets(snap, P, settings, R, o)
      /\ next \in SelectTargets(Seen, Q, ps, S, order)
  BY <1>1, <1>2, <1>6 DEF Targets, fp
<1>9. \A p \in P \cup Q : ProfileSetupFingerprint(p) = fp
  BY DEF ProfilesForSetup
<1>10. /\ HasEnabledRealOutputs(Seen) => S = Put(R, fp, Seen)
       /\ ~HasEnabledRealOutputs(Seen) => S = R
  BY <1>1 DEF Remember, fp
<1>11. fp \in DOMAIN R /\ HasEnabledRealOutputs(R[fp])
        => fp \in DOMAIN S /\ HasEnabledRealOutputs(S[fp])
  BY <1>10 DEF Put
<1>12. SetupFingerprint(snap) = fp /\ SetupFingerprint(Seen) = fp
  BY <1>1 DEF fp
<1> HIDE DEF P, Q, R, S
<1>13. ChosenAgain(target, next, P, Q, ps.layouts, fp, R, S, o, order)
  BY <1>4, <1>6, <1>7, <1>8, <1>9, <1>11, <1>12, SelectAgain
<1>14. ASSUME NEW p \in P, NEW q \in Q, ReadAlike(p, q), NEW kind \in {"default", "exact"},
              target = ProfileTarget(kind, p), next = ProfileTarget(kind, q)
       PROVE  \E plan \in PlansFor(next, Seen, ps.builtin) : LayoutHolds(plan, Seen)
  <2>1. job.plan \in ProfilePlans(p, snap)
    BY <1>6, <1>14 DEF ProfileTarget, PlansFor
  <2>2. MatchesExactly(p, snap) /\ job.plan = PlanFromProfile(p, snap)
    BY <2>1 DEF ProfilePlans
  <2>3. MatchesExactly(q, Seen) /\ PlanFromProfile(q, Seen) = PlanFromProfile(p, snap)
    BY <1>7, <1>14, <2>2, AlikeMatch
  <2>4. job.plan \in ProfilePlans(q, Seen)
    BY <2>2, <2>3 DEF ProfilePlans
  <2>5. PlansFor(next, Seen, ps.builtin) = ProfilePlans(q, Seen)
    BY <1>14 DEF ProfileTarget, PlansFor
  <2> QED
    BY <1>1, <2>4, <2>5
<1>15. ASSUME next = target, target = LayoutTarget(ps.layouts[fp]), fp \in DOMAIN ps.layouts
       PROVE  \E plan \in PlansFor(next, Seen, ps.builtin) : LayoutHolds(plan, Seen)
  <2> DEFINE preset == ps.layouts[fp]
  <2>1. preset \in VirtualPresets
    BY <1>3, <1>15 DEF IsStore
  <2> HIDE DEF preset
  <2>2. \A t : PlansFor(target, t, ps.builtin) = PresetPlans(preset, t, ps.builtin)
    BY <1>15 DEF LayoutTarget, PlansFor, preset
  <2>3. job.plan \in PresetPlans(preset, snap, ps.builtin)
    BY <1>4, <1>6, <2>2
  <2>4. CASE snap = Seen
    BY <1>1, <1>15, <2>2, <2>3, <2>4
  <2>5. CASE Applied
    <3>1. \E again \in PresetPlans(preset, Seen, ps.builtin) : LayoutHolds(again, Seen)
      BY <1>1, <1>3, <2>1, <2>3, <2>5, AnyPresetAgain DEF Applied
    <3> QED
      BY <1>15, <2>2, <3>1
  <2> QED
    BY <1>1, <2>4, <2>5
<1>16. ASSUME fp \in DOMAIN R, fp \in DOMAIN S,
              target = ProfileTarget("remembered", ProfileFromTopology(RememberedName, R[fp], o)),
              next = ProfileTarget("remembered", ProfileFromTopology(RememberedName, S[fp], order))
       PROVE  \E plan \in PlansFor(next, Seen, ps.builtin) : LayoutHolds(plan, Seen)
  <2> DEFINE p == ProfileFromTopology(RememberedName, R[fp], o)
             q == ProfileFromTopology(RememberedName, S[fp], order)
             r == ProfileFromTopology(RememberedName, S[fp], o)
  <2>1. job.plan \in ProfilePlans(p, snap)
    BY <1>6, <1>16 DEF ProfileTarget, PlansFor
  <2>2. PlansFor(next, Seen, ps.builtin) = ProfilePlans(q, Seen)
    BY <1>16 DEF ProfileTarget, PlansFor
  <2>3. Distinguished(q, Seen) /\ Distinguished(r, Seen)
    BY <1>1, <1>16 DEF Unmistakable, fp, S
  <2>4. IsTopology(R[fp]) /\ IsTopology(S[fp])
    BY <1>3, <1>16 DEF IsState, R, S
  <2>5. q.layout = S[fp] /\ q.rules = RulesFromLayout(S[fp], order)
    BY <1>3, <2>4, RememberedAgain
  <2>6. CASE HasEnabledRealOutputs(Seen)
    <3>1. S[fp] = Seen
      BY <1>10, <2>6 DEF Put
    <3>2. q.layout = Seen /\ q.rules = RulesFromLayout(Seen, order)
      BY <2>5, <3>1
    <3> HIDE DEF q
    <3>3. \E plan \in ProfilePlans(q, Seen) : LayoutHolds(plan, Seen)
      BY <1>1, <1>3, <2>3, <3>2, OwnLayoutStays
    <3> QED
      BY <2>2, <3>3
  <2>7. CASE ~HasEnabledRealOutputs(Seen)
    <3>1. p = r
      BY <1>10, <2>7
    <3>2. /\ p.layout = q.layout /\ SameRules(p, q)
          /\ \A u : IsTopology(u) => Matchable(p, u) /\ Matchable(q, u)
      <4>1. /\ r.layout = S[fp] /\ q.layout = S[fp] /\ SameRules(r, q)
            /\ \A u : IsTopology(u) => Matchable(r, u) /\ Matchable(q, u)
        BY <1>3, <2>4, RememberedAgain
      <4> QED
        BY <3>1, <4>1
    <3>3. Distinguished(p, Seen)
      BY <2>3, <3>1
    <3> HIDE DEF p, q, r
    <3>4. MatchesExactly(p, snap) /\ job.plan = PlanFromProfile(p, snap)
      BY <2>1 DEF ProfilePlans
    <3>5. MatchesExactly(q, Seen) /\ PlanFromProfile(q, Seen) = PlanFromProfile(p, snap)
      BY <1>1, <2>3, <3>2, <3>3, <3>4, SameMatch
    <3>6. job.plan \in ProfilePlans(q, Seen)
      BY <3>4, <3>5 DEF ProfilePlans
    <3> QED
      BY <1>1, <2>2, <3>6
  <2> QED
    BY <2>6, <2>7
<1>17. \E plan \in PlansFor(next, Seen, ps.builtin) : LayoutHolds(plan, Seen)
  BY <1>13, <1>14, <1>15, <1>16 DEF ChosenAgain
<1> QED
  BY <1>2, <1>17

(* After an undisturbed pass the next one, reading the state just written, *)
(* chooses what is in place, be it a profile, a built-in layout or what is *)
(* remembered: passes do not undo one another (daemon.rs,                  *)
(* maybe_apply_matching_profile; selection.rs, matcher.rs, presets.rs,     *)
(* state.rs).  The displays are told apart, the setup has one profile of a *)
(* name, and the pass has learned of no display what its profiles lack.    *)
THEOREM PassesAgree == SafetySpec => [](Unmistakable /\ NothingLearned => NextPassAgrees)
<1>1. SafetySpec => []PassInv
  BY PassInvInit, PassInvNext, AlwaysArranged, TypeCorrect, PTL DEF SafetySpec
<1> QED
  BY <1>1, AlwaysArranged, TypeCorrect, PassAgrees, PTL
=============================================================================
