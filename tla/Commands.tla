------------------------------ MODULE Commands ------------------------------
(***************************************************************************)
(* The commands of waytorandr that change something: save, set, set        *)
(* --profile, set auto, remove and cycle (bin/waytorandr/src/commands/     *)
(* write.rs and action.rs with core/src/workflow/execution.rs and          *)
(* core/src/store), against a wlroots compositor.                          *)
(*                                                                         *)
(* Several commands may run at once, and the displays may change under     *)
(* them.  A command is a sequence of steps, each of which looks at the     *)
(* displays, reads one file, replaces one file under its lock or submits   *)
(* a layout; Program says which steps a command takes.  A step that fails, *)
(* or a signal, ends it where it is.                                       *)
(*                                                                         *)
(* Left out: --dry-run, which changes nothing, --force, which matters to   *)
(* backends that cannot validate, and the names given to setups.           *)
(***************************************************************************)
EXTENDS ProfilesFile, Heads, Detection

CONSTANTS
    Procs,         \* the commands that may run at the same time
    CommandLines,  \* what is typed
    Setups,        \* what the compositor may report when displays change
    Stores,        \* profile stores there may be at first
    States,        \* state files there may be at first
    MaxCommands,   \* bound: commands started, those that only cycle excepted
    MaxChanges     \* bound: changes of the displays

CommandLine ==
    [kind : {"save", "set", "profile", "auto", "remove", "cycle"},
     name : Opt(ProfileNames \cup VirtualPresets), default : BOOLEAN, save : BOOLEAN]

ASSUME CommandsAssumption ==
    /\ CommandLines \subseteq CommandLine
    /\ \A c \in CommandLines :
        /\ c.kind = "set" => c.name \in VirtualPresets
        /\ c.kind = "save" => c.name \in Opt(ProfileNames)
        /\ c.kind = "profile" => c.name \in ProfileNames
        /\ c.save => c.kind = "set" /\ c.name \in ProfileNames
        /\ c.default => c.kind \in {"save", "set", "profile"}
    /\ {"default", "custom", "horizontal", "vertical", "mirror"} \subseteq ProfileNames
    /\ MaxCommands \in Nat /\ MaxChanges \in Nat

(* Every output is reported with its connector.                            *)
Connected(t) == \A c \in DOMAIN t : t[c].id.connector = c

ASSUME EnvironmentAssumption ==
    /\ IsFiniteSet(Connectors)
    /\ \A t \in Setups : IsTopology(t) /\ Unmirrored(t) /\ Connected(t)
    /\ \A s \in Stores :
        /\ IsStore(s) /\ IsFiniteSet(s.profiles)
        /\ \A q \in s.profiles : IsTopology(q.layout) /\ q.rules \in Seq(MatchRule)
    /\ \A s \in States : IsState(s)

VARIABLES
    hw,      \* the displays as the compositor reports them
    st,      \* state.toml
    ps,      \* waytorandr.json
    run,     \* of each process: the command it runs and what it holds
    ran,     \* how many commands were started
    epoch    \* how often the displays have changed

shared == <<hw, st, ps>>
vars   == <<shared, run, ran, epoch>>

NoCommand == [kind |-> NoValue, name |-> NoValue, default |-> FALSE, save |-> FALSE]

(* `todo` are the steps left, `topo` and `key` the topology looked at and  *)
(* a setup fingerprint, `known`, `last`, `settings` and `listed` what was  *)
(* read, `name` the profile the command is about, `assign` whether it      *)
(* becomes the default, `target` and `plan` what is applied.  The ghost    *)
(* `quiet` says that nobody else has changed anything since it started.    *)
Idle == [cmd |-> NoCommand, todo |-> <<>>, topo |-> <<>>, key |-> <<>>, known |-> <<>>,
         last |-> NoValue, settings |-> EmptyStore, listed |-> {}, name |-> NoValue,
         assign |-> FALSE, target |-> NoTarget, plan |-> <<>>, quiet |-> FALSE]

Init ==
    /\ hw \in Setups /\ st \in States /\ ps \in Stores
    /\ run = [p \in Procs |-> Idle] /\ ran = 0 /\ epoch = 0

----------------------------------------------------------------------------
(* The steps of a command in their order.  is_implicit_default_for_setup   *)
(* is "layouts"; it and some others put further steps in front.            *)

Applying == <<"plan", "validate", "apply", "snapshot">>

When(condition, steps) == IF condition THEN steps ELSE <<>>

Program(c) ==
    CASE c.kind = "save" ->
            <<"look">> \o When(~c.default, <<"layouts">>)
                \o <<"context", "store", "default", "report">>
      [] c.kind = "set" ->
            When(c.save /\ ~c.default, <<"look", "layouts">>) \o <<"settings">> \o Applying
                \o When(c.save, <<"key", "context", "store", "default">>)
                \o <<"record">>
                \o When(c.default /\ ~c.save, <<"key", "layout">>) \o <<"report">>
      [] c.kind = "profile" ->
            <<"look", "context", "find">> \o Applying \o <<"record">>
                \o When(c.default, <<"key", "default">>) \o <<"report">>
      [] c.kind = "auto" ->
            <<"look", "context", "list", "select">> \o Applying \o <<"record", "report">>
      [] c.kind = "remove" -> <<"look", "context", "exists", "report">>
      [] c.kind = "cycle" ->
            <<"context", "look", "list", "next">> \o Applying \o <<"record", "report">>

At(p, step) == run[p].todo # <<>> /\ Head(run[p].todo) = step

(* The process has done the step and holds r; other steps come first. *)
GoVia(p, steps, r) == run' = [run EXCEPT ![p] = [r EXCEPT !.todo = steps \o Tail(@)]]
Go(p, r)           == GoVia(p, <<>>, r)

(* The step changed the displays or a file. *)
Changing(p, r) ==
    run' = [q \in Procs |-> IF q = p THEN r ELSE [run[q] EXCEPT !.quiet = FALSE]]

GoChanging(p, r) == Changing(p, [r EXCEPT !.todo = Tail(@)])

Private == UNCHANGED <<shared, ran, epoch>>
Writing == UNCHANGED <<ran, epoch>>

Start(p, c) ==
    /\ run[p].todo = <<>>
    /\ c.kind # "cycle" => ran < MaxCommands
    /\ ran' = IF c.kind = "cycle" THEN ran ELSE ran + 1
    /\ run' = [run EXCEPT ![p] = [Idle EXCEPT
                  !.cmd = c, !.todo = Program(c), !.name = c.name, !.assign = c.default,
                  !.target = IF c.kind = "set" THEN LayoutTarget(c.name) ELSE NoTarget,
                  !.quiet = TRUE]]
    /\ UNCHANGED <<shared, epoch>>

(* The command prints its outcome and ends. *)
Report(p) ==
    /\ At(p, "report")
    /\ run' = [run EXCEPT ![p] = Idle]
    /\ Private

(* A file or the compositor cannot be reached, the layout is refused, what *)
(* was asked for is not there, or the process is killed.                   *)
Fails(p) ==
    /\ run[p].todo # <<>>
    /\ run' = [run EXCEPT ![p] = Idle]
    /\ Private

----------------------------------------------------------------------------
(* Looking and reading. *)

Seen == NormalizeTopology(hw, st.known)

(* The name a profile is saved under when none is given. *)
SavedNames(c, t) ==
    IF c.name # NoValue THEN {c.name}
    ELSE IF c.default THEN {"default"}
    ELSE {IF preset = NoValue THEN "custom" ELSE preset : preset \in DetectedPresets(t)}

Look(p) ==
    /\ At(p, "look")
    /\ run[p].cmd.kind = "save" => Seen # <<>>
    /\ \E name \in IF run[p].cmd.kind = "save" THEN SavedNames(run[p].cmd, Seen)
                   ELSE {run[p].name} :
        Go(p, [run[p] EXCEPT !.topo = Seen, !.key = SetupFingerprint(Seen), !.name = name])
    /\ Private

(* ProfileQueryContext::load, and the state that save and remove_for_setup *)
(* and cycle read.                                                         *)
ReadContext(p) ==
    /\ At(p, "context")
    /\ Go(p, [run[p] EXCEPT !.known = st.known, !.last = st.last])
    /\ Private

ReadSettings(p) ==
    /\ At(p, "settings")
    /\ Go(p, [run[p] EXCEPT !.settings = [ps EXCEPT !.profiles = {}]])
    /\ Private

(* Mutant: a default layout is not looked for. *)
ReadLayoutsNot(p) ==
    /\ At(p, "layouts")
    /\ GoVia(p, <<"context", "others">>, run[p])
    /\ Private

(* is_implicit_default_for_setup: not where the setup has a default layout ... *)
ReadLayouts(p) ==
    /\ At(p, "layouts")
    /\ GoVia(p, When(run[p].key \notin DOMAIN ps.layouts, <<"context", "others">>), run[p])
    /\ Private

(* ... and only where all profiles of the setup have this name. *)
ReadOthers(p) ==
    /\ At(p, "others")
    /\ \E order \in IterationOrders :
        LET all == ProfilesForSetup(ps, run[p].key, run[p].known, order)
        IN  Go(p, [run[p] EXCEPT !.assign = \A q \in all : q.name = run[p].name])
    /\ Private

(* Mutant: the fingerprint of what the displays report. *)
ReadKeyReported(p) ==
    /\ At(p, "key")
    /\ Go(p, [run[p] EXCEPT !.key = SetupFingerprint(run[p].topo)])
    /\ Private

(* known_setup_fingerprint of the applied topology. *)
ReadKey(p) ==
    /\ At(p, "key")
    /\ Go(p, [run[p] EXCEPT !.key = SetupFingerprint(NormalizeTopology(run[p].topo, st.known))])
    /\ Private

----------------------------------------------------------------------------
(* Choosing what to apply. *)

Found(p, order) ==
    {q \in ProfilesForSetup(ps, run[p].key, run[p].known, order) : q.name = run[p].cmd.name}

(* set --profile: the profile of this name and setup, unless it is empty. *)
FindProfile(p) ==
    /\ At(p, "find")
    /\ \E order \in IterationOrders : \E q \in FirstListed(Found(p, order)) :
        /\ q.layout # <<>>
        /\ Go(p, [run[p] EXCEPT !.target = ProfileTarget("explicit", q)])
    /\ Private

(* set auto lists all profiles, cycle those of the setup. *)
ListProfiles(p) ==
    /\ At(p, "list")
    /\ \E order \in IterationOrders :
        LET all == {CanonicalizeProfile(q, run[p].known, order) : q \in ps.profiles}
        IN  Go(p, [run[p] EXCEPT !.listed =
                {q \in all : run[p].cmd.kind = "cycle" => ProfileSetupFingerprint(q) = run[p].key}])
    /\ Private

(* set auto: as the daemon decides, but without remembered layouts. *)
Select(p) ==
    /\ At(p, "select")
    /\ \E order \in IterationOrders :
        \E target \in SelectTargets(run[p].topo, run[p].listed, ps, <<>>, order) :
            /\ target # NoTarget
            /\ target.kind # "layout" => target.profile.layout # <<>>
            /\ Go(p, [run[p] EXCEPT !.target = target,
                                    !.settings = [ps EXCEPT !.profiles = {}]])
    /\ Private

(* The profiles in the order of priority and name. *)
Listings(profiles) ==
    LET before(a, b) == a.priority > b.priority \/ (a.priority = b.priority /\ Rank[a.name] < Rank[b.name])
    IN  {s \in [1..Cardinality(profiles) -> profiles] :
            \A i, j \in DOMAIN s : i < j => s[i] # s[j] /\ ~before(s[j], s[i])}

CyclePresets(profiles) ==
    LET free(preset) == When(\A q \in profiles : q.name # preset, <<preset>>)
    IN  free("horizontal") \o free("vertical")

CycleTargets(listing, profiles) ==
    [i \in DOMAIN listing |-> ProfileTarget("explicit", listing[i])]
        \o [i \in DOMAIN CyclePresets(profiles) |-> LayoutTarget(CyclePresets(profiles)[i])]

Positions(targets, last) == {i \in DOMAIN targets : RecordedName(targets[i]) = last}

FirstOf(S) == CHOOSE i \in S : \A j \in S : i <= j

(* Mutant: the cycle does not close. *)
NextIndexClamped(targets, last) ==
    LET at == Positions(targets, last)
    IN  IF at = {} THEN 1 ELSE IF FirstOf(at) = Len(targets) THEN Len(targets) ELSE FirstOf(at) + 1

(* The target after the one that was applied last, else the first. *)
NextIndex(targets, last) ==
    LET at == Positions(targets, last)
    IN  IF at = {} THEN 1 ELSE (FirstOf(at) % Len(targets)) + 1

NextTarget(p) ==
    /\ At(p, "next")
    /\ \E listing \in Listings(run[p].listed) :
        LET targets == CycleTargets(listing, run[p].listed)
            target  == targets[NextIndex(targets, run[p].last)]
        IN  /\ target.kind # "layout" => target.profile.layout # <<>>
            /\ GoVia(p, When(target.kind = "layout", <<"settings">>),
                     [run[p] EXCEPT !.target = target])
    /\ Private

----------------------------------------------------------------------------
(* Applying it: apply_profile_workflow_with_policy and                     *)
(* apply_preset_workflow_with_policy.  The wlroots backend cannot mirror.  *)

Plan(p) ==
    /\ At(p, "plan")
    /\ run[p].target.preset # "mirror"
    /\ \E plan \in PlansFor(run[p].target, Seen, run[p].settings.builtin) :
        Go(p, [run[p] EXCEPT !.plan = plan])
    /\ Private

HookBearing(target) == target.kind # "layout" /\ target.profile.hooks

Validate(p) ==
    /\ At(p, "validate")
    /\ Submittable(run[p].plan, hw)
    /\ GoVia(p, When(HookBearing(run[p].target), <<"hooks">>), run[p])
    /\ Private

RunHooks(p) ==
    /\ At(p, "hooks")
    /\ Go(p, run[p])
    /\ Private

Apply(p) ==
    /\ At(p, "apply")
    /\ Submittable(run[p].plan, hw)
    /\ hw' = Configure(hw, run[p].plan)
    /\ GoChanging(p, run[p])
    /\ UNCHANGED <<st, ps>> /\ Writing

(* The layout takes effect, but the command does not hear of it. *)
ApplyUnanswered(p) ==
    /\ At(p, "apply")
    /\ Submittable(run[p].plan, hw)
    /\ hw' = Configure(hw, run[p].plan)
    /\ Changing(p, Idle)
    /\ UNCHANGED <<st, ps>> /\ Writing

(* Mutant: the plan stands for the displays it was applied to. *)
SnapshotOfPlan(p) ==
    /\ At(p, "snapshot")
    /\ Go(p, [run[p] EXCEPT !.topo = run[p].plan])
    /\ Private

(* The applied topology, as the displays report it. *)
Snapshot(p) ==
    /\ At(p, "snapshot")
    /\ Go(p, [run[p] EXCEPT !.topo = hw])
    /\ Private

----------------------------------------------------------------------------
(* Replacing a file. *)

StoreProfile(p) ==
    /\ At(p, "store")
    /\ \E order \in IterationOrders :
        ps' = SaveProfile(ps, ProfileFromTopology(run[p].name, run[p].topo, order),
                          run[p].known, order)
    /\ GoChanging(p, run[p])
    /\ UNCHANGED <<hw, st>> /\ Writing

SetDefault(p) ==
    /\ At(p, "default")
    /\ IF run[p].assign
       THEN /\ ps' = SetSetupDefaultProfile(ps, run[p].key, run[p].name)
            /\ GoChanging(p, run[p])
       ELSE ps' = ps /\ Go(p, run[p])
    /\ UNCHANGED <<hw, st>> /\ Writing

SetDefaultLayout(p) ==
    /\ At(p, "layout")
    /\ ps' = SetSetupDefaultLayout(ps, run[p].key, run[p].cmd.name)
    /\ GoChanging(p, run[p])
    /\ UNCHANGED <<hw, st>> /\ Writing

(* persist_applied_runtime_state *)
Record(p) ==
    /\ At(p, "record")
    /\ st' = UpdateObserved(st, run[p].topo, RecordedName(run[p].target))
    /\ GoChanging(p, run[p])
    /\ UNCHANGED <<hw, ps>> /\ Writing

(* remove: a profile of the setup, or its default layout.                  *)
ProfileExists(p) ==
    /\ At(p, "exists")
    /\ \E order \in IterationOrders :
        GoVia(p, IF Found(p, order) # {} THEN <<"context", "remove">> ELSE <<"defaulted">>, run[p])
    /\ Private

LayoutDefaulted(p) ==
    /\ At(p, "defaulted")
    /\ LET isDefault == run[p].key \in DOMAIN ps.layouts /\ ps.layouts[run[p].key] = run[p].cmd.name
       IN  GoVia(p, IF isDefault THEN <<"clear">> ELSE <<"context", "remove">>, run[p])
    /\ Private

RemoveProfile(p) ==
    /\ At(p, "remove")
    /\ \E order \in IterationOrders :
        /\ ProfilesNamed(ps, run[p].cmd.name, run[p].key, run[p].known, order) # {}
        /\ ps' = RemoveForSetup(ps, run[p].cmd.name, run[p].key, run[p].known, order)
    /\ GoChanging(p, run[p])
    /\ UNCHANGED <<hw, st>> /\ Writing

ClearLayout(p) ==
    /\ At(p, "clear")
    /\ ps' = ClearSetupDefaultLayout(ps, run[p].key)
    /\ GoChanging(p, run[p])
    /\ UNCHANGED <<hw, st>> /\ Writing

----------------------------------------------------------------------------
Hotplug ==
    /\ epoch < MaxChanges
    /\ hw' \in Setups \ {hw}
    /\ epoch' = epoch + 1
    /\ run' = [p \in Procs |-> [run[p] EXCEPT !.quiet = FALSE]]
    /\ UNCHANGED <<st, ps, ran>>

ReadStep(p)  == \/ Look(p) \/ ReadContext(p) \/ ReadSettings(p) \/ ReadLayouts(p)
                \/ ReadOthers(p) \/ ReadKey(p) \/ ProfileExists(p) \/ LayoutDefaulted(p)
ChooseStep(p) == FindProfile(p) \/ ListProfiles(p) \/ Select(p) \/ NextTarget(p)
ApplyStep(p) == \/ Plan(p) \/ Validate(p) \/ RunHooks(p) \/ Apply(p) \/ ApplyUnanswered(p)
                \/ Snapshot(p)
WriteStep(p) == \/ StoreProfile(p) \/ SetDefault(p) \/ SetDefaultLayout(p) \/ Record(p)
                \/ RemoveProfile(p) \/ ClearLayout(p)

Step(p) ==
    \/ \E c \in CommandLines : Start(p, c)
    \/ ReadStep(p) \/ ChooseStep(p) \/ ApplyStep(p) \/ WriteStep(p)
    \/ Report(p) \/ Fails(p)

Next == (\E p \in Procs : Step(p)) \/ Hotplug

Spec == Init /\ [][Next]_vars
----------------------------------------------------------------------------
(* Properties. *)

Steps == {"look", "layouts", "others", "context", "settings", "key", "exists", "defaulted",
          "find", "list", "select", "next", "plan", "validate", "hooks", "apply", "snapshot",
          "store", "default", "layout", "record", "remove", "clear", "report"}

(* Every variable has its type; plans are typed by the keys they have. *)
TypeOK ==
    /\ IsTopology(hw) /\ IsState(st) /\ IsStore(ps)
    /\ ran \in 0..MaxCommands /\ epoch \in 0..MaxChanges
    /\ DOMAIN run = Procs
    /\ \A p \in Procs :
        /\ run[p].cmd \in CommandLines \cup {NoCommand}
        /\ run[p].todo \in Seq(Steps)
        /\ IsTopology(run[p].topo) /\ IsStore(run[p].settings)
        /\ run[p].last \in Opt(AppliedNames) /\ run[p].name \in Opt(AppliedNames)
        /\ run[p].assign \in BOOLEAN /\ run[p].quiet \in BOOLEAN
        /\ RecordedName(run[p].target) \in Opt(AppliedNames)
        /\ DOMAIN run[p].plan \subseteq Connectors

(* The command has succeeded, and nobody else has changed anything since   *)
(* it was started.                                                         *)
Succeeded(p) == run[p].todo = <<"report">> /\ run[p].quiet

Saves(c)   == c.kind = "save" \/ (c.kind = "set" /\ c.save)
Applies(c) == c.kind \in {"set", "profile", "auto", "cycle"}

CurrentKey == SetupFingerprint(Seen)

CurrentProfiles(order) == ProfilesForSetup(ps, CurrentKey, st.known, order)

AllProfiles(order) == {CanonicalizeProfile(q, st.known, order) : q \in ps.profiles}

Takes(p, step) == At(p, step) /\ run'[p].todo = Tail(run[p].todo)

(* README.md:128-133, 136-140: without --default a saved profile becomes   *)
(* the default of the current setup exactly when it is the only one there  *)
(* and the setup has no default layout.                                    *)
ImplicitDefaultIsOnly ==
    [][\A p \in Procs : \A order \in IterationOrders :
        Takes(p, "default") /\ run[p].quiet /\ ~run[p].cmd.default =>
            LET only == \A q \in CurrentProfiles(order) : q.name = run[p].name
            IN  ps' = IF only /\ CurrentKey \notin DOMAIN ps.layouts
                      THEN SetSetupDefaultProfile(ps, CurrentKey, run[p].name) ELSE ps]_vars

(* A command about one setup and one name leaves the profiles of other     *)
(* setups and names, and the defaults of other setups, as they are         *)
(* (store/write.rs).                                                       *)
OthersUntouched ==
    [][\A p \in Procs : \A order \in IterationOrders :
        run[p].quiet /\ run'[p].todo # run[p].todo =>
            /\ \A q \in ps.profiles \ ps'.profiles :
                /\ q.name = run[p].name
                /\ ProfileSetupFingerprint(CanonicalizeProfile(q, st.known, order)) = CurrentKey
            /\ Drop(ps'.defaults, CurrentKey) = Drop(ps.defaults, CurrentKey)
            /\ Drop(ps'.layouts, CurrentKey) = Drop(ps.layouts, CurrentKey)]_vars

(* What was saved is there: the setup has a profile of its name that holds *)
(* the displays as they are now (write.rs, cmd_save; store/write.rs).      *)
SavedIsFound ==
    \A p \in Procs : \A order \in IterationOrders :
        Succeeded(p) /\ Saves(run[p].cmd) =>
            \E q \in CurrentProfiles(order) : q.name = run[p].name /\ q.layout = Seen

(* What was saved can be set again: it is found under its name, and        *)
(* planning a profile found so for the displays as they are now gives the  *)
(* arrangement that was saved (write.rs, cmd_save and handle_profile_set). *)
SavedComesBack ==
    /\ SavedIsFound
    /\ \A p \in Procs : \A order \in IterationOrders :
        Succeeded(p) /\ Saves(run[p].cmd) =>
            \A q \in CurrentProfiles(order) : q.name = run[p].name =>
                \E plan \in ProfilePlans(q, Seen) : LayoutHolds(plan, hw)

(* What was saved or set as the default is what is chosen, whatever was    *)
(* the default before (store/write.rs).  For these commands it is the      *)
(* first half of DefaultIsFollowed.                                        *)
DefaultIsChosen ==
    \A p \in Procs : \A order \in IterationOrders :
        Succeeded(p) /\ run[p].assign /\ run[p].cmd.kind \in {"save", "set"} =>
            \A target \in SelectTargets(Seen, AllProfiles(order), ps, <<>>, order) :
                RecordedName(target) = run[p].name

(* What was made the default is what `set auto` chooses now, and its       *)
(* layout is in place (action.rs, known_setup_fingerprint).                *)
DefaultIsFollowed ==
    \A p \in Procs : \A order \in IterationOrders :
        Succeeded(p) /\ run[p].assign /\ run[p].cmd.kind # "remove" =>
            \A target \in SelectTargets(Seen, AllProfiles(order), ps, <<>>, order) :
                /\ RecordedName(target) = run[p].name
                /\ \E plan \in PlansFor(target, Seen, ps.builtin) : LayoutHolds(plan, hw)

(* A layout that was set is in place, and it is what is remembered for the *)
(* setup, under its name (action.rs, persist_applied_profile_runtime_state). *)
AppliedIsRecorded ==
    \A p \in Procs :
        Succeeded(p) /\ Applies(run[p].cmd) =>
            /\ LayoutHolds(run[p].plan, hw)
            /\ st.last = RecordedName(run[p].target)
            /\ HasEnabledRealOutputs(hw) =>
                CurrentKey \in DOMAIN st.remembered /\ st.remembered[CurrentKey] = Seen

TargetNames ==
    UNION {{q.name : q \in CurrentProfiles(order)} : order \in IterationOrders}
        \cup {"horizontal", "vertical"}

CycleSucceeds == \E p \in Procs : run[p].cmd.kind = "cycle" /\ Report(p)

(* README.md:91: whoever keeps cycling comes by every target, as long as   *)
(* the commands succeed (write.rs, cmd_cycle).                             *)
CycleReachesAll ==
    []<><<CycleSucceeds>>_vars =>
        \A name \in AppliedNames : <>[](name \in TargetNames) => []<>(st.last = name)
=============================================================================
