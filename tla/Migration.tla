------------------------------ MODULE Migration ------------------------------
(***************************************************************************)
(* How the profiles and defaults of earlier versions get into              *)
(* waytorandr.json: crates/core/src/store/migration.rs, store/legacy.rs    *)
(* and store/persistence.rs.                                               *)
(*                                                                         *)
(* Earlier versions kept profiles.json, or one TOML file per profile in    *)
(* profiles/ and the directories in it, and the default profiles in        *)
(* state.toml.  Every command and the daemon migrate what they find each   *)
(* time they open the store, before they do their work.  Only the updates  *)
(* of waytorandr.json are made under its lock: renaming profiles.json,     *)
(* unlinking the TOML files and reading state.toml are not, so processes   *)
(* that start together do them in any order, and one that dies leaves the  *)
(* rest to the next.  A system call that fails ends the migration as       *)
(* death does (Dies).                                                      *)
(*                                                                         *)
(* An update is visible as a whole once it is made (module FileStore), so  *)
(* it is one step here.  A profile is a name, the setup it is for and a    *)
(* layout; its hooks and its priority are left out.                        *)
(***************************************************************************)
EXTENDS Naturals, Functions

CONSTANTS
    Procs, NoProc,
    Names, Setups, Layouts,
    ReservedSetups,    \* the setups whose fingerprint starts with "__"
    Paths,             \* the TOML files of an earlier version
    Nested,            \* those of them in a directory of profiles/
    Content,           \* the profile in each file
    OldStores,         \* the stores an earlier version may have left
    OldDefaults,       \* the default profiles it may have left in state.toml
    NoValue, NoTask,
    Tasks,             \* what the processes do once the store is open
    MaxRuns,           \* bound: processes started
    MaxDeaths          \* bound: processes that die

Profile == [name : Names, setup : Setups, layout : Layouts]

ASSUME ProcsAssumption == NoProc \notin Procs
ASSUME SetupsAssumption == ReservedSetups \subseteq Setups
ASSUME PathsAssumption == Nested \subseteq Paths /\ Content \in [Paths -> Profile]

(* Commands: save a profile, remove one, choose a default profile or a     *)
(* default layout for a setup.  A process without a task (the daemon) only *)
(* opens the store.                                                        *)
Commands ==
    [kind : {"save"}, profile : Profile]
    \cup [kind : {"remove", "default"}, name : Names, setup : Setups \ ReservedSetups]
    \cup [kind : {"layout"}, setup : Setups \ ReservedSetups]

ASSUME TasksAssumption == Tasks \subseteq Commands \cup {NoTask} /\ NoTask \in Tasks
ASSUME BoundsAssumption == MaxRuns \in Nat /\ MaxDeaths \in Nat

(* The default profile of some of the setups. *)
Defaults == UNION {[S -> Names] : S \in SUBSET Setups}

(* A ProfilesFile; `layouts` are the setups whose default is a layout. *)
Store == [profiles : SUBSET Profile, defaults : Defaults, layouts : SUBSET Setups]

ASSUME OldAssumption == OldStores \subseteq Store /\ OldDefaults \subseteq Defaults
ASSUME NoValueAssumption ==
    /\ NoValue \notin Store \cup Layouts \cup Names \cup {"layout"}
    /\ "layout" \notin Names

VARIABLES
    target,    \* waytorandr.json, or NoValue
    json,      \* profiles.json, or NoValue
    files,     \* the TOML files there are
    dirs,      \* "root" (profiles/) and "nested" (a directory in it), if there
    legacy,    \* the default profiles in state.toml
    holder,    \* who holds the lock of waytorandr.json
    pc,        \* of each process: its next step
    memory,    \* of each process: what it knows (Fresh)
    outcome,   \* of each process: how its last migration ended
    runs, deaths,
    old,       \* history: what the earlier version left
    asked,     \* history: the last layout users saved under a name for a setup
    chosen,    \* history: the last default users chose for a setup
    alone      \* history: whether a process has had the files to itself

disk    == <<target, json, files, dirs, legacy>>
history == <<runs, deaths, old, asked, chosen, alone>>
vars    == <<disk, holder, pc, memory, outcome, history>>
----------------------------------------------------------------------------
Put(f, k, v)  == [x \in DOMAIN f \cup {k} |-> IF x = k THEN v ELSE f[x]]
Drop(f, k)    == Restrict(f, DOMAIN f \ {k})
Key(q)        == <<q.name, q.setup>>
Contents(fs)  == {Content[f] : f \in fs}

(* What load_profiles_file finds: waytorandr.json, else profiles.json, else *)
(* the TOML files.                                                          *)
StoreOf(fs)   == [profiles |-> Contents(fs), defaults |-> <<>>, layouts |-> {}]
LegacyStore   == IF json # NoValue THEN json ELSE StoreOf(files)
View          == IF target # NoValue THEN target ELSE LegacyStore

Conflicting(ps) == \E q, r \in ps : Key(q) = Key(r) /\ q.layout # r.layout

(* The command a process is, the update it makes under the lock, the store *)
(* it loaded, the files it listed and has not unlinked, and the defaults   *)
(* it read from state.toml.                                                *)
Fresh == [task |-> NoTask, phase |-> "merge", loaded |-> NoValue, found |-> {}, stale |-> <<>>]

Goto(p, l) == pc' = [pc EXCEPT ![p] = l]

Learn(p, field, v) == memory' = [memory EXCEPT ![p][field] = v]

(* The next update of the store is for `phase`. *)
Enter(p, phase, stale) ==
    /\ memory' = [memory EXCEPT ![p] = [@ EXCEPT !.phase = phase, !.stale = stale]]
    /\ Goto(p, "lock")

Directories == {"root"} \cup IF Nested # {} THEN {"nested"} ELSE {}

OldDefault(s) == IF s \in DOMAIN View.defaults THEN View.defaults[s] ELSE legacy[s]

Init ==
    /\ target \in OldStores \cup {NoValue} /\ json \in OldStores \cup {NoValue}
    /\ files \in SUBSET Paths
    /\ dirs \in {{}, Directories} /\ (files # {} => dirs # {})
    /\ legacy \in OldDefaults
    /\ holder = NoProc
    /\ pc = [p \in Procs |-> "stopped"] /\ memory = [p \in Procs |-> Fresh]
    /\ outcome = [p \in Procs |-> "none"]
    /\ runs = 0 /\ deaths = 0
    /\ old = [profiles |-> View.profiles \cup Contents(files),
              defaults |-> [s \in (DOMAIN View.defaults \cup DOMAIN legacy)
                                  \ (ReservedSetups \cup View.layouts) |-> OldDefault(s)]]
    /\ asked = <<>> /\ chosen = <<>>
    /\ alone = [p \in Procs |-> FALSE]

----------------------------------------------------------------------------
(* A command or the daemon starts, and opens the store. *)
Start(p, t) ==
    /\ pc[p] = "stopped" /\ runs < MaxRuns
    /\ runs' = runs + 1
    /\ Learn(p, "task", t)
    /\ outcome' = [outcome EXCEPT ![p] = "none"]
    /\ alone' = [q \in Procs |-> q = p /\ \A r \in Procs \ {p} : pc[r] = "stopped"]
    /\ Goto(p, "seeTarget")
    /\ UNCHANGED <<disk, holder, deaths, old, asked, chosen>>

(* The lock goes with the process. *)
Stop(p) ==
    /\ holder' = IF holder = p THEN NoProc ELSE holder
    /\ memory' = [memory EXCEPT ![p] = Fresh]
    /\ Goto(p, "stopped")

Fail(p, why) ==
    /\ outcome' = [outcome EXCEPT ![p] = why]
    /\ Stop(p)

Dies(p) ==
    /\ pc[p] # "stopped" /\ deaths < MaxDeaths
    /\ deaths' = deaths + 1
    /\ Fail(p, "died")
    /\ UNCHANGED <<disk, runs, old, asked, chosen, alone>>
----------------------------------------------------------------------------
(* migrate_legacy_profiles_json: two looks at the disk and a rename, with  *)
(* other processes at work between them.  A rename that fails because      *)
(* another process was first is no failure.                                *)

SeeTarget(p) ==
    /\ pc[p] = "seeTarget"
    /\ Goto(p, IF target # NoValue THEN "seeDirectory" ELSE "seeJson")
    /\ UNCHANGED <<disk, holder, memory, outcome, history>>

SeeJson(p) ==
    /\ pc[p] = "seeJson"
    /\ Goto(p, IF json # NoValue THEN "rename" ELSE "seeDirectory")
    /\ UNCHANGED <<disk, holder, memory, outcome, history>>

RenameJson(p) ==
    /\ pc[p] = "rename"
    /\ target' = IF json # NoValue THEN json ELSE target
    /\ json' = NoValue
    /\ Goto(p, "seeDirectory")
    /\ UNCHANGED <<files, dirs, legacy, holder, memory, outcome, history>>

SeeDirectory(p) ==
    /\ pc[p] = "seeDirectory"
    /\ Goto(p, IF "root" \in dirs THEN "lock" ELSE "seeState")
    /\ UNCHANGED <<disk, holder, memory, outcome, history>>
----------------------------------------------------------------------------
(* update_profiles_file: the lock, then a load that looks at the disk      *)
(* twice.                                                                  *)

LockStore(p) ==
    /\ pc[p] = "lock" /\ holder = NoProc
    /\ holder' = p
    /\ Goto(p, "load")
    /\ UNCHANGED <<disk, memory, outcome, history>>

Loaded(p, s) ==
    /\ Learn(p, "loaded", s)
    /\ Goto(p, IF memory[p].phase = "merge" THEN "list" ELSE "update")

LoadTarget(p) ==
    /\ pc[p] = "load"
    /\ IF target # NoValue THEN Loaded(p, target)
       ELSE Goto(p, "loadLegacy") /\ UNCHANGED memory
    /\ UNCHANGED <<disk, holder, outcome, history>>

LoadLegacy(p) ==
    /\ pc[p] = "loadLegacy"
    /\ Loaded(p, LegacyStore)
    /\ UNCHANGED <<disk, holder, outcome, history>>

(* The store is saved and the lock released; what was loaded is forgotten. *)
Update(p, s) ==
    /\ target' = s
    /\ holder' = NoProc
    /\ Learn(p, "loaded", NoValue)
----------------------------------------------------------------------------
(* migrate_legacy_profiles. *)

ListLegacy(p) ==
    /\ pc[p] = "list"
    /\ IF "root" \in dirs
       THEN /\ Learn(p, "found", files)
            /\ Goto(p, "merge")
            /\ UNCHANGED <<holder, outcome>>
       ELSE Fail(p, "raced")
    /\ UNCHANGED <<disk, history>>

Merged(s, fs) == [s EXCEPT !.profiles = @ \cup Contents(fs)]

(* The files that were listed, and the profiles the store would have. *)
Listed(p) == memory[p].found
After(p)  == Merged(memory[p].loaded, Listed(p)).profiles

(* Mutant: a file that says nothing new is not unlinked. *)
MergeLegacyNew(p) ==
    LET new == {f \in Listed(p) : Content[f] \notin memory[p].loaded.profiles}
    IN  /\ pc[p] = "merge" /\ Listed(p) \subseteq files /\ ~Conflicting(After(p))
        /\ target' = Merged(memory[p].loaded, Listed(p)) /\ holder' = NoProc
        /\ memory' = [memory EXCEPT ![p].loaded = NoValue, ![p].found = new]
        /\ Goto(p, IF new = {} THEN "seeState" ELSE "unlink")
        /\ UNCHANGED <<json, files, dirs, legacy, outcome, history>>

(* Mutant: a profile with the name of a stored one is the stored one. *)
MergeLegacyByName(p) ==
    LET names == {q.name : q \in memory[p].loaded.profiles}
    IN  /\ pc[p] = "merge" /\ Listed(p) \subseteq files
        /\ Update(p, Merged(memory[p].loaded, {f \in Listed(p) : Content[f].name \notin names}))
        /\ Goto(p, IF Listed(p) = {} THEN "seeState" ELSE "unlink")
        /\ UNCHANGED <<json, files, dirs, legacy, outcome, history>>

(* Mutant: a stored profile of that name and setup is a conflict. *)
MergeLegacyOnce(p) ==
    /\ pc[p] = "merge" /\ Listed(p) \subseteq files
    /\ IF \E q \in memory[p].loaded.profiles : \E f \in Listed(p) : Key(q) = Key(Content[f])
       THEN Fail(p, "conflict") /\ UNCHANGED target
       ELSE /\ Update(p, Merged(memory[p].loaded, Listed(p)))
            /\ Goto(p, IF Listed(p) = {} THEN "seeState" ELSE "unlink")
            /\ UNCHANGED outcome
    /\ UNCHANGED <<json, files, dirs, legacy, history>>

(* Mutant: an error leaves the lock taken. *)
MergeLegacyKeepingLock(p) ==
    /\ pc[p] = "merge"
    /\ IF Listed(p) \subseteq files /\ ~Conflicting(After(p))
       THEN /\ Update(p, Merged(memory[p].loaded, Listed(p)))
            /\ Goto(p, IF Listed(p) = {} THEN "seeState" ELSE "unlink")
       ELSE /\ Goto(p, "stopped")
            /\ UNCHANGED <<target, holder, memory>>
    /\ UNCHANGED <<json, files, dirs, legacy, outcome, history>>

(* Each file is read and merged with the store.  One that is gone since it *)
(* was listed, or says something else than the store, is an error, and     *)
(* then nothing is saved.                                                  *)
MergeLegacy(p) ==
    /\ pc[p] = "merge"
    /\ \/ /\ ~(Listed(p) \subseteq files)
          /\ Fail(p, "raced")
          /\ UNCHANGED target
       \/ /\ Listed(p) \subseteq files /\ Conflicting(After(p))
          /\ Fail(p, "conflict")
          /\ UNCHANGED target
       \/ /\ Listed(p) \subseteq files /\ ~Conflicting(After(p))
          /\ Update(p, Merged(memory[p].loaded, Listed(p)))
          /\ Goto(p, IF Listed(p) = {} THEN "seeState" ELSE "unlink")
          /\ UNCHANGED outcome
    /\ UNCHANGED <<json, files, dirs, legacy, history>>

UnlinkLegacy(p, f) ==
    /\ pc[p] = "unlink" /\ f \in Listed(p)
    /\ \/ /\ f \in files
          /\ files' = files \ {f}
          /\ Learn(p, "found", Listed(p) \ {f})
          /\ Goto(p, IF Listed(p) = {f} THEN "rmdir" ELSE "unlink")
          /\ UNCHANGED <<holder, outcome>>
       \/ /\ f \notin files
          /\ Fail(p, "raced")
          /\ UNCHANGED files
    /\ UNCHANGED <<target, json, dirs, legacy, history>>

(* remove_empty_legacy_directories: profiles/ goes when nothing is left in *)
(* it.                                                                     *)
RemoveEmptyDirectories(p) ==
    LET kept == dirs \cap IF files \cap Nested # {} THEN {"nested"} ELSE {}
    IN  /\ pc[p] = "rmdir"
        /\ IF "root" \in dirs
           THEN /\ dirs' = IF files \cup kept = {} THEN {} ELSE {"root"} \cup kept
                /\ Goto(p, "seeState")
                /\ UNCHANGED <<holder, memory, outcome>>
           ELSE Fail(p, "raced") /\ UNCHANGED dirs
        /\ UNCHANGED <<target, json, files, legacy, history>>
----------------------------------------------------------------------------
(* migrate_legacy_defaults_from_state: state.toml is read outside its lock *)
(* and cleared later.                                                      *)

(* The store is open: the process does what it is for. *)
Open(p) ==
    /\ outcome' = [outcome EXCEPT ![p] = "opened"]
    /\ IF memory[p].task = NoTask THEN Stop(p)
       ELSE Enter(p, "work", <<>>) /\ UNCHANGED holder

SeeState(p) ==
    /\ pc[p] = "seeState"
    /\ IF legacy = <<>> THEN Open(p)
       ELSE Enter(p, "defaults", legacy) /\ UNCHANGED <<holder, outcome>>
    /\ UNCHANGED <<disk, history>>

(* Mutant: the defaults of an earlier version replace those of the store. *)
AddDefaultsOver(p) ==
    /\ pc[p] = "update" /\ memory[p].phase = "defaults"
    /\ LET s     == memory[p].loaded
           stale == memory[p].stale
           added == DOMAIN stale \ ReservedSetups
       IN  Update(p, [s EXCEPT !.layouts = @ \ added,
                               !.defaults = [x \in DOMAIN @ \cup added |->
                                   IF x \in added THEN stale[x] ELSE @[x]]])
    /\ Goto(p, "clear")
    /\ UNCHANGED <<json, files, dirs, legacy, outcome, history>>

(* A setup that has a default keeps it. *)
Added(s, stale) == DOMAIN stale \ (ReservedSetups \cup DOMAIN s.defaults \cup s.layouts)

WithAdded(s, stale) ==
    [s EXCEPT !.defaults = [x \in DOMAIN @ \cup Added(s, stale) |->
                                IF x \in Added(s, stale) THEN stale[x] ELSE @[x]]]

AddDefaults(p) ==
    /\ pc[p] = "update" /\ memory[p].phase = "defaults"
    /\ Update(p, WithAdded(memory[p].loaded, memory[p].stale))
    /\ Goto(p, "clear")
    /\ UNCHANGED <<json, files, dirs, legacy, outcome, history>>

ClearDefaults(p) ==
    /\ pc[p] = "clear"
    /\ legacy' = <<>>
    /\ Open(p)
    /\ UNCHANGED <<target, json, files, dirs, history>>
----------------------------------------------------------------------------
(* What the command does to the store: save_with_known_outputs,            *)
(* remove_for_setup_with_known_outputs, set_setup_default_profile and      *)
(* set_setup_default_layout.                                               *)

Others(s, k) == {q \in s.profiles : Key(q) # k}

Saved(s, q) == [s EXCEPT !.profiles = Others(s, Key(q)) \cup {q}]

Removed(s, k) ==
    IF Others(s, k) = s.profiles THEN s
    ELSE [s EXCEPT !.profiles = Others(s, k),
                   !.defaults = IF k[2] \in DOMAIN @ /\ @[k[2]] = k[1]
                                THEN Drop(@, k[2]) ELSE @]

Done(s, t) ==
    CASE t.kind = "save"    -> Saved(s, t.profile)
      [] t.kind = "remove"  -> Removed(s, <<t.name, t.setup>>)
      [] t.kind = "default" -> [s EXCEPT !.layouts = @ \ {t.setup},
                                         !.defaults = Put(@, t.setup, t.name)]
      [] t.kind = "layout"  -> [s EXCEPT !.defaults = Drop(@, t.setup),
                                         !.layouts = @ \cup {t.setup}]

(* NoValue: users removed the profile, or the default with its profile. *)
Asked(t) ==
    CASE t.kind = "save"   -> Put(asked, Key(t.profile), t.profile.layout)
      [] t.kind = "remove" -> Put(asked, <<t.name, t.setup>>, NoValue)
      [] OTHER             -> asked

Chosen(s, t) ==
    CASE t.kind = "default" -> Put(chosen, t.setup, t.name)
      [] t.kind = "layout"  -> Put(chosen, t.setup, "layout")
      [] t.kind = "remove" /\ Done(s, t).defaults # s.defaults -> Put(chosen, t.setup, NoValue)
      [] OTHER              -> chosen

RunCommand(p) ==
    LET task == memory[p].task
        s    == memory[p].loaded
    IN  /\ pc[p] = "update" /\ memory[p].phase = "work"
        /\ target' = IF task.kind = "remove" /\ Done(s, task) = s THEN target ELSE Done(s, task)
        /\ asked' = Asked(task)
        /\ chosen' = Chosen(s, task)
        /\ Stop(p)
        /\ UNCHANGED <<json, files, dirs, legacy, outcome, runs, deaths, old, alone>>
----------------------------------------------------------------------------
Step(p) ==
    \/ SeeTarget(p) \/ SeeJson(p) \/ RenameJson(p) \/ SeeDirectory(p)
    \/ LockStore(p) \/ LoadTarget(p) \/ LoadLegacy(p)
    \/ ListLegacy(p) \/ MergeLegacy(p) \/ RemoveEmptyDirectories(p)
    \/ \E f \in Paths : UnlinkLegacy(p, f)
    \/ SeeState(p) \/ AddDefaults(p) \/ ClearDefaults(p)
    \/ RunCommand(p)

Next ==
    \E p \in Procs :
        \/ \E t \in Tasks : Start(p, t)
        \/ Step(p)
        \/ Dies(p)

(* A process that runs is scheduled. *)
Fairness == \A p \in Procs : WF_vars(Step(p))

Spec == Init /\ [][Next]_vars /\ Fairness
----------------------------------------------------------------------------
Memory ==
    [task : Tasks, phase : {"merge", "defaults", "work"}, loaded : Store \cup {NoValue},
     found : SUBSET Paths, stale : Defaults]

PcLabels ==
    {"stopped", "seeTarget", "seeJson", "rename", "seeDirectory", "lock", "load",
     "loadLegacy", "list", "merge", "unlink", "rmdir", "seeState", "update", "clear"}

(* Every variable has its type, and the lock is with the process that is   *)
(* between taking it and updating the store.                               *)
TypeOK ==
    /\ target \in Store \cup {NoValue} /\ json \in Store \cup {NoValue}
    /\ files \subseteq Paths /\ dirs \subseteq Directories /\ legacy \in Defaults
    /\ holder \in Procs \cup {NoProc}
    /\ pc \in [Procs -> PcLabels] /\ memory \in [Procs -> Memory]
    /\ outcome \in [Procs -> {"none", "opened", "raced", "conflict", "died"}]
    /\ \A p \in Procs :
        holder = p <=> pc[p] \in {"load", "loadLegacy", "list", "merge", "update"}

(* A profile that an earlier version kept, and that users have neither     *)
(* saved over nor removed since, is in the store or still in an old file,  *)
(* whichever processes migrated together and wherever they died.           *)
NothingLost ==
    \A q \in old.profiles :
        Key(q) \in DOMAIN asked \/ q \in View.profiles \cup Contents(files)

(* What users last said of a profile is what the store says: no later      *)
(* migration, of a process that listed the old files before or of one that *)
(* finds them after a death, brings back a profile that was removed or the *)
(* old layout of one that was saved.                                       *)
UsersHaveTheLastWord ==
    \A k \in DOMAIN asked :
        {q.layout : q \in {r \in View.profiles : Key(r) = k}} = {asked[k]} \ {NoValue}

(* The default of a setup is the one users last chose, and until they      *)
(* choose one it is the store's or, if it had none, state.toml's.          *)
DefaultsKept ==
    /\ \A s \in DOMAIN old.defaults \ DOMAIN chosen :
        IF s \in DOMAIN View.defaults THEN View.defaults[s] = old.defaults[s]
        ELSE s \in DOMAIN legacy /\ legacy[s] = old.defaults[s]
    /\ \A s \in DOMAIN chosen :
        \/ chosen[s] = NoValue
        \/ chosen[s] = "layout" /\ s \in View.layouts /\ s \notin DOMAIN View.defaults
        \/ s \in DOMAIN View.defaults /\ View.defaults[s] = chosen[s] /\ s \notin View.layouts

(* A death leaves nothing behind that stops the next migration: one that   *)
(* has the files to itself fails only if the earlier version left two      *)
(* layouts under one name for one setup.                                   *)
FailsOnlyForCause ==
    \A p \in Procs :
        /\ outcome[p] = "raced" => ~alone[p]
        /\ outcome[p] = "conflict" => Conflicting(old.profiles)

(* Every process that starts comes to an end: none waits for the lock for  *)
(* ever.                                                                   *)
RunsEnd == \A p \in Procs : pc[p] # "stopped" ~> pc[p] = "stopped"
=============================================================================
