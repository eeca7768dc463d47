--------------------------- MODULE MigrationProofs ---------------------------
(***************************************************************************)
(* Migration loses no profile, undoes nothing users asked for and leaves   *)
(* nothing behind that stops a later one: for any processes, files, old    *)
(* stores and commands, and any number of starts and deaths.               *)
(***************************************************************************)
EXTENDS Migration, TLAPS

Phases == {"merge", "defaults", "work"}

(* A process holds the lock of waytorandr.json between these. *)
Locked == {"load", "loadLegacy", "list", "merge", "update"}

LEMMA DefaultsFunctions ==
    ASSUME NEW d
    PROVE  d \in Defaults <=> d \in [DOMAIN d -> Names] /\ DOMAIN d \subseteq Setups
BY DEF Defaults

LEMMA EmptyDefaults == <<>> \in Defaults /\ DOMAIN <<>> = {}
<1>1. DOMAIN <<>> = {} /\ <<>> \in [{} -> Names]
  OBVIOUS
<1> QED
  BY <1>1, DefaultsFunctions

(* What a process learns is of the type of the field. *)
LEMMA LearnType ==
    ASSUME TypeOK, NEW p \in Procs, NEW v,
           \/ Learn(p, "task", v) /\ v \in Tasks
           \/ Learn(p, "loaded", v) /\ v \in Store \cup {NoValue}
           \/ Learn(p, "found", v) /\ v \in SUBSET Paths
    PROVE  memory' \in [Procs -> Memory]
BY DEF Learn, TypeOK, Memory

LEMMA EnterType ==
    ASSUME TypeOK, NEW p \in Procs, NEW phase \in Phases, NEW stale \in Defaults,
           Enter(p, phase, stale)
    PROVE  /\ memory' \in [Procs -> Memory]
           /\ memory'[p].phase = phase /\ memory'[p].stale = stale
           /\ memory'[p].task = memory[p].task /\ memory'[p].loaded = memory[p].loaded
           /\ memory'[p].found = memory[p].found
           /\ \A q \in Procs \ {p} : memory'[q] = memory[q]
<1> DEFINE m == memory[p]
           n == [m EXCEPT !.phase = phase, !.stale = stale]
<1>1. m \in Memory
  BY DEF TypeOK
<1>2. /\ n \in Memory /\ n.phase = phase /\ n.stale = stale
      /\ n.task = m.task /\ n.loaded = m.loaded /\ n.found = m.found
  <2> HIDE DEF m
  <2> QED
    BY <1>1 DEF Memory, Phases
<1>3. memory' = [memory EXCEPT ![p] = n]
  BY DEF Enter
<1> HIDE DEF m, n
<1> QED
  BY <1>2, <1>3 DEF TypeOK, m

LEMMA FreshType == Fresh \in Memory
BY EmptyDefaults, TasksAssumption DEF Fresh, Memory

LEMMA StopType ==
    ASSUME TypeOK, NEW p \in Procs, Stop(p)
    PROVE  /\ memory' \in [Procs -> Memory] /\ pc' \in [Procs -> PcLabels]
           /\ holder' \in Procs \cup {NoProc}
           /\ \A q \in Procs : holder' = q <=> pc'[q] \in Locked
BY FreshType, ProcsAssumption DEF Stop, Goto, TypeOK, PcLabels, Locked

(* Moving between two steps on the same side of the lock. *)
LEMMA GotoType ==
    ASSUME TypeOK, NEW p \in Procs, NEW l \in PcLabels, Goto(p, l), UNCHANGED holder,
           pc[p] \in Locked <=> l \in Locked
    PROVE  /\ pc' \in [Procs -> PcLabels]
           /\ \A q \in Procs : holder' = q <=> pc'[q] \in Locked
BY DEF Goto, TypeOK, Locked

LEMMA ViewType == TypeOK => View \in Store
<1> SUFFICES ASSUME TypeOK PROVE View \in Store
  OBVIOUS
<1>1. StoreOf(files) \in Store
  BY PathsAssumption, EmptyDefaults DEF StoreOf, Contents, Store, TypeOK
<1> QED
  BY <1>1 DEF View, LegacyStore, TypeOK

LEMMA MergedType ==
    ASSUME NEW s \in Store, NEW fs \in SUBSET Paths
    PROVE  /\ Merged(s, fs) \in Store
           /\ Merged(s, fs).profiles = s.profiles \cup Contents(fs)
           /\ Merged(s, fs).defaults = s.defaults /\ Merged(s, fs).layouts = s.layouts
BY PathsAssumption DEF Merged, Contents, Store

(* What a command makes of a store, field by field. *)
LEMMA SavedFields ==
    ASSUME NEW s \in Store, NEW q \in Profile
    PROVE  LET d == Saved(s, q) IN
           /\ d \in Store
           /\ d.profiles = {r \in s.profiles : Key(r) # Key(q)} \cup {q}
           /\ d.defaults = s.defaults /\ d.layouts = s.layouts
BY DEF Saved, Others, Store

LEMMA DropFacts ==
    ASSUME NEW d \in Defaults, NEW k
    PROVE  /\ Drop(d, k) \in Defaults
           /\ DOMAIN Drop(d, k) = DOMAIN d \ {k}
           /\ \A s \in DOMAIN d \ {k} : Drop(d, k)[s] = d[s]
<1>1. d \in [DOMAIN d -> Names] /\ DOMAIN d \subseteq Setups
  BY DefaultsFunctions
<1>2. Drop(d, k) \in [DOMAIN d \ {k} -> Names]
  BY <1>1 DEF Drop, Restrict
<1> QED
  BY <1>1, <1>2, DefaultsFunctions DEF Drop, Restrict

LEMMA PutFacts ==
    ASSUME NEW d \in Defaults, NEW k \in Setups, NEW n \in Names
    PROVE  /\ Put(d, k, n) \in Defaults
           /\ DOMAIN Put(d, k, n) = DOMAIN d \cup {k}
           /\ Put(d, k, n)[k] = n
           /\ \A s \in DOMAIN d \ {k} : Put(d, k, n)[s] = d[s]
<1>1. d \in [DOMAIN d -> Names] /\ DOMAIN d \subseteq Setups
  BY DefaultsFunctions
<1>2. Put(d, k, n) \in [DOMAIN d \cup {k} -> Names]
  BY <1>1 DEF Put
<1> QED
  BY <1>1, <1>2, DefaultsFunctions DEF Put

LEMMA RemovedFields ==
    ASSUME NEW s \in Store, NEW n \in Names, NEW x \in Setups
    PROVE  LET d == Removed(s, <<n, x>>) IN
           /\ d \in Store
           /\ d.profiles = {r \in s.profiles : Key(r) # <<n, x>>}
           /\ d.layouts = s.layouts
           /\ \/ d.defaults = s.defaults
              \/ d.defaults = Drop(s.defaults, x) /\ x \in DOMAIN s.defaults
<1> DEFINE rest == Others(s, <<n, x>>)
<1>1. Drop(s.defaults, x) \in Defaults /\ s.defaults \in Defaults
  BY DropFacts DEF Store
<1>2. rest = {r \in s.profiles : Key(r) # <<n, x>>} /\ rest \subseteq s.profiles
  BY DEF Others
<1>3. \/ Removed(s, <<n, x>>) = s /\ rest = s.profiles
      \/ Removed(s, <<n, x>>) = [s EXCEPT !.profiles = rest]
      \/ /\ Removed(s, <<n, x>>) = [s EXCEPT !.profiles = rest, !.defaults = Drop(s.defaults, x)]
         /\ x \in DOMAIN s.defaults
  <2>1. s = [s EXCEPT !.profiles = @] /\ s = [s EXCEPT !.defaults = @]
    BY DEF Store
  <2> QED
    BY <2>1 DEF Removed, Store
<1> HIDE DEF rest
<1> QED
  BY <1>1, <1>2, <1>3 DEF Store

LEMMA DefaultFields ==
    ASSUME NEW s \in Store, NEW n \in Names, NEW x \in Setups
    PROVE  LET d == [s EXCEPT !.layouts = @ \ {x}, !.defaults = Put(@, x, n)] IN
           /\ d \in Store
           /\ d.profiles = s.profiles /\ d.layouts = s.layouts \ {x}
           /\ d.defaults = Put(s.defaults, x, n)
BY PutFacts DEF Store

LEMMA LayoutFields ==
    ASSUME NEW s \in Store, NEW x \in Setups
    PROVE  LET d == [s EXCEPT !.defaults = Drop(@, x), !.layouts = @ \cup {x}] IN
           /\ d \in Store
           /\ d.profiles = s.profiles /\ d.layouts = s.layouts \cup {x}
           /\ d.defaults = Drop(s.defaults, x)
BY DropFacts DEF Store

LEMMA DoneType ==
    ASSUME NEW s \in Store, NEW t \in Commands
    PROVE  Done(s, t) \in Store
<1> USE SetupsAssumption
<1>1. CASE t.kind = "save"
  BY <1>1, SavedFields DEF Done, Commands
<1>2. CASE t.kind = "remove"
  BY <1>2, RemovedFields DEF Done, Commands
<1>3. CASE t.kind = "default"
  BY <1>3, DefaultFields DEF Done, Commands
<1>4. CASE t.kind = "layout"
  BY <1>4, LayoutFields DEF Done, Commands
<1> QED
  BY <1>1, <1>2, <1>3, <1>4 DEF Commands

LEMMA AddedFields ==
    ASSUME NEW s \in Store, NEW stale \in Defaults
    PROVE  LET d == WithAdded(s, stale) IN
           /\ d \in Store
           /\ d.profiles = s.profiles /\ d.layouts = s.layouts
           /\ DOMAIN d.defaults = DOMAIN s.defaults \cup Added(s, stale)
           /\ \A x \in DOMAIN s.defaults : d.defaults[x] = s.defaults[x]
           /\ \A x \in Added(s, stale) : d.defaults[x] = stale[x]
<1> DEFINE new == [x \in DOMAIN s.defaults \cup Added(s, stale) |->
                      IF x \in Added(s, stale) THEN stale[x] ELSE s.defaults[x]]
<1>1. s.defaults \in [DOMAIN s.defaults -> Names] /\ DOMAIN s.defaults \subseteq Setups
  BY DefaultsFunctions DEF Store
<1>2. stale \in [DOMAIN stale -> Names] /\ DOMAIN stale \subseteq Setups
  BY DefaultsFunctions
<1>3. Added(s, stale) \subseteq DOMAIN stale /\ Added(s, stale) \cap DOMAIN s.defaults = {}
  BY DEF Added
<1>4. new \in [DOMAIN new -> Names] /\ DOMAIN new \subseteq Setups
  BY <1>1, <1>2, <1>3
<1>5. new \in Defaults
  BY <1>4, DefaultsFunctions
<1>6. WithAdded(s, stale) = [s EXCEPT !.defaults = new]
  BY DEF WithAdded, Store
<1> QED
  BY <1>3, <1>5, <1>6 DEF Store

----------------------------------------------------------------------------
(* Types. *)

LEMMA LoadedType ==
    ASSUME TypeOK, NEW p \in Procs, NEW s \in Store, Loaded(p, s), UNCHANGED holder,
           pc[p] \in Locked
    PROVE  /\ memory' \in [Procs -> Memory] /\ pc' \in [Procs -> PcLabels]
           /\ \A q \in Procs : holder' = q <=> pc'[q] \in Locked
<1>1. memory' \in [Procs -> Memory]
  BY LearnType DEF Loaded
<1>2. \/ Goto(p, "list") \/ Goto(p, "update")
  BY DEF Loaded
<1> QED
  BY <1>1, <1>2, GotoType DEF Locked, PcLabels

LEMMA UpdateType ==
    ASSUME TypeOK, NEW p \in Procs, NEW s \in Store, Update(p, s),
           NEW l \in PcLabels \ Locked, Goto(p, l), pc[p] \in Locked
    PROVE  /\ target' \in Store \cup {NoValue} /\ holder' \in Procs \cup {NoProc}
           /\ memory' \in [Procs -> Memory] /\ pc' \in [Procs -> PcLabels]
           /\ \A q \in Procs : holder' = q <=> pc'[q] \in Locked
<1>1. memory' \in [Procs -> Memory]
  BY LearnType DEF Update
<1>2. holder = p /\ \A q \in Procs : holder = q <=> pc[q] \in Locked
  BY DEF TypeOK, Locked
<1> QED
  BY <1>1, <1>2, ProcsAssumption DEF Update, Goto, TypeOK

LEMMA OpenType ==
    ASSUME TypeOK, NEW p \in Procs, Open(p), pc[p] \notin Locked
    PROVE  /\ outcome' \in [Procs -> {"none", "opened", "raced", "conflict", "died"}]
           /\ memory' \in [Procs -> Memory] /\ pc' \in [Procs -> PcLabels]
           /\ holder' \in Procs \cup {NoProc}
           /\ \A q \in Procs : holder' = q <=> pc'[q] \in Locked
<1>1. outcome' \in [Procs -> {"none", "opened", "raced", "conflict", "died"}]
  BY DEF Open, TypeOK
<1>2. CASE Stop(p)
  BY <1>1, <1>2, StopType
<1>3. CASE Enter(p, "work", <<>>) /\ UNCHANGED holder
  <2>1. memory' \in [Procs -> Memory]
    BY <1>3, EmptyDefaults, EnterType DEF Phases
  <2>2. /\ pc' \in [Procs -> PcLabels]
        /\ \A q \in Procs : holder' = q <=> pc'[q] \in Locked
    BY <1>3, GotoType DEF Enter, PcLabels, Locked
  <2> QED
    BY <1>1, <1>3, <2>1, <2>2 DEF TypeOK
<1> QED
  BY <1>2, <1>3 DEF Open

(* The order of a migration.  What a process loaded under the lock is what *)
(* the store still is when it saves: only the holder saves, and            *)
(* profiles.json, if it is renamed at all, is before anyone has the lock.  *)
InOrder(p) ==
    /\ pc[p] \in {"stopped", "seeTarget", "seeJson", "rename", "seeDirectory", "list",
                  "merge", "unlink", "rmdir", "seeState"} => memory[p].phase = "merge"
    /\ pc[p] = "clear" => memory[p].phase = "defaults"
    /\ pc[p] = "update" => memory[p].phase \in {"defaults", "work"}
    /\ memory[p].phase = "work" => memory[p].task # NoTask
    /\ pc[p] = "loadLegacy" => target = NoValue
    /\ pc[p] \in {"unlink", "rmdir"} => target # NoValue
    /\ pc[p] \in {"list", "merge", "update"} => memory[p].loaded = View

Procedure == \A p \in Procs : InOrder(p)

(* profiles.json is renamed before anybody locks the store, if there is    *)
(* none yet, and is never looked at where there is one.                    *)
JsonFirst ==
    json # NoValue =>
        \A p \in Procs :
            IF target = NoValue THEN pc[p] \in {"stopped", "seeTarget", "seeJson", "rename"}
            ELSE pc[p] \notin {"seeJson", "rename"}

LEMMA TypeStep == TypeOK /\ Procedure /\ [Next]_vars => TypeOK'
<1> SUFFICES ASSUME TypeOK, Procedure, [Next]_vars PROVE TypeOK'
  OBVIOUS
<1> DEFINE Outcomes == {"none", "opened", "raced", "conflict", "died"}
           Steps == /\ memory' \in [Procs -> Memory] /\ pc' \in [Procs -> PcLabels]
                    /\ holder' \in Procs \cup {NoProc}
                    /\ \A q \in Procs : holder' = q <=> pc'[q] \in Locked
           Disk == /\ target' \in Store \cup {NoValue} /\ json' \in Store \cup {NoValue}
                   /\ files' \subseteq Paths /\ dirs' \subseteq Directories
                   /\ legacy' \in Defaults
<1>0. /\ UNCHANGED disk => Disk
      /\ UNCHANGED outcome => outcome' \in [Procs -> Outcomes]
      /\ UNCHANGED memory => memory' \in [Procs -> Memory]
      /\ UNCHANGED holder => holder' \in Procs \cup {NoProc}
  BY DEF TypeOK, disk
<1>1. ASSUME NEW p \in Procs, NEW why \in Outcomes, Fail(p, why)
      PROVE  Steps /\ outcome' \in [Procs -> Outcomes]
  BY <1>1, StopType DEF Fail, TypeOK
<1>2. ASSUME NEW p \in Procs, NEW t \in Tasks, Start(p, t) PROVE TypeOK'
  <2>1. outcome' \in [Procs -> Outcomes] /\ Learn(p, "task", t) /\ Goto(p, "seeTarget")
    BY <1>2 DEF Start, TypeOK
  <2>2. pc[p] = "stopped" /\ UNCHANGED <<disk, holder>>
    BY <1>2 DEF Start
  <2>3. Steps
    BY <1>0, <2>1, <2>2, LearnType, GotoType DEF Locked, PcLabels
  <2> QED
    BY <1>0, <2>1, <2>2, <2>3 DEF TypeOK, Locked
<1>3. ASSUME NEW p \in Procs, Dies(p) PROVE TypeOK'
  <2>1. Steps /\ outcome' \in [Procs -> Outcomes]
    BY <1>1, <1>3 DEF Dies
  <2> QED
    BY <1>0, <1>3, <2>1 DEF Dies, TypeOK, Locked
<1>4. ASSUME NEW p \in Procs, NEW l \in PcLabels, pc[p] \in Locked <=> l \in Locked,
             Goto(p, l), UNCHANGED <<holder, memory, outcome>>
      PROVE  Steps /\ outcome' \in [Procs -> Outcomes]
  BY <1>0, <1>4, GotoType
<1>5. ASSUME NEW p \in Procs, SeeTarget(p) \/ SeeJson(p) \/ SeeDirectory(p) PROVE TypeOK'
  <2>1. UNCHANGED <<disk, holder, memory, outcome>>
    BY <1>5 DEF SeeTarget, SeeJson, SeeDirectory
  <2>2. pc[p] \notin Locked /\ \E l \in PcLabels \ Locked : Goto(p, l)
    BY <1>5 DEF SeeTarget, SeeJson, SeeDirectory, Locked, PcLabels
  <2> QED
    BY <1>0, <1>4, <2>1, <2>2 DEF TypeOK, Locked
<1>6. ASSUME NEW p \in Procs, RenameJson(p) PROVE TypeOK'
  <2>1. pc[p] = "rename" /\ Goto(p, "seeDirectory") /\ UNCHANGED <<holder, memory, outcome>>
    BY <1>6 DEF RenameJson
  <2>2. Steps /\ outcome' \in [Procs -> Outcomes]
    BY <1>4, <2>1 DEF Locked, PcLabels
  <2>3. Disk
    BY <1>6 DEF RenameJson, TypeOK
  <2> QED
    BY <2>2, <2>3 DEF TypeOK, Locked
<1>7. ASSUME NEW p \in Procs, LockStore(p) PROVE TypeOK'
  <2>1. Steps
    BY <1>7, ProcsAssumption DEF LockStore, Goto, TypeOK, Locked, PcLabels
  <2> QED
    BY <1>0, <1>7, <2>1 DEF LockStore, TypeOK, Locked
<1>8. ASSUME NEW p \in Procs, LoadTarget(p) \/ LoadLegacy(p) PROVE TypeOK'
  <2>1. UNCHANGED <<disk, holder, outcome>> /\ pc[p] \in Locked
    BY <1>8 DEF LoadTarget, LoadLegacy, Locked
  <2>2. LegacyStore \in Store
    BY ViewType, PathsAssumption, EmptyDefaults
    DEF LegacyStore, StoreOf, Contents, Store, TypeOK
  <2>3. \/ \E s \in Store : Loaded(p, s)
        \/ Goto(p, "loadLegacy") /\ UNCHANGED memory
    BY <1>8, <2>2 DEF LoadTarget, LoadLegacy, TypeOK
  <2>4. Steps
    BY <1>0, <2>1, <2>3, LoadedType, GotoType DEF Locked, PcLabels
  <2> QED
    BY <1>0, <2>1, <2>4 DEF TypeOK, Locked
<1>9. ASSUME NEW p \in Procs, ListLegacy(p) PROVE TypeOK'
  <2>1. UNCHANGED disk /\ pc[p] = "list"
    BY <1>9 DEF ListLegacy
  <2>2. CASE Fail(p, "raced")
    BY <1>0, <1>1, <2>1, <2>2 DEF TypeOK, Locked
  <2>3. CASE Learn(p, "found", files) /\ Goto(p, "merge") /\ UNCHANGED <<holder, outcome>>
    <3>1. Steps
      BY <1>0, <2>1, <2>3, LearnType, GotoType DEF Locked, PcLabels, TypeOK
    <3> QED
      BY <1>0, <2>1, <2>3, <3>1 DEF TypeOK, Locked
  <2> QED
    BY <1>9, <2>2, <2>3 DEF ListLegacy
<1>10. ASSUME NEW p \in Procs, MergeLegacy(p) PROVE TypeOK'
  <2>1. UNCHANGED <<json, files, dirs, legacy>> /\ pc[p] = "merge"
    BY <1>10 DEF MergeLegacy
  <2>2. CASE (\E why \in {"raced", "conflict"} : Fail(p, why)) /\ UNCHANGED target
    BY <1>0, <1>1, <2>1, <2>2 DEF TypeOK, Locked
  <2>3. CASE /\ Update(p, Merged(memory[p].loaded, Listed(p)))
             /\ Goto(p, IF Listed(p) = {} THEN "seeState" ELSE "unlink")
             /\ UNCHANGED outcome
    <3>1. Merged(memory[p].loaded, Listed(p)) \in Store
      BY <2>1, ViewType, MergedType DEF Procedure, InOrder, TypeOK, Memory, Listed
    <3>2. PICK l \in {"seeState", "unlink"} : Goto(p, l)
      BY <2>3
    <3>3. Steps /\ target' \in Store \cup {NoValue}
      BY <2>1, <2>3, <3>1, <3>2, UpdateType DEF Locked, PcLabels
    <3> QED
      BY <1>0, <2>1, <2>3, <3>3 DEF TypeOK, Locked
  <2> QED
    BY <1>10, <2>2, <2>3 DEF MergeLegacy
<1>11. ASSUME NEW p \in Procs, NEW f \in Paths, UnlinkLegacy(p, f) PROVE TypeOK'
  <2>1. UNCHANGED <<target, json, dirs, legacy>> /\ pc[p] = "unlink"
    BY <1>11 DEF UnlinkLegacy
  <2>2. CASE Fail(p, "raced") /\ UNCHANGED files
    BY <1>0, <1>1, <2>1, <2>2 DEF TypeOK, Locked, disk
  <2>3. CASE /\ files' = files \ {f}
             /\ Learn(p, "found", Listed(p) \ {f})
             /\ Goto(p, IF Listed(p) = {f} THEN "rmdir" ELSE "unlink")
             /\ UNCHANGED <<holder, outcome>>
    <3>1. PICK l \in {"rmdir", "unlink"} : Goto(p, l)
      BY <2>3
    <3>2. Listed(p) \ {f} \in SUBSET Paths
      BY DEF Listed, TypeOK, Memory
    <3>3. Steps
      BY <1>0, <2>1, <2>3, <3>1, <3>2, LearnType, GotoType DEF Locked, PcLabels
    <3> QED
      BY <1>0, <2>1, <2>3, <3>3 DEF TypeOK, Locked
  <2> QED
    BY <1>11, <2>2, <2>3 DEF UnlinkLegacy
<1>12. ASSUME NEW p \in Procs, RemoveEmptyDirectories(p) PROVE TypeOK'
  <2>1. UNCHANGED <<target, json, files, legacy>> /\ pc[p] = "rmdir"
    BY <1>12 DEF RemoveEmptyDirectories
  <2>2. CASE Fail(p, "raced") /\ UNCHANGED dirs
    BY <1>0, <1>1, <2>1, <2>2 DEF TypeOK, Locked, disk
  <2>3. CASE dirs' \subseteq Directories /\ Goto(p, "seeState") /\ UNCHANGED <<holder, memory, outcome>>
    <3>1. Steps /\ outcome' \in [Procs -> Outcomes]
      BY <1>4, <2>1, <2>3 DEF Locked, PcLabels
    <3> QED
      BY <2>1, <2>3, <3>1 DEF TypeOK, Locked
  <2>4. dirs \subseteq Directories
    BY DEF TypeOK
  <2> QED
    BY <1>12, <2>2, <2>3, <2>4 DEF RemoveEmptyDirectories, Directories
<1>13. ASSUME NEW p \in Procs, SeeState(p) PROVE TypeOK'
  <2>1. UNCHANGED disk /\ pc[p] = "seeState"
    BY <1>13 DEF SeeState
  <2>2. CASE Open(p)
    BY <1>0, <2>1, <2>2, OpenType DEF TypeOK, Locked
  <2>3. CASE Enter(p, "defaults", legacy) /\ UNCHANGED <<holder, outcome>>
    <3>1. memory' \in [Procs -> Memory]
      BY <2>3, EnterType DEF Phases, TypeOK
    <3>2. Steps
      BY <1>0, <2>1, <2>3, <3>1, GotoType DEF Enter, Locked, PcLabels
    <3> QED
      BY <1>0, <2>1, <2>3, <3>2 DEF TypeOK, Locked
  <2> QED
    BY <1>13, <2>2, <2>3 DEF SeeState
<1>14. ASSUME NEW p \in Procs, AddDefaults(p) PROVE TypeOK'
  <2>1. /\ UNCHANGED <<json, files, dirs, legacy, outcome>> /\ pc[p] = "update"
        /\ Update(p, WithAdded(memory[p].loaded, memory[p].stale)) /\ Goto(p, "clear")
    BY <1>14 DEF AddDefaults
  <2>2. WithAdded(memory[p].loaded, memory[p].stale) \in Store
    BY <2>1, ViewType, AddedFields DEF Procedure, InOrder, TypeOK, Memory
  <2>3. Steps /\ target' \in Store \cup {NoValue}
    BY <2>1, <2>2, UpdateType DEF Locked, PcLabels
  <2> QED
    BY <1>0, <2>1, <2>3 DEF TypeOK, Locked
<1>15. ASSUME NEW p \in Procs, ClearDefaults(p) PROVE TypeOK'
  <2>1. UNCHANGED <<target, json, files, dirs>> /\ pc[p] = "clear" /\ Open(p) /\ legacy' = <<>>
    BY <1>15 DEF ClearDefaults
  <2>2. Disk
    BY <2>1, EmptyDefaults DEF TypeOK
  <2> QED
    BY <2>1, <2>2, OpenType DEF TypeOK, Locked
<1>16. ASSUME NEW p \in Procs, RunCommand(p) PROVE TypeOK'
  <2>1. /\ UNCHANGED <<json, files, dirs, legacy, outcome>> /\ Stop(p)
        /\ pc[p] = "update" /\ memory[p].phase = "work"
        /\ target' \in {target, Done(memory[p].loaded, memory[p].task)}
    BY <1>16 DEF RunCommand
  <2>2. Done(memory[p].loaded, memory[p].task) \in Store
    BY <2>1, ViewType, DoneType, TasksAssumption DEF Procedure, InOrder, TypeOK, Memory
  <2>3. Disk
    BY <2>1, <2>2 DEF TypeOK
  <2> QED
    BY <1>0, <2>1, <2>3, StopType DEF TypeOK, Locked
<1>17. CASE UNCHANGED vars
  BY <1>17 DEF vars, disk, TypeOK, Locked
<1> HIDE DEF Steps, Disk
<1> QED
  BY <1>2, <1>3, <1>5, <1>6, <1>7, <1>8, <1>9, <1>10, <1>11, <1>12, <1>13, <1>14, <1>15, <1>16,
     <1>17
  DEF Next, Step

----------------------------------------------------------------------------
(* What a step does to the store as readers see it. *)

Unlinks == \E p \in Procs : \E f \in Listed(p) : pc[p] = "unlink" /\ files' = files \ {f}

Clears == legacy' = <<>> /\ \E p \in Procs : pc[p] = "clear"

Quiet ==
    /\ View' = View /\ UNCHANGED <<asked, chosen>>
    /\ Unlinks \/ UNCHANGED files
    /\ Clears \/ UNCHANGED legacy

Merges(p) ==
    /\ pc[p] = "merge" /\ Listed(p) \subseteq files /\ ~Conflicting(After(p))
    /\ View' = Merged(View, Listed(p))
    /\ UNCHANGED <<files, legacy, asked, chosen>>

Adds(p) ==
    /\ pc[p] = "update" /\ memory[p].phase = "defaults"
    /\ View' = WithAdded(View, memory[p].stale)
    /\ UNCHANGED <<files, legacy, asked, chosen>>

Does(p, t) ==
    /\ pc[p] = "update" /\ memory[p].phase = "work" /\ memory[p].task = t
    /\ View' = Done(View, t) /\ asked' = Asked(t) /\ chosen' = Chosen(View, t)
    /\ UNCHANGED <<files, legacy>>

Effect ==
    /\ target # NoValue => target' # NoValue
    /\ files' \subseteq files /\ old' = old
    /\ \/ Quiet
       \/ \E p \in Procs : Merges(p) \/ Adds(p)
       \/ \E p \in Procs, t \in Commands : Does(p, t)

LEMMA StoreIsValue == NoValue \notin Store
BY NoValueAssumption

LEMMA SameView ==
    ASSUME UNCHANGED <<target, json>>, target = NoValue => UNCHANGED files
    PROVE  View' = View
BY DEF View, LegacyStore

LEMMA SavedView == ASSUME NEW s \in Store, target' = s PROVE View' = s /\ target' # NoValue
BY StoreIsValue DEF View

LEMMA StepEffect == TypeOK /\ Procedure /\ JsonFirst /\ [Next]_vars => Effect
<1> SUFFICES ASSUME TypeOK, Procedure, JsonFirst, [Next]_vars PROVE Effect
  OBVIOUS
<1>1. UNCHANGED <<target, json, files, old, asked, chosen>> /\ (Clears \/ UNCHANGED legacy)
        => Effect
  BY SameView DEF Effect, Quiet
<1>2. ASSUME NEW p \in Procs, NEW t \in Tasks, Start(p, t) PROVE Effect
  BY <1>1, <1>2 DEF Start, disk
<1>3. ASSUME NEW p \in Procs, Dies(p) PROVE Effect
  BY <1>1, <1>3 DEF Dies, disk
<1>4. ASSUME NEW p \in Procs,
             SeeTarget(p) \/ SeeJson(p) \/ SeeDirectory(p) \/ LockStore(p) \/ LoadTarget(p)
                \/ LoadLegacy(p) \/ ListLegacy(p) \/ SeeState(p)
      PROVE  Effect
  <2>1. UNCHANGED disk /\ UNCHANGED history
    BY <1>4
    DEF SeeTarget, SeeJson, SeeDirectory, LockStore, LoadTarget, LoadLegacy, ListLegacy, SeeState
  <2> QED
    BY <1>1, <2>1 DEF disk, history
<1>5. ASSUME NEW p \in Procs, RenameJson(p) PROVE Effect
  <2>1. json # NoValue => target = NoValue
    BY <1>5 DEF RenameJson, JsonFirst
  <2>2. View' = View /\ (target # NoValue => target' # NoValue)
    BY <1>5, <2>1 DEF RenameJson, View, LegacyStore
  <2> QED
    BY <1>5, <2>2 DEF RenameJson, history, Effect, Quiet
<1>6. ASSUME NEW p \in Procs, MergeLegacy(p) PROVE Effect
  <2>1. UNCHANGED <<json, files, dirs, legacy, history>> /\ pc[p] = "merge"
    BY <1>6 DEF MergeLegacy
  <2>2. CASE UNCHANGED target
    BY <1>1, <2>1, <2>2 DEF history
  <2>3. CASE /\ Listed(p) \subseteq files /\ ~Conflicting(After(p))
             /\ target' = Merged(memory[p].loaded, Listed(p))
    <3>1. memory[p].loaded = View /\ View \in Store /\ Listed(p) \in SUBSET Paths
      BY <2>1, <2>3, ViewType DEF Procedure, InOrder, TypeOK
    <3>2. Merged(View, Listed(p)) \in Store
      BY <3>1, MergedType
    <3> QED
      BY <2>1, <2>3, <3>1, <3>2, SavedView DEF Effect, Merges, history
  <2> QED
    BY <1>6, <2>2, <2>3 DEF MergeLegacy, Update
<1>7. ASSUME NEW p \in Procs, NEW f \in Paths, UnlinkLegacy(p, f) PROVE Effect
  <2>1. target # NoValue /\ UNCHANGED <<target, json>> /\ files' \subseteq files
    BY <1>7 DEF UnlinkLegacy, Procedure, InOrder
  <2> QED
    BY <1>7, <2>1, SameView DEF UnlinkLegacy, history, Effect, Quiet, Unlinks
<1>8. ASSUME NEW p \in Procs, RemoveEmptyDirectories(p) PROVE Effect
  BY <1>1, <1>8 DEF RemoveEmptyDirectories, history
<1>9. ASSUME NEW p \in Procs, AddDefaults(p) PROVE Effect
  <2>1. /\ memory[p].loaded = View /\ View \in Store /\ memory[p].stale \in Defaults
        /\ pc[p] = "update" /\ memory[p].phase = "defaults"
    BY <1>9, ViewType DEF AddDefaults, Procedure, InOrder, TypeOK, Memory
  <2>2. WithAdded(View, memory[p].stale) \in Store
    BY <2>1, AddedFields
  <2> QED
    BY <1>9, <2>1, <2>2, SavedView DEF AddDefaults, Update, Effect, Adds, history
<1>10. ASSUME NEW p \in Procs, ClearDefaults(p) PROVE Effect
  BY <1>1, <1>10 DEF ClearDefaults, history, Clears
<1>11. ASSUME NEW p \in Procs, RunCommand(p) PROVE Effect
  <2> DEFINE t == memory[p].task
  <2>1. /\ memory[p].loaded = View /\ View \in Store /\ t \in Commands
        /\ pc[p] = "update" /\ memory[p].phase = "work"
    BY <1>11, ViewType, TasksAssumption DEF RunCommand, Procedure, InOrder, TypeOK, Memory
  <2>2. Done(View, t) \in Store
    BY <2>1, DoneType
  <2>3. /\ UNCHANGED <<json, files, legacy, old>> /\ asked' = Asked(t) /\ chosen' = Chosen(View, t)
        /\ target' = IF t.kind = "remove" /\ Done(View, t) = View THEN target ELSE Done(View, t)
    BY <1>11, <2>1 DEF RunCommand
  <2>4. View' = Done(View, t) /\ (target # NoValue => target' # NoValue)
    BY <2>2, <2>3, SameView, SavedView
  <2> HIDE DEF t
  <2>5. Does(p, t)
    BY <2>1, <2>3, <2>4 DEF Does, t
  <2> QED
    BY <2>1, <2>3, <2>4, <2>5 DEF Effect
<1>12. CASE UNCHANGED vars
  BY <1>1, <1>12 DEF vars, disk, history
<1> QED
  BY <1>2, <1>3, <1>4, <1>5, <1>6, <1>7, <1>8, <1>9, <1>10, <1>11, <1>12 DEF Next, Step

----------------------------------------------------------------------------
(* The order is kept. *)

StepOf(p) == (\E t \in Tasks : Start(p, t)) \/ Step(p) \/ Dies(p)

(* A step moves one process. *)
LEMMA OthersStand ==
    ASSUME TypeOK, NEW p \in Procs, StepOf(p), NEW q \in Procs \ {p}
    PROVE  pc'[q] = pc[q] /\ memory'[q] = memory[q]
<1> USE DEF TypeOK, Goto, Learn, Enter, Stop, Fail, Open, Update, Loaded
<1>1. CASE \E t \in Tasks : Start(p, t)
  BY <1>1 DEF Start
<1>2. CASE Dies(p)
  BY <1>2 DEF Dies
<1>3. CASE SeeTarget(p) \/ SeeJson(p) \/ RenameJson(p) \/ SeeDirectory(p) \/ LockStore(p)
  BY <1>3 DEF SeeTarget, SeeJson, RenameJson, SeeDirectory, LockStore
<1>4. CASE LoadTarget(p) \/ LoadLegacy(p)
  BY <1>4 DEF LoadTarget, LoadLegacy
<1>5. CASE ListLegacy(p) \/ MergeLegacy(p)
  BY <1>5 DEF ListLegacy, MergeLegacy
<1>6. CASE RemoveEmptyDirectories(p) \/ \E f \in Paths : UnlinkLegacy(p, f)
  BY <1>6 DEF RemoveEmptyDirectories, UnlinkLegacy
<1>7. CASE SeeState(p) \/ ClearDefaults(p)
  BY <1>7 DEF SeeState, ClearDefaults
<1>8. CASE AddDefaults(p) \/ RunCommand(p)
  BY <1>8 DEF AddDefaults, RunCommand
<1> QED
  BY <1>1, <1>2, <1>3, <1>4, <1>5, <1>6, <1>7, <1>8 DEF StepOf, Step

(* Nobody else changes the store while a process has the lock. *)
LEMMA LockProtects ==
    ASSUME TypeOK, Procedure, JsonFirst, NEW p \in Procs, StepOf(p),
           NEW q \in Procs \ {p}, pc[q] \in Locked
    PROVE  UNCHANGED target /\ View' = View
<1>1. pc[p] \notin Locked
  BY DEF TypeOK, Locked
<1>2. json = NoValue \/ target # NoValue
  BY DEF JsonFirst, Locked
<1>3. Effect
  BY StepEffect DEF StepOf, Next
<1>4. UNCHANGED target
  BY <1>1, <1>2
  DEF StepOf, Step, Locked, Start, Dies, SeeTarget, SeeJson, RenameJson, SeeDirectory, LockStore,
      LoadTarget, LoadLegacy, ListLegacy, MergeLegacy, RemoveEmptyDirectories, UnlinkLegacy,
      SeeState, AddDefaults, ClearDefaults, RunCommand, disk, JsonFirst
<1>5. target = NoValue => UNCHANGED <<json, files>>
  BY <1>1, <1>2
  DEF StepOf, Step, Locked, Start, Dies, SeeTarget, SeeJson, RenameJson, SeeDirectory, LockStore,
      LoadTarget, LoadLegacy, ListLegacy, MergeLegacy, RemoveEmptyDirectories, UnlinkLegacy,
      SeeState, AddDefaults, ClearDefaults, RunCommand, disk, Procedure, InOrder
<1> QED
  BY <1>4, <1>5 DEF View, LegacyStore

(* The process that moves stays in order. *)
LEMMA MoverInOrder ==
    ASSUME TypeOK, Procedure, JsonFirst, NEW p \in Procs, StepOf(p)
    PROVE  InOrder(p)'
<1> DEFINE m == memory[p]
<1>0. m \in Memory /\ memory \in [Procs -> Memory] /\ pc \in [Procs -> PcLabels]
  BY DEF TypeOK
<1>1. ASSUME Stop(p) PROVE InOrder(p)'
  BY <1>0, <1>1 DEF Stop, Goto, InOrder, Fresh
<1>2. ASSUME NEW t \in Tasks, Start(p, t) PROVE InOrder(p)'
  BY <1>0, <1>2 DEF Start, Learn, Goto, InOrder, Procedure, Memory
<1>3. ASSUME Dies(p) PROVE InOrder(p)'
  BY <1>1, <1>3 DEF Dies, Fail
<1>4. ASSUME SeeTarget(p) \/ SeeJson(p) \/ RenameJson(p) \/ SeeDirectory(p) \/ LockStore(p)
      PROVE  InOrder(p)'
  BY <1>0, <1>4
  DEF SeeTarget, SeeJson, RenameJson, SeeDirectory, LockStore, Goto, InOrder, Procedure
<1>5. ASSUME NEW s, s = View, Loaded(p, s), UNCHANGED disk PROVE InOrder(p)'
  <2>1. View' = View
    BY <1>5, SameView DEF disk
  <2>2. /\ memory'[p].loaded = s /\ memory'[p].phase = m.phase /\ memory'[p].task = m.task
        /\ pc'[p] = IF m.phase = "merge" THEN "list" ELSE "update"
    BY <1>0, <1>5 DEF Loaded, Learn, Goto, Memory
  <2>3. m.phase \in {"merge", "defaults", "work"}
    BY <1>0 DEF Memory
  <2> QED
    BY <1>0, <1>5, <2>1, <2>2, <2>3 DEF InOrder, Procedure
<1>6. ASSUME LoadTarget(p) PROVE InOrder(p)'
  <2>1. CASE target # NoValue
    BY <1>5, <1>6, <2>1 DEF LoadTarget, View
  <2>2. CASE target = NoValue
    BY <1>0, <1>6, <2>2 DEF LoadTarget, Goto, InOrder, Procedure, disk
  <2> QED
    BY <2>1, <2>2
<1>7. ASSUME LoadLegacy(p) PROVE InOrder(p)'
  <2>1. LegacyStore = View
    BY <1>7 DEF LoadLegacy, View, Procedure, InOrder
  <2> QED
    BY <1>5, <1>7, <2>1 DEF LoadLegacy
<1>8. ASSUME ListLegacy(p) PROVE InOrder(p)'
  <2>1. View' = View
    BY <1>8, SameView DEF ListLegacy, disk
  <2>2. CASE Learn(p, "found", files) /\ Goto(p, "merge")
    BY <1>0, <1>8, <2>1, <2>2 DEF ListLegacy, Learn, Goto, InOrder, Procedure, Memory
  <2> QED
    BY <1>1, <1>8, <2>2 DEF ListLegacy, Fail
<1>9. ASSUME MergeLegacy(p) PROVE InOrder(p)'
  <2>1. CASE /\ Update(p, Merged(m.loaded, Listed(p)))
             /\ Goto(p, IF Listed(p) = {} THEN "seeState" ELSE "unlink")
    <3>1. Merged(m.loaded, Listed(p)) \in Store
      BY <1>9, ViewType, MergedType DEF MergeLegacy, Procedure, InOrder, TypeOK, Memory, Listed
    <3>2. target' # NoValue
      BY <2>1, <3>1, StoreIsValue DEF Update
    <3> QED
      BY <1>0, <1>9, <2>1, <3>2 DEF MergeLegacy, Update, Learn, Goto, InOrder, Procedure, Memory
  <2> QED
    BY <1>1, <1>9, <2>1 DEF MergeLegacy, Fail
<1>10. ASSUME NEW f \in Paths, UnlinkLegacy(p, f) PROVE InOrder(p)'
  <2>1. CASE /\ Learn(p, "found", Listed(p) \ {f})
             /\ Goto(p, IF Listed(p) = {f} THEN "rmdir" ELSE "unlink")
    BY <1>0, <1>10, <2>1 DEF UnlinkLegacy, Learn, Goto, InOrder, Procedure, Memory
  <2> QED
    BY <1>1, <1>10, <2>1 DEF UnlinkLegacy, Fail
<1>11. ASSUME RemoveEmptyDirectories(p) PROVE InOrder(p)'
  <2>1. CASE Goto(p, "seeState") /\ UNCHANGED memory
    BY <1>0, <1>11, <2>1 DEF RemoveEmptyDirectories, Goto, InOrder, Procedure
  <2> QED
    BY <1>1, <1>11, <2>1 DEF RemoveEmptyDirectories, Fail
<1>12. ASSUME Open(p) PROVE InOrder(p)'
  <2>1. CASE Enter(p, "work", <<>>) /\ m.task # NoTask
    <3>1. memory'[p].phase = "work" /\ memory'[p].task = m.task
      BY <2>1, EnterType, EmptyDefaults DEF Phases
    <3> QED
      BY <1>0, <2>1, <3>1 DEF Enter, Goto, InOrder
  <2> QED
    BY <1>1, <1>12, <2>1 DEF Open
<1>13. ASSUME SeeState(p) PROVE InOrder(p)'
  <2>1. CASE Enter(p, "defaults", legacy)
    <3>1. memory'[p].phase = "defaults"
      BY <2>1, EnterType DEF Phases, TypeOK
    <3> QED
      BY <1>0, <2>1, <3>1 DEF Enter, Goto, InOrder
  <2> QED
    BY <1>12, <1>13, <2>1 DEF SeeState
<1>14. ASSUME AddDefaults(p) PROVE InOrder(p)'
  BY <1>0, <1>14 DEF AddDefaults, Update, Learn, Goto, InOrder, Memory
<1>15. ASSUME ClearDefaults(p) \/ RunCommand(p) PROVE InOrder(p)'
  BY <1>1, <1>12, <1>15 DEF ClearDefaults, RunCommand
<1> QED
  BY <1>2, <1>3, <1>4, <1>6, <1>7, <1>8, <1>9, <1>10, <1>11, <1>13, <1>14, <1>15 DEF StepOf, Step

LEMMA ProcedureStep == TypeOK /\ Procedure /\ JsonFirst /\ [Next]_vars => Procedure'
<1> SUFFICES ASSUME TypeOK, Procedure, JsonFirst, [Next]_vars PROVE Procedure'
  OBVIOUS
<1>1. ASSUME NEW p \in Procs, StepOf(p), NEW q \in Procs PROVE InOrder(q)'
  <2>1. CASE q = p
    BY <1>1, <2>1, MoverInOrder
  <2>2. CASE q # p
    <3>1. pc'[q] = pc[q] /\ memory'[q] = memory[q]
      BY <1>1, <2>2, OthersStand
    <3>2. pc[q] \in Locked => UNCHANGED target /\ View' = View
      BY <1>1, <2>2, LockProtects
    <3>3. target # NoValue => target' # NoValue
      BY <1>1, StepEffect DEF Effect, Next, StepOf
    <3> QED
      BY <3>1, <3>2, <3>3 DEF Procedure, InOrder, Locked
  <2> QED
    BY <2>1, <2>2
<1>2. CASE UNCHANGED vars
  <2>1. View' = View
    BY <1>2, SameView DEF vars, disk
  <2> QED
    BY <1>2, <2>1 DEF vars, disk, Procedure, InOrder
<1> QED
  BY <1>1, <1>2 DEF Procedure, Next, StepOf

LEMMA JsonStep == TypeOK /\ Procedure /\ JsonFirst /\ [Next]_vars => JsonFirst'
<1> SUFFICES ASSUME TypeOK, Procedure, JsonFirst, [Next]_vars, json' # NoValue,
                    NEW q \in Procs
             PROVE  IF target' = NoValue
                    THEN pc'[q] \in {"stopped", "seeTarget", "seeJson", "rename"}
                    ELSE pc'[q] \notin {"seeJson", "rename"}
  BY DEF JsonFirst
<1> DEFINE Start0 == {"stopped", "seeTarget", "seeJson", "rename"}
<1>1. ASSUME NEW p \in Procs, StepOf(p)
      PROVE  IF target' = NoValue THEN pc'[q] \in Start0 ELSE pc'[q] \notin {"seeJson", "rename"}
  <2>1. ~RenameJson(p)
    BY DEF RenameJson
  <2>2. json' = json
    BY <1>1, <2>1
    DEF StepOf, Step, Start, Dies, SeeTarget, SeeJson, SeeDirectory, LockStore,
        LoadTarget, LoadLegacy, ListLegacy, MergeLegacy, RemoveEmptyDirectories, UnlinkLegacy,
        SeeState, AddDefaults, ClearDefaults, RunCommand, disk
  <2>3. q # p => pc'[q] = pc[q]
    BY <1>1, OthersStand
  <2>4. pc \in [Procs -> PcLabels]
    BY DEF TypeOK
  <2>5. CASE target = NoValue
    <3>1. pc[p] \in Start0 /\ pc[q] \in Start0
      BY <2>2, <2>5 DEF JsonFirst
    <3>2. (\E t \in Tasks : Start(p, t)) \/ Dies(p) \/ SeeTarget(p) \/ SeeJson(p)
      BY <1>1, <2>1, <3>1
      DEF StepOf, Step, SeeDirectory, LockStore, LoadTarget, LoadLegacy, ListLegacy, MergeLegacy,
          RemoveEmptyDirectories, UnlinkLegacy, SeeState, AddDefaults, ClearDefaults, RunCommand
    <3>3. UNCHANGED target /\ pc'[p] \in Start0
      BY <2>2, <2>4, <2>5, <3>2 DEF Start, Dies, Fail, Stop, SeeTarget, SeeJson, Goto, disk
    <3> QED
      BY <2>3, <2>5, <3>1, <3>3
  <2>6. CASE target # NoValue
    <3>1. target' # NoValue
      BY <1>1, <2>6, StepEffect DEF Effect, Next, StepOf
    <3>2. pc[p] \notin {"seeJson", "rename"} /\ pc[q] \notin {"seeJson", "rename"}
      BY <2>2, <2>6 DEF JsonFirst
    <3>3. pc'[p] \notin {"seeJson", "rename"}
      BY <1>1, <2>1, <2>4, <2>6, <3>2
      DEF StepOf, Step, Start, Dies, SeeTarget, SeeJson, SeeDirectory, LockStore,
          LoadTarget, LoadLegacy, ListLegacy, MergeLegacy, RemoveEmptyDirectories, UnlinkLegacy,
          SeeState, AddDefaults, ClearDefaults, RunCommand, Goto, Stop, Fail, Loaded, Open, Enter
    <3> QED
      BY <2>3, <3>1, <3>2, <3>3
  <2> QED
    BY <2>5, <2>6
<1>2. CASE UNCHANGED vars
  BY <1>2 DEF vars, disk, JsonFirst
<1> QED
  BY <1>1, <1>2 DEF Next, StepOf

ControlInv == TypeOK /\ Procedure /\ JsonFirst

LEMMA ControlInit == Init => ControlInv
<1> SUFFICES ASSUME Init PROVE ControlInv
  OBVIOUS
<1>1. TypeOK
  <2>1. target \in Store \cup {NoValue} /\ json \in Store \cup {NoValue} /\ legacy \in Defaults
    BY OldAssumption DEF Init
  <2>2. memory \in [Procs -> Memory] /\ pc \in [Procs -> PcLabels]
    BY FreshType DEF Init, PcLabels
  <2>3. outcome \in [Procs -> {"none", "opened", "raced", "conflict", "died"}]
    BY DEF Init
  <2>4. \A p \in Procs : holder # p /\ pc[p] = "stopped"
    BY ProcsAssumption DEF Init
  <2> QED
    BY <2>1, <2>2, <2>3, <2>4 DEF Init, TypeOK
<1>2. Procedure /\ JsonFirst
  BY DEF Init, Procedure, InOrder, JsonFirst, Fresh
<1> QED
  BY <1>1, <1>2 DEF ControlInv

LEMMA ControlStep == ControlInv /\ [Next]_vars => ControlInv'
BY TypeStep, ProcedureStep, JsonStep DEF ControlInv

(* Every variable has its type, and the lock is with the process that is   *)
(* between taking it and updating the store.                               *)
THEOREM MigrationTypeCorrect == Spec => []TypeOK
<1>1. ControlInv => TypeOK
  BY DEF ControlInv
<1> QED
  BY <1>1, ControlInit, ControlStep, PTL DEF Spec

----------------------------------------------------------------------------
(* No old file escapes a process that gets to the end of its migration:    *)
(* when it listed them all were there, and it unlinks what it listed.      *)

Swept(p) ==
    /\ pc[p] \in {"merge", "unlink"} => files \subseteq Listed(p)
    /\ pc[p] \in {"rmdir", "seeState"} \/ memory[p].phase # "merge" => files = {}

FilesInv == (files # {} => "root" \in dirs) /\ \A p \in Procs : Swept(p)

LEMMA MoverSweeps ==
    ASSUME ControlInv, FilesInv, NEW p \in Procs, StepOf(p)
    PROVE  Swept(p)' /\ (files' # {} => "root" \in dirs')
<1> DEFINE m == memory[p]
           Good == Swept(p)' /\ (files' # {} => "root" \in dirs')
<1>0. /\ m \in Memory /\ memory \in [Procs -> Memory] /\ pc \in [Procs -> PcLabels]
      /\ TypeOK /\ Procedure /\ InOrder(p) /\ Swept(p) /\ files' \subseteq files
  BY StepEffect DEF ControlInv, TypeOK, Procedure, FilesInv, Effect, Next, StepOf
<1>1. ASSUME Stop(p), UNCHANGED dirs PROVE Good
  BY <1>0, <1>1 DEF Stop, Goto, Fresh, Swept, FilesInv
<1>2. ASSUME NEW t \in Tasks, Start(p, t) PROVE Good
  BY <1>0, <1>2 DEF Start, Learn, Goto, Memory, Swept, FilesInv, disk, InOrder
<1>3. ASSUME Dies(p) PROVE Good
  BY <1>1, <1>3 DEF Dies, Fail, disk
<1>4. ASSUME SeeTarget(p) \/ SeeJson(p) \/ RenameJson(p) \/ SeeDirectory(p) \/ LockStore(p)
      PROVE  Good
  BY <1>0, <1>4
  DEF SeeTarget, SeeJson, RenameJson, SeeDirectory, LockStore, Goto, Swept, FilesInv, disk
<1>5. ASSUME LoadTarget(p) \/ LoadLegacy(p) PROVE Good
  BY <1>0, <1>5 DEF LoadTarget, LoadLegacy, Loaded, Learn, Goto, Memory, Swept, FilesInv, disk
<1>6. ASSUME ListLegacy(p) PROVE Good
  <2>1. CASE Learn(p, "found", files) /\ Goto(p, "merge")
    BY <1>0, <1>6, <2>1 DEF ListLegacy, Learn, Goto, Memory, Listed, Swept, FilesInv, disk
  <2> QED
    BY <1>1, <1>6, <2>1 DEF ListLegacy, Fail, disk
<1>7. ASSUME MergeLegacy(p) PROVE Good
  <2>1. CASE /\ Update(p, Merged(m.loaded, Listed(p)))
             /\ Goto(p, IF Listed(p) = {} THEN "seeState" ELSE "unlink")
    BY <1>0, <1>7, <2>1
    DEF MergeLegacy, Update, Learn, Goto, Memory, Listed, Swept, FilesInv, InOrder
  <2> QED
    BY <1>1, <1>7, <2>1 DEF MergeLegacy, Fail
<1>8. ASSUME NEW f \in Paths, UnlinkLegacy(p, f) PROVE Good
  <2>1. CASE /\ files' = files \ {f}
             /\ Learn(p, "found", Listed(p) \ {f})
             /\ Goto(p, IF Listed(p) = {f} THEN "rmdir" ELSE "unlink")
    BY <1>0, <1>8, <2>1
    DEF UnlinkLegacy, Learn, Goto, Memory, Listed, Swept, FilesInv, InOrder
  <2> QED
    BY <1>1, <1>8, <2>1 DEF UnlinkLegacy, Fail
<1>9. ASSUME RemoveEmptyDirectories(p) PROVE Good
  BY <1>0, <1>1, <1>9 DEF RemoveEmptyDirectories, Fail, Goto, Swept, FilesInv
<1>10. ASSUME Open(p), UNCHANGED <<files, dirs>>, files = {} PROVE Good
  BY <1>0, <1>1, <1>10 DEF Open, Enter, Goto, Swept, FilesInv
<1>11. ASSUME SeeState(p) PROVE Good
  BY <1>0, <1>10, <1>11 DEF SeeState, Enter, Goto, disk, Swept
<1>12. ASSUME AddDefaults(p) PROVE Good
  BY <1>0, <1>12 DEF AddDefaults, Update, Learn, Goto, Memory, Swept
<1>13. ASSUME ClearDefaults(p) PROVE Good
  BY <1>0, <1>10, <1>13 DEF ClearDefaults, Swept, InOrder
<1>14. ASSUME RunCommand(p) PROVE Good
  BY <1>0, <1>1, <1>14 DEF RunCommand
<1> HIDE DEF Good
<1> QED
  BY <1>2, <1>3, <1>4, <1>5, <1>6, <1>7, <1>8, <1>9, <1>11, <1>12, <1>13, <1>14 DEF StepOf, Step, Good

LEMMA FilesStep == ControlInv /\ FilesInv /\ [Next]_vars => FilesInv'
<1> SUFFICES ASSUME ControlInv, FilesInv, [Next]_vars PROVE FilesInv'
  OBVIOUS
<1>1. ASSUME NEW p \in Procs, StepOf(p), NEW q \in Procs \ {p} PROVE Swept(q)'
  <2>1. pc'[q] = pc[q] /\ memory'[q] = memory[q]
    BY <1>1, OthersStand DEF ControlInv
  <2>2. files' \subseteq files
    BY <1>1, StepEffect DEF ControlInv, Effect, Next, StepOf
  <2> QED
    BY <2>1, <2>2 DEF FilesInv, Swept, Listed
<1>2. ASSUME NEW p \in Procs, StepOf(p) PROVE FilesInv'
  BY <1>1, <1>2, MoverSweeps DEF FilesInv
<1>3. CASE UNCHANGED vars
  BY <1>3 DEF vars, disk, FilesInv, Swept, Listed
<1> QED
  BY <1>2, <1>3 DEF Next, StepOf

----------------------------------------------------------------------------
(* Profiles. *)

(* What is unlinked is in the store, unless users have said something else *)
(* since; nothing else gets into the store; and users get to say something *)
(* only when there are no old files left.                                  *)
UnlinkedIsStored ==
    \A p \in Procs : pc[p] = "unlink" =>
        \A f \in Listed(p) : Content[f] \in View.profiles \/ Key(Content[f]) \in DOMAIN asked

NothingInvented ==
    \A q \in View.profiles \cup Contents(files) : q \in old.profiles \/ Key(q) \in DOMAIN asked

AskedLast == DOMAIN asked # {} => files = {}

ProfilesInv ==
    /\ NothingLost /\ UnlinkedIsStored /\ NothingInvented /\ AskedLast /\ UsersHaveTheLastWord

(* A command leaves the profiles alone, or puts `more` in the place of     *)
(* those under one name for one setup.                                     *)
Replaces(s, t, k, v, more) ==
    /\ Done(s, t).profiles = {r \in s.profiles : Key(r) # k} \cup more
    /\ Asked(t) = Put(asked, k, v)
    /\ \/ more = {} /\ v = NoValue
       \/ \E q \in Profile : more = {q} /\ k = Key(q) /\ v = q.layout

LEMMA DoneProfiles ==
    ASSUME NEW s \in Store, NEW t \in Commands
    PROVE  \/ Done(s, t).profiles = s.profiles /\ Asked(t) = asked
           \/ \E k, v, more : Replaces(s, t, k, v, more)
<1> USE SetupsAssumption
<1>1. CASE t.kind = "save"
  <2>1. t.profile \in Profile /\ Done(s, t) = Saved(s, t.profile)
    BY <1>1 DEF Commands, Done
  <2>2. Done(s, t).profiles = {r \in s.profiles : Key(r) # Key(t.profile)} \cup {t.profile}
    BY <2>1, SavedFields
  <2>3. Asked(t) = Put(asked, Key(t.profile), t.profile.layout)
    BY <1>1 DEF Asked
  <2>4. Replaces(s, t, Key(t.profile), t.profile.layout, {t.profile})
    BY <2>1, <2>2, <2>3 DEF Replaces
  <2> QED
    BY <2>4
<1>2. CASE t.kind = "remove"
  <2>1. t.name \in Names /\ t.setup \in Setups /\ Done(s, t) = Removed(s, <<t.name, t.setup>>)
    BY <1>2 DEF Commands, Done
  <2>2. Done(s, t).profiles = {r \in s.profiles : Key(r) # <<t.name, t.setup>>}
    BY <2>1, RemovedFields
  <2>3. Asked(t) = Put(asked, <<t.name, t.setup>>, NoValue)
    BY <1>2 DEF Asked
  <2>4. Replaces(s, t, <<t.name, t.setup>>, NoValue, {})
    BY <2>2, <2>3 DEF Replaces
  <2> QED
    BY <2>4
<1>3. CASE t.kind \in {"default", "layout"}
  <2>1. Asked(t) = asked
    BY <1>3 DEF Asked
  <2>2. Done(s, t).profiles = s.profiles
    BY <1>3, DefaultFields, LayoutFields, ZenonT(60) DEF Done, Commands
  <2> QED
    BY <2>1, <2>2
<1> QED
  BY <1>1, <1>2, <1>3 DEF Commands

(* A profile leaves the store only when users speak of it, and comes there *)
(* from an old file or when they do.                                       *)
LEMMA ProfilesChange ==
    ASSUME ControlInv, Effect
    PROVE  /\ DOMAIN asked \subseteq DOMAIN asked'
           /\ \A q \in View.profiles : q \in View'.profiles \/ Key(q) \in DOMAIN asked'
           /\ \A q \in View'.profiles :
                q \in View.profiles \cup Contents(files) \/ Key(q) \in DOMAIN asked'
<1>1. View \in Store /\ files \subseteq Paths
  BY ViewType DEF ControlInv, TypeOK
<1>2. CASE Quiet
  BY <1>2 DEF Quiet
<1>3. ASSUME NEW p \in Procs, Merges(p)
      PROVE  /\ asked' = asked /\ View'.profiles = View.profiles \cup Contents(Listed(p))
             /\ Contents(Listed(p)) \subseteq Contents(files)
  BY <1>1, <1>3, MergedType DEF Merges, Contents
<1>4. ASSUME NEW p \in Procs, Adds(p) PROVE asked' = asked /\ View'.profiles = View.profiles
  BY <1>1, <1>4, AddedFields DEF Adds, ControlInv, TypeOK, Memory
<1>5. ASSUME NEW p \in Procs, NEW t \in Commands, Does(p, t)
      PROVE  \/ View'.profiles = View.profiles /\ asked' = asked
             \/ \E k, more :
                    /\ DOMAIN asked' = DOMAIN asked \cup {k}
                    /\ View'.profiles = {r \in View.profiles : Key(r) # k} \cup more
                    /\ \A q \in more : Key(q) = k
  <2>1. View' = Done(View, t) /\ asked' = Asked(t)
    BY <1>5 DEF Does
  <2>2. ASSUME NEW k, NEW v, NEW more, Replaces(View, t, k, v, more)
        PROVE  /\ DOMAIN asked' = DOMAIN asked \cup {k}
               /\ View'.profiles = {r \in View.profiles : Key(r) # k} \cup more
               /\ \A q \in more : Key(q) = k
    <3>1. asked' = Put(asked, k, v)
      BY <2>1, <2>2 DEF Replaces
    <3>2. DOMAIN asked' = DOMAIN asked \cup {k}
      BY <3>1 DEF Put
    <3>3. View'.profiles = {r \in View.profiles : Key(r) # k} \cup more
      BY <2>1, <2>2 DEF Replaces
    <3>4. \A q \in more : Key(q) = k
      BY <2>2 DEF Replaces
    <3> QED
      BY <3>2, <3>3, <3>4
  <2> QED
    BY <1>1, <2>1, <2>2, DoneProfiles
<1> QED
  BY <1>2, <1>3, <1>4, <1>5 DEF Effect

LEMMA FilesChange ==
    ASSUME Effect
    PROVE  \A q \in Contents(files) : q \in Contents(files)' \/
              \E p \in Procs : \E f \in Listed(p) : pc[p] = "unlink" /\ q = Content[f]
<1>1. CASE UNCHANGED files
  BY <1>1 DEF Contents
<1>2. CASE Unlinks
  BY <1>2 DEF Contents, Unlinks
<1> QED
  BY <1>1, <1>2 DEF Effect, Quiet, Merges, Adds, Does

LEMMA LostStep == ControlInv /\ NothingLost /\ UnlinkedIsStored /\ Effect => NothingLost'
<1> SUFFICES ASSUME ControlInv, NothingLost, UnlinkedIsStored, Effect, NEW q \in old.profiles
             PROVE  Key(q) \in DOMAIN asked' \/ q \in View'.profiles \cup Contents(files)'
  BY DEF NothingLost, Effect
<1>1. Key(q) \in DOMAIN asked \/ q \in View.profiles \/ q \in Contents(files)
  BY DEF NothingLost
<1>2. q \in Contents(files) =>
        q \in Contents(files)' \/ q \in View.profiles \/ Key(q) \in DOMAIN asked
  BY FilesChange DEF UnlinkedIsStored
<1> QED
  BY <1>1, <1>2, ProfilesChange

LEMMA InventedStep == ControlInv /\ NothingInvented /\ Effect => NothingInvented'
<1> SUFFICES ASSUME ControlInv, NothingInvented, Effect
             PROVE  NothingInvented'
  OBVIOUS
<1>1. Contents(files)' \subseteq Contents(files) /\ old' = old
  BY DEF Effect, Contents
<1> QED
  BY <1>1, ProfilesChange DEF NothingInvented

LEMMA AskedStep == FilesInv /\ AskedLast /\ Effect => AskedLast'
<1> SUFFICES ASSUME FilesInv, AskedLast, Effect PROVE AskedLast'
  OBVIOUS
<1>1. CASE UNCHANGED asked
  BY <1>1 DEF AskedLast, Effect
<1>2. ASSUME NEW p \in Procs, NEW t \in Commands, Does(p, t) PROVE files' = {}
  BY <1>2 DEF Does, FilesInv, Swept
<1> QED
  BY <1>1, <1>2 DEF Effect, Quiet, Merges, Adds, AskedLast

LEMMA LastWordStep ==
    ControlInv /\ AskedLast /\ UsersHaveTheLastWord /\ Effect => UsersHaveTheLastWord'
<1> SUFFICES ASSUME ControlInv, AskedLast, UsersHaveTheLastWord, Effect, NEW k \in DOMAIN asked'
             PROVE  {q.layout : q \in {r \in View'.profiles : Key(r) = k}} = {asked'[k]} \ {NoValue}
  BY DEF UsersHaveTheLastWord
<1> DEFINE Layouts1 == {q.layout : q \in {r \in View'.profiles : Key(r) = k}}
<1>0. View \in Store
  BY ViewType DEF ControlInv
<1>1. CASE asked' = asked /\ View'.profiles = View.profiles
  BY <1>1 DEF UsersHaveTheLastWord
<1>2. ASSUME NEW p \in Procs, Merges(p) PROVE asked' = asked /\ View'.profiles = View.profiles
  <2>1. asked' = asked /\ files = {}
    BY <1>2 DEF Merges, AskedLast
  <2>2. Listed(p) = {} /\ View' = Merged(View, Listed(p))
    BY <1>2, <2>1 DEF Merges
  <2>3. Contents(Listed(p)) = {} /\ Listed(p) \in SUBSET Paths
    BY <2>2 DEF Contents
  <2> QED
    BY <1>0, <2>1, <2>2, <2>3, MergedType, ZenonT(60)
<1>3. ASSUME NEW p \in Procs, Adds(p) PROVE asked' = asked /\ View'.profiles = View.profiles
  BY <1>0, <1>3, AddedFields DEF Adds, ControlInv, TypeOK, Memory
<1>4. ASSUME NEW p \in Procs, NEW t \in Commands, Does(p, t) PROVE Layouts1 = {asked'[k]} \ {NoValue}
  <2>1. View' = Done(View, t) /\ asked' = Asked(t)
    BY <1>4 DEF Does
  <2>2. ASSUME NEW x, NEW v, NEW more, Replaces(View, t, x, v, more)
        PROVE  Layouts1 = {asked'[k]} \ {NoValue}
    <3>1. /\ View'.profiles = {r \in View.profiles : Key(r) # x} \cup more
          /\ asked' = Put(asked, x, v)
      BY <2>1, <2>2 DEF Replaces
    <3>2. asked' = Put(asked, x, v)
      BY <3>1
    <3>3. /\ DOMAIN Put(asked, x, v) = DOMAIN asked \cup {x} /\ Put(asked, x, v)[x] = v
          /\ \A y \in DOMAIN asked \ {x} : Put(asked, x, v)[y] = asked[y]
      BY DEF Put
    <3>4. CASE k = x
      <4>1. asked'[k] = v
        BY <3>2, <3>4, <3>3
      <4>2. CASE more = {} /\ v = NoValue
        <5>1. {r \in View'.profiles : Key(r) = k} = {}
          BY <3>1, <3>4, <4>2
        <5> QED
          BY <4>1, <4>2, <5>1
      <4>3. ASSUME NEW q \in Profile, more = {q}, x = Key(q), v = q.layout
            PROVE  Layouts1 = {asked'[k]} \ {NoValue}
        <5>1. {r \in View'.profiles : Key(r) = k} = {q} /\ v # NoValue
          BY <3>1, <3>4, <4>3, NoValueAssumption DEF Profile
        <5> QED
          BY <4>1, <4>3, <5>1
      <4> QED
        BY <2>2, <4>2, <4>3 DEF Replaces
    <3>5. CASE k # x
      <4>1. k \in DOMAIN asked /\ asked'[k] = asked[k]
        BY <3>2, <3>5, <3>3
      <4>2. {r \in View'.profiles : Key(r) = k} = {r \in View.profiles : Key(r) = k}
        <5>1. \A r \in more : Key(r) = x
          BY <2>2 DEF Replaces
        <5> QED
          BY <3>1, <3>5, <5>1
      <4> QED
        BY <4>1, <4>2 DEF UsersHaveTheLastWord
    <3> QED
      BY <3>4, <3>5
  <2> QED
    BY <1>0, <1>1, <2>1, <2>2, DoneProfiles
<1> QED
  BY <1>1, <1>2, <1>3, <1>4 DEF Effect, Quiet

LEMMA UnlinkedStep ==
    ControlInv /\ UnlinkedIsStored /\ [Next]_vars => UnlinkedIsStored'
<1> SUFFICES ASSUME ControlInv, UnlinkedIsStored, [Next]_vars, NEW q \in Procs,
                    pc'[q] = "unlink", NEW f \in memory'[q].found
             PROVE  Content[f] \in View'.profiles \/ Key(Content[f]) \in DOMAIN asked'
  BY DEF UnlinkedIsStored, Listed
<1>0. Effect
  BY StepEffect DEF ControlInv
<1>1. CASE pc[q] = "unlink" /\ f \in Listed(q)
  BY <1>0, <1>1, ProfilesChange DEF UnlinkedIsStored
<1>2. CASE pc[q] = "merge" /\ MergeLegacy(q)
  <2>1. memory' \in [Procs -> Memory]
    BY TypeStep DEF ControlInv, TypeOK
  <2>2. /\ target' = Merged(memory[q].loaded, Listed(q))
        /\ memory'[q].found = Listed(q)
    BY <1>2
    DEF MergeLegacy, Fail, Stop, Goto, Update, Learn, ControlInv, TypeOK, Memory, Listed
  <2>3. memory[q].loaded = View /\ View \in Store /\ Listed(q) \subseteq Paths
    BY <1>2, ViewType DEF ControlInv, Procedure, InOrder, TypeOK, Memory, Listed
  <2>4. View'.profiles = View.profiles \cup Contents(Listed(q))
    BY <2>2, <2>3, MergedType, SavedView
  <2> QED
    BY <2>2, <2>4 DEF Contents
<1>3. ASSUME NEW p \in Procs, StepOf(p), p # q PROVE pc[q] = "unlink" /\ f \in Listed(q)
  BY <1>3, OthersStand DEF ControlInv, Listed
<1>4. ASSUME StepOf(q), ~MergeLegacy(q) PROVE pc[q] = "unlink" /\ f \in Listed(q)
  <2>1. pc \in [Procs -> PcLabels] /\ memory \in [Procs -> Memory]
    BY DEF ControlInv, TypeOK
  <2>2. \E g \in Paths : UnlinkLegacy(q, g)
    BY <1>4, <2>1
    DEF StepOf, Step, Start, Dies, SeeTarget, SeeJson, RenameJson, SeeDirectory, LockStore,
        LoadTarget, LoadLegacy, ListLegacy, RemoveEmptyDirectories,
        SeeState, AddDefaults, ClearDefaults, RunCommand, Goto, Stop, Fail, Loaded, Open, Enter
  <2> QED
    BY <2>1, <2>2 DEF UnlinkLegacy, Fail, Stop, Goto, Learn, Listed, Memory
<1>5. ASSUME UNCHANGED vars PROVE pc[q] = "unlink" /\ f \in Listed(q)
  BY <1>5 DEF vars, Listed
<1> QED
  BY <1>1, <1>2, <1>3, <1>4, <1>5 DEF Next, StepOf, MergeLegacy

Inv == ControlInv /\ FilesInv /\ ProfilesInv

LEMMA InvInit == Init => Inv
<1> SUFFICES ASSUME Init PROVE FilesInv /\ ProfilesInv
  BY ControlInit DEF Inv
<1>1. FilesInv
  BY DEF Init, FilesInv, Swept, Fresh, Directories
<1>2. old.profiles = View.profiles \cup Contents(files) /\ DOMAIN asked = {}
  BY DEF Init
<1>3. UnlinkedIsStored
  BY DEF Init, UnlinkedIsStored
<1> QED
  BY <1>1, <1>2, <1>3
  DEF ProfilesInv, NothingLost, NothingInvented, AskedLast, UsersHaveTheLastWord

LEMMA InvStep == Inv /\ [Next]_vars => Inv'
<1> SUFFICES ASSUME Inv, [Next]_vars PROVE Inv'
  OBVIOUS
<1>1. ControlInv' /\ FilesInv'
  BY ControlStep, FilesStep DEF Inv
<1>2. Effect
  BY StepEffect DEF Inv, ControlInv
<1> QED
  BY <1>1, <1>2, LostStep, UnlinkedStep, InventedStep, AskedStep, LastWordStep
  DEF Inv, ProfilesInv

(* A profile that an earlier version kept, and that users have neither     *)
(* saved over nor removed since, is in the store or still in an old file,  *)
(* whichever processes migrated together and wherever they died.           *)
THEOREM MigrationLosesNothing == Spec => []NothingLost
<1>1. Inv => NothingLost
  BY DEF Inv, ProfilesInv
<1> QED
  BY <1>1, InvInit, InvStep, PTL DEF Spec

(* What users last said of a profile is what the store says: no later      *)
(* migration brings back a profile that was removed or the old layout of   *)
(* one that was saved.                                                     *)
THEOREM LastWordIsUsers == Spec => []UsersHaveTheLastWord
<1>1. Inv => UsersHaveTheLastWord
  BY DEF Inv, ProfilesInv
<1> QED
  BY <1>1, InvInit, InvStep, PTL DEF Spec

----------------------------------------------------------------------------
(* Defaults. *)

(* The store says what users chose for a setup. *)
Says(v, s, c) ==
    \/ c = NoValue
    \/ c = "layout" /\ s \in v.layouts /\ s \notin DOMAIN v.defaults
    \/ s \in DOMAIN v.defaults /\ v.defaults[s] = c /\ s \notin v.layouts

(* Two stores say the same of a setup. *)
Agree(v, w, s) ==
    /\ s \in v.layouts <=> s \in w.layouts
    /\ s \in DOMAIN v.defaults <=> s \in DOMAIN w.defaults
    /\ s \in DOMAIN v.defaults => w.defaults[s] = v.defaults[s]

(* A command leaves the defaults alone, or users choose one for one setup. *)
Settles(v, t, x, c) ==
    /\ Chosen(v, t) = Put(chosen, x, c)
    /\ Says(Done(v, t), x, c)
    /\ \A s : s # x => Agree(v, Done(v, t), s)

LEMMA DoneDefaults ==
    ASSUME NEW v \in Store, NEW t \in Commands
    PROVE  \/ Chosen(v, t) = chosen /\ \A s : Agree(v, Done(v, t), s)
           \/ \E x, c : Settles(v, t, x, c)
<1> USE SetupsAssumption
<1> DEFINE d == Done(v, t)
<1>0. v.defaults \in Defaults
  BY DEF Store
<1>1. CASE t.kind = "save"
  <2>1. t.profile \in Profile /\ d = Saved(v, t.profile)
    BY <1>1 DEF Commands, Done
  <2>2. d.defaults = v.defaults /\ d.layouts = v.layouts
    BY <2>1, SavedFields
  <2>3. Chosen(v, t) = chosen
    BY <1>1 DEF Chosen
  <2> HIDE DEF d
  <2>4. \A s : Agree(v, d, s)
    BY <2>2 DEF Agree
  <2> QED
    BY <2>3, <2>4 DEF d
<1>2. CASE t.kind = "remove"
  <2>1. t.name \in Names /\ t.setup \in Setups /\ d = Removed(v, <<t.name, t.setup>>)
    BY <1>2 DEF Commands, Done
  <2>2. /\ d.layouts = v.layouts
        /\ d.defaults = v.defaults \/ d.defaults = Drop(v.defaults, t.setup)
    BY <2>1, RemovedFields
  <2>3. Chosen(v, t) = IF d.defaults # v.defaults THEN Put(chosen, t.setup, NoValue) ELSE chosen
    BY <1>2 DEF Chosen
  <2>4. LET w == Drop(v.defaults, t.setup) IN
        /\ DOMAIN w = DOMAIN v.defaults \ {t.setup}
        /\ \A s \in DOMAIN v.defaults \ {t.setup} : w[s] = v.defaults[s]
    BY <1>0, DropFacts
  <2> HIDE DEF d
  <2>5. CASE d.defaults = v.defaults
    <3>1. \A s : Agree(v, d, s)
      BY <2>2, <2>5 DEF Agree
    <3> QED
      BY <2>3, <2>5, <3>1 DEF d
  <2>6. CASE d.defaults # v.defaults
    <3>1. \A s : s # t.setup => Agree(v, d, s)
      BY <2>2, <2>6, <2>4 DEF Agree
    <3>2. Says(d, t.setup, NoValue)
      BY DEF Says
    <3>3. Settles(v, t, t.setup, NoValue)
      BY <2>3, <2>6, <3>1, <3>2 DEF Settles, d
    <3> QED
      BY <3>3
  <2> QED
    BY <2>5, <2>6
<1>3. CASE t.kind = "default"
  <2>1. /\ t.name \in Names /\ t.setup \in Setups
        /\ d = [v EXCEPT !.layouts = @ \ {t.setup}, !.defaults = Put(@, t.setup, t.name)]
    BY <1>3 DEF Commands, Done
  <2>2. d.layouts = v.layouts \ {t.setup} /\ d.defaults = Put(v.defaults, t.setup, t.name)
    BY <2>1 DEF Store
  <2>3. LET w == Put(v.defaults, t.setup, t.name) IN
        /\ DOMAIN w = DOMAIN v.defaults \cup {t.setup} /\ w[t.setup] = t.name
        /\ \A s \in DOMAIN v.defaults \ {t.setup} : w[s] = v.defaults[s]
    BY DEF Put
  <2>4. Chosen(v, t) = Put(chosen, t.setup, t.name)
    BY <1>3 DEF Chosen
  <2> HIDE DEF d
  <2>5. Says(d, t.setup, t.name) /\ \A s : s # t.setup => Agree(v, d, s)
    BY <2>2, <2>3 DEF Says, Agree
  <2>6. Settles(v, t, t.setup, t.name)
    BY <2>4, <2>5 DEF Settles, d
  <2> QED
    BY <2>6
<1>4. CASE t.kind = "layout"
  <2>1. /\ t.setup \in Setups
        /\ d = [v EXCEPT !.defaults = Drop(@, t.setup), !.layouts = @ \cup {t.setup}]
    BY <1>4 DEF Commands, Done
  <2>2. d.layouts = v.layouts \cup {t.setup} /\ d.defaults = Drop(v.defaults, t.setup)
    BY <2>1 DEF Store
  <2>3. LET w == Drop(v.defaults, t.setup) IN
        /\ DOMAIN w = DOMAIN v.defaults \ {t.setup}
        /\ \A s \in DOMAIN v.defaults \ {t.setup} : w[s] = v.defaults[s]
    BY <1>0, DropFacts
  <2>4. Chosen(v, t) = Put(chosen, t.setup, "layout")
    BY <1>4 DEF Chosen
  <2> HIDE DEF d
  <2>5. Says(d, t.setup, "layout") /\ \A s : s # t.setup => Agree(v, d, s)
    BY <2>2, <2>3 DEF Says, Agree
  <2>6. Settles(v, t, t.setup, "layout")
    BY <2>4, <2>5 DEF Settles, d
  <2> QED
    BY <2>6
<1> QED
  BY <1>1, <1>2, <1>3, <1>4 DEF Commands

(* The default of a setup changes when users choose one, or is added where *)
(* there is none.                                                          *)
Fills(p, s) ==
    /\ Adds(p) /\ s \in Added(View, memory[p].stale)
    /\ s \in DOMAIN View'.defaults /\ View'.defaults[s] = memory[p].stale[s]
    /\ s \in View'.layouts <=> s \in View.layouts

LEMMA DefaultsChange ==
    ASSUME ControlInv, Effect, NEW s
    PROVE  \/ s \in DOMAIN chosen' /\ Says(View', s, chosen'[s])
           \/ /\ s \in DOMAIN chosen' <=> s \in DOMAIN chosen
              /\ s \in DOMAIN chosen => chosen'[s] = chosen[s]
              /\ Agree(View, View', s) \/ \E p \in Procs : Fills(p, s)
<1>1. View \in Store /\ files \subseteq Paths
  BY ViewType DEF ControlInv, TypeOK
<1>2. CASE Quiet
  BY <1>2 DEF Quiet, Agree
<1>3. ASSUME NEW p \in Procs, Merges(p) PROVE chosen' = chosen /\ Agree(View, View', s)
  BY <1>1, <1>3, MergedType DEF Merges, Agree
<1>4. ASSUME NEW p \in Procs, Adds(p)
      PROVE  chosen' = chosen /\ (Agree(View, View', s) \/ Fills(p, s))
  <2>1. memory[p].stale \in Defaults /\ View' = WithAdded(View, memory[p].stale)
    BY <1>4 DEF Adds, ControlInv, TypeOK, Memory
  <2> QED
    BY <1>1, <1>4, <2>1, AddedFields DEF Adds, Agree, Fills
<1>5. ASSUME NEW p \in Procs, NEW t \in Commands, Does(p, t)
      PROVE  \/ s \in DOMAIN chosen' /\ Says(View', s, chosen'[s])
             \/ /\ s \in DOMAIN chosen' <=> s \in DOMAIN chosen
                /\ s \in DOMAIN chosen => chosen'[s] = chosen[s]
                /\ Agree(View, View', s)
  <2>1. View' = Done(View, t) /\ chosen' = Chosen(View, t)
    BY <1>5 DEF Does
  <2>2. ASSUME NEW x, NEW c, Settles(View, t, x, c)
        PROVE  IF s = x THEN s \in DOMAIN chosen' /\ Says(View', s, chosen'[s])
               ELSE /\ s \in DOMAIN chosen' <=> s \in DOMAIN chosen
                    /\ s \in DOMAIN chosen => chosen'[s] = chosen[s]
                    /\ Agree(View, View', s)
    <3>1. chosen' = Put(chosen, x, c)
      BY <2>1, <2>2 DEF Settles
    <3>2. /\ DOMAIN Put(chosen, x, c) = DOMAIN chosen \cup {x} /\ Put(chosen, x, c)[x] = c
          /\ \A y \in DOMAIN chosen \ {x} : Put(chosen, x, c)[y] = chosen[y]
      BY DEF Put
    <3> QED
      BY <2>1, <2>2, <3>1, <3>2 DEF Settles
  <2> QED
    BY <1>1, <2>1, <2>2, DoneDefaults
<1> QED
  BY <1>2, <1>3, <1>4, <1>5 DEF Effect

(* The setups whose default is still only in state.toml, where it has to be *)
(* until a process that has read it has put it in the store.                *)
Kept == DOMAIN old.defaults \ DOMAIN chosen

Unsettled == Kept \ DOMAIN View.defaults

Carries(p) ==
    /\ memory[p].phase = "defaults" =>
        \A s \in Unsettled : s \in DOMAIN memory[p].stale /\ memory[p].stale[s] = old.defaults[s]
    /\ pc[p] = "clear" => Unsettled = {}

DefaultsInv ==
    /\ \A s \in Kept : s \notin View.layouts \cup ReservedSetups
    /\ \A s \in Kept \cap DOMAIN View.defaults : View.defaults[s] = old.defaults[s]
    /\ \A s \in Unsettled : s \in DOMAIN legacy /\ legacy[s] = old.defaults[s]
    /\ \A s \in DOMAIN chosen : Says(View, s, chosen[s])
    /\ \A p \in Procs : Carries(p)

LEMMA UnsettledShrinks ==
    ASSUME ControlInv, Effect
    PROVE  Kept' \subseteq Kept /\ Unsettled' \subseteq Unsettled
<1>1. old' = old
  BY DEF Effect
<1>2. ASSUME NEW s \in Kept' PROVE s \in Kept /\ (s \in Unsettled' => s \in Unsettled)
  BY <1>1, <1>2, DefaultsChange DEF Kept, Unsettled, Agree, Fills
<1> QED
  BY <1>2 DEF Unsettled

LEMMA StoreDefaultsStep ==
    ASSUME ControlInv, DefaultsInv, Effect
    PROVE  /\ \A s \in Kept' : s \notin View'.layouts \cup ReservedSetups
           /\ \A s \in Kept' \cap DOMAIN View'.defaults : View'.defaults[s] = old'.defaults[s]
           /\ \A s \in Unsettled' : s \in DOMAIN legacy' /\ legacy'[s] = old'.defaults[s]
           /\ \A s \in DOMAIN chosen' : Says(View', s, chosen'[s])
<1>0. old' = old /\ Kept' \subseteq Kept /\ Unsettled' \subseteq Unsettled
  BY UnsettledShrinks DEF Effect
<1>1. ASSUME NEW s \in Kept'
      PROVE  /\ s \notin View'.layouts \cup ReservedSetups
             /\ s \in DOMAIN View'.defaults => View'.defaults[s] = old'.defaults[s]
  <2>1. s \in Kept /\ s \notin DOMAIN chosen' /\ s \notin View.layouts \cup ReservedSetups
    BY <1>0, <1>1 DEF Kept, DefaultsInv
  <2>2. CASE Agree(View, View', s)
    BY <1>0, <2>1, <2>2 DEF Agree, DefaultsInv
  <2>3. ASSUME NEW p \in Procs, Fills(p, s)
        PROVE  s \notin View'.layouts /\ View'.defaults[s] = old.defaults[s]
    <3>1. s \in Unsettled /\ memory[p].phase = "defaults"
      BY <2>1, <2>3 DEF Fills, Adds, Added, Unsettled
    <3> QED
      BY <2>1, <2>3, <3>1 DEF Fills, DefaultsInv, Carries
  <2> QED
    BY <1>0, <2>1, <2>2, <2>3, DefaultsChange
<1>2. ASSUME NEW s \in Unsettled' PROVE s \in DOMAIN legacy' /\ legacy'[s] = old'.defaults[s]
  <2>1. ~Clears
    BY <1>0, <1>2 DEF Clears, DefaultsInv, Carries
  <2>2. legacy' = legacy
    BY <2>1 DEF Effect, Quiet, Merges, Adds, Does
  <2> QED
    BY <1>0, <1>2, <2>2 DEF DefaultsInv
<1>3. ASSUME NEW s \in DOMAIN chosen' PROVE Says(View', s, chosen'[s])
  BY <1>3, DefaultsChange DEF DefaultsInv, Says, Agree, Fills, Added
<1> QED
  BY <1>1, <1>2, <1>3

(* The process that moves: it reads state.toml, or puts what it has read   *)
(* there in the store.                                                     *)
LEMMA MoverCarries ==
    ASSUME ControlInv, DefaultsInv, NEW p \in Procs, StepOf(p)
    PROVE  Carries(p)'
<1> DEFINE m == memory[p]
<1>0. /\ m \in Memory /\ memory \in [Procs -> Memory] /\ pc \in [Procs -> PcLabels]
      /\ InOrder(p) /\ Carries(p) /\ Effect
      /\ old' = old /\ Unsettled' \subseteq Unsettled
  BY StepEffect, UnsettledShrinks
  DEF ControlInv, TypeOK, Procedure, DefaultsInv, Effect, Next, StepOf
<1>1. ASSUME memory'[p].phase # "defaults", pc'[p] # "clear" PROVE Carries(p)'
  BY <1>1 DEF Carries
<1>2. ASSUME memory'[p].phase = m.phase, memory'[p].stale = m.stale, pc'[p] # "clear"
      PROVE  Carries(p)'
  BY <1>0, <1>2 DEF Carries
<1>3. ASSUME Stop(p) PROVE Carries(p)'
  BY <1>0, <1>1, <1>3 DEF Stop, Goto, Fresh
<1>4. ASSUME NEW t \in Tasks, Start(p, t) PROVE Carries(p)'
  BY <1>0, <1>2, <1>4 DEF Start, Learn, Goto, Memory
<1>5. ASSUME Dies(p) PROVE Carries(p)'
  BY <1>3, <1>5 DEF Dies, Fail
<1>6. ASSUME SeeTarget(p) \/ SeeJson(p) \/ RenameJson(p) \/ SeeDirectory(p) \/ LockStore(p)
      PROVE  Carries(p)'
  BY <1>0, <1>2, <1>6 DEF SeeTarget, SeeJson, RenameJson, SeeDirectory, LockStore, Goto
<1>7. ASSUME LoadTarget(p) \/ LoadLegacy(p) PROVE Carries(p)'
  BY <1>0, <1>2, <1>7 DEF LoadTarget, LoadLegacy, Loaded, Learn, Goto, Memory
<1>8. ASSUME ListLegacy(p) PROVE Carries(p)'
  <2>1. CASE Learn(p, "found", files) /\ Goto(p, "merge")
    BY <1>0, <1>2, <2>1 DEF Learn, Goto, Memory
  <2> QED
    BY <1>3, <1>8, <2>1 DEF ListLegacy, Fail
<1>9. ASSUME MergeLegacy(p) PROVE Carries(p)'
  <2>1. CASE /\ Update(p, Merged(m.loaded, Listed(p)))
             /\ Goto(p, IF Listed(p) = {} THEN "seeState" ELSE "unlink")
    BY <1>0, <1>2, <2>1 DEF Update, Learn, Goto, Memory
  <2> QED
    BY <1>3, <1>9, <2>1 DEF MergeLegacy, Fail
<1>10. ASSUME NEW f \in Paths, UnlinkLegacy(p, f) PROVE Carries(p)'
  <2>1. CASE /\ Learn(p, "found", Listed(p) \ {f})
             /\ Goto(p, IF Listed(p) = {f} THEN "rmdir" ELSE "unlink")
    BY <1>0, <1>2, <2>1 DEF Learn, Goto, Memory
  <2> QED
    BY <1>3, <1>10, <2>1 DEF UnlinkLegacy, Fail
<1>11. ASSUME RemoveEmptyDirectories(p) PROVE Carries(p)'
  <2>1. CASE Goto(p, "seeState") /\ UNCHANGED memory
    BY <1>0, <1>2, <2>1 DEF Goto
  <2> QED
    BY <1>3, <1>11, <2>1 DEF RemoveEmptyDirectories, Fail
<1>12. ASSUME Open(p) PROVE Carries(p)'
  <2>1. CASE Enter(p, "work", <<>>)
    <3>1. memory'[p].phase = "work" /\ pc'[p] = "lock"
      BY <1>0, <2>1, EnterType, EmptyDefaults DEF Phases, ControlInv, Enter, Goto
    <3> QED
      BY <1>1, <3>1
  <2> QED
    BY <1>3, <1>12, <2>1 DEF Open
<1>13. ASSUME SeeState(p) PROVE Carries(p)'
  <2>1. CASE Enter(p, "defaults", legacy)
    <3>1. memory'[p].stale = legacy /\ pc'[p] = "lock"
      BY <1>0, <2>1, EnterType DEF Phases, ControlInv, TypeOK, Enter, Goto
    <3> QED
      BY <1>0, <3>1 DEF Carries, DefaultsInv
  <2> QED
    BY <1>12, <1>13, <2>1 DEF SeeState
<1>14. ASSUME AddDefaults(p) PROVE Carries(p)'
  <2>1. m.loaded = View /\ View \in Store /\ m.stale \in Defaults /\ m.phase = "defaults"
    BY <1>0, <1>14, ViewType DEF AddDefaults, InOrder, ControlInv, Memory
  <2>2. WithAdded(View, m.stale) \in Store
    BY <2>1, AddedFields
  <2>3. View' = WithAdded(View, m.stale) /\ chosen' = chosen
    BY <1>14, <2>1, <2>2, SavedView DEF AddDefaults, Update, history
  <2>4. Unsettled \subseteq Added(View, m.stale)
    BY <1>0, <2>1 DEF Carries, Added, DefaultsInv, Unsettled
  <2>5. DOMAIN View'.defaults = DOMAIN View.defaults \cup Added(View, m.stale)
    BY <2>1, <2>3, AddedFields
  <2>6. Unsettled' = {}
    BY <1>0, <2>4, <2>5 DEF Unsettled
  <2> QED
    BY <2>6 DEF Carries
<1>15. ASSUME ClearDefaults(p) \/ RunCommand(p) PROVE Carries(p)'
  BY <1>3, <1>12, <1>15 DEF ClearDefaults, RunCommand
<1> QED
  BY <1>4, <1>5, <1>6, <1>7, <1>8, <1>9, <1>10, <1>11, <1>13, <1>14, <1>15 DEF StepOf, Step

LEMMA DefaultsStep == ControlInv /\ DefaultsInv /\ [Next]_vars => DefaultsInv'
<1> SUFFICES ASSUME ControlInv, DefaultsInv, [Next]_vars PROVE DefaultsInv'
  OBVIOUS
<1>1. Effect
  BY StepEffect DEF ControlInv
<1>2. ASSUME NEW q \in Procs, memory'[q] = memory[q], pc'[q] = pc[q] PROVE Carries(q)'
  <2>1. old' = old /\ Unsettled' \subseteq Unsettled
    BY <1>1, UnsettledShrinks DEF Effect
  <2> QED
    BY <1>2, <2>1 DEF DefaultsInv, Carries
<1>3. ASSUME NEW p \in Procs, StepOf(p), NEW q \in Procs PROVE Carries(q)'
  BY <1>2, <1>3, MoverCarries, OthersStand DEF ControlInv
<1>4. ASSUME NEW q \in Procs PROVE Carries(q)'
  BY <1>2, <1>3, <1>4 DEF Next, StepOf, vars
<1> QED
  BY <1>1, <1>4, StoreDefaultsStep DEF DefaultsInv

LEMMA DefaultsInit == Init => DefaultsInv
<1> SUFFICES ASSUME Init PROVE DefaultsInv
  OBVIOUS
<1> DEFINE known == (DOMAIN View.defaults \cup DOMAIN legacy) \ (ReservedSetups \cup View.layouts)
<1>1. old.defaults = [s \in known |-> OldDefault(s)] /\ DOMAIN chosen = {}
  BY DEF Init
<1>2. DOMAIN old.defaults = known /\ \A s \in known : old.defaults[s] = OldDefault(s)
  BY <1>1
<1>3. Kept = known
  BY <1>1, <1>2 DEF Kept
<1>4. \A p \in Procs : Carries(p)
  BY DEF Init, Carries, Fresh
<1> HIDE DEF known
<1>5. \A s \in known : IF s \in DOMAIN View.defaults THEN old.defaults[s] = View.defaults[s]
                       ELSE old.defaults[s] = legacy[s]
  BY <1>2 DEF OldDefault
<1> QED
  BY <1>1, <1>3, <1>4, <1>5 DEF DefaultsInv, Unsettled, known

(* The default of a setup is the one users last chose, and until they      *)
(* choose one it is the store's or, if it had none, state.toml's: however  *)
(* late a process is with what it read there, and wherever one dies.       *)
THEOREM MigrationKeepsDefaults == Spec => []DefaultsKept
<1>1. DefaultsInv => DefaultsKept
  BY DEF DefaultsInv, DefaultsKept, Kept, Unsettled, Says
<1>2. Init => ControlInv /\ DefaultsInv
  BY ControlInit, DefaultsInit
<1>3. ControlInv /\ DefaultsInv /\ [Next]_vars => (ControlInv /\ DefaultsInv)'
  BY ControlStep, DefaultsStep
<1> QED
  BY <1>1, <1>2, <1>3, PTL DEF Spec

----------------------------------------------------------------------------
(* Failures. *)

(* A process that has the files to itself finds the directory and the      *)
(* files it has seen.                                                      *)
Undisturbed(p) ==
    alone[p] =>
        /\ \A r \in Procs \ {p} : pc[r] = "stopped"
        /\ pc[p] \in {"lock", "load", "loadLegacy", "list", "merge", "unlink", "rmdir"}
              /\ memory[p].phase = "merge" => "root" \in dirs
        /\ pc[p] \in {"merge", "unlink"} => Listed(p) \subseteq files

Blameless(p) ==
    /\ outcome[p] = "raced" => ~alone[p]
    /\ outcome[p] = "conflict" => Conflicting(old.profiles)

AloneInv ==
    /\ alone \in [Procs -> BOOLEAN]
    /\ \A p \in Procs : Undisturbed(p) /\ Blameless(p)

(* Profiles disagree only if an earlier version left them so: users give a *)
(* name one layout for a setup, and then no old file is left.              *)
LEMMA ConflictIsOld ==
    ASSUME Inv, NEW p \in Procs, pc[p] = "merge", Listed(p) \subseteq files, Conflicting(After(p))
    PROVE  Conflicting(old.profiles)
<1>1. After(p) = View.profiles \cup Contents(Listed(p))
  <2>1. memory[p].loaded = View /\ View \in Store /\ Listed(p) \in SUBSET Paths
    BY ViewType DEF Inv, ControlInv, Procedure, InOrder, TypeOK
  <2> QED
    BY <2>1, MergedType DEF After
<1>2. PICK q \in After(p) : \E r \in After(p) : Key(q) = Key(r) /\ q.layout # r.layout
  BY DEF Conflicting
<1>3. PICK r \in After(p) : Key(q) = Key(r) /\ q.layout # r.layout
  BY <1>2
<1>4. CASE Key(q) \in DOMAIN asked
  <2>1. Contents(Listed(p)) = {}
    BY <1>4 DEF Inv, ProfilesInv, AskedLast, Contents
  <2>2. q \in View.profiles /\ r \in View.profiles
    BY <1>1, <2>1
  <2>3. {x.layout : x \in {y \in View.profiles : Key(y) = Key(q)}}
            = {asked[Key(q)]} \ {NoValue}
    BY <1>4 DEF Inv, ProfilesInv, UsersHaveTheLastWord
  <2>4. q.layout = asked[Key(q)] /\ r.layout = asked[Key(q)]
    BY <1>3, <2>2, <2>3
  <2> QED
    BY <1>3, <2>4
<1>5. CASE Key(q) \notin DOMAIN asked
  <2>1. Contents(Listed(p)) \subseteq Contents(files)
    BY DEF Contents
  <2>2. q \in old.profiles /\ r \in old.profiles
    BY <1>1, <1>3, <1>5, <2>1 DEF Inv, ProfilesInv, NothingInvented
  <2> QED
    BY <1>3, <2>2 DEF Conflicting
<1> QED
  BY <1>4, <1>5

(* The process that moves stays undisturbed, and fails with cause. *)
LEMMA MoverFails ==
    ASSUME Inv, AloneInv, NEW p \in Procs, StepOf(p)
    PROVE  Undisturbed(p)' /\ Blameless(p)'
<1> DEFINE m == memory[p]
           Good == Undisturbed(p)' /\ Blameless(p)'
           Stand == \A r \in Procs \ {p} : pc'[r] = pc[r]
<1>0. /\ m \in Memory /\ memory \in [Procs -> Memory] /\ pc \in [Procs -> PcLabels]
      /\ TypeOK /\ InOrder(p) /\ Undisturbed(p) /\ Blameless(p)
      /\ outcome \in [Procs -> {"none", "opened", "raced", "conflict", "died"}]
      /\ alone \in [Procs -> BOOLEAN]
      /\ old' = old /\ Stand
  BY StepEffect, OthersStand
  DEF Inv, ControlInv, TypeOK, Procedure, AloneInv, Effect, Next, StepOf
<1> HIDE DEF Stand
<1>1. ASSUME \/ Fail(p, "died")
             \/ Fail(p, "raced") /\ ~alone[p]
             \/ Fail(p, "conflict") /\ Conflicting(old.profiles),
             alone' = alone
      PROVE  Good
  BY <1>0, <1>1 DEF Fail, Stop, Goto, Undisturbed, Blameless, Stand
<1>2. ASSUME NEW t \in Tasks, Start(p, t) PROVE Good
  BY <1>0, <1>2 DEF Start, Learn, Goto, Undisturbed, Blameless, Stand
<1>3. ASSUME Dies(p) PROVE Good
  BY <1>1, <1>3 DEF Dies
<1>4. ASSUME SeeTarget(p) \/ SeeJson(p) \/ RenameJson(p) \/ SeeDirectory(p) \/ LockStore(p)
      PROVE  Good
  BY <1>0, <1>4
  DEF SeeTarget, SeeJson, RenameJson, SeeDirectory, LockStore, Goto, history, disk,
      Undisturbed, Blameless, Stand
<1>5. ASSUME LoadTarget(p) \/ LoadLegacy(p) PROVE Good
  BY <1>0, <1>5
  DEF LoadTarget, LoadLegacy, Loaded, Learn, Goto, Memory, history, disk,
      Undisturbed, Blameless, Stand
<1>6. ASSUME ListLegacy(p) PROVE Good
  <2>1. CASE "root" \in dirs
    BY <1>0, <1>6, <2>1
    DEF ListLegacy, Learn, Goto, Memory, Listed, history, disk, Undisturbed, Blameless, Stand
  <2>2. CASE "root" \notin dirs
    BY <1>0, <1>1, <1>6, <2>2 DEF ListLegacy, history, InOrder, Undisturbed
  <2> QED
    BY <2>1, <2>2
<1>7. ASSUME MergeLegacy(p) PROVE Good
  <2>1. CASE /\ Update(p, Merged(m.loaded, Listed(p)))
             /\ Goto(p, IF Listed(p) = {} THEN "seeState" ELSE "unlink")
             /\ UNCHANGED outcome
    BY <1>0, <1>7, <2>1
    DEF MergeLegacy, Update, Learn, Goto, Memory, Listed, history, InOrder,
        Undisturbed, Blameless, Stand
  <2>2. CASE ~(Listed(p) \subseteq files) /\ Fail(p, "raced")
    BY <1>0, <1>1, <1>7, <2>2 DEF MergeLegacy, history, Undisturbed
  <2>3. CASE Listed(p) \subseteq files /\ Conflicting(After(p)) /\ Fail(p, "conflict")
    BY <1>1, <1>7, <2>3, ConflictIsOld DEF MergeLegacy, history
  <2> QED
    BY <1>7, <2>1, <2>2, <2>3 DEF MergeLegacy
<1>8. ASSUME NEW f \in Paths, UnlinkLegacy(p, f) PROVE Good
  <2>1. CASE /\ files' = files \ {f}
             /\ Learn(p, "found", Listed(p) \ {f})
             /\ Goto(p, IF Listed(p) = {f} THEN "rmdir" ELSE "unlink")
             /\ UNCHANGED <<holder, outcome>>
    BY <1>0, <1>8, <2>1
    DEF UnlinkLegacy, Learn, Goto, Memory, Listed, history, InOrder, Undisturbed, Blameless, Stand
  <2>2. CASE f \notin files /\ Fail(p, "raced")
    BY <1>0, <1>1, <1>8, <2>2 DEF UnlinkLegacy, history, Undisturbed
  <2> QED
    BY <1>8, <2>1, <2>2 DEF UnlinkLegacy
<1>9. ASSUME RemoveEmptyDirectories(p) PROVE Good
  <2>1. CASE Goto(p, "seeState") /\ UNCHANGED <<memory, outcome>>
    BY <1>0, <1>9, <2>1
    DEF RemoveEmptyDirectories, Goto, history, Undisturbed, Blameless, Stand
  <2>2. CASE "root" \notin dirs /\ Fail(p, "raced")
    BY <1>0, <1>1, <1>9, <2>2 DEF RemoveEmptyDirectories, history, InOrder, Undisturbed
  <2> QED
    BY <1>9, <2>1, <2>2 DEF RemoveEmptyDirectories
<1>10. ASSUME Open(p), UNCHANGED <<files, dirs, alone>> PROVE Good
  <2>1. outcome'[p] = "opened" /\ pc'[p] \in {"stopped", "lock"}
    BY <1>0, <1>10 DEF Open, Stop, Enter, Goto
  <2>2. pc'[p] = "lock" => memory'[p].phase = "work"
    BY <1>0, <1>10, EnterType, EmptyDefaults DEF Open, Stop, Goto, Phases
  <2> QED
    BY <1>0, <1>10, <2>1, <2>2 DEF Undisturbed, Blameless, Stand
<1>11. ASSUME SeeState(p) PROVE Good
  <2>1. CASE Enter(p, "defaults", legacy) /\ UNCHANGED <<holder, outcome>>
    <3>1. pc'[p] = "lock" /\ memory'[p].phase = "defaults"
      BY <1>0, <2>1, EnterType DEF Enter, Goto, Phases, TypeOK
    <3> QED
      BY <1>0, <1>11, <2>1, <3>1 DEF SeeState, history, Undisturbed, Blameless, Stand
  <2> QED
    BY <1>10, <1>11, <2>1 DEF SeeState, history, disk
<1>12. ASSUME AddDefaults(p) PROVE Good
  BY <1>0, <1>12
  DEF AddDefaults, Update, Learn, Goto, Memory, history, Undisturbed, Blameless, Stand
<1>13. ASSUME ClearDefaults(p) PROVE Good
  BY <1>10, <1>13 DEF ClearDefaults, history
<1>14. ASSUME RunCommand(p) PROVE Good
  BY <1>0, <1>14 DEF RunCommand, Stop, Goto, Undisturbed, Blameless, Stand
<1> HIDE DEF Good
<1>15. Good
  BY <1>2, <1>3, <1>4, <1>5, <1>6, <1>7, <1>8, <1>9, <1>11, <1>12, <1>13, <1>14 DEF StepOf, Step
<1> QED
  BY <1>15 DEF Good

(* A step that fails a process is its own, and a process that starts takes *)
(* the files away from the others.                                         *)
LEMMA OthersAlone ==
    ASSUME TypeOK, AloneInv, NEW p \in Procs, StepOf(p), NEW q \in Procs \ {p}
    PROVE  outcome'[q] = outcome[q] /\ (alone'[q] => alone[q] /\ ~\E t \in Tasks : Start(p, t))
<1> USE DEF TypeOK, AloneInv, Fail, Open, history
<1>1. CASE \E t \in Tasks : Start(p, t)
  BY <1>1 DEF Start
<1>2. CASE Dies(p)
  BY <1>2 DEF Dies, Start
<1>3. CASE Step(p)
  <2>1. alone' = alone /\ outcome'[q] = outcome[q]
    BY <1>3
    DEF Step, SeeTarget, SeeJson, RenameJson, SeeDirectory, LockStore, LoadTarget, LoadLegacy,
        ListLegacy, MergeLegacy, UnlinkLegacy, RemoveEmptyDirectories, SeeState, AddDefaults,
        ClearDefaults, RunCommand
  <2>2. ~\E t \in Tasks : Start(p, t)
    BY <1>3
    DEF Start, Step, SeeTarget, SeeJson, RenameJson, SeeDirectory, LockStore, LoadTarget,
        LoadLegacy, ListLegacy, MergeLegacy, UnlinkLegacy, RemoveEmptyDirectories, SeeState,
        AddDefaults, ClearDefaults, RunCommand
  <2> QED
    BY <2>1, <2>2
<1> QED
  BY <1>1, <1>2, <1>3 DEF StepOf

LEMMA AloneStep == Inv /\ AloneInv /\ [Next]_vars => AloneInv'
<1> SUFFICES ASSUME Inv, AloneInv, [Next]_vars PROVE AloneInv'
  OBVIOUS
<1>1. alone' \in [Procs -> BOOLEAN]
  <2>1. alone' = alone \/ \E p \in Procs, t \in Tasks : Start(p, t)
    BY DEF Next, vars, history, Dies, Step, SeeTarget, SeeJson, RenameJson, SeeDirectory,
           LockStore, LoadTarget, LoadLegacy, ListLegacy, MergeLegacy, UnlinkLegacy,
           RemoveEmptyDirectories, SeeState, AddDefaults, ClearDefaults, RunCommand
  <2> QED
    BY <2>1 DEF AloneInv, Start
<1>2. ASSUME NEW p \in Procs, StepOf(p), NEW q \in Procs \ {p}
      PROVE  Undisturbed(q)' /\ Blameless(q)'
  <2>1. /\ outcome'[q] = outcome[q] /\ (alone'[q] => alone[q] /\ ~\E t \in Tasks : Start(p, t))
        /\ old' = old
    BY <1>2, OthersAlone, StepEffect DEF Inv, ControlInv, Effect, Next, StepOf
  <2>2. alone'[q] => pc[p] = "stopped" /\ (Step(p) \/ Dies(p))
    BY <1>2, <2>1 DEF StepOf, AloneInv, Undisturbed
  <2>3. ~alone'[q]
    BY <2>2
    DEF Dies, Step, SeeTarget, SeeJson, RenameJson, SeeDirectory, LockStore, LoadTarget,
        LoadLegacy, ListLegacy, MergeLegacy, UnlinkLegacy, RemoveEmptyDirectories, SeeState,
        AddDefaults, ClearDefaults, RunCommand
  <2> QED
    BY <2>1, <2>3 DEF AloneInv, Undisturbed, Blameless
<1>3. ASSUME NEW p \in Procs, StepOf(p) PROVE AloneInv'
  BY <1>1, <1>2, <1>3, MoverFails DEF AloneInv
<1>4. CASE UNCHANGED vars
  BY <1>1, <1>4 DEF vars, disk, history, AloneInv, Undisturbed, Blameless, Listed
<1> QED
  BY <1>3, <1>4 DEF Next, StepOf

(* A death leaves nothing behind that stops the next migration: one that   *)
(* has the files to itself fails only if the earlier version left two      *)
(* layouts under one name for one setup.                                   *)
THEOREM MigrationFailsOnlyForCause == Spec => []FailsOnlyForCause
<1>1. AloneInv => FailsOnlyForCause
  BY DEF AloneInv, Blameless, FailsOnlyForCause
<1>2. Init => Inv /\ AloneInv
  <2>1. Init => AloneInv
    BY DEF Init, AloneInv, Undisturbed, Blameless
  <2> QED
    BY <2>1, InvInit
<1>3. Inv /\ AloneInv /\ [Next]_vars => (Inv /\ AloneInv)'
  BY InvStep, AloneStep
<1> QED
  BY <1>1, <1>2, <1>3, PTL DEF Spec
=============================================================================
