------------------------------- MODULE Gnome -------------------------------
(***************************************************************************)
(* The GNOME backend's dealings with Mutter's DisplayConfig service:       *)
(* crates/gnome/src/backend/state.rs (what the service reports, and the    *)
(* topology made of it) and backend/apply.rs (the request made of a plan). *)
(*                                                                         *)
(* A state s of Mutter is a record:                                        *)
(*   serial    changes with every change of the monitors                   *)
(*   monitors  by connector, what is connected: its identity, its modes in *)
(*             order, and the places in that order of the current and of   *)
(*             the preferred mode (0: no mode has the property)            *)
(*   logical   the logical monitors: a place on the desktop shown by one   *)
(*             or, mirrored, by several connectors                         *)
(* Properties passed back as they were read (layout mode, underscanning)   *)
(* and the texts of errors are left out.                                   *)
(***************************************************************************)
EXTENDS Timings

MutterModes == [timing : Timing, scales : SUBSET Nat, preferredScale : Nat]

MutterMonitors == [id : OutputIdentity, modes : Seq(MutterModes), current : Nat, preferred : Nat]

LogicalMonitors ==
    [pos : Position, xform : Xforms, primary : BOOLEAN, connectors : Seq(Connectors)]

IsMutterState(s) ==
    /\ s.serial \in Nat
    /\ DOMAIN s.monitors \subseteq Connectors
    /\ \A c \in DOMAIN s.monitors : s.monitors[c] \in MutterMonitors
    /\ s.logical \subseteq LogicalMonitors

----------------------------------------------------------------------------
(* Reading: the topology of a state. *)

GroupContains(group, c) == \E i \in DOMAIN group : group[i] = c

Shows(l, c) == GroupContains(l.connectors, c)

LogicalOf(s, c) == {l \in s.logical : Shows(l, c)}

(* The place of the mode the monitor is in, or would start in. *)
CurrentMonitorMode(m) ==
    IF m.current # 0 THEN m.current
    ELSE IF m.preferred # 0 THEN m.preferred
    ELSE IF m.modes # <<>> THEN 1 ELSE 0

(* All connectors of a logical monitor but the first mirror the first. *)
MirrorTarget(l, c) == IF l.connectors[1] # c THEN l.connectors[1] ELSE NoValue

ExportMonitor(s, c) ==
    LET m   == s.monitors[c]
        cur == CurrentMonitorMode(m)
        dark ==
            [id |-> m.id, enabled |-> FALSE,
             mode |-> IF cur = 0 THEN NoValue ELSE Rounded(m.modes[cur].timing),
             modes |-> {Rounded(m.modes[i].timing) : i \in DOMAIN m.modes},
             pos |-> Origin, xform |-> DefaultXform, mirror |-> NoValue]
        lit(l) == [dark EXCEPT !.enabled = TRUE, !.pos = l.pos, !.xform = l.xform,
                               !.mirror = MirrorTarget(l, c)]
    IN  IF LogicalOf(s, c) = {} THEN dark ELSE lit(CHOOSE l \in LogicalOf(s, c) : TRUE)

ExportGnome(s) == [c \in DOMAIN s.monitors |-> ExportMonitor(s, c)]

----------------------------------------------------------------------------
(* Grouping: outputs of a plan that share a logical monitor. *)

(* Outputs that are lit at one place in one mode share a logical monitor   *)
(* although the plan does not call them mirrored.                          *)
Alike(plan, c) ==
    {d \in Lit(plan) : /\ plan[d].mirror = NoValue
                       /\ plan[d].pos = plan[c].pos /\ plan[d].mode = plan[c].mode
                       /\ plan[d].xform = plan[c].xform}

RootOf(plan, c) ==
    IF plan[c].mirror # NoValue THEN plan[c].mirror
    ELSE CHOOSE d \in Alike(plan, c) : \A e \in Alike(plan, c) : Rank[d] <= Rank[e]

(* A mirrored output needs a target that is lit and not mirrored itself. *)
Groupable(plan) ==
    \A c \in Lit(plan) : plan[c].mirror # NoValue =>
        plan[c].mirror \in Lit(plan) /\ plan[plan[c].mirror].mirror = NoValue

Members(plan, root) == {c \in Lit(plan) : RootOf(plan, c) = root}

(* The order of the outputs of a group: those that mirror come last. *)
GroupsBefore(plan, c, d) ==
    LET mirrors(e) == plan[e].mirror # NoValue
    IN  IF mirrors(c) = mirrors(d) THEN Rank[c] < Rank[d] ELSE mirrors(d)

Group(plan, root) ==
    LET members == Members(plan, root)
    IN  InOrder(members, [c \in members |-> {d \in members : GroupsBefore(plan, d, c)}])

----------------------------------------------------------------------------
(* The request made of a plan: build_apply_config. *)

(* The mode of the wanted size that is nearest to the wanted rate, 0 if    *)
(* there is none of that size.                                             *)
ResolveMode(m, desired) ==
    LET fits     == {i \in DOMAIN m.modes : SameSize(m.modes[i].timing, desired)}
        off(i)   == RefreshDistance(m.modes[i].timing, desired.refresh)
    IN  IF desired = NoValue THEN CurrentMonitorMode(m)
        ELSE IF fits = {} THEN 0
        ELSE CHOOSE i \in fits : \A j \in fits : off(i) < off(j) \/ (off(i) = off(j) /\ i <= j)

ResolveScale(mode, desired) ==
    LET off(scale) == Distance(scale, desired)
    IN  IF mode.scales = {} \/ desired \in mode.scales THEN desired
        ELSE IF mode.preferredScale > 0 /\ mode.preferredScale \in mode.scales
        THEN mode.preferredScale
        ELSE CHOOSE a \in mode.scales : \A b \in mode.scales :
                off(a) < off(b) \/ (off(a) = off(b) /\ a <= b)

(* Mutant: the primary monitor stays the primary one, lit or not. *)
SelectPrimaryUnlit(s, plan) ==
    LET now == {c \in Connectors : \E l \in s.logical : l.primary /\ Shows(l, c)}
    IN  IF now # {} THEN now ELSE Lit(plan)

(* The connector to be primary: one that is now, if the plan lights it,    *)
(* else the first lit one.  Which connector of a mirrored primary monitor  *)
(* is looked at depends on the order of a hash map.                        *)
SelectPrimary(s, plan) ==
    LET now   == {c \in Connectors : \E l \in s.logical : l.primary /\ Shows(l, c)}
        first == {c \in Lit(plan) : \A d \in Lit(plan) : Rank[c] <= Rank[d]}
    IN  (now \cap Lit(plan)) \cup (IF now # {} /\ now \subseteq Lit(plan) THEN {} ELSE first)

ModeIn(s, plan, c) == ResolveMode(s.monitors[c], plan[c].mode)

(* The errors of build_apply_config: a group that cannot be, an output     *)
(* that is not connected or has no such mode, modes that differ in a group.*)
Buildable(s, plan) ==
    /\ Groupable(plan)
    /\ Lit(plan) \subseteq DOMAIN s.monitors
    /\ \A c \in Lit(plan) : ModeIn(s, plan, c) # 0
    /\ \A c, d \in Lit(plan) : RootOf(plan, c) = RootOf(plan, d) =>
           Rounded(s.monitors[c].modes[ModeIn(s, plan, c)].timing)
               = Rounded(s.monitors[d].modes[ModeIn(s, plan, d)].timing)

LogicalMonitorTuple(s, plan, root, primary) ==
    LET group == Group(plan, root)
        head  == group[1]
        mode  == s.monitors[head].modes[ModeIn(s, plan, head)]
    IN  [pos |-> plan[head].pos,
         xform |-> Xform(ResolveScale(mode, plan[head].xform.scale), plan[head].xform.transform),
         primary |-> GroupContains(group, primary), connectors |-> group]

(* The requests the code may make of a plan on the state it has read,      *)
(* which passes its serial on; none where the code reports an error.       *)
BuildApplyConfig(s, plan) ==
    LET roots == {RootOf(plan, c) : c \in Lit(plan)}
        request(primary) ==
            [serial |-> s.serial,
             logical |-> {LogicalMonitorTuple(s, plan, r, primary) : r \in roots},
             modes |-> [c \in Lit(plan) |-> ModeIn(s, plan, c)]]
    IN  IF ~Buildable(s, plan) THEN {}
        ELSE IF Lit(plan) = {} THEN {request(NoValue)}
        ELSE {request(p) : p \in SelectPrimary(s, plan)}

----------------------------------------------------------------------------
(* Mutter. *)

(* A request on another serial than the current one is refused as stale,   *)
(* and so is one without exactly one primary monitor.                      *)
Current(s, request) == request.serial = s.serial

Acceptable(s, request) ==
    /\ Current(s, request)
    /\ Cardinality({l \in request.logical : l.primary}) = 1

Reconfigured(s, request) ==
    [serial |-> s.serial + 1,
     monitors |-> [c \in DOMAIN s.monitors |->
        [s.monitors[c] EXCEPT
            !.current = IF c \in DOMAIN request.modes THEN request.modes[c] ELSE 0]],
     logical |-> request.logical]
=============================================================================
