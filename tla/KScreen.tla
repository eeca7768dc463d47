------------------------------ MODULE KScreen ------------------------------
(***************************************************************************)
(* The KScreen backend's dealings with kscreen-doctor: crates/kscreen/src/ *)
(* backend/state.rs (what `--json` reports, and the topology made of it)   *)
(* and backend/apply.rs (the commands made of a plan).                     *)
(*                                                                         *)
(* A configuration k gives for each output, by name, whether a display is  *)
(* connected, its number `id`, its modes (an id of a mode is its place in  *)
(* the sequence), the id of its current mode (0: none is named), its size, *)
(* and the number of the output it mirrors (`source`, 0: none).            *)
(***************************************************************************)
EXTENDS Timings

LOCAL Lists == INSTANCE SequencesExt

KScreenOutput ==
    [connected : BOOLEAN, enabled : BOOLEAN, id : Nat, modeId : Nat, modes : Seq(Timing),
     size : [width : Nat, height : Nat], pos : Position, xform : Xforms, source : Nat]

IsKScreenConfig(k) == DOMAIN k \subseteq Connectors /\ \A c \in DOMAIN k : k[c] \in KScreenOutput

----------------------------------------------------------------------------
(* Reading: the topology of a configuration. *)

ConnectedOutputs(k) == {c \in DOMAIN k : k[c].connected}

(* The mode the configuration names, or the first one of the size shown. *)
CurrentModeOf(o) ==
    LET fits == {i \in DOMAIN o.modes : o.enabled /\ SameSize(o.modes[i], o.size)}
    IN  IF o.modeId \in DOMAIN o.modes THEN Rounded(o.modes[o.modeId])
        ELSE IF fits # {} THEN Rounded(o.modes[CHOOSE i \in fits : \A j \in fits : i <= j])
        ELSE NoValue

(* The name, among those given, of the output that c mirrors. *)
MirrorTargetName(k, names, c) ==
    IF k[c].source = 0 \/ \A d \in names : k[d].id # k[c].source THEN NoValue
    ELSE CHOOSE d \in names : k[d].id = k[c].source

ExportOutput(k, c) ==
    [id |-> NewIdentity(c), enabled |-> k[c].enabled, mode |-> CurrentModeOf(k[c]),
     modes |-> {Rounded(k[c].modes[i]) : i \in DOMAIN k[c].modes},
     pos |-> k[c].pos, xform |-> k[c].xform, mirror |-> MirrorTargetName(k, DOMAIN k, c)]

ExportKScreen(k) == [c \in ConnectedOutputs(k) |-> ExportOutput(k, c)]

----------------------------------------------------------------------------
(* The commands made of a plan: what differs from the configuration read.  *)

Command(c, op, arg) == [output |-> c, op |-> op, arg |-> arg]

When(condition, command) == IF condition THEN <<command>> ELSE <<>>

ByName(S) == Lists!SetToSortSeq(S, LAMBDA c, d : Rank[c] < Rank[d])

(* What is lit and not lit in the plan, mentioned or not. *)
DisableCommands(k, plan) ==
    LET off == {c \in ConnectedOutputs(k) \ Lit(plan) : k[c].enabled}
    IN  [i \in 1..Cardinality(off) |-> Command(ByName(off)[i], "disable", NoValue)]

(* The preferred mode of the wanted size: one that rounds to the wanted    *)
(* rate, then the nearest, then the slower one, then the first id.         *)
ModePreference(o, desired, i) ==
    <<IF RoundRefresh(o.modes[i].rate) = desired.refresh THEN 0 ELSE 1,
      RefreshDistance(o.modes[i], desired.refresh), o.modes[i].rate, i>>

Precedes(a, b) ==
    \E n \in DOMAIN a : a[n] < b[n] /\ \A m \in 1..(n - 1) : a[m] = b[m]

ModesOfSize(o, desired) == {i \in DOMAIN o.modes : SameSize(o.modes[i], desired)}

ModeArgument(o, desired) ==
    CHOOSE i \in ModesOfSize(o, desired) : \A j \in ModesOfSize(o, desired) \ {i} :
        Precedes(ModePreference(o, desired, i), ModePreference(o, desired, j))

(* format_scale drops the zeros at the end of what is written, those       *)
(* before the point of a whole number included: 1000 percent is "1".       *)
FormatScale(scale) ==
    LET powers == {p \in {1, 10, 100} : scale % (100 * p) = 0}
    IN  IF powers = {} THEN scale
        ELSE scale \div (CHOOSE p \in powers : \A q \in powers : p >= q)

CurrentTarget(k, c) == MirrorTargetName(k, ConnectedOutputs(k), c)

(* Mutant: a display that was mirrored stays mirrored. *)
UpdateCommandsMirrored(k, plan, c) ==
    LET o == k[c]
        d == plan[c]
    IN  When(~o.enabled, Command(c, "enable", NoValue))
        \o When(d.mode \notin {CurrentModeOf(o), NoValue},
                Command(c, "mode", ModeArgument(o, d.mode)))
        \o When(o.xform.scale # d.xform.scale, Command(c, "scale", FormatScale(d.xform.scale)))
        \o When(o.xform.transform # d.xform.transform,
                Command(c, "rotation", d.xform.transform))
        \o When(d.mirror = NoValue /\ o.pos # d.pos, Command(c, "position", d.pos))

UpdateCommands(k, plan, c) ==
    LET o == k[c]
        d == plan[c]
    IN  When(~o.enabled, Command(c, "enable", NoValue))
        \o When(d.mode \notin {CurrentModeOf(o), NoValue},
                Command(c, "mode", ModeArgument(o, d.mode)))
        \o When(o.xform.scale # d.xform.scale, Command(c, "scale", FormatScale(d.xform.scale)))
        \o When(o.xform.transform # d.xform.transform,
                Command(c, "rotation", d.xform.transform))
        \o When(CurrentTarget(k, c) # NoValue /\ d.mirror = NoValue,
                Command(c, "mirror", 0))
        \o When(d.mirror = NoValue /\ o.pos # d.pos, Command(c, "position", d.pos))

NewTarget(k, plan, c) == plan[c].mirror \notin {NoValue, CurrentTarget(k, c)}

MirrorCommands(k, plan, c) ==
    When(NewTarget(k, plan, c), Command(c, "mirror", k[plan[c].mirror].id))

(* The errors: an output or the target of a mirror is not connected, or    *)
(* no mode has the size.                                                   *)
Expressible(k, plan) ==
    /\ Lit(plan) \subseteq ConnectedOutputs(k)
    /\ \A c \in Lit(plan) :
        /\ plan[c].mode \notin {NoValue, CurrentModeOf(k[c])} => ModesOfSize(k[c], plan[c].mode) # {}
        /\ NewTarget(k, plan, c) => plan[c].mirror \in ConnectedOutputs(k)

BuildApplyArgs(k, plan) ==
    LET names == ByName(Lit(plan))
    IN  DisableCommands(k, plan)
        \o Lists!FlattenSeq([i \in DOMAIN names |-> UpdateCommands(k, plan, names[i])])
        \o Lists!FlattenSeq([i \in DOMAIN names |-> MirrorCommands(k, plan, names[i])])

----------------------------------------------------------------------------
(* kscreen-doctor. *)

Executed(o, cmd) ==
    CASE cmd.op = "disable"  -> [o EXCEPT !.enabled = FALSE]
      [] cmd.op = "enable"   -> [o EXCEPT !.enabled = TRUE]
      [] cmd.op = "mode"     -> [o EXCEPT !.modeId = cmd.arg]
      [] cmd.op = "scale"    -> [o EXCEPT !.xform.scale = cmd.arg]
      [] cmd.op = "rotation" -> [o EXCEPT !.xform.transform = cmd.arg]
      [] cmd.op = "mirror"   -> [o EXCEPT !.source = cmd.arg]
      [] cmd.op = "position" -> [o EXCEPT !.pos = cmd.arg]

(* It knows the outputs that are connected when it runs. *)
Runnable(k, args) == \A i \in DOMAIN args : args[i].output \in ConnectedOutputs(k)

Doctored(k, args) ==
    Lists!FoldLeft(LAMBDA cfg, cmd : [cfg EXCEPT ![cmd.output] = Executed(@, cmd)], k, args)
=============================================================================
