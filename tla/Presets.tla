------------------------------- MODULE Presets -------------------------------
(***************************************************************************)
(* The built-in layouts ("presets"): crates/core/src/planning/planner/     *)
(* presets.rs.                                                             *)
(*                                                                         *)
(* PresetPlans(preset, t, builtin) is the set of plans the code may build: *)
(* empty where it reports InvalidConfiguration, with more than one member  *)
(* only where two modes tie in an iteration over a hash set.  The primary  *)
(* hint is never given (every caller passes None).                         *)
(***************************************************************************)
EXTENDS Matching

CONSTANTS
    InternalConnectors,   \* connectors whose name begins with edp, lvds or dsi
    InternalTexts         \* descriptions that call the display built in

Sets == INSTANCE FiniteSetsExt
Sums == INSTANCE Functions

ASSUME ModesAssumption ==
    Modes \subseteq [width : Nat, height : Nat, refresh : Nat] /\ NoValue \notin Modes

VirtualPresets ==
    {"off", "external", "builtin", "horizontal", "horizontal-reverse", "vertical",
     "vertical-reverse", "common", "largest", "mirror"}

(* The setting builtin_output, when there is one, replaces the heuristic. *)
IsInternalOutput(o, builtin) ==
    IF builtin # NoValue
    THEN IdentitiesMatch(builtin, o.id)
    ELSE o.id.connector \in InternalConnectors \/ o.id.description \in InternalTexts

InternalOutputs(t, builtin) == {c \in RealOutputs(t) : IsInternalOutput(t[c], builtin)}

Enable(o, on) == [o EXCEPT !.enabled = on]

Unplaced(o) == [o EXCEPT !.pos = Origin, !.mirror = NoValue]

PlanOff(t, builtin) ==
    IF t = <<>> THEN {}
    ELSE LET on(o) == InternalOutputs(t, builtin) # {} /\ IsInternalOutput(o, builtin)
         IN  {[c \in DOMAIN t |-> Unplaced(Enable(t[c], on(t[c])))]}

PlanBuiltin(t, builtin) ==
    IF InternalOutputs(t, builtin) = {} THEN {}
    ELSE {[c \in DOMAIN t |->
             IF t[c].id.real
             THEN Unplaced(Enable(t[c], IsInternalOutput(t[c], builtin)))
             ELSE t[c]]}

(* The external displays, or the internal ones when there are no others;   *)
(* what is lit moves to the origin together.                               *)
PlanExternal(t, builtin) ==
    LET internal == InternalOutputs(t, builtin)
        lit      == IF RealOutputs(t) = internal THEN internal
                    ELSE RealOutputs(t) \ internal
        on(c)    == IF t[c].id.real THEN c \in lit ELSE t[c].enabled
        corner   == [x |-> Sets!Min({t[c].pos.x : c \in lit}), y |-> Sets!Min({t[c].pos.y : c \in lit})]
        place(c) == IF ~on(c) THEN Origin
                    ELSE IF c \notin lit THEN t[c].pos
                    ELSE [x |-> t[c].pos.x - corner.x, y |-> t[c].pos.y - corner.y]
    IN  IF t = <<>> THEN {}
        ELSE {[c \in DOMAIN t |->
                 [t[c] EXCEPT !.enabled = on(c), !.pos = place(c), !.mirror = NoValue]]}

Width(o)  == IF o.mode = NoValue THEN 0 ELSE o.mode.width
Height(o) == IF o.mode = NoValue THEN 0 ELSE o.mode.height

(* A row or a column of all real displays in the order of their names; a   *)
(* column is centred on its widest member.  Sizes are those of the modes,  *)
(* before scale and transform.                                             *)
PlanLinear(t, horizontal, reverse) ==
    LET before(c) == {d \in RealOutputs(t) :
                        IF reverse THEN Rank[d] > Rank[c] ELSE Rank[d] < Rank[c]}
        widths    == [c \in RealOutputs(t) |-> Width(t[c])]
        heights   == [c \in RealOutputs(t) |-> Height(t[c])]
        widest    == Sets!Max({widths[c] : c \in RealOutputs(t)})
        place(c)  == IF horizontal
                     THEN [x |-> Sums!SumFunctionOnSet(widths, before(c)), y |-> 0]
                     ELSE [x |-> (widest - widths[c]) \div 2,
                           y |-> Sums!SumFunctionOnSet(heights, before(c))]
    IN  IF RealOutputs(t) = {} THEN {}
        ELSE {[c \in RealOutputs(t) |->
                 [Enable(t[c], TRUE) EXCEPT !.pos = place(c), !.mirror = NoValue]]}

----------------------------------------------------------------------------
(* Layouts that choose modes. *)

Area(m) == m.width * m.height

LargerMode(a, b) == Area(a) > Area(b) \/ (Area(a) = Area(b) /\ a.refresh > b.refresh)

LargestModes(S)  == {m \in S : \A n \in S : ~LargerMode(n, m)}
SmallestModes(S) == {m \in S : \A n \in S : ~LargerMode(m, n)}

OutputModes(o) ==
    IF o.modes # {} THEN o.modes ELSE IF o.mode = NoValue THEN {} ELSE {o.mode}

SharedModes(t) ==
    {m \in UNION {OutputModes(t[c]) : c \in RealOutputs(t)} :
        \A c \in RealOutputs(t) : m \in OutputModes(t[c])}

AtOrigin(o, mode) == [Unplaced(Enable(o, TRUE)) EXCEPT !.mode = mode]

PlanCommon(t) ==
    {[c \in RealOutputs(t) |-> AtOrigin(t[c], mode)] : mode \in LargestModes(SharedModes(t))}

PlanLargest(t) ==
    LET best(c) == LargestModes(OutputModes(t[c]))
        all     == UNION {best(c) : c \in RealOutputs(t)}
    IN  IF RealOutputs(t) = {} THEN {}
        ELSE {[c \in RealOutputs(t) |-> AtOrigin(t[c], pick[c])] :
                pick \in {f \in [RealOutputs(t) -> all] :
                            \A c \in RealOutputs(t) : f[c] \in best(c)}}

(* The smallest mode now lit if all displays have it, else the largest     *)
(* shared mode that fits into it, else the smallest shared mode.           *)
MirrorModes(t) ==
    LET shared == SharedModes(t)
        lit    == {t[c].mode : c \in {d \in RealOutputs(t) : t[d].enabled}} \ {NoValue}
        fits(floor) == {m \in shared : m.width <= floor.width /\ m.height <= floor.height}
        for(floor)  == IF floor \in shared THEN {floor}
                       ELSE IF fits(floor) # {} THEN LargestModes(fits(floor))
                       ELSE SmallestModes(shared)
    IN  IF lit = {} THEN SmallestModes(shared)
        ELSE UNION {for(floor) : floor \in SmallestModes(lit)}

PlanMirror(t) ==
    LET primary == CHOOSE c \in RealOutputs(t) : \A d \in RealOutputs(t) : Rank[c] <= Rank[d]
        target(c) == IF c = primary THEN NoValue ELSE primary
    IN  {[c \in RealOutputs(t) |-> [AtOrigin(t[c], mode) EXCEPT !.mirror = target(c)]] :
            mode \in MirrorModes(t)}

PresetPlans(preset, t, builtin) ==
    CASE preset = "off"                -> PlanOff(t, builtin)
      [] preset = "external"           -> PlanExternal(t, builtin)
      [] preset = "builtin"            -> PlanBuiltin(t, builtin)
      [] preset = "horizontal"         -> PlanLinear(t, TRUE, FALSE)
      [] preset = "horizontal-reverse" -> PlanLinear(t, TRUE, TRUE)
      [] preset = "vertical"           -> PlanLinear(t, FALSE, FALSE)
      [] preset = "vertical-reverse"   -> PlanLinear(t, FALSE, TRUE)
      [] preset = "common"             -> PlanCommon(t)
      [] preset = "largest"            -> PlanLargest(t)
      [] preset = "mirror"             -> PlanMirror(t)
=============================================================================
