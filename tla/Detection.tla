------------------------------ MODULE Detection ------------------------------
(***************************************************************************)
(* Which preset a topology looks like: detect_preset and detect_layout of  *)
(* crates/core/src/planning/planner/presets.rs.                            *)
(*                                                                         *)
(* The operators give the set of answers the code may give, NoValue for    *)
(* None.  There is a choice because the centres of a column are compared   *)
(* with that of the display a hash map lists first.                        *)
(***************************************************************************)
EXTENDS Presets

CONSTANT LogicalWidth   \* the width of a mode after scale and transform

ASSUME LogicalWidthAssumption == LogicalWidth \in [Modes \X Xforms -> Nat]

ModeWidth(o)   == Width(o)
ScaledWidth(o) == IF o.mode = NoValue THEN 0 ELSE LogicalWidth[o.mode, o.xform]

(* Mutant: the centres have to be the same. *)
CentredOnExactly(t, lit, first, width) ==
    \A c \in lit : 2 * t[c].pos.x + width[c] = 2 * t[first].pos.x + width[first]

(* The centres are within half a pixel of that of the first display. *)
CentredOn(t, lit, first, width) ==
    LET doubled(c) == 2 * t[c].pos.x + width[c]
    IN  \A c \in lit : doubled(c) - doubled(first) \in -1..1

DetectedPreset(t, first) ==
    LET lit     == {c \in RealOutputs(t) : t[c].enabled}
        sameX   == \A c \in lit : t[c].pos.x = t[first].pos.x
        sameY   == \A c \in lit : t[c].pos.y = t[first].pos.y
        centred == \/ CentredOn(t, lit, first, [c \in lit |-> ModeWidth(t[c])])
                   \/ CentredOn(t, lit, first, [c \in lit |-> ScaledWidth(t[c])])
    IN  IF sameY /\ ~sameX THEN "horizontal"
        ELSE IF (sameX \/ centred) /\ ~sameY THEN "vertical"
        ELSE IF \E c \in lit : t[c].mirror # NoValue THEN "mirror"
        ELSE NoValue

DetectedPresets(t) ==
    LET lit == {c \in RealOutputs(t) : t[c].enabled}
    IN  IF Cardinality(lit) < 2 THEN {NoValue} ELSE {DetectedPreset(t, c) : c \in lit}

(* With a display dark it is the choice of displays that tells. *)
DetectedLayouts(t, builtin) ==
    LET real == RealOutputs(t)
        lit  == {c \in real : t[c].enabled}
    IN  IF lit = real THEN DetectedPresets(t)
        ELSE IF lit = {} THEN {NoValue}
        ELSE IF lit = InternalOutputs(t, builtin) THEN {"builtin"}
        ELSE IF lit = real \ InternalOutputs(t, builtin) THEN {"external"}
        ELSE {NoValue}
=============================================================================
