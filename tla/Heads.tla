------------------------------- MODULE Heads -------------------------------
(***************************************************************************)
(* What a configuration of the output-management protocol does to the      *)
(* heads of a wlroots compositor, and what is reported of them afterwards: *)
(* submit and apply_head_config of crates/wlroots/src/backend.rs and       *)
(* output_state_from_projection of backend/protocol/projection.rs.         *)
(***************************************************************************)
EXTENDS Topology

CONSTANT Preferred   \* the mode a head that is off reports, by the modes it offers

ASSUME PreferredAssumption == Preferred \in [SUBSET Modes -> Opt(Modes)]

(* wlroots never reports that an output mirrors another. *)
Unmirrored(t) == \A c \in DOMAIN t : t[c].mirror = NoValue

(* validate_requested_head_config and the limits of modes and positions. *)
Submittable(plan, t) ==
    \A c \in DOMAIN t \cap DOMAIN plan : plan[c].enabled =>
        /\ plan[c].mirror = NoValue
        /\ plan[c].mode \in Opt(Modes) /\ plan[c].pos \in Position /\ plan[c].xform \in Xforms

(* What is reported of a head that is off is what a head starts with. *)
Off(o) == [o EXCEPT !.enabled = FALSE, !.mode = Preferred[o.modes], !.pos = Origin,
                    !.xform = DefaultXform]

Configured(o, desired) ==
    [o EXCEPT !.enabled = TRUE, !.mode = IF desired.mode = NoValue THEN @ ELSE desired.mode,
              !.pos = desired.pos, !.xform = desired.xform]

(* Mutant: a head the plan does not mention stays as it is. *)
ConfigureMentioned(t, plan) ==
    [c \in DOMAIN t |->
        IF c \notin DOMAIN plan THEN t[c]
        ELSE IF plan[c].enabled THEN Configured(t[c], plan[c]) ELSE Off(t[c])]

(* A head the plan does not mention is disabled. *)
Configure(t, plan) ==
    [c \in DOMAIN t |->
        IF c \in DOMAIN plan /\ plan[c].enabled THEN Configured(t[c], plan[c]) ELSE Off(t[c])]

(* Where a plan names no mode, any mode will do. *)
Arranged(desired, o) ==
    /\ desired.mode # NoValue => o.mode = desired.mode
    /\ o.pos = desired.pos /\ o.xform = desired.xform /\ o.mirror = desired.mirror

(* The real displays are lit and arranged as the plan says. *)
LayoutHolds(plan, t) ==
    \A c \in RealOutputs(t) :
        /\ t[c].enabled <=> (c \in DOMAIN plan /\ plan[c].enabled)
        /\ t[c].enabled => Arranged(plan[c], t[c])
=============================================================================
