------------------------------ MODULE Topology ------------------------------
(***************************************************************************)
(* Topologies and what is computed from them: crates/core/src/model.rs and *)
(* planning/normalize.rs.                                                  *)
(*                                                                         *)
(* A topology is a partial function from connector names to output states. *)
(* A layout of a profile, a layout plan and the hardware as the compositor *)
(* reports it have the same shape.  Scale and transform are compared and   *)
(* copied together and are one opaque value, `xform`; the resolution after *)
(* scaling is a function of mode and xform and is left out.                *)
(***************************************************************************)
EXTENDS Identity, Integers, FiniteSets

CONSTANTS
    Modes,          \* display modes: width, height and refresh rate
    Xforms,         \* scale and transform
    DefaultXform    \* scale 1.0, no transform

ASSUME XformAssumption == DefaultXform \in Xforms

Position == [x : Int, y : Int]
Origin   == [x |-> 0, y |-> 0]

OutputState ==
    [id : OutputIdentity, enabled : BOOLEAN, mode : Opt(Modes), modes : SUBSET Modes,
     pos : Position, xform : Xforms, mirror : Opt(Connectors)]

IsTopology(t) == DOMAIN t \subseteq Connectors /\ t \in [DOMAIN t -> OutputState]

Put(f, k, v) == [x \in DOMAIN f \cup {k} |-> IF x = k THEN v ELSE f[x]]

RealOutputs(t) == {c \in DOMAIN t : t[c].id.real}

(* At least one real display is lit.  A topology without one is blank. *)
HasEnabledRealOutputs(t) == \E c \in RealOutputs(t) : t[c].enabled

(* The sorted list of primary keys: how often each key occurs. *)
KeyCounts(ids) ==
    [k \in {PrimaryKey(ids[i]) : i \in DOMAIN ids} |->
        Cardinality({i \in DOMAIN ids : PrimaryKey(ids[i]) = k})]

SetupFingerprint(t) == KeyCounts([c \in RealOutputs(t) |-> t[c].id])

(* Everything the daemon compares to decide that the topology is stable.   *)
(* Mirror targets and the modes on offer are not part of it.               *)
StateFingerprint(t) ==
    [c \in DOMAIN t |->
        <<PrimaryKey(t[c].id), t[c].enabled, t[c].mode, t[c].xform, t[c].pos>>]

SameLayoutAs(a, b) ==
    /\ a.enabled = b.enabled
    /\ a.mode = b.mode
    /\ a.pos = b.pos
    /\ a.xform = b.xform
    /\ a.mirror = b.mirror

(* Fill in what an output did not report from the identity cached for its  *)
(* connector in an earlier observation.                                    *)
NormalizeTopology(t, known) ==
    [c \in DOMAIN t |->
        IF c \in DOMAIN known
        THEN [t[c] EXCEPT !.id = WithFallback(@, known[c])]
        ELSE t[c]]

(* Mutant: only what is lit is compared. *)
PlanMatchesEnabled(plan, t) ==
    \A c \in RealOutputs(t) : t[c].enabled = (c \in DOMAIN plan /\ plan[c].enabled)

(* A plan says of every real output what it is now; an output the plan     *)
(* leaves out has to be off.                                               *)
PlanMatchesTopology(plan, t) ==
    \A c \in RealOutputs(t) :
        IF c \in DOMAIN plan THEN SameLayoutAs(plan[c], t[c]) ELSE ~t[c].enabled
=============================================================================
