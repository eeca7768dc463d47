------------------------------ MODULE Planning ------------------------------
(***************************************************************************)
(* Layouts that outlive the cables: a profile is saved, displays are       *)
(* unplugged and come back on other connectors or in other places, and the *)
(* profile or a preset is set again (planning/matcher.rs, planner.rs,      *)
(* planner/presets.rs and profile.rs of crates/core), on a wlroots         *)
(* compositor.                                                             *)
(*                                                                         *)
(* The program knows a display by what it reports, and some report the     *)
(* same.  Commands and Daemon are about when things are read and written;  *)
(* here nothing comes between a step and the next, and the displays are    *)
(* more.                                                                   *)
(***************************************************************************)
EXTENDS Detection, Heads

CONSTANTS
    Displays,      \* the displays there are
    Reports,       \* what each of them reports of itself on each connector
    Offers,        \* the modes each of them has
    Drives,        \* the scale the compositor lights each of them with
    Cablings,      \* which displays may be on which connectors
    Spots,         \* where the compositor or another program puts a display
    SetPresets,    \* the presets that are set
    MaxReplugs     \* bound: how often the cables change

ASSUME PlanningAssumption ==
    /\ IsFiniteSet(Connectors)
    /\ Reports \in [Displays -> [Connectors -> OutputIdentity]]
    /\ \A d \in Displays, c \in Connectors : Reports[d][c].connector = c
    /\ Offers \in [Displays -> SUBSET Modes] /\ Drives \in [Displays -> Xforms]
    /\ \A k \in Cablings : DOMAIN k \subseteq Connectors /\ k \in [DOMAIN k -> Displays]
    /\ Spots \subseteq Position /\ SetPresets \subseteq VirtualPresets /\ MaxReplugs \in Nat

(* A display reports the same on every connector, except that a compositor *)
(* may name the connector in the description.                              *)
ASSUME ReportsAssumption ==
    \A d \in Displays :
        /\ \A b, c \in Connectors :
            Reports[d][b] = [Reports[d][c] EXCEPT !.connector = b,
                                                  !.description = Reports[d][b].description]
        /\ \/ \A b, c \in Connectors : Reports[d][b].description = Reports[d][c].description
           \/ \A b, c \in Connectors :
                b # c => Reports[d][b].description # Reports[d][c].description

VARIABLES
    cabling,     \* which display is on which connector
    topology,    \* what the compositor reports of them
    profile,     \* the saved profile, or NoValue
    owners,      \* history: the displays it was saved of, by connector
    did,         \* what the last step set: "profile", a preset, or "nothing"
    replugs

vars == <<cabling, topology, profile, owners, did, replugs>>

Plugged(k, c, on, pos) ==
    LET o == [id |-> Reports[k[c]][c], enabled |-> TRUE, mode |-> Preferred[Offers[k[c]]],
              modes |-> Offers[k[c]], pos |-> pos, xform |-> Drives[k[c]], mirror |-> NoValue]
    IN  IF on THEN o ELSE Off(o)

(* The displays, each of them off or lit at any spot. *)
Shown(k) ==
    {[c \in DOMAIN k |-> Plugged(k, c, on[c], pos[c])] :
        on \in [DOMAIN k -> BOOLEAN], pos \in [DOMAIN k -> Spots]}

Init ==
    /\ cabling \in Cablings /\ topology \in Shown(cabling)
    /\ profile = NoValue /\ owners = <<>> /\ did = "nothing" /\ replugs = 0
----------------------------------------------------------------------------
Replug ==
    /\ replugs < MaxReplugs /\ replugs' = replugs + 1
    /\ cabling' \in Cablings /\ topology' \in Shown(cabling')
    /\ did' = "nothing"
    /\ UNCHANGED <<profile, owners>>

(* save.  A profile saved once more is saved as in another behaviour, so   *)
(* one is enough.                                                          *)
Save ==
    /\ profile = NoValue
    /\ \E order \in IterationOrders : profile' = ProfileFromTopology("desk", topology, order)
    /\ owners' = cabling /\ did' = "nothing"
    /\ UNCHANGED <<cabling, topology, replugs>>

Submit(plan) ==
    /\ Submittable(plan, topology)
    /\ topology' = Configure(topology, plan)
    /\ UNCHANGED <<cabling, profile, owners, replugs>>

(* set --profile: plan_profile refuses a profile that does not match. *)
SetProfile ==
    /\ profile # NoValue
    /\ \E plan \in ProfilePlans(profile, topology) : Submit(plan)
    /\ did' = "profile"

SetPreset(p) ==
    /\ \E plan \in PresetPlans(p, topology, NoValue) : Submit(plan)
    /\ did' = p

Next == Replug \/ Save \/ SetProfile \/ \E p \in SetPresets : SetPreset(p)

Spec == Init /\ [][Next]_vars
----------------------------------------------------------------------------
(* Two displays the program cannot tell apart. *)
Alike(d, e) == \A c \in Connectors : Reports[d][c] = Reports[e][c]

Twins(k) == \E c, d \in DOMAIN k : c # d /\ Alike(k[c], k[d])

(* No entry of the profile fits a display that is not like the one it was  *)
(* made of.  An entry without a serial number fits any display that is now *)
(* on the connector and does not contradict it, so this is not so of all   *)
(* displays.                                                               *)
Unambiguous ==
    \A n \in DOMAIN profile.layout, c \in RealOutputs(topology) :
        IdentitiesMatch(profile.layout[n].id, topology[c].id)
            => Alike(owners[n], cabling[c])

(* Of displays that were alike and saved some lit and some off, none is    *)
(* missing: which layout those that are left get depends on the order of a *)
(* hash map.                                                               *)
NoneMissing ==
    \A n, m \in DOMAIN profile.layout :
        /\ Alike(owners[n], owners[m])
        /\ profile.layout[n].enabled # profile.layout[m].enabled
        => Cardinality({k \in DOMAIN owners : Alike(owners[k], owners[n])})
               <= Cardinality({c \in DOMAIN cabling : Alike(cabling[c], owners[n])})

OneToOne(f) == \A c, d \in DOMAIN f : f[c] = f[d] => c = d

(* Every lit entry of the profile's layout is given to a display. *)
CoversLit(f) ==
    \A n \in RealOutputs(profile.layout) :
        profile.layout[n].enabled => \E c \in DOMAIN f : f[c] = n

(* The ways to give every display an entry of its own that fits it. *)
Matchings ==
    {f \in [RealOutputs(topology) -> RealOutputs(profile.layout)] :
        /\ OneToOne(f) /\ CoversLit(f)
        /\ \A c \in DOMAIN f : IdentitiesMatch(profile.layout[f[c]].id, topology[c].id)}

(* Rules are taken in the order of a hash map and each takes what it likes *)
(* best; still the profile matches whenever its displays can be matched at *)
(* all, and only then (score_profile).                                     *)
GreedyFindsMatching ==
    profile # NoValue /\ Unambiguous /\ NoneMissing =>
        (MatchesExactly(profile, topology) <=> Matchings # {})

(* Each display of t has the layout that one like it was saved with. *)
Restored(t) ==
    \E f \in [RealOutputs(t) -> DOMAIN owners] :
        /\ OneToOne(f)
        /\ NoneMissing => CoversLit(f)
        /\ \A c \in RealOutputs(t) :
            /\ Alike(cabling[c], owners[f[c]])
            /\ t[c].enabled = profile.layout[f[c]].enabled
            /\ t[c].enabled => Arranged(profile.layout[f[c]], t[c])

(* Setting a profile gives the displays it was saved of their layouts      *)
(* back, whichever connectors they are on now and wherever others had put  *)
(* them; displays that report the same may change roles, but none is given *)
(* a role twice or left without (find_matching_layout_entry).              *)
SetRestores == [][did' = "profile" /\ Unambiguous => Restored(topology')]_vars

(* Setting the profile once more changes nothing, or, among displays that  *)
(* report the same, for the last time: the hints are compared with where   *)
(* displays are, so twins do not change places for ever.                   *)
SetSettles ==
    did = "profile" =>
        \A plan \in ProfilePlans(profile, topology) :
            \/ LayoutHolds(plan, topology)
            \/ /\ Twins(cabling)
               /\ LET t == Configure(topology, plan)
                  IN  \A again \in ProfilePlans(profile, t) : LayoutHolds(again, t)

(* What status calls a preset that was just set on several displays. *)
Shape(p) ==
    CASE p \in {"horizontal", "horizontal-reverse"} -> "horizontal"
      [] p \in {"vertical", "vertical-reverse"}     -> "vertical"
      [] p \in {"builtin", "external"}              -> p
      [] OTHER                                      -> NoValue

(* A preset that was set on internal and external displays is recognised,  *)
(* whatever the widths of the displays and their scale: what detect_layout *)
(* infers from positions agrees with where the planners put the displays.  *)
PresetRecognised ==
    LET internal == InternalOutputs(topology, NoValue)
    IN  did \in SetPresets /\ internal # {} /\ internal # RealOutputs(topology)
            => DetectedLayouts(topology, NoValue) = {Shape(did)}
=============================================================================
