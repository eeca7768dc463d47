---------------------------- MODULE ProfilesFile ----------------------------
(***************************************************************************)
(* The contents of waytorandr.json, the updates the command line makes to  *)
(* it and the queries the daemon makes: crates/core/src/store.rs, store/   *)
(* write.rs and store/query.rs.                                            *)
(*                                                                         *)
(* A store is a record of the profiles, the default profile and the        *)
(* default layout of each setup, and the setting builtin_output.  Every    *)
(* query canonicalises the stored profiles against the identities known at *)
(* the time of the query.                                                  *)
(***************************************************************************)
EXTENDS StateFile

IsProfile(p) ==
    p \in [name : ProfileNames, priority : Int, rules : {p.rules}, layout : {p.layout},
          hooks : BOOLEAN]

IsStore(s) ==
    /\ s \in [profiles : {s.profiles}, defaults : {s.defaults}, layouts : {s.layouts},
              builtin : {s.builtin}]
    /\ \A p \in s.profiles : IsProfile(p)
    /\ \A fp \in DOMAIN s.defaults : s.defaults[fp] \in ProfileNames
    /\ \A fp \in DOMAIN s.layouts : s.layouts[fp] \in VirtualPresets

EmptyStore ==
    [profiles |-> {}, defaults |-> <<>>, layouts |-> <<>>, builtin |-> NoValue]

Drop(f, k) == [x \in DOMAIN f \ {k} |-> f[x]]

(* A setup has a default profile or a default layout, not both. *)
SetSetupDefaultProfile(store, fp, name) ==
    [store EXCEPT !.layouts = Drop(@, fp), !.defaults = Put(@, fp, name)]

(* Mutant: the layout is filed where the names of profiles are. *)
SetSetupDefaultLayoutAsProfile(store, fp, preset) ==
    [store EXCEPT !.layouts = Drop(@, fp), !.defaults = Put(@, fp, preset)]

SetSetupDefaultLayout(store, fp, preset) ==
    [store EXCEPT !.defaults = Drop(@, fp), !.layouts = Put(@, fp, preset)]

ClearSetupDefaultLayout(store, fp) == [store EXCEPT !.layouts = Drop(@, fp)]

(* Mutant: the stored profiles of one name. *)
ProfilesNamedAnywhere(store, name, fp, known, order) ==
    {p \in store.profiles : p.name = name}

(* The stored profiles of one name and one setup. *)
ProfilesNamed(store, name, fp, known, order) ==
    {p \in store.profiles :
        /\ p.name = name
        /\ ProfileSetupFingerprint(CanonicalizeProfile(p, known, order)) = fp}

SaveProfile(store, p, known, order) ==
    LET profile == CanonicalizeProfile(p, known, order)
        fp      == ProfileSetupFingerprint(profile)
    IN  [store EXCEPT !.profiles =
            (@ \ ProfilesNamed(store, profile.name, fp, known, order)) \cup {profile}]

(* The default of the setup goes with its profile. *)
RemoveForSetup(store, name, fp, known, order) ==
    LET gone == ProfilesNamed(store, name, fp, known, order)
        wasDefault == fp \in DOMAIN store.defaults /\ store.defaults[fp] = name
    IN  IF gone = {} THEN store
        ELSE [store EXCEPT !.profiles = @ \ gone,
                           !.defaults = IF wasDefault THEN Drop(@, fp) ELSE @]

ProfilesForSetup(store, fp, known, order) ==
    {p \in {CanonicalizeProfile(q, known, order) : q \in store.profiles} :
        ProfileSetupFingerprint(p) = fp}

----------------------------------------------------------------------------
(* What to do about a topology: workflow/selection.rs,                     *)
(* select_profile_application_target.  `profiles` are those of the         *)
(* topology's setup, `settings` a store read for its settings, and         *)
(* `remembered` the remembered layouts.                                    *)

ProfileTarget(kind, p) == [kind |-> kind, profile |-> p, preset |-> NoValue]
LayoutTarget(preset)   == [kind |-> "layout", profile |-> NoValue, preset |-> preset]
NoTarget               == [kind |-> "none", profile |-> NoValue, preset |-> NoValue]

SetupDefaults(fp, profiles, settings) ==
    {p \in profiles :
        /\ fp \in DOMAIN settings.defaults
        /\ settings.defaults[fp] = p.name
        /\ ProfileSetupFingerprint(p) = fp}

FirstListed(profiles) == {p \in profiles : \A q \in profiles : p.priority >= q.priority}

SelectTargets(t, profiles, settings, remembered, order) ==
    LET fp    == SetupFingerprint(t)
        named == SetupDefaults(fp, profiles, settings)
        exact == BestExactMatches(t, profiles)
        restorable == fp \in DOMAIN remembered /\ HasEnabledRealOutputs(remembered[fp])
    IN  IF named # {} THEN {ProfileTarget("default", p) : p \in FirstListed(named)}
        ELSE IF fp \in DOMAIN settings.layouts THEN {LayoutTarget(settings.layouts[fp])}
        ELSE IF exact # {} THEN {ProfileTarget("exact", p) : p \in exact}
        ELSE IF restorable
             THEN {ProfileTarget("remembered",
                        ProfileFromTopology(RememberedName, remembered[fp], order))}
        ELSE {NoTarget}

(* The name the outcome is recorded under: none for a remembered layout. *)
RecordedName(target) ==
    CASE target.kind \in {"default", "exact", "explicit"} -> target.profile.name
      [] target.kind = "layout"                           -> target.preset
      [] OTHER                                            -> NoValue

PlansFor(target, t, builtin) ==
    IF target.kind = "layout"
    THEN PresetPlans(target.preset, t, builtin)
    ELSE ProfilePlans(target.profile, t)
=============================================================================
