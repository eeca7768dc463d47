------------------------------ MODULE StateFile ------------------------------
(***************************************************************************)
(* The contents of state.toml and the updates made to it, each of them one *)
(* load-modify-save under the file lock: crates/core/src/state.rs and      *)
(* workflow/persistence.rs.                                                *)
(*                                                                         *)
(* Left out: the fields that nothing the daemon decides depends on (the    *)
(* fingerprint of the last topology, the backend kind, the names users     *)
(* give to setups).                                                        *)
(***************************************************************************)
EXTENDS Presets

(* The names record_applied_profile is called with. *)
AppliedNames == ProfileNames \cup VirtualPresets

IsState(s) ==
    /\ s \in [last : Opt(AppliedNames), known : {s.known}, remembered : {s.remembered},
              enabled : BOOLEAN]
    /\ DOMAIN s.known \subseteq Connectors
    /\ s.known \in [DOMAIN s.known -> OutputIdentity]
    /\ \A fp \in DOMAIN s.remembered : IsTopology(s.remembered[fp])

EmptyState == [last |-> NoValue, known |-> <<>>, remembered |-> <<>>, enabled |-> FALSE]

(* The part of an update that caches the identities of a topology. *)
CacheIdentities(known, t) ==
    [c \in DOMAIN known \cup DOMAIN t |-> IF c \in DOMAIN t THEN t[c].id ELSE known[c]]

(* record_topology_observation: the layout is remembered for its setup,    *)
(* unless it is blank.                                                     *)
Remember(remembered, t) ==
    IF HasEnabledRealOutputs(t) THEN Put(remembered, SetupFingerprint(t), t) ELSE remembered

(* Mutant: the identities are cached as the displays reported them. *)
UpdateObservedCachingRaw(s, t, name) ==
    LET normalized == NormalizeTopology(t, s.known)
    IN  [s EXCEPT !.last = name, !.known = CacheIdentities(@, t),
                  !.remembered = Remember(@, normalized)]

(* Mutant: the layout is filed under the fingerprint the displays reported. *)
UpdateObservedFilingRaw(s, t, name) ==
    LET normalized == NormalizeTopology(t, s.known)
    IN  [s EXCEPT !.last = name, !.known = CacheIdentities(@, normalized),
                  !.remembered = IF HasEnabledRealOutputs(t)
                                 THEN Put(@, SetupFingerprint(t), normalized) ELSE @]

(* update_observed_topology with record_applied_profile (a name) or        *)
(* record_observed_topology (no name).                                     *)
UpdateObserved(s, t, name) ==
    LET normalized == NormalizeTopology(t, s.known)
    IN  [s EXCEPT !.last       = name,
                  !.known      = CacheIdentities(@, normalized),
                  !.remembered = Remember(@, normalized)]

RecordDaemonStarted(s) == [s EXCEPT !.enabled = TRUE]
=============================================================================
