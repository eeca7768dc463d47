------------------------------- MODULE Engine -------------------------------
(***************************************************************************)
(* One attempt to put a layout in place, on a GNOME or a Plasma desktop:   *)
(* the backend the loader picks, the plan made on the topology it reports, *)
(* validation, hooks and apply (apply_plan_cycle of crates/core/src/       *)
(* workflow/execution.rs, Engine of engine.rs, and the GnomeBackend and    *)
(* KScreenBackend they call).  The wlroots backend is in Submission.       *)
(*                                                                         *)
(* The attempt is that of a `waytorandr set`, with or without --force, or  *)
(* of a pass of the daemon, which never forces.  Beside it displays come   *)
(* and go and other programs rearrange them.                               *)
(***************************************************************************)
EXTENDS Presets, Gnome, KScreen, Loader, Hooks

CONSTANTS
    Environments,      \* the sessions the attempt may be made in
    MutterSetups,      \* states of Mutter the environment may cause
    KScreenSetups,     \* configurations of KScreen it may cause
    SetPresets,        \* the layouts asked for by name
    Profiles,          \* layouts of saved profiles, which bring hooks
    PreHooks,          \* how many pre-apply hooks a profile has
    LaterHooks,        \* how many post-apply and how many failure hooks
    MaxDisturbances    \* bound on the changes the environment makes

ASSUME EngineAssumption ==
    /\ IsFiniteSet(Connectors)
    /\ Environments \subseteq [session : Sessions, answering : SUBSET {"gnome", "kscreen"}]
    /\ PreHooks \in Nat /\ LaterHooks \in Nat /\ MaxDisturbances \in Nat
    /\ \A x \in Xforms : x = Xform(x.scale, x.transform)
    /\ \A s \in MutterSetups : IsMutterState(s)
    /\ \A k \in KScreenSetups : IsKScreenConfig(k)
    /\ SetPresets \subseteq VirtualPresets /\ \A p \in Profiles : IsTopology(p)

VARIABLES
    mutter,     \* what Mutter is showing, on GNOME
    kscreen,    \* what KScreen is showing, on Plasma
    env,        \* the session, and the services that answer in it
    kind,       \* the backend in use
    pc,         \* where the attempt is
    force,      \* --force: apply although the backend cannot validate
    plan,       \* the layout to put in place
    hooked,     \* the plan is that of a profile with hooks
    left,       \* hooks of the phase still to be run
    hooksOk,    \* those run so far succeeded
    read,       \* the state of the desktop the backend is working on
    result,     \* how the attempt ended, or will when its last hooks have run
    failure,    \* the ConfigFailureKind of a failure
    reported,   \* the topology reported as applied
    history     \* what the properties speak of; see NoHistory

desktop == <<mutter, kscreen>>
request == <<env, kind, force, plan, hooked>>
outcome == <<result, failure, reported>>
vars    == <<desktop, request, pc, left, hooksOk, read, outcome, hook, history>>

(* disturbances: changes made by others so far.  disturbed: one came since *)
(* the backend last read the desktop, or since the compositor took the     *)
(* plan.  verified: the compositor accepted the plan when it was asked.    *)
(* preOk: pre-apply hooks that ended by themselves with status 0.          *)
(* stale: the refusal was for a serial that is not the current one.        *)
NoHistory ==
    [disturbances |-> 0, disturbed |-> FALSE, verified |-> FALSE, preOk |-> 0,
     touched |-> FALSE, stale |-> FALSE]

Showing == IF kind = "gnome" THEN ExportGnome(mutter) ELSE ExportKScreen(kscreen)

Init ==
    /\ mutter \in MutterSetups /\ kscreen \in KScreenSetups /\ env \in Environments
    /\ kind = "none" /\ pc = "connect" /\ force \in BOOLEAN /\ plan = <<>> /\ hooked = FALSE
    /\ left = 0 /\ hooksOk = TRUE /\ read = NoValue
    /\ result = "none" /\ failure = "none" /\ reported = <<>>
    /\ hook = NoHook /\ history = NoHistory

----------------------------------------------------------------------------
(* How an attempt ends.  What it held is forgotten. *)

End(how, why) ==
    /\ pc' = "done" /\ result' = how /\ failure' = why
    /\ left' = 0 /\ read' = NoValue
    /\ UNCHANGED <<request, hooksOk, reported, hook>>

(* The hooks of a phase, and what to do when they are through. *)
EnterPhase(phase, hooks) ==
    /\ pc' = phase /\ left' = (IF hooked THEN hooks ELSE 0)
    /\ hooksOk' = TRUE /\ read' = NoValue
    /\ UNCHANGED <<request, hook>>

Failed(why) ==
    /\ EnterPhase("failure", LaterHooks)
    /\ result' = "failed" /\ failure' = why /\ reported' = <<>>

Applied(topology) ==
    /\ EnterPhase("post", LaterHooks)
    /\ result' = "applied" /\ failure' = "none" /\ reported' = topology

----------------------------------------------------------------------------
(* Before anything is asked of the desktop. *)

Connect ==
    /\ pc = "connect"
    /\ kind' = ConnectBackend(env.session, env.answering)
    /\ IF kind' = "none" THEN pc' = "done" /\ result' = "error"
       ELSE pc' = "plan" /\ UNCHANGED result
    /\ UNCHANGED <<desktop, env, force, plan, hooked, left, hooksOk, read, failure, reported, hook,
                   history>>

(* The plan is made on the topology as it is now, or is a saved layout. *)
MakePlan ==
    /\ pc = "plan"
    /\ \/ /\ hooked' = FALSE
          /\ \E p \in SetPresets : plan' \in PresetPlans(p, Showing, NoValue)
       \/ hooked' = TRUE /\ plan' \in Profiles
    /\ pc' = "validate"
    /\ UNCHANGED <<desktop, env, kind, force, left, hooksOk, read, outcome, hook, history>>

NoPlan ==
    /\ pc = "plan"
    /\ \E p \in SetPresets : PresetPlans(p, Showing, NoValue) = {}
    /\ End("error", "none")
    /\ UNCHANGED <<desktop, history>>

----------------------------------------------------------------------------
(* Validation, and what apply_plan_cycle makes of it. *)

(* KScreen cannot validate; only --force goes on. *)
ValidateUnsupported ==
    /\ pc = "validate" /\ kind = "kscreen"
    /\ IF force THEN EnterPhase("pre", PreHooks) /\ UNCHANGED outcome
       ELSE End("unsupported", "none")
    /\ UNCHANGED <<desktop, history>>

(* submit_plan_request, first half: the state of Mutter is read ... *)
ReadMutter ==
    /\ pc \in {"validate", "apply"} /\ kind = "gnome"
    /\ pc' = IF pc = "validate" THEN "verify" ELSE "submit"
    /\ read' = mutter
    /\ history' = [history EXCEPT !.disturbed = FALSE]
    /\ UNCHANGED <<desktop, request, left, hooksOk, outcome, hook>>

(* classify_apply_failure looks for "stale", "serial", "changed" and "out  *)
(* of date" in the outermost text of the error.  For a refused call that   *)
(* is the text submit_request wraps around Mutter's answer, which says     *)
(* none of that whatever the answer was.                                   *)
OutermostText(refusal) == IF refusal = "invalid" THEN "invalid" ELSE "failed to call"

ClassifyApplyFailure(text) ==
    IF text \in {"stale", "serial", "changed", "out of date"} THEN "topology_changed" ELSE "rejected"

Classified(refusal) == ClassifyApplyFailure(OutermostText(refusal))

Requests == BuildApplyConfig(read, plan)

(* ... and second half: a request made of that state and the plan is sent. *)
(* Mutter may refuse any.                                                  *)
Refusals ==
    IF Requests = {} THEN {"invalid"}
    ELSE IF \E r \in Requests : ~Current(mutter, r) THEN {"stale"} ELSE {"refused"}

VerifyAccepted ==
    /\ pc = "verify"
    /\ \E r \in Requests : Acceptable(mutter, r)
    /\ EnterPhase("pre", PreHooks)
    /\ history' = [history EXCEPT !.verified = TRUE]
    /\ UNCHANGED <<desktop, outcome>>

VerifyRefused ==
    /\ pc = "verify"
    /\ \E refusal \in Refusals :
        /\ End("rejected", Classified(refusal))
        /\ history' = [history EXCEPT !.stale = (refusal = "stale")]
    /\ UNCHANGED desktop

----------------------------------------------------------------------------
(* Hooks, one after the other.  A failed one does not stop the others of   *)
(* its phase.                                                              *)

Phases == {"pre", "post", "failure"}

StartHook ==
    /\ pc \in Phases /\ left > 0 /\ hook.pc = "idle"
    /\ Spawn \/ SpawnFails
    /\ UNCHANGED <<desktop, request, pc, left, hooksOk, read, outcome, history>>

SuperviseHook ==
    /\ Supervise
    /\ UNCHANGED <<desktop, request, pc, left, hooksOk, read, outcome, history>>

HookProceeds ==
    /\ Proceed
    /\ UNCHANGED <<desktop, request, pc, left, hooksOk, read, outcome, history>>

(* Mutant: a hook that timed out is counted twice. *)
FinishHookTwice ==
    /\ HookReported
    /\ left' = left - (IF hook.timedOut THEN 2 ELSE 1) /\ hooksOk' = (hooksOk /\ HookSuccess)
    /\ hook' = NoHook
    /\ UNCHANGED <<desktop, request, pc, read, outcome, history>>

(* Mutant: only the last hook counts. *)
FinishHookLast ==
    /\ HookReported
    /\ left' = left - 1 /\ hooksOk' = HookSuccess
    /\ hook' = NoHook
    /\ history' = [history EXCEPT !.preOk = @ + (IF pc = "pre" /\ HookSuccess THEN 1 ELSE 0)]
    /\ UNCHANGED <<desktop, request, pc, read, outcome>>

FinishHook ==
    /\ HookReported
    /\ left' = left - 1 /\ hooksOk' = (hooksOk /\ HookSuccess)
    /\ hook' = NoHook
    /\ history' = [history EXCEPT !.preOk = @ + (IF pc = "pre" /\ HookSuccess THEN 1 ELSE 0)]
    /\ UNCHANGED <<desktop, request, pc, read, outcome>>

PhaseOver(phase) == pc = phase /\ left = 0

(* A failed pre-apply hook ends the attempt; no failure hooks run. *)
PreHooksDone ==
    /\ PhaseOver("pre")
    /\ IF hooksOk
       THEN /\ pc' = "apply"
            /\ UNCHANGED <<request, left, hooksOk, read, outcome, hook>>
       ELSE End("failed", "rejected")
    /\ UNCHANGED <<desktop, history>>

(* What post-apply and failure hooks do only adds to the message. *)
LaterHooksDone ==
    /\ PhaseOver("post") \/ PhaseOver("failure")
    /\ End(result, failure)
    /\ UNCHANGED <<desktop, history>>

----------------------------------------------------------------------------
(* Apply, on GNOME. *)

Take(state) ==
    /\ mutter' = state
    /\ history' = [history EXCEPT !.disturbed = FALSE, !.touched = TRUE]
    /\ UNCHANGED kscreen

(* The call returns when the monitors are configured. *)
SubmitAccepted ==
    /\ pc = "submit" /\ kind = "gnome"
    /\ \E r \in Requests : Acceptable(mutter, r) /\ Take(Reconfigured(mutter, r))
    /\ pc' = "snapshot" /\ read' = NoValue
    /\ UNCHANGED <<request, left, hooksOk, outcome, hook>>

SubmitRefused ==
    /\ pc = "submit" /\ kind = "gnome"
    /\ \E refusal \in Refusals :
        /\ Failed(Classified(refusal))
        /\ history' = [history EXCEPT !.stale = (refusal = "stale")]
    /\ UNCHANGED desktop

(* The connection breaks after the request was carried out. *)
SubmitUnanswered ==
    /\ pc = "submit" /\ kind = "gnome"
    /\ \E r \in Requests : Acceptable(mutter, r) /\ Take(Reconfigured(mutter, r))
    /\ End("error", "none")

----------------------------------------------------------------------------
(* Apply, on Plasma. *)

(* kscreen-doctor --json *)
ReadKScreen ==
    /\ pc = "apply" /\ kind = "kscreen"
    /\ pc' = "submit"
    /\ read' = kscreen
    /\ history' = [history EXCEPT !.disturbed = FALSE]
    /\ UNCHANGED <<desktop, request, left, hooksOk, outcome, hook>>

(* The plan cannot be said in commands, or nothing has to be changed. *)
NothingToRun ==
    /\ pc = "submit" /\ kind = "kscreen"
    /\ \/ ~Expressible(read, plan) /\ Failed("rejected")
       \/ Expressible(read, plan) /\ BuildApplyArgs(read, plan) = <<>>
             /\ Applied(ExportKScreen(read))
    /\ UNCHANGED <<desktop, history>>

(* The commands were made of the configuration read before, and say only   *)
(* what differs from that one.                                             *)
RunCommands ==
    /\ pc = "submit" /\ kind = "kscreen"
    /\ Expressible(read, plan)
    /\ LET args == BuildApplyArgs(read, plan)
       IN  args # <<>> /\ Runnable(kscreen, args) /\ kscreen' = Doctored(kscreen, args)
    /\ pc' = "snapshot" /\ read' = NoValue
    /\ history' = [history EXCEPT !.touched = TRUE]
    /\ UNCHANGED <<mutter, request, left, hooksOk, outcome, hook>>

CommandsFail ==
    /\ pc = "submit" /\ kind = "kscreen"
    /\ Expressible(read, plan) /\ BuildApplyArgs(read, plan) # <<>>
    /\ Failed("rejected")
    /\ UNCHANGED <<desktop, history>>

----------------------------------------------------------------------------
(* The desktop is read again, and reported as applied. *)

Snapshot ==
    /\ pc = "snapshot"
    /\ Applied(Showing)
    /\ UNCHANGED <<desktop, history>>

(* Mutant: an answer that does not come is taken for a failed apply. *)
DesktopSilentFails ==
    /\ pc \in {"plan", "validate", "verify", "apply", "submit", "snapshot"}
    /\ Failed("rejected")
    /\ UNCHANGED <<desktop, history>>

(* A call to the desktop's service, or a kscreen-doctor --json, fails. *)
DesktopSilent ==
    /\ pc \in {"plan", "validate", "verify", "apply", "submit", "snapshot"}
    /\ End("error", "none")
    /\ UNCHANGED <<desktop, history>>

----------------------------------------------------------------------------
(* The environment. *)

Disturb ==
    /\ history.disturbances < MaxDisturbances
    /\ history' = [history EXCEPT !.disturbances = @ + 1,
                                  !.disturbed = @ \/ pc \in {"verify", "submit", "snapshot"}]
    /\ UNCHANGED <<request, pc, left, hooksOk, read, outcome, hook>>

MonitorsChange ==
    /\ kind = "gnome"
    /\ \E s \in MutterSetups : mutter' = [s EXCEPT !.serial = mutter.serial + 1]
    /\ UNCHANGED kscreen
    /\ Disturb

OutputsChange ==
    /\ kind = "kscreen"
    /\ kscreen' \in KScreenSetups /\ UNCHANGED mutter
    /\ Disturb

----------------------------------------------------------------------------
Desktop == MonitorsChange \/ OutputsChange

Attempt ==
    \/ DesktopSilent \/ Connect \/ MakePlan \/ NoPlan
    \/ ValidateUnsupported \/ ReadMutter \/ VerifyAccepted \/ VerifyRefused
    \/ StartHook \/ SuperviseHook \/ FinishHook \/ PreHooksDone \/ LaterHooksDone
    \/ SubmitAccepted \/ SubmitRefused \/ SubmitUnanswered
    \/ ReadKScreen \/ NothingToRun \/ RunCommands \/ CommandsFail
    \/ Snapshot

Next == Attempt \/ HookProceeds \/ Desktop

(* The process runs, the services answer or their calls fail, and the time *)
(* of a hook runs out.  Nothing is assumed of the processes of a hook.     *)
Fairness == WF_vars(Attempt)

Spec == Init /\ [][Next]_vars /\ Fairness

----------------------------------------------------------------------------
(* Types. *)
TypeOK ==
    /\ IsMutterState(mutter) /\ IsKScreenConfig(kscreen) /\ env \in Environments
    /\ kind \in Kinds \cup {"none"} /\ hook \in HookType
    /\ pc \in Phases \cup {"connect", "plan", "validate", "verify", "apply", "submit", "snapshot",
                           "done"}
    /\ force \in BOOLEAN /\ hooked \in BOOLEAN /\ hooksOk \in BOOLEAN
    /\ IsTopology(plan) /\ IsTopology(reported)
    /\ left \in 0..(PreHooks + LaterHooks)
    /\ result \in {"none", "applied", "failed", "rejected", "unsupported", "error"}
    /\ failure \in {"none", "rejected", "topology_changed"}

(* Every request made of a plan that lights something names one primary    *)
(* monitor, among what it lights, and has each display in exactly one      *)
(* logical monitor; Mutter refuses anything else (select_primary_connector *)
(* and build_logical_groups have to agree on what is lit).                 *)
OnePrimary ==
    kind = "gnome" /\ read # NoValue =>
        \A r \in Requests :
            /\ Lit(plan) # {} => Cardinality({l \in r.logical : l.primary}) = 1
            /\ \A c \in Lit(plan) : Cardinality({l \in r.logical : Shows(l, c)}) = 1
            /\ \A l \in r.logical, c \in Connectors : Shows(l, c) => c \in Lit(plan)

(* A scale the mode does not offer is replaced by one that it does. *)
ScaleOffered(c) ==
    kind = "gnome" /\ c \in DOMAIN mutter.monitors =>
        \A i \in DOMAIN mutter.monitors[c].modes :
            LET mode == mutter.monitors[c].modes[i]
            IN  mode.scales = {} \/ plan[c].xform.scale \in mode.scales

(* The real displays of t are as p has them.  A display that mirrors is    *)
(* where its target is and, on GNOME, scaled and turned as its target is.  *)
InPlace(p, t) ==
    \A c \in RealOutputs(t) :
        LET d == IF kind = "gnome" /\ t[c].mirror \in Lit(p) THEN t[c].mirror ELSE c
        IN  /\ t[c].enabled <=> c \in Lit(p)
            /\ t[c].enabled =>
                /\ p[c].mode # NoValue => t[c].mode = p[c].mode
                /\ t[c].xform.transform = p[d].xform.transform
                /\ ScaleOffered(d) => t[c].xform = p[d].xform
                /\ p[c].mirror # NoValue => t[c].mirror = p[c].mirror
                /\ IF t[c].mirror = NoValue THEN t[c].pos = p[c].pos
                   ELSE t[c].mirror \in Lit(p) /\ p[t[c].mirror].pos = p[c].pos

(* What is reported as applied is the plan, on GNOME whatever happened     *)
(* before Mutter took it (a request made of an old state is refused by its *)
(* serial), on Plasma when nobody touched the outputs between the reading  *)
(* of the configuration and the commands made of it: the commands say only *)
(* what differs, and none at all are taken for a layout already in place.  *)
AppliedMatchesPlan ==
    [][result # "applied" /\ result' = "applied" /\ ~history.disturbed
        => InPlace(plan, reported')]_vars

(* No attempt changes the displays unless the compositor has accepted the  *)
(* plan in it or the user forced it (the daemon leaves Plasma alone), and  *)
(* then only after every pre-apply hook has ended by itself, in time, and  *)
(* with status 0.                                                          *)
ChangesAreGated ==
    history.touched =>
        /\ history.verified \/ force
        /\ hooked => history.preOk = PreHooks

(* An attempt that is said to have failed, to be rejected or not to be     *)
(* supported has changed nothing; when the answer was lost the attempt     *)
(* ends with an error instead, which says nothing of the displays.         *)
FailureChangesNothing ==
    result \in {"failed", "rejected", "unsupported"} => ~history.touched

(* The attempt ends, unless a process that a hook left behind keeps the    *)
(* hook's output open for ever: a child that does not end is killed, a     *)
(* full pipe included, but the reading of the pipe has no time limit.      *)
AttemptEnds == <>(pc = "done") \/ <>[](hook.holders > 0)

(* Stated by backend/tests.rs of crates/gnome: a request that Mutter       *)
(* refuses because its serial is stale is a change of the topology.        *)
StaleIsTopologyChanged == history.stale => failure = "topology_changed"
=============================================================================
