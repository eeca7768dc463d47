---------------------------- MODULE EngineProofs ----------------------------
(***************************************************************************)
(* An attempt changes the displays only when it may, and says that nothing *)
(* was changed only when nothing was: for any desktop, environment, plans  *)
(* and hooks.  And a plan is made into a request that Mutter accepts.      *)
(***************************************************************************)
EXTENDS Engine, OperatorProofs

(* A hook is run in a phase that has hooks left. *)
HooksInPhase ==
    /\ pc \in Phases => left \in Nat
    /\ hook.pc # "idle" => pc \in Phases /\ left > 0

(* Who is past validation was accepted, or forced; who is past the         *)
(* pre-apply hooks has had all of them succeed.                            *)
Allowed == history.verified \/ force

HooksPassed == hooked => history.preOk = PreHooks

Passed ==
    /\ pc \in {"connect", "plan", "validate", "verify"} => history.preOk = 0
    /\ pc = "pre" =>
        /\ Allowed
        /\ IF hooked THEN hooksOk => history.preOk = PreHooks - left ELSE left = 0
    /\ pc \in {"apply", "submit"} => Allowed /\ HooksPassed

(* The displays are touched on the way to a success, or to an error.       *)
Ended ==
    /\ pc \notin {"post", "failure", "done"} => result = "none"
    /\ pc = "post" => result = "applied"
    /\ history.touched =>
        /\ pc \in {"snapshot", "post", "done"}
        /\ Allowed /\ HooksPassed
        /\ result \in {"none", "applied", "error"}

EngineInv ==
    /\ HooksInPhase /\ Passed /\ Ended
    /\ history \in [disturbances : Nat, disturbed : BOOLEAN, verified : BOOLEAN, preOk : Int,
                    touched : BOOLEAN, stale : BOOLEAN]
    /\ hook \in HookType /\ Descendants <= MaxDescendants

----------------------------------------------------------------------------
(* Hooks. *)

LEMMA HookBounds ==
    /\ 0 \in 0..PipeSize /\ 0 \in 0..MaxDescendants
    /\ \A n \in 0..PipeSize : n < PipeSize => n + 1 \in 0..PipeSize
    /\ \A n, m \in 0..MaxDescendants :
        /\ n + m < MaxDescendants => n + 1 \in 0..MaxDescendants /\ n + 1 + m <= MaxDescendants
        /\ n > 0 => n - 1 \in 0..MaxDescendants
        /\ n > 0 /\ n + m <= MaxDescendants =>
            /\ m + 1 \in 0..MaxDescendants /\ n - 1 + (m + 1) <= MaxDescendants
            /\ n - 1 + m <= MaxDescendants /\ m + (n - 1) <= MaxDescendants
BY HooksAssumption

LEMMA NoHookType ==
    /\ NoHook \in HookType /\ NoHook.pc = "idle"
    /\ NoHook.holders + NoHook.strays <= MaxDescendants
BY HooksAssumption, HookBounds DEF NoHook, HookType

LEMMA NewHookType ==
    ASSUME Spawn \/ SpawnFails
    PROVE  hook' \in HookType /\ (Descendants <= MaxDescendants)'
<1>1. hook'.holders = NoHook.holders /\ hook'.strays = NoHook.strays
  BY DEF Spawn, SpawnFails, NoHook
<1>2. hook' \in HookType
  BY NoHookType DEF Spawn, SpawnFails, HookType
<1> QED
  BY <1>1, <1>2, NoHookType DEF Descendants

(* What a hook's process and its supervision do leaves a hook of the same  *)
(* kind, which they neither start nor remove.                              *)
LEMMA HookMoves ==
    ASSUME hook \in HookType, Descendants <= MaxDescendants,
           Supervise \/ Proceed
    PROVE  /\ hook' \in HookType /\ (Descendants <= MaxDescendants)'
           /\ hook'.pc # "idle" <=> hook.pc # "idle"
<1>0. /\ hook.piped \in 0..PipeSize
      /\ hook.holders \in 0..MaxDescendants /\ hook.strays \in 0..MaxDescendants
  BY DEF HookType
<1>1. CASE SeesExit
  BY <1>1 DEF SeesExit, HookType, Descendants
<1>2. CASE TimesOut
  BY <1>2 DEF TimesOut, HookType, Descendants
<1>3. CASE Drained
  BY <1>3, HookBounds DEF Drained, HookType, Descendants
<1>4. CASE ChildStarts
  <2>1. /\ hook' = [hook EXCEPT !.holders = @ + 1]
        /\ hook.holders + 1 \in 0..MaxDescendants
        /\ hook.holders + 1 + hook.strays <= MaxDescendants
    BY <1>0, <1>4, HookBounds DEF ChildStarts, HookType, Descendants
  <2> QED
    BY <2>1 DEF HookType, Descendants
<1>5. CASE ChildWrites
  BY <1>5 DEF ChildWrites, HookType, Descendants
<1>6. CASE WriteEnds
  <2>1. hook.piped + 1 \in 0..PipeSize
    BY <1>0, <1>6, HookBounds DEF WriteEnds
  <2> QED
    BY <1>6, <2>1 DEF WriteEnds, HookType, Descendants
<1>7. CASE ChildExits
  BY <1>7 DEF ChildExits, HookType, Descendants
<1>8. CASE DescendantDetaches
  <2>1. /\ hook' = [hook EXCEPT !.holders = @ - 1, !.strays = @ + 1]
        /\ hook.holders - 1 \in 0..MaxDescendants /\ hook.strays + 1 \in 0..MaxDescendants
        /\ hook.holders - 1 + (hook.strays + 1) <= MaxDescendants
    BY <1>0, <1>8, HookBounds DEF DescendantDetaches, Descendants
  <2> QED
    BY <2>1 DEF HookType, Descendants
<1>9. CASE hook.holders > 0 /\ hook' = [hook EXCEPT !.holders = @ - 1]
  <2>1. /\ hook.holders - 1 \in 0..MaxDescendants
        /\ hook.holders - 1 + hook.strays <= MaxDescendants
    BY <1>0, <1>9, HookBounds DEF Descendants
  <2> QED
    BY <1>9, <2>1 DEF HookType, Descendants
<1>10. CASE hook.strays > 0 /\ hook' = [hook EXCEPT !.strays = @ - 1]
  <2>1. /\ hook.strays - 1 \in 0..MaxDescendants
        /\ hook.holders + (hook.strays - 1) <= MaxDescendants
    BY <1>0, <1>10, HookBounds DEF Descendants
  <2> QED
    BY <1>10, <2>1 DEF HookType, Descendants
<1> QED
  BY <1>1, <1>2, <1>3, <1>4, <1>5, <1>6, <1>7, <1>8, <1>9, <1>10
     DEF Supervise, Proceed, DescendantEnds

----------------------------------------------------------------------------
(* The control of an attempt. *)

LEMMA EngineInit == Init => EngineInv
BY NoHookType, EngineAssumption
   DEF Init, EngineInv, HooksInPhase, Passed, Ended, Phases, NoHistory, Descendants

(* An attempt that ends without having touched the displays, or ends with  *)
(* an error, or keeps its result.                                          *)
LEMMA EndKeeps ==
    ASSUME EngineInv, NEW how, NEW why, End(how, why), hook.pc = "idle",
           history' \in [disturbances : Nat, disturbed : BOOLEAN, verified : BOOLEAN, preOk : Int,
                         touched : BOOLEAN, stale : BOOLEAN],
           history'.touched => (Allowed /\ HooksPassed)' /\ how \in {"applied", "error"}
    PROVE  EngineInv'
<1>1. /\ pc' = "done" /\ result' = how /\ hook' = hook
  BY DEF End
<1>2. HooksInPhase'
  BY <1>1 DEF HooksInPhase, Phases
<1>3. Passed'
  BY <1>1 DEF Passed
<1>4. Ended'
  BY <1>1 DEF Ended
<1>5. hook' \in HookType /\ (Descendants <= MaxDescendants)'
  BY <1>1 DEF EngineInv, Descendants
<1> QED
  BY <1>2, <1>3, <1>4, <1>5 DEF EngineInv

(* A phase of hooks is entered with no hook running. *)
LEMMA PhaseEntered ==
    ASSUME EngineInv, NEW phase \in Phases, NEW hooks \in Nat, EnterPhase(phase, hooks),
           hook.pc = "idle"
    PROVE  /\ HooksInPhase' /\ hook' \in HookType /\ (Descendants <= MaxDescendants)'
           /\ force' = force /\ hooked' = hooked
<1>1. /\ pc' = phase /\ hook' = hook /\ left' \in Nat /\ force' = force /\ hooked' = hooked
  BY DEF EnterPhase, request
<1> QED
  BY <1>1 DEF HooksInPhase, EngineInv, Descendants

(* Outside the phases of hooks no hook is running. *)
LEMMA NoHookOutside ==
    ASSUME EngineInv, pc \notin Phases
    PROVE  hook.pc = "idle"
BY DEF EngineInv, HooksInPhase

LEMMA AttemptEndsSoundly ==
    ASSUME EngineInv,
           NoPlan \/ ValidateUnsupported \/ VerifyRefused \/ PreHooksDone \/ LaterHooksDone
             \/ SubmitUnanswered \/ DesktopSilent
    PROVE  EngineInv'
<1> DEFINE H == [disturbances : Nat, disturbed : BOOLEAN, verified : BOOLEAN, preOk : Int,
                 touched : BOOLEAN, stale : BOOLEAN]
<1>1. history \in H
  BY DEF EngineInv
<1>2. ASSUME NEW how, NEW why, End(how, why), pc \notin Phases, ~history.touched,
             history' \in H, history'.touched = FALSE
      PROVE  EngineInv'
  BY <1>2, NoHookOutside, EndKeeps
<1>3. CASE NoPlan
  <2>1. ~history.touched /\ pc \notin Phases
    BY <1>3 DEF NoPlan, EngineInv, Ended, Phases
  <2> QED
    BY <1>1, <1>2, <1>3, <2>1 DEF NoPlan
<1>4. CASE ValidateUnsupported
  <2>1. /\ ~history.touched /\ pc \notin Phases /\ hook.pc = "idle" /\ result = "none"
        /\ history.preOk = 0 /\ history' = history
    BY <1>4, NoHookOutside DEF ValidateUnsupported, EngineInv, Ended, Phases, Passed
  <2>2. CASE force
    <3>1. EnterPhase("pre", PreHooks) /\ result' = result
      BY <1>4, <2>2 DEF ValidateUnsupported, outcome
    <3>2. /\ HooksInPhase' /\ hook' \in HookType /\ (Descendants <= MaxDescendants)'
          /\ force' = force /\ hooked' = hooked
      BY <2>1, <3>1, EngineAssumption, PhaseEntered DEF Phases
    <3>3. pc' = "pre" /\ left' = IF hooked THEN PreHooks ELSE 0
      BY <3>1 DEF EnterPhase
    <3>4. Passed' /\ Ended'
      BY <2>1, <2>2, <3>1, <3>2, <3>3, EngineAssumption DEF Passed, Ended, Allowed
    <3> QED
      BY <1>1, <2>1, <3>2, <3>4 DEF EngineInv
  <2>3. CASE ~force
    <3>1. End("unsupported", "none")
      BY <1>4, <2>3 DEF ValidateUnsupported
    <3> QED
      BY <1>1, <1>2, <2>1, <3>1
  <2> QED
    BY <2>2, <2>3
<1>5. CASE VerifyRefused
  <2>1. ~history.touched /\ pc \notin Phases
    BY <1>5 DEF VerifyRefused, EngineInv, Ended, Phases
  <2>2. PICK refusal : /\ End("rejected", Classified(refusal))
                       /\ history' = [history EXCEPT !.stale = (refusal = "stale")]
    BY <1>5 DEF VerifyRefused
  <2>3. history' \in H /\ history'.touched = history.touched
    BY <1>1, <2>2
  <2> QED
    BY <1>2, <2>1, <2>2, <2>3
<1>6. CASE PreHooksDone
  <2>1. /\ pc = "pre" /\ left = 0 /\ ~history.touched /\ hook.pc = "idle" /\ history' = history
        /\ result = "none"
    BY <1>6 DEF PreHooksDone, PhaseOver, EngineInv, Ended, HooksInPhase
  <2>2. CASE hooksOk
    <3>1. /\ pc' = "apply" /\ left' = left /\ hook' = hook /\ force' = force
          /\ hooked' = hooked /\ result' = result
      BY <1>6, <2>2 DEF PreHooksDone, request, outcome
    <3>2. Allowed /\ HooksPassed
      BY <2>1, <2>2, EngineAssumption DEF EngineInv, Passed, HooksPassed
    <3>3. HooksInPhase' /\ Passed' /\ Ended'
      BY <2>1, <3>1, <3>2 DEF HooksInPhase, Passed, Ended, Allowed, HooksPassed, Phases
    <3> QED
      BY <2>1, <3>1, <3>3 DEF EngineInv, Descendants
  <2>3. CASE ~hooksOk
    <3>1. End("failed", "rejected")
      BY <1>6, <2>3 DEF PreHooksDone
    <3> QED
      BY <1>1, <2>1, <3>1, EndKeeps
  <2> QED
    BY <2>2, <2>3
<1>7. CASE LaterHooksDone
  <2>1. /\ pc \in {"post", "failure"} /\ left = 0 /\ End(result, failure)
        /\ history' = history
    BY <1>7 DEF LaterHooksDone, PhaseOver
  <2>2. hook.pc = "idle"
    BY <2>1 DEF EngineInv, HooksInPhase
  <2>3. history.touched => pc = "post" /\ Allowed /\ HooksPassed /\ result = "applied"
    BY <2>1 DEF EngineInv, Ended
  <2>4. force' = force /\ hooked' = hooked
    BY <2>1 DEF End, request
  <2>5. history'.touched => (Allowed /\ HooksPassed)' /\ result \in {"applied", "error"}
    BY <2>1, <2>3, <2>4 DEF Allowed, HooksPassed
  <2> QED
    BY <1>1, <2>1, <2>2, <2>5, EndKeeps
<1>8. CASE SubmitUnanswered
  <2>1. /\ pc = "submit" /\ End("error", "none")
        /\ history' = [history EXCEPT !.disturbed = FALSE, !.touched = TRUE]
    BY <1>8 DEF SubmitUnanswered, Take
  <2>2. hook.pc = "idle"
    BY <2>1, NoHookOutside DEF Phases
  <2>3. Allowed /\ HooksPassed /\ force' = force /\ hooked' = hooked
    BY <2>1 DEF EngineInv, Passed, End, request
  <2>4. /\ history' \in H /\ history'.verified = history.verified
        /\ history'.preOk = history.preOk
    BY <1>1, <2>1
  <2>5. (Allowed /\ HooksPassed)'
    BY <2>3, <2>4 DEF Allowed, HooksPassed
  <2> QED
    BY <2>1, <2>2, <2>4, <2>5, EndKeeps
<1>9. CASE DesktopSilent
  <2>1. /\ pc \notin Phases /\ End("error", "none") /\ history' = history
    BY <1>9 DEF DesktopSilent, Phases
  <2>2. history.touched => Allowed /\ HooksPassed
    BY DEF EngineInv, Ended
  <2>3. force' = force /\ hooked' = hooked
    BY <2>1 DEF End, request
  <2>4. history'.touched => (Allowed /\ HooksPassed)' /\ "error" \in {"applied", "error"}
    BY <2>1, <2>2, <2>3 DEF Allowed, HooksPassed
  <2> QED
    BY <1>1, <2>1, <2>4, NoHookOutside, EndKeeps
<1> QED
  BY <1>3, <1>4, <1>5, <1>6, <1>7, <1>8, <1>9

(* The hooks of the later phases are entered with a result. *)
LEMMA LaterPhaseEntered ==
    ASSUME EngineInv, pc \notin Phases, history' = history \/
             \E stale \in BOOLEAN : history' = [history EXCEPT !.stale = stale],
           \/ ~history.touched /\ \E why : Failed(why)
           \/ \E t : Applied(t)
    PROVE  EngineInv'
<1> DEFINE H == [disturbances : Nat, disturbed : BOOLEAN, verified : BOOLEAN, preOk : Int,
                 touched : BOOLEAN, stale : BOOLEAN]
<1>1. /\ history' \in H /\ history'.touched = history.touched
      /\ history'.verified = history.verified /\ history'.preOk = history.preOk
  BY DEF EngineInv
<1>2. hook.pc = "idle"
  BY NoHookOutside
<1>3. history.touched => Allowed /\ HooksPassed
  BY DEF EngineInv, Ended
<1>4. PICK phase \in {"failure", "post"} :
        /\ EnterPhase(phase, LaterHooks)
        /\ phase = "failure" => ~history.touched
        /\ phase = "post" => result' = "applied"
  BY DEF Failed, Applied
<1>5. /\ HooksInPhase' /\ hook' \in HookType /\ (Descendants <= MaxDescendants)'
      /\ force' = force /\ hooked' = hooked
  BY <1>2, <1>4, EngineAssumption, PhaseEntered DEF Phases
<1>6. pc' = phase
  BY <1>4 DEF EnterPhase
<1>7. Passed' /\ Ended'
  BY <1>1, <1>3, <1>4, <1>5, <1>6 DEF Passed, Ended, Allowed, HooksPassed
<1> QED
  BY <1>1, <1>5, <1>7 DEF EngineInv

(* A step outside the phases of hooks that leaves the hooks, --force and   *)
(* the result alone, and is not past anything new.                         *)
LEMMA AttemptGoesOn ==
    ASSUME EngineInv,
           Connect \/ MakePlan \/ ReadMutter \/ VerifyAccepted \/ SubmitAccepted
             \/ SubmitRefused \/ ReadKScreen \/ NothingToRun \/ RunCommands \/ CommandsFail
             \/ Snapshot
    PROVE  EngineInv'
<1> DEFINE H == [disturbances : Nat, disturbed : BOOLEAN, verified : BOOLEAN, preOk : Int,
                 touched : BOOLEAN, stale : BOOLEAN]
<1>1. history \in H /\ pc \notin Phases /\ hook.pc = "idle"
  <2>1. pc \notin Phases
    BY DEF Connect, MakePlan, ReadMutter, VerifyAccepted, SubmitAccepted, SubmitRefused, ReadKScreen,
           NothingToRun, RunCommands, CommandsFail, Snapshot, Phases
  <2> QED
    BY <2>1, NoHookOutside DEF EngineInv
<1>2. pc \in {"connect", "plan", "validate", "verify", "apply", "submit"} =>
        ~history.touched /\ result = "none"
  BY DEF EngineInv, Ended
<1>3. ASSUME hook' = hook, pc' \notin Phases
      PROVE  HooksInPhase' /\ hook' \in HookType /\ (Descendants <= MaxDescendants)'
  BY <1>1, <1>3 DEF HooksInPhase, EngineInv, Descendants
<1>4. CASE Connect
  <2>1. /\ pc = "connect" /\ history' = history /\ hook' = hook /\ force' = force
        /\ hooked' = hooked
        /\ \/ pc' = "done"
           \/ pc' = "plan" /\ result' = result
    BY <1>4 DEF Connect
  <2>2. history.preOk = 0
    BY <2>1 DEF EngineInv, Passed
  <2>3. Passed' /\ Ended'
    BY <1>2, <2>1, <2>2 DEF Passed, Ended
  <2> QED
    BY <1>1, <1>3, <2>1, <2>3 DEF EngineInv, Phases
<1>5. CASE MakePlan
  <2>1. /\ pc = "plan" /\ pc' = "validate" /\ history' = history /\ hook' = hook
        /\ result' = result
    BY <1>5 DEF MakePlan, outcome
  <2>2. history.preOk = 0
    BY <2>1 DEF EngineInv, Passed
  <2>3. Passed' /\ Ended'
    BY <1>2, <2>1, <2>2 DEF Passed, Ended
  <2> QED
    BY <1>1, <1>3, <2>1, <2>3 DEF EngineInv, Phases
<1>6. CASE ReadMutter \/ ReadKScreen
  <2>1. /\ \/ pc = "validate" /\ pc' = "verify"
           \/ pc = "apply" /\ pc' = "submit"
        /\ history' = [history EXCEPT !.disturbed = FALSE] /\ hook' = hook
        /\ result' = result /\ force' = force /\ hooked' = hooked
    BY <1>6 DEF ReadMutter, ReadKScreen, outcome, request
  <2>2. /\ history' \in H /\ history'.touched = history.touched
        /\ history'.verified = history.verified /\ history'.preOk = history.preOk
    BY <1>1, <2>1
  <2>3. /\ pc = "validate" => history.preOk = 0
        /\ pc = "apply" => Allowed /\ HooksPassed
    BY DEF EngineInv, Passed
  <2>4. Passed' /\ Ended'
    BY <1>2, <2>1, <2>2, <2>3 DEF Passed, Ended, Allowed, HooksPassed
  <2> QED
    BY <1>3, <2>1, <2>2, <2>4 DEF EngineInv, Phases
<1>7. CASE VerifyAccepted
  <2>1. /\ pc = "verify" /\ EnterPhase("pre", PreHooks) /\ result' = result
        /\ history' = [history EXCEPT !.verified = TRUE]
    BY <1>7 DEF VerifyAccepted, outcome
  <2>2. /\ HooksInPhase' /\ hook' \in HookType /\ (Descendants <= MaxDescendants)'
        /\ force' = force /\ hooked' = hooked
    BY <1>1, <2>1, EngineAssumption, PhaseEntered DEF Phases
  <2>3. pc' = "pre" /\ left' = IF hooked THEN PreHooks ELSE 0
    BY <2>1 DEF EnterPhase
  <2>4. /\ history' \in H /\ ~history'.touched /\ history'.verified
        /\ history'.preOk = 0
    <3>1. history.preOk = 0
      BY <2>1 DEF EngineInv, Passed
    <3> QED
      BY <1>1, <1>2, <2>1, <3>1
  <2>5. Passed' /\ Ended'
    BY <1>2, <2>1, <2>2, <2>3, <2>4, EngineAssumption DEF Passed, Ended, Allowed
  <2> QED
    BY <2>2, <2>4, <2>5 DEF EngineInv
<1>8. CASE SubmitAccepted \/ RunCommands
  <2>1. /\ pc = "submit" /\ pc' = "snapshot" /\ hook' = hook /\ force' = force
        /\ hooked' = hooked /\ result' = result
        /\ \/ history' = [history EXCEPT !.disturbed = FALSE, !.touched = TRUE]
           \/ history' = [history EXCEPT !.touched = TRUE]
    BY <1>8 DEF SubmitAccepted, RunCommands, Take, request, outcome
  <2>2. /\ history' \in H /\ history'.verified = history.verified
        /\ history'.preOk = history.preOk
    BY <1>1, <2>1
  <2>3. Allowed /\ HooksPassed
    BY <2>1 DEF EngineInv, Passed
  <2>4. Passed' /\ Ended'
    BY <1>2, <2>1, <2>2, <2>3 DEF Passed, Ended, Allowed, HooksPassed
  <2> QED
    BY <1>3, <2>1, <2>2, <2>4 DEF EngineInv, Phases
<1>9. CASE SubmitRefused
  <2>1. PICK refusal : /\ Failed(Classified(refusal))
                       /\ history' = [history EXCEPT !.stale = (refusal = "stale")]
    BY <1>9 DEF SubmitRefused
  <2>2. ~history.touched
    BY <1>2, <1>9 DEF SubmitRefused
  <2>3. (refusal = "stale") \in BOOLEAN
    OBVIOUS
  <2>4. \E stale \in BOOLEAN : history' = [history EXCEPT !.stale = stale]
    BY <2>1, <2>3
  <2> QED
    BY <1>1, <2>1, <2>2, <2>4, LaterPhaseEntered
<1>10. CASE NothingToRun \/ CommandsFail
  <2>1. /\ ~history.touched /\ history' = history
        /\ (\E why : Failed(why)) \/ (\E t : Applied(t))
    BY <1>2, <1>10 DEF NothingToRun, CommandsFail
  <2> QED
    BY <1>1, <2>1, LaterPhaseEntered
<1>11. CASE Snapshot
  BY <1>1, <1>11, LaterPhaseEntered DEF Snapshot
<1> QED
  BY <1>4, <1>5, <1>6, <1>7, <1>8, <1>9, <1>10, <1>11

LEMMA HooksGoOn ==
    ASSUME EngineInv, StartHook \/ SuperviseHook \/ HookProceeds \/ FinishHook
    PROVE  EngineInv'
<1> DEFINE H == [disturbances : Nat, disturbed : BOOLEAN, verified : BOOLEAN, preOk : Int,
                 touched : BOOLEAN, stale : BOOLEAN]
<1>1. /\ pc' = pc /\ force' = force /\ hooked' = hooked /\ result' = result
  BY DEF StartHook, SuperviseHook, HookProceeds, FinishHook, request, outcome
<1>2. CASE StartHook \/ SuperviseHook \/ HookProceeds
  <2>1. history' = history /\ left' = left /\ hooksOk' = hooksOk
    BY <1>2 DEF StartHook, SuperviseHook, HookProceeds
  <2>2. hook' \in HookType /\ (Descendants <= MaxDescendants)'
    BY <1>2, NewHookType, HookMoves DEF StartHook, SuperviseHook, HookProceeds, EngineInv
  <2>3. hook'.pc # "idle" => pc \in Phases /\ left > 0
    <3>1. CASE StartHook
      BY <3>1 DEF StartHook
    <3>2. CASE SuperviseHook \/ HookProceeds
      BY <3>2, HookMoves DEF SuperviseHook, HookProceeds, EngineInv, HooksInPhase
    <3> QED
      BY <1>2, <3>1, <3>2
  <2>4. HooksInPhase' /\ Passed' /\ Ended'
    BY <1>1, <2>1, <2>3
       DEF EngineInv, HooksInPhase, Passed, Ended, Allowed, HooksPassed
  <2> QED
    BY <2>1, <2>2, <2>4 DEF EngineInv
<1>3. CASE FinishHook
  <2>1. /\ left' = left - 1 /\ hooksOk' = (hooksOk /\ HookSuccess) /\ hook' = NoHook
        /\ history' = [history EXCEPT !.preOk = @ + (IF pc = "pre" /\ HookSuccess THEN 1 ELSE 0)]
        /\ pc \in Phases /\ left \in Nat /\ left > 0
    BY <1>3 DEF FinishHook, HookReported, EngineInv, HooksInPhase
  <2>2. /\ history' \in H /\ history'.touched = history.touched
        /\ history'.verified = history.verified
        /\ history'.preOk = history.preOk + (IF pc = "pre" /\ HookSuccess THEN 1 ELSE 0)
    <3>1. history \in H /\ (IF pc = "pre" /\ HookSuccess THEN 1 ELSE 0) \in Int
      BY DEF EngineInv
    <3> QED
      BY <2>1, <3>1
  <2>3. HooksInPhase' /\ hook' \in HookType /\ (Descendants <= MaxDescendants)'
    BY <1>1, <2>1, NoHookType DEF HooksInPhase, Descendants
  <2>4. Passed'
    <3>1. CASE pc = "pre"
      <4>1. hooked /\ Allowed /\ (hooksOk => history.preOk = PreHooks - left)
        BY <2>1, <3>1 DEF EngineInv, Passed
      <4>2. hooksOk' => hooksOk /\ HookSuccess
        BY <2>1
      <4>3. hooksOk' => history'.preOk = PreHooks - left'
        BY <2>1, <2>2, <3>1, <4>1, <4>2, EngineAssumption
      <4> QED
        BY <1>1, <2>2, <3>1, <4>1, <4>3 DEF Passed, Allowed
    <3>2. CASE pc # "pre"
      BY <1>1, <2>1, <3>2 DEF Passed, Phases
    <3> QED
      BY <3>1, <3>2
  <2>5. Ended'
    <3>1. history.touched => pc = "post"
      BY <2>1 DEF EngineInv, Ended, Phases
    <3>2. history.touched => history'.preOk = history.preOk
      BY <2>2, <3>1 DEF EngineInv
    <3> QED
      BY <1>1, <2>2, <3>1, <3>2 DEF EngineInv, Ended, Allowed, HooksPassed
  <2> QED
    BY <2>2, <2>3, <2>4, <2>5 DEF EngineInv
<1> QED
  BY <1>2, <1>3

LEMMA OthersInterfere ==
    ASSUME EngineInv, Desktop
    PROVE  EngineInv'
<1>1. /\ \E disturbed \in BOOLEAN : history' = [history EXCEPT !.disturbances = @ + 1,
                                                        !.disturbed = disturbed]
      /\ pc' = pc /\ left' = left /\ hooksOk' = hooksOk /\ hook' = hook /\ result' = result
      /\ force' = force /\ hooked' = hooked
  <2>1. Disturb
    BY DEF Desktop, MonitorsChange, OutputsChange
  <2>2. (history.disturbed \/ pc \in {"verify", "submit", "snapshot"}) \in BOOLEAN
    OBVIOUS
  <2>3. history' = [history EXCEPT !.disturbances = @ + 1,
                        !.disturbed = @ \/ pc \in {"verify", "submit", "snapshot"}]
    BY <2>1 DEF Disturb
  <2> QED
    BY <2>1, <2>2, <2>3 DEF Disturb, request, outcome
<1>2. /\ history'.touched = history.touched /\ history'.verified = history.verified
      /\ history'.preOk = history.preOk
      /\ history' \in [disturbances : Nat, disturbed : BOOLEAN, verified : BOOLEAN, preOk : Int,
                       touched : BOOLEAN, stale : BOOLEAN]
  <2>1. history \in [disturbances : Nat, disturbed : BOOLEAN, verified : BOOLEAN, preOk : Int,
                     touched : BOOLEAN, stale : BOOLEAN]
    BY DEF EngineInv
  <2>2. history.disturbances + 1 \in Nat
    BY <2>1
  <2>3. PICK disturbed \in BOOLEAN :
          history' = [history EXCEPT !.disturbances = history.disturbances + 1,
                                     !.disturbed = disturbed]
    BY <1>1
  <2> QED
    BY <2>1, <2>2, <2>3
<1>3. HooksInPhase' /\ Passed' /\ Ended'
  BY <1>1, <1>2 DEF EngineInv, HooksInPhase, Passed, Ended, Allowed, HooksPassed
<1>4. hook' \in HookType /\ (Descendants <= MaxDescendants)'
  BY <1>1 DEF EngineInv, Descendants
<1> QED
  BY <1>2, <1>3, <1>4 DEF EngineInv

LEMMA EngineStep == EngineInv /\ [Next]_vars => EngineInv'
<1> SUFFICES ASSUME EngineInv, [Next]_vars
             PROVE  EngineInv'
  OBVIOUS
<1>1. CASE Attempt
  BY <1>1, AttemptEndsSoundly, AttemptGoesOn, HooksGoOn DEF Attempt
<1>2. CASE HookProceeds
  BY <1>2, HooksGoOn
<1>3. CASE Desktop
  BY <1>3, OthersInterfere
<1>4. CASE UNCHANGED vars
  <2>1. /\ history' = history /\ pc' = pc /\ left' = left /\ hooksOk' = hooksOk /\ hook' = hook
        /\ result' = result /\ force' = force /\ hooked' = hooked
    BY <1>4 DEF vars, request, outcome
  <2> QED
    BY <2>1
       DEF EngineInv, HooksInPhase, Passed, Ended, Allowed, HooksPassed, Descendants
<1> QED
  BY <1>1, <1>2, <1>3, <1>4 DEF Next

LEMMA EngineInvariant == Spec => []EngineInv
BY EngineInit, EngineStep, PTL DEF Spec

(* No attempt changes the displays unless the compositor has accepted the  *)
(* plan in it or the user forced it, and then only after every pre-apply   *)
(* hook of the plan has ended by itself, in time and with status 0         *)
(* (apply_plan_cycle and the hooks it runs).                               *)
THEOREM ChangesAreAlwaysGated == Spec => []ChangesAreGated
<1>1. EngineInv => ChangesAreGated
  BY DEF EngineInv, Ended, Allowed, HooksPassed, ChangesAreGated
<1> QED
  BY <1>1, EngineInvariant, PTL

(* An attempt that ends as failed, rejected or unsupported has changed     *)
(* nothing (the outcomes of apply_plan_cycle).                             *)
THEOREM FailuresChangeNothing == Spec => []FailureChangesNothing
<1>1. EngineInv => FailureChangesNothing
  BY DEF EngineInv, Ended, FailureChangesNothing
<1> QED
  BY <1>1, EngineInvariant, PTL

----------------------------------------------------------------------------
(* What GNOME is asked. *)

(* Outputs are grouped in a total order of their own. *)
LEMMA GroupsBeforeOrders ==
    ASSUME NEW layout, NEW S \in SUBSET Connectors
    PROVE  /\ \A c \in S : ~GroupsBefore(layout, c, c)
           /\ \A c, d \in S : c # d => GroupsBefore(layout, c, d) \/ GroupsBefore(layout, d, c)
           /\ \A c, d, e \in S :
                GroupsBefore(layout, c, d) /\ GroupsBefore(layout, d, e)
                    => GroupsBefore(layout, c, e)
<1>1. /\ \A c \in S : Rank[c] \in Nat
      /\ \A c, d \in S : c # d => Rank[c] # Rank[d]
  BY RankAssumption
<1> QED
  BY <1>1 DEF GroupsBefore

(* A group lists its members, each of them and nothing else. *)
LEMMA GroupLists ==
    ASSUME NEW layout, Lit(layout) \subseteq Connectors, NEW root
    PROVE  \A c : GroupContains(Group(layout, root), c) <=> c \in Members(layout, root)
<1> DEFINE S      == Members(layout, root)
           before == [c \in S |-> {d \in S : GroupsBefore(layout, d, c)}]
           group  == InOrder(S, before)
<1>1. S \in SUBSET Connectors /\ IsFiniteSet(S)
  <2>1. S \in SUBSET Connectors
    BY DEF Members
  <2> HIDE DEF S
  <2> QED
    BY <2>1, EngineAssumption, FS_Subset
<1>2. /\ before \in [S -> SUBSET S]
      /\ \A c, d \in S : c \in before[d] <=> GroupsBefore(layout, c, d)
  OBVIOUS
<1>3. Group(layout, root) = group
  BY DEF Group
<1>4. /\ DOMAIN group = 1..Cardinality(S)
      /\ \A i \in DOMAIN group : group[i] \in S
      /\ \A c \in S : \E i \in DOMAIN group : group[i] = c
  <2> HIDE DEF before, S
  <2>1. /\ \A c \in S : c \notin before[c]
        /\ \A c, d \in S : c # d => c \in before[d] \/ d \in before[c]
        /\ \A c, d, e \in S : c \in before[d] /\ d \in before[e] => c \in before[e]
    BY <1>1, <1>2, GroupsBeforeOrders
  <2> QED
    BY <1>1, <1>2, <2>1, InOrderLists
<1> HIDE DEF S, group
<1>5. \A c : GroupContains(group, c) <=> c \in S
  BY <1>4 DEF GroupContains
<1> QED
  BY <1>3, <1>5 DEF S

(* Every request made of a plan lists each lit output in one logical       *)
(* monitor, nothing else, and one of them is primary.                      *)
LEMMA RequestsAreOrderly ==
    ASSUME NEW s, NEW layout, Lit(layout) \subseteq Connectors,
           NEW r \in BuildApplyConfig(s, layout)
    PROVE  /\ Lit(layout) # {} => Cardinality({l \in r.logical : l.primary}) = 1
           /\ \A c \in Lit(layout) : Cardinality({l \in r.logical : Shows(l, c)}) = 1
           /\ \A l \in r.logical, c \in Connectors : Shows(l, c) => c \in Lit(layout)
<1> DEFINE roots   == {RootOf(layout, c) : c \in Lit(layout)}
           Made(p) == [root \in roots |-> LogicalMonitorTuple(s, layout, root, p)]
<1>1. SelectPrimary(s, layout) \subseteq Lit(layout)
  BY DEF SelectPrimary
<1>2. PICK p : /\ r.logical = {LogicalMonitorTuple(s, layout, root, p) : root \in roots}
               /\ Lit(layout) # {} => p \in Lit(layout)
  BY <1>1 DEF BuildApplyConfig
<1> DEFINE made == Made(p)
<1>3. \A l : l \in r.logical <=> \E root \in roots : l = made[root]
  BY <1>2
<1>4. ASSUME NEW root \in roots
      PROVE  /\ made[root].primary <=> p \in Members(layout, root)
             /\ \A c : Shows(made[root], c) <=> c \in Members(layout, root)
  <2> DEFINE group == Group(layout, root)
             head  == group[1]
             mode  == s.monitors[head].modes[ModeIn(s, layout, head)]
             xform == Xform(ResolveScale(mode, layout[head].xform.scale),
                            layout[head].xform.transform)
             lists == GroupContains(group, p)
             pos   == layout[head].pos
  <2>1. made[root] = LogicalMonitorTuple(s, layout, root, p)
    OBVIOUS
  <2>2. LogicalMonitorTuple(s, layout, root, p) =
          [pos |-> pos, xform |-> xform, primary |-> lists, connectors |-> group]
    BY DEF LogicalMonitorTuple
  <2>3. \A c : GroupContains(group, c) <=> c \in Members(layout, root)
    BY GroupLists
  <2>4. lists <=> p \in Members(layout, root)
    BY <2>3
  <2> HIDE DEF made, pos, xform, lists, group
  <2>5. made[root].primary = lists /\ made[root].connectors = group
    BY <2>1, <2>2
  <2> QED
    BY <2>3, <2>4, <2>5 DEF Shows
<1>5. \A root, c : c \in Members(layout, root) <=> c \in Lit(layout) /\ RootOf(layout, c) = root
  BY DEF Members
<1>6. \A c \in Lit(layout) : RootOf(layout, c) \in roots
  OBVIOUS
<1> HIDE DEF made, roots
<1>7. ASSUME NEW c \in Lit(layout)
      PROVE  Cardinality({l \in r.logical : Shows(l, c)}) = 1
  <2>1. {l \in r.logical : Shows(l, c)} = {made[RootOf(layout, c)]}
    BY <1>3, <1>4, <1>5, <1>6
  <2> QED
    BY <2>1, FS_Singleton
<1>8. ASSUME Lit(layout) # {}
      PROVE  Cardinality({l \in r.logical : l.primary}) = 1
  <2>1. p \in Lit(layout)
    BY <1>2, <1>8
  <2>2. {l \in r.logical : l.primary} = {made[RootOf(layout, p)]}
    BY <1>3, <1>4, <1>5, <1>6, <2>1
  <2> QED
    BY <2>2, FS_Singleton
<1>9. ASSUME NEW l \in r.logical, NEW c \in Connectors, Shows(l, c)
      PROVE  c \in Lit(layout)
  BY <1>3, <1>4, <1>5, <1>9
<1> QED
  BY <1>7, <1>8, <1>9

(* A plan is made for connectors Mutter has reported, or for those of a    *)
(* saved profile.                                                          *)
PlanInv ==
    /\ DOMAIN mutter.monitors \subseteq Connectors
    /\ kind = "gnome" => DOMAIN plan \subseteq Connectors
    /\ pc = "connect" => plan = <<>>

LEMMA PlanInit == Init => PlanInv
BY EngineAssumption DEF Init, PlanInv, IsMutterState

LEMMA PlanKept ==
    ASSUME PlanInv, plan' = plan, kind' = kind, pc' = "connect" => pc = "connect",
           DOMAIN mutter'.monitors \subseteq Connectors
    PROVE  PlanInv'
BY DEF PlanInv

(* What Mutter makes of a request has the monitors it had. *)
LEMMA ReconfiguredMonitors ==
    ASSUME NEW s, NEW r
    PROVE  DOMAIN Reconfigured(s, r).monitors = DOMAIN s.monitors
BY DEF Reconfigured

LEMMA PlanStep == PlanInv /\ [Next]_vars => PlanInv'
<1> SUFFICES ASSUME PlanInv, [Next]_vars
             PROVE  PlanInv'
  OBVIOUS
<1> USE DEF request, desktop
<1>1. DOMAIN mutter.monitors \subseteq Connectors
  BY DEF PlanInv
<1>2. CASE Connect
  <2>1. plan = <<>> /\ plan' = plan /\ mutter' = mutter /\ pc' # "connect"
    BY <1>2 DEF Connect, PlanInv
  <2> QED
    BY <1>1, <2>1 DEF PlanInv
<1>3. CASE MakePlan
  <2>1. kind' = kind /\ mutter' = mutter /\ pc' = "validate"
    BY <1>3 DEF MakePlan
  <2>2. ASSUME kind = "gnome" PROVE DOMAIN plan' \subseteq Connectors
    <3>1. CASE plan' \in Profiles
      BY <3>1, EngineAssumption DEF IsTopology
    <3>2. CASE \E p \in SetPresets : plan' \in PresetPlans(p, Showing, NoValue)
      <4>1. PICK p \in VirtualPresets : plan' \in PresetPlans(p, Showing, NoValue)
        BY <3>2, EngineAssumption
      <4>2. DOMAIN plan' \subseteq DOMAIN Showing
        BY <4>1, PresetPlanKeys
      <4>3. DOMAIN Showing = DOMAIN mutter.monitors
        BY <2>2 DEF Showing, ExportGnome
      <4> QED
        BY <1>1, <4>2, <4>3
    <3> QED
      BY <1>3, <3>1, <3>2 DEF MakePlan
  <2> QED
    BY <1>1, <2>1, <2>2 DEF PlanInv
<1>4. CASE SubmitAccepted \/ SubmitUnanswered
  <2>1. PICK r : mutter' = Reconfigured(mutter, r)
    BY <1>4 DEF SubmitAccepted, SubmitUnanswered, Take
  <2>2. plan' = plan /\ kind' = kind /\ pc' # "connect"
    BY <1>4 DEF SubmitAccepted, SubmitUnanswered, End
  <2> QED
    BY <1>1, <2>1, <2>2, ReconfiguredMonitors, PlanKept
<1>5. CASE MonitorsChange
  <2>1. PICK s \in MutterSetups : mutter' = [s EXCEPT !.serial = mutter.serial + 1]
    BY <1>5 DEF MonitorsChange
  <2>2. DOMAIN mutter'.monitors \subseteq Connectors
    <3>1. mutter'.monitors = s.monitors
      BY <2>1
    <3> QED
      BY <3>1, EngineAssumption DEF IsMutterState
  <2>3. plan' = plan /\ kind' = kind /\ pc' = pc
    BY <1>5 DEF MonitorsChange, Disturb
  <2> QED
    BY <2>2, <2>3, PlanKept
<1>6. ASSUME mutter' = mutter, plan' = plan, kind' = kind, pc' = "connect" => pc = "connect"
      PROVE  PlanInv'
  BY <1>1, <1>6, PlanKept
<1>7. CASE NoPlan \/ DesktopSilent \/ VerifyRefused \/ LaterHooksDone
  BY <1>6, <1>7 DEF NoPlan, DesktopSilent, VerifyRefused, LaterHooksDone, End
<1>8. CASE ValidateUnsupported \/ VerifyAccepted \/ PreHooksDone
  BY <1>6, <1>8 DEF ValidateUnsupported, VerifyAccepted, PreHooksDone, End, EnterPhase
<1>9. CASE ReadMutter \/ ReadKScreen
  BY <1>6, <1>9 DEF ReadMutter, ReadKScreen
<1>10. CASE StartHook \/ SuperviseHook \/ HookProceeds \/ FinishHook
  BY <1>6, <1>10 DEF StartHook, SuperviseHook, HookProceeds, FinishHook
<1>11. CASE SubmitRefused \/ NothingToRun \/ CommandsFail \/ Snapshot
  BY <1>6, <1>11
     DEF SubmitRefused, NothingToRun, CommandsFail, Snapshot, Failed, Applied, EnterPhase
<1>12. CASE RunCommands
  BY <1>6, <1>12 DEF RunCommands
<1>13. CASE OutputsChange
  BY <1>6, <1>13 DEF OutputsChange, Disturb
<1>14. CASE UNCHANGED vars
  BY <1>6, <1>14 DEF vars
<1> QED
  BY <1>2, <1>3, <1>4, <1>5, <1>7, <1>8, <1>9, <1>10, <1>11, <1>12, <1>13, <1>14
     DEF Next, Attempt, Desktop

(* Every request that is made of a plan on GNOME names one primary         *)
(* monitor and shows each lit display once and nothing else, whatever was  *)
(* read before (build_apply_config, build_logical_groups and               *)
(* select_primary_connector).                                              *)
THEOREM RequestsNameOnePrimary == Spec => []OnePrimary
<1>1. Spec => []PlanInv
  BY PlanInit, PlanStep, PTL DEF Spec
<1>2. PlanInv => OnePrimary
  <2> SUFFICES ASSUME PlanInv, kind = "gnome", NEW r \in Requests
               PROVE  /\ Lit(plan) # {} => Cardinality({l \in r.logical : l.primary}) = 1
                      /\ \A c \in Lit(plan) : Cardinality({l \in r.logical : Shows(l, c)}) = 1
                      /\ \A l \in r.logical, c \in Connectors : Shows(l, c) => c \in Lit(plan)
    BY DEF OnePrimary
  <2>1. Lit(plan) \subseteq Connectors
    BY DEF PlanInv, Lit
  <2> QED
    BY <2>1, RequestsAreOrderly DEF Requests
<1> QED
  BY <1>1, <1>2, PTL
=============================================================================
