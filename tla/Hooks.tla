------------------------------- MODULE Hooks -------------------------------
(***************************************************************************)
(* One hook: the process waytorandr starts for it, what that process may   *)
(* do, and how waytorandr waits for it (crates/core/src/engine/hooks.rs,   *)
(* execute_hook and timeout_hook_result).                                  *)
(*                                                                         *)
(* The hook's output goes to a pipe that is read only after the process    *)
(* has ended, and read to its end: until every process that holds the pipe *)
(* has closed it.                                                          *)
(***************************************************************************)
LOCAL INSTANCE Naturals

CONSTANTS
    PipeSize,         \* how much output the pipe takes while nobody reads it
    MaxDescendants    \* bound on the processes a hook leaves behind

ASSUME HooksAssumption == PipeSize \in Nat /\ MaxDescendants \in Nat

VARIABLE hook   \* the hook being run; see HookType

HookType ==
    [pc       : {"idle", "running", "draining", "reported"},
     child    : {"none", "running", "writing", "exited", "killed"},
     zero     : BOOLEAN,               \* the child exited with status 0
     timedOut : BOOLEAN,
     piped    : 0..PipeSize,           \* output in the pipe
     holders  : 0..MaxDescendants,     \* descendants that hold the pipe open
     strays   : 0..MaxDescendants]     \* descendants that run on without it

NoHook ==
    [pc |-> "idle", child |-> "none", zero |-> FALSE, timedOut |-> FALSE, piped |-> 0,
     holders |-> 0, strays |-> 0]

HookReported == hook.pc = "reported"

(* HookResult::success: the process ended by itself, with status 0. *)
HookSuccess == HookReported /\ hook.child = "exited" /\ hook.zero /\ ~hook.timedOut

----------------------------------------------------------------------------
(* waytorandr. *)

Spawn == hook' = [NoHook EXCEPT !.pc = "running", !.child = "running"]

SpawnFails == hook' = [NoHook EXCEPT !.pc = "reported"]

(* try_wait sees that the child has ended; its output is collected. *)
SeesExit ==
    /\ hook.pc = "running" /\ hook.child = "exited"
    /\ hook' = [hook EXCEPT !.pc = "draining"]

(* Mutant: only a child that is not writing is timed out. *)
TimesOutSilent ==
    /\ hook.pc = "running" /\ hook.child # "writing"
    /\ hook' = [hook EXCEPT !.pc = "draining", !.timedOut = TRUE,
                            !.child = IF @ = "exited" THEN @ ELSE "killed"]

(* The child had not ended when the code looked, and the time is up.  It   *)
(* alone is killed; it may just have ended by itself.                      *)
TimesOut ==
    /\ hook.pc = "running"
    /\ hook' = [hook EXCEPT !.pc = "draining", !.timedOut = TRUE,
                            !.child = IF @ = "exited" THEN @ ELSE "killed"]

(* wait_with_output has read the pipe to its end. *)
Drained ==
    /\ hook.pc = "draining" /\ hook.holders = 0
    /\ hook' = [hook EXCEPT !.pc = "reported", !.piped = 0]

Supervise == SeesExit \/ TimesOut \/ Drained

----------------------------------------------------------------------------
(* The processes of the hook. *)

Descendants == hook.holders + hook.strays

ChildStarts ==
    /\ hook.child = "running" /\ Descendants < MaxDescendants
    /\ hook' = [hook EXCEPT !.holders = @ + 1]

(* Output the pipe has no room for holds the child up. *)
ChildWrites ==
    /\ hook.child = "running"
    /\ hook' = [hook EXCEPT !.child = "writing"]

WriteEnds ==
    /\ hook.child = "writing" /\ hook.piped < PipeSize
    /\ hook' = [hook EXCEPT !.child = "running", !.piped = @ + 1]

ChildExits ==
    /\ hook.child = "running"
    /\ \E zero \in BOOLEAN : hook' = [hook EXCEPT !.child = "exited", !.zero = zero]

(* A descendant puts its output elsewhere and runs on. *)
DescendantDetaches ==
    /\ hook.holders > 0
    /\ hook' = [hook EXCEPT !.holders = @ - 1, !.strays = @ + 1]

DescendantEnds ==
    \/ hook.holders > 0 /\ hook' = [hook EXCEPT !.holders = @ - 1]
    \/ hook.strays > 0 /\ hook' = [hook EXCEPT !.strays = @ - 1]

Proceed ==
    \/ ChildStarts \/ ChildWrites \/ WriteEnds \/ ChildExits
    \/ DescendantDetaches \/ DescendantEnds
=============================================================================
