----------------------------- MODULE AtomicStore -----------------------------
(***************************************************************************)
(* What a store file (state.toml, waytorandr.json) promises the processes  *)
(* that update it: an update is applied to the latest contents and becomes *)
(* visible as a whole, and when its caller is told that it was saved it    *)
(* survives a loss of power.                                               *)
(*                                                                         *)
(* The contents of the file are abstracted to the set of updates that made *)
(* it what it is.                                                          *)
(***************************************************************************)
CONSTANT Updates

VARIABLES
    contents,   \* the updates the file reflects
    safe,       \* those of them that a loss of power cannot undo
    saved       \* the updates whose callers were told that they were saved

vars == <<contents, safe, saved>>

Init == contents = {} /\ safe = {} /\ saved = {}

Apply(u) ==
    /\ contents' = contents \cup {u}
    /\ UNCHANGED <<safe, saved>>

Harden ==
    /\ safe' = contents
    /\ UNCHANGED <<contents, saved>>

Acknowledge(u) ==
    /\ u \in safe
    /\ saved' = saved \cup {u}
    /\ UNCHANGED <<contents, safe>>

(* Updates that nobody was told of may be lost. *)
PowerLoss ==
    /\ contents' \in SUBSET contents
    /\ safe \subseteq contents'
    /\ safe' = contents'
    /\ UNCHANGED saved

Next ==
    \/ \E u \in Updates : Apply(u) \/ Acknowledge(u)
    \/ Harden
    \/ PowerLoss

Spec == Init /\ [][Next]_vars
=============================================================================
