------------------------------- MODULE Loader -------------------------------
(***************************************************************************)
(* Which backend a process uses: crates/backend-loader/src/lib.rs.         *)
(*                                                                         *)
(* A session is what the environment variables of the process say of it:   *)
(* whether one of the desktop names has kde or plasma in it, whether one   *)
(* has gnome in it, and WAYTORANDR_BACKEND ("none" when it is not set).    *)
(***************************************************************************)
LOCAL INSTANCE Naturals

Kinds == {"gnome", "kscreen", "wlroots"}

Sessions ==
    [kde : BOOLEAN, gnome : BOOLEAN, override : Kinds \cup {"unknown", "none"}]

(* priority_for: the lower, the earlier. *)
GnomePriority    == [kind \in Kinds |->
    CASE kind = "gnome" -> 0 [] kind = "kscreen" -> 2 [] kind = "wlroots" -> 1]
KdePriority      == [kind \in Kinds |->
    CASE kind = "gnome" -> 2 [] kind = "kscreen" -> 0 [] kind = "wlroots" -> 1]
FallbackPriority == [kind \in Kinds |->
    CASE kind = "gnome" -> 2 [] kind = "kscreen" -> 1 [] kind = "wlroots" -> 0]

PriorityFor(session) ==
    IF session.kde THEN KdePriority ELSE IF session.gnome THEN GnomePriority ELSE FallbackPriority

(* An override leaves one backend to try; one that is no backend, none. *)
Candidates(session) ==
    IF session.override = "none" THEN Kinds ELSE {session.override} \cap Kinds

(* Of the backends that answer, the first; "none" if none does. *)
ConnectBackend(session, answering) ==
    LET open == Candidates(session) \cap answering
    IN  IF open = {} THEN "none"
        ELSE CHOOSE kind \in open : \A other \in open :
                PriorityFor(session)[kind] <= PriorityFor(session)[other]
=============================================================================
