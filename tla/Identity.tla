------------------------------ MODULE Identity ------------------------------
(***************************************************************************)
(* What waytorandr knows of a display and how it compares two displays:    *)
(* crates/core/src/model/identity.rs.                                      *)
(*                                                                         *)
(* A text field holds NoValue when it is absent or a placeholder           *)
(* ("unknown", "n/a", ...): the code normalises every field it compares,   *)
(* so the two are the same to it.  The flags is_virtual and is_ignored are *)
(* only ever read together, as "this output is not a real display"; `real` *)
(* is the negation of their disjunction.                                   *)
(***************************************************************************)
EXTENDS Naturals, Sequences

CONSTANTS
    Connectors,   \* connector names ("eDP-1", "DP-1", ...)
    Texts,        \* values of the other identity fields
    NoValue       \* an absent field (None)

ASSUME NoValueAssumption == NoValue \notin Connectors /\ NoValue \notin Texts

Opt(S) == S \cup {NoValue}

OutputIdentity ==
    [edid : Opt(Texts), make : Opt(Texts), model : Opt(Texts), serial : Opt(Texts),
     connector : Opt(Connectors), description : Opt(Texts), real : BOOLEAN]

(* The identity OutputIdentity::new gives an output: its connector alone. *)
NewIdentity(c) ==
    [edid |-> NoValue, make |-> NoValue, model |-> NoValue, serial |-> NoValue,
     connector |-> c, description |-> NoValue, real |-> TRUE]

Present(v) == v # NoValue

(* The key that stands for the display in setup fingerprints.  The values  *)
(* of the second form are joined without their field names: two displays   *)
(* that have the same values in different fields have the same key.        *)
PrimaryKey(id) ==
    LET parts == SelectSeq(<<id.make, id.model, id.serial>>, Present)
    IN  CASE Present(id.edid)        -> [kind |-> "edid", parts |-> <<id.edid>>]
          [] ~Present(id.edid) /\ parts # <<>>
                                     -> [kind |-> "id", parts |-> parts]
          [] ~Present(id.edid) /\ parts = <<>> /\ Present(id.connector)
                                     -> [kind |-> "conn", parts |-> <<id.connector>>]
          [] OTHER                   -> [kind |-> "text", parts |-> <<id.description>>]

Weight(v, w) == IF Present(v) THEN w ELSE 0

(* How much an identity says: the tie-breaker between candidate outputs. *)
MatchStrength(id) ==
    Weight(id.edid, 5) + Weight(id.make, 2) + Weight(id.model, 2)
        + Weight(id.serial, 3) + Weight(id.connector, 1)

(* The contribution of one matched rule to a profile's score. *)
MatchScore(id) ==
    Weight(id.edid, 100) + Weight(id.make, 10) + Weight(id.model, 10)
        + Weight(id.serial, 20) + Weight(id.connector, 5)

Choose(primary, fallback) == IF Present(primary) THEN primary ELSE fallback

(* Field by field: what the display did not report is taken from the       *)
(* identity cached for its connector.                                      *)
WithFallback(id, fallback) ==
    [id EXCEPT !.edid        = Choose(@, fallback.edid),
               !.make        = Choose(@, fallback.make),
               !.model       = Choose(@, fallback.model),
               !.serial      = Choose(@, fallback.serial),
               !.connector   = Choose(@, fallback.connector),
               !.description = Choose(@, fallback.description)]

Agree(a, b) == Present(a) /\ Present(b) => a = b

SamePresent(a, b) == Present(a) /\ a = b

IsEmptyIdentity(id) ==
    \A v \in {id.make, id.model, id.serial, id.connector, id.description} : ~Present(v)

(* Whether the candidate may be the display the query describes.  Not      *)
(* symmetric: the query decides which fields count.                        *)
IdentitiesMatch(query, candidate) ==
    IF Present(query.edid)
    THEN candidate.edid = query.edid
    ELSE /\ Agree(query.make, candidate.make)
         /\ Agree(query.model, candidate.model)
         /\ Agree(query.serial, candidate.serial)
         /\ IF Present(query.serial)
            THEN Present(candidate.serial)
            ELSE \/ SamePresent(query.connector, candidate.connector)
                 \/ SamePresent(query.description, candidate.description)
                 \/ IsEmptyIdentity(query)
=============================================================================
