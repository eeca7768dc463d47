------------------------------ MODULE Matching ------------------------------
(***************************************************************************)
(* Matching a stored profile against a topology and planning its layout:   *)
(* crates/core/src/planning/matcher.rs, planning/normalize.rs,             *)
(* planning/planner.rs, profile.rs and workflow/selection.rs.              *)
(*                                                                         *)
(* A profile's layout and a topology are hash maps.  Where the code makes  *)
(* a list by iterating over one, its order is arbitrary; the operators     *)
(* that do so take the order of iteration, a member of IterationOrders, as *)
(* an argument.                                                            *)
(***************************************************************************)
EXTENDS Topology

CONSTANTS
    ProfileNames,   \* names of stored profiles
    Rank            \* lexicographic order of connector and profile names

ASSUME RankAssumption ==
    /\ Rank \in [Connectors \cup ProfileNames -> Nat]
    /\ \A a, b \in Connectors \cup ProfileNames : Rank[a] = Rank[b] => a = b

RememberedName == "__remembered__"

MatchRule == [id : OutputIdentity, required : BOOLEAN, hint : Opt(Position)]

IterationOrders ==
    {order \in [1..Cardinality(Connectors) -> Connectors] :
        \A i, j \in DOMAIN order : order[i] = order[j] => i = j}

(* The members of S as a list, where before[c] are those that precede c. *)
InOrder(S, before) ==
    [i \in 1..Cardinality(S) |-> CHOOSE c \in S : Cardinality(before[c]) = i - 1]

(* A hash map with the keys S as it is iterated over. *)
Iterated(S, order) ==
    InOrder(S, [c \in S |->
        {d \in S : \E i, j \in DOMAIN order : i < j /\ order[i] = d /\ order[j] = c}])

(* Mutant: a display that is off has no rule. *)
RulesFromLitLayout(layout, order) ==
    LET names == Iterated({c \in RealOutputs(layout) : layout[c].enabled}, order)
    IN  [i \in DOMAIN names |->
            [id |-> layout[names[i]].id, required |-> TRUE, hint |-> layout[names[i]].pos]]

(* A rule for every real output of a layout, in the order of iteration. *)
RulesFromLayout(layout, order) ==
    LET names == Iterated(RealOutputs(layout), order)
    IN  [i \in DOMAIN names |->
            [id |-> layout[names[i]].id, required |-> layout[names[i]].enabled,
             hint |-> layout[names[i]].pos]]

WithInferredMatchRules(p, order) ==
    IF p.rules = <<>> THEN [p EXCEPT !.rules = RulesFromLayout(p.layout, order)] ELSE p

CachedRuleIdentity(id, known) ==
    IF id.connector \in DOMAIN known THEN WithFallback(id, known[id.connector]) ELSE id

(* A profile as every query returns it: with its match rules, and with the *)
(* cached identities filled in.                                            *)
CanonicalizeProfile(p, known, order) ==
    LET inferred == WithInferredMatchRules(p, order)
        Cached(c, id) ==
            IF c \in DOMAIN known THEN WithFallback(id, known[c])
            ELSE CachedRuleIdentity(id, known)
    IN  [inferred EXCEPT
            !.rules  = [i \in DOMAIN inferred.rules |->
                           [inferred.rules[i] EXCEPT !.id = CachedRuleIdentity(@, known)]],
            !.layout = [c \in DOMAIN p.layout |-> [p.layout[c] EXCEPT !.id = Cached(c, @)]]]

ProfileFromTopology(name, t, order) ==
    [name |-> name, priority |-> 0, rules |-> RulesFromLayout(t, order),
     layout |-> t, hooks |-> FALSE]

ProfileSetupFingerprint(p) ==
    IF p.rules = <<>>
    THEN SetupFingerprint(p.layout)
    ELSE KeyCounts([i \in {j \in DOMAIN p.rules : p.rules[j].id.real} |-> p.rules[i].id])

----------------------------------------------------------------------------
(* One rule against a topology. *)

(* Mutant: a display that a rule has taken is offered to the next. *)
OutputCandidatesAll(rule, t, used) ==
    {c \in RealOutputs(t) : IdentitiesMatch(rule.id, t[c].id)}

(* The candidates for a rule: unused real outputs that match.  The hinted  *)
(* position decides, then the strength of the identity, then the name.     *)
OutputCandidates(rule, t, used) ==
    {c \in RealOutputs(t) \ used : IdentitiesMatch(rule.id, t[c].id)}

BetterOutput(rule, t, a, b) ==
    LET hinted(c) == rule.hint = t[c].pos
        strength(c) == MatchStrength(t[c].id)
    IN  \/ hinted(a) /\ ~hinted(b)
        \/ /\ hinted(a) = hinted(b)
           /\ \/ strength(a) > strength(b)
              \/ strength(a) = strength(b) /\ Rank[a] < Rank[b]

FindMatchingOutput(rule, t, used) ==
    CHOOSE c \in OutputCandidates(rule, t, used) :
        \A d \in OutputCandidates(rule, t, used) \ {c} : BetterOutput(rule, t, c, d)

(* Mutant: an entry that a display was given is given to the next. *)
LayoutCandidatesAll(rule, layout, id, used) ==
    {n \in DOMAIN layout :
        IdentitiesMatch(layout[n].id, id) /\ IdentitiesMatch(rule.id, layout[n].id)}

LayoutCandidates(rule, layout, id, used) ==
    {n \in DOMAIN layout \ used :
        IdentitiesMatch(layout[n].id, id) /\ IdentitiesMatch(rule.id, layout[n].id)}

(* Mutant: the first entry by name, wherever its display was. *)
BetterEntryByName(rule, layout, a, b) == Rank[a] < Rank[b]

BetterEntry(rule, layout, a, b) ==
    LET hinted(n) == rule.hint = layout[n].pos
    IN  \/ hinted(a) /\ ~hinted(b)
        \/ hinted(a) = hinted(b) /\ Rank[a] < Rank[b]

FindMatchingLayoutEntry(rule, layout, id, used) ==
    CHOOSE n \in LayoutCandidates(rule, layout, id, used) :
        \A m \in LayoutCandidates(rule, layout, id, used) \ {n} :
            BetterEntry(rule, layout, n, m)

----------------------------------------------------------------------------
(* All rules, in order.  `bound` maps the topology's outputs to the layout *)
(* entries they were given.                                                *)

NothingBound == [bound |-> <<>>, score |-> 0, ok |-> TRUE]

MatchOneRule(p, t, rule, m) ==
    LET outputs == OutputCandidates(rule, t, DOMAIN m.bound)
        output  == FindMatchingOutput(rule, t, DOMAIN m.bound)
        usedNames == {m.bound[c] : c \in DOMAIN m.bound}
        entries == LayoutCandidates(rule, p.layout, t[output].id, usedNames)
        entry   == FindMatchingLayoutEntry(rule, p.layout, t[output].id, usedNames)
    IN  IF outputs = {} THEN [m EXCEPT !.ok = @ /\ ~rule.required]
        ELSE IF entries = {} THEN [m EXCEPT !.ok = FALSE]
        ELSE [bound |-> Put(m.bound, output, entry),
              score |-> m.score + MatchScore(rule.id), ok |-> m.ok]

MatchRules(p, t) ==
    LET match[n \in 0..Len(p.rules)] ==
            IF n = 0 THEN NothingBound
            ELSE IF ~match[n - 1].ok THEN match[n - 1]
            ELSE MatchOneRule(p, t, p.rules[n], match[n - 1])
    IN  match[Len(p.rules)]

ExtraOutputs(p, t) == RealOutputs(t) \ DOMAIN MatchRules(p, t).bound

(* Every required rule found an output and no real output is left over. *)
MatchesExactly(p, t) == MatchRules(p, t).ok /\ ExtraOutputs(p, t) = {}

BetterMatch(t, p, q) ==
    LET score(x) == MatchRules(x, t).score
    IN  \/ score(p) > score(q)
        \/ /\ score(p) = score(q)
           /\ \/ p.priority > q.priority
              \/ p.priority = q.priority /\ Rank[p.name] < Rank[q.name]

(* The profile that comes first among those that match exactly.  There is  *)
(* a choice only between profiles of one name with equal score.            *)
BestExactMatches(t, profiles) ==
    LET matching == {p \in profiles : MatchesExactly(p, t)}
    IN  {p \in matching : \A q \in matching : ~BetterMatch(t, q, p)}

(* The layout of the profile on the outputs it was matched to, each with   *)
(* the identity of the output it goes to.                                  *)
PlanFromProfile(p, t) ==
    LET bound == MatchRules(p, t).bound
    IN  [c \in DOMAIN t \cap DOMAIN bound |-> [p.layout[bound[c]] EXCEPT !.id = t[c].id]]

(* The plan, or nothing when the profile does not match (ProfileMismatch). *)
ProfilePlans(p, t) == IF MatchesExactly(p, t) THEN {PlanFromProfile(p, t)} ELSE {}
=============================================================================
