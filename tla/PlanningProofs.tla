--------------------------- MODULE PlanningProofs ---------------------------
(***************************************************************************)
(* Theorems about Planning.                                                *)
(***************************************************************************)
EXTENDS Planning, OperatorProofs

(* What is reported when the displays are plugged in as k says. *)
Reported(k, t) ==
    /\ k \in Cablings /\ DOMAIN t = DOMAIN k
    /\ IsTopology(t) /\ Unmirrored(t)
    /\ \A c \in DOMAIN t : t[c].id = Reports[k[c]][c]

ProfileInv ==
    profile # NoValue =>
        /\ Reported(owners, profile.layout)
        /\ \E order \in IterationOrders : profile.rules = RulesFromLayout(profile.layout, order)

PlanningInv == Reported(cabling, topology) /\ ProfileInv

----------------------------------------------------------------------------
(* The invariant. *)

LEMMA ShownIsReported ==
    ASSUME NEW k \in Cablings, NEW t \in Shown(k)
    PROVE  Reported(k, t)
<1>1. PICK on \in [DOMAIN k -> BOOLEAN], pos \in [DOMAIN k -> Spots] :
        t = [c \in DOMAIN k |-> Plugged(k, c, on[c], pos[c])]
  BY DEF Shown
<1>2. DOMAIN k \subseteq Connectors /\ k \in [DOMAIN k -> Displays]
  BY PlanningAssumption
<1>3. ASSUME NEW c \in DOMAIN k
      PROVE  t[c] \in OutputState /\ t[c].mirror = NoValue /\ t[c].id = Reports[k[c]][c]
  <2> DEFINE lit == [id |-> Reports[k[c]][c], enabled |-> TRUE, mode |-> Preferred[Offers[k[c]]],
                     modes |-> Offers[k[c]], pos |-> pos[c], xform |-> Drives[k[c]],
                     mirror |-> NoValue]
  <2>1. t[c] = IF on[c] THEN lit ELSE Off(lit)
    BY <1>1 DEF Plugged
  <2>2. /\ Reports[k[c]][c] \in OutputIdentity /\ Offers[k[c]] \in SUBSET Modes
        /\ Drives[k[c]] \in Xforms /\ pos[c] \in Position
    <3>1. k[c] \in Displays /\ c \in Connectors
      BY <1>2
    <3>2. pos[c] \in Spots /\ Spots \subseteq Position
      BY PlanningAssumption
    <3> QED
      BY <3>1, <3>2, PlanningAssumption
  <2>3. Preferred[Offers[k[c]]] \in Opt(Modes)
    BY <2>2, PreferredAssumption
  <2>4. lit \in OutputState
    <3>1. NoValue \in Opt(Connectors) /\ TRUE \in BOOLEAN
      BY DEF Opt
    <3> QED
      BY <2>2, <2>3, <3>1 DEF OutputState
  <2>5. Off(lit) \in OutputState /\ Off(lit).mirror = NoValue /\ Off(lit).id = Reports[k[c]][c]
    <3>1. /\ lit.modes = Offers[k[c]] /\ lit.mirror = NoValue /\ lit.id = Reports[k[c]][c]
          /\ Preferred[lit.modes] \in Opt(Modes)
          /\ Origin \in Position /\ DefaultXform \in Xforms
      BY <2>3, XformAssumption DEF Origin, Position
    <3> HIDE DEF lit
    <3> QED
      BY <2>4, <3>1 DEF Off, OutputState
  <2> QED
    BY <2>1, <2>4, <2>5
<1>4. DOMAIN t = DOMAIN k /\ t \in [DOMAIN t -> OutputState]
  BY <1>1, <1>3
<1> QED
  BY <1>2, <1>3, <1>4 DEF Reported, IsTopology, Unmirrored

LEMMA ConfiguredIsReported ==
    ASSUME NEW k, NEW t, Reported(k, t), NEW plan, Submittable(plan, t)
    PROVE  Reported(k, Configure(t, plan))
<1>1. IsTopology(Configure(t, plan)) /\ DOMAIN Configure(t, plan) = DOMAIN t
  BY ConfigureType DEF Reported
<1>2. Unmirrored(Configure(t, plan))
  BY AppliedPlanHolds DEF Reported
<1>3. \A c \in DOMAIN t : Configure(t, plan)[c].id = t[c].id
  <2>1. IsCache(<<>>)
    BY DEF IsCache
  <2> QED
    BY <2>1, ConfigureKeepsIdentities DEF Reported
<1> QED
  BY <1>1, <1>2, <1>3 DEF Reported

LEMMA InvariantHolds == Spec => []PlanningInv
<1>1. Init => PlanningInv
  BY ShownIsReported DEF Init, PlanningInv, ProfileInv
<1>2. PlanningInv /\ [Next]_vars => PlanningInv'
  <2> SUFFICES ASSUME PlanningInv, [Next]_vars PROVE PlanningInv'
    OBVIOUS
  <2>1. CASE Replug
    <3>1. Reported(cabling', topology')
      BY <2>1, ShownIsReported DEF Replug
    <3> QED
      BY <2>1, <3>1 DEF Replug, PlanningInv, ProfileInv
  <2>2. CASE Save
    <3>1. PICK order \in IterationOrders : profile' = ProfileFromTopology("desk", topology, order)
      BY <2>2 DEF Save
    <3>2. profile'.layout = topology /\ profile'.rules = RulesFromLayout(topology, order)
      BY <3>1 DEF ProfileFromTopology
    <3>3. ProfileInv'
      BY <2>2, <3>2 DEF Save, PlanningInv, ProfileInv
    <3> QED
      BY <2>2, <3>3 DEF Save, PlanningInv
  <2>3. ASSUME NEW plan, Submit(plan) PROVE PlanningInv'
    <3>1. Reported(cabling, Configure(topology, plan))
      BY <2>3, ConfiguredIsReported DEF Submit, PlanningInv
    <3> QED
      BY <2>3, <3>1 DEF Submit, PlanningInv, ProfileInv
  <2>4. CASE SetProfile
    BY <2>3, <2>4 DEF SetProfile
  <2>5. ASSUME NEW p \in SetPresets, SetPreset(p) PROVE PlanningInv'
    BY <2>3, <2>5 DEF SetPreset
  <2>6. CASE UNCHANGED vars
    BY <2>6 DEF vars, PlanningInv, ProfileInv
  <2> QED
    BY <2>1, <2>2, <2>4, <2>5, <2>6 DEF Next
<1> QED
  BY <1>1, <1>2, PTL DEF Spec

----------------------------------------------------------------------------
(* Matching a profile of some displays. *)

(* Displays that are alike are all real or none is. *)
LEMMA AlikeIdentities ==
    ASSUME NEW k, NEW t, Reported(k, t), NEW l, NEW u, Reported(l, u),
           NEW c \in DOMAIN t, NEW d \in DOMAIN u, Alike(k[c], l[d])
    PROVE  /\ t[c].id = Reports[l[d]][c] /\ c \in Connectors /\ l[d] \in Displays
           /\ c \in RealOutputs(t) <=> d \in RealOutputs(u)
<1>1. c \in Connectors /\ d \in Connectors /\ k[c] \in Displays /\ l[d] \in Displays
  BY PlanningAssumption DEF Reported
<1>2. t[c].id = Reports[l[d]][c] /\ u[d].id = Reports[l[d]][d]
  BY <1>1 DEF Reported, Alike
<1>3. Reports[l[d]][c] \in OutputIdentity /\ Reports[l[d]][d] \in OutputIdentity
  BY <1>1, PlanningAssumption
<1>4. Reports[l[d]][c] = [Reports[l[d]][d] EXCEPT !.connector = c,
                                                !.description = Reports[l[d]][c].description]
  BY <1>1, ReportsAssumption, ZenonT(60)
<1>5. Reports[l[d]][c].real = Reports[l[d]][d].real
  BY <1>3, <1>4 DEF OutputIdentity
<1> QED
  BY <1>1, <1>2, <1>5 DEF RealOutputs

LEMMA AlikeIsEquivalence ==
    ASSUME NEW a, NEW b, NEW c
    PROVE  /\ Alike(a, a)
           /\ Alike(a, b) => Alike(b, a)
           /\ Alike(a, b) /\ Alike(b, c) => Alike(a, c)
BY DEF Alike

(* A profile of a topology has a rule for each of its real outputs. *)
LEMMA RulesAreNamed ==
    ASSUME IsFiniteSet(Connectors), NEW p, IsTopology(p.layout), NEW order \in IterationOrders,
           p.rules = RulesFromLayout(p.layout, order)
    PROVE  /\ Len(p.rules) \in Nat
           /\ \E names \in Bijection(1..Len(p.rules), RealOutputs(p.layout)) :
                \A i \in 1..Len(p.rules) :
                    /\ p.rules[i].id = p.layout[names[i]].id
                    /\ p.rules[i].required = p.layout[names[i]].enabled
<1> DEFINE real == RealOutputs(p.layout)
           names == Iterated(real, order)
           n == Cardinality(real)
<1>1. real \in SUBSET Connectors
  BY DEF RealOutputs, IsTopology
<1>2. n \in Nat
  BY <1>1, FS_Subset, FS_CardinalityType
<1>3. DOMAIN names = 1..n /\ names \in Bijection(1..n, real)
  <2> HIDE DEF real, names
  <2>1. DOMAIN names = 1..n /\ names \in Bijection(DOMAIN names, real)
    BY <1>1, IteratedLists DEF names
  <2> QED
    BY <2>1
<1> HIDE DEF names, n
<1>4. p.rules = [i \in 1..n |-> [id |-> p.layout[names[i]].id,
                                 required |-> p.layout[names[i]].enabled,
                                 hint |-> p.layout[names[i]].pos]]
  BY <1>3 DEF RulesFromLayout, names
<1>5. DOMAIN p.rules = 1..n
  BY <1>4
<1>6. Len(p.rules) = n
  BY <1>2, <1>4
<1> QED
  BY <1>2, <1>3, <1>4, <1>6

LEMMA ProfileIsMatchable ==
    ASSUME PlanningInv, profile # NoValue
    PROVE  /\ Matchable(profile, topology)
           /\ \E names \in Bijection(1..Len(profile.rules), RealOutputs(profile.layout)) :
                \A i \in 1..Len(profile.rules) :
                    /\ profile.rules[i].id = profile.layout[names[i]].id
                    /\ profile.rules[i].required = profile.layout[names[i]].enabled
<1>1. /\ IsFiniteSet(Connectors)
      /\ IsTopology(topology) /\ IsTopology(profile.layout)
      /\ \E order \in IterationOrders : profile.rules = RulesFromLayout(profile.layout, order)
  BY PlanningAssumption DEF PlanningInv, ProfileInv, Reported
<1>2. /\ Len(profile.rules) \in Nat
      /\ \E names \in Bijection(1..Len(profile.rules), RealOutputs(profile.layout)) :
            \A i \in 1..Len(profile.rules) :
                /\ profile.rules[i].id = profile.layout[names[i]].id
                /\ profile.rules[i].required = profile.layout[names[i]].enabled
  BY <1>1, RulesAreNamed
<1>3. \A n \in RealOutputs(profile.layout) : profile.layout[n].enabled \in BOOLEAN
  BY <1>1 DEF RealOutputs, IsTopology, OutputState
<1>4. \A i \in 1..Len(profile.rules) : profile.rules[i].required \in BOOLEAN
  <2>1. PICK names \in Bijection(1..Len(profile.rules), RealOutputs(profile.layout)) :
            \A i \in 1..Len(profile.rules) :
                profile.rules[i].required = profile.layout[names[i]].enabled
    BY <1>2
  <2>2. \A i \in 1..Len(profile.rules) : names[i] \in RealOutputs(profile.layout)
    BY <2>1 DEF Bijection, Injection
  <2> QED
    BY <1>3, <2>1, <2>2
<1>5. Matchable(profile, topology)
  BY <1>1, <1>2, <1>4 DEF Matchable, IsTopology
<1> QED
  BY <1>2, <1>5

(* As many of the displays alike to that of a lit entry are given an entry *)
(* as there are entries of such displays: rules that are required find an  *)
(* output each, and where some are not, all displays are here and none is  *)
(* left over.                                                              *)
LEMMA ClassIsCovered ==
    ASSUME PlanningInv, profile # NoValue, Unambiguous, NoneMissing,
           MatchesExactly(profile, topology), NEW n \in RealOutputs(profile.layout),
           profile.layout[n].enabled
    PROVE  LET bound == MatchRules(profile, topology).bound
               A == {m \in DOMAIN owners : Alike(owners[m], owners[n])}
               B == {c \in DOMAIN cabling : Alike(cabling[c], owners[n])}
           IN  /\ IsFiniteSet(A) /\ IsFiniteSet(DOMAIN bound \cap B)
               /\ Cardinality(A) <= Cardinality(DOMAIN bound \cap B)
<1> DEFINE N == Len(profile.rules)
           bound == MatchRules(profile, topology).bound
           A == {m \in DOMAIN owners : Alike(owners[m], owners[n])}
           B == {c \in DOMAIN cabling : Alike(cabling[c], owners[n])}
<1>1. /\ IsFiniteSet(Connectors)
      /\ Reported(cabling, topology) /\ Reported(owners, profile.layout)
      /\ DOMAIN cabling = DOMAIN topology /\ DOMAIN owners = DOMAIN profile.layout
      /\ DOMAIN cabling \subseteq Connectors /\ DOMAIN owners \subseteq Connectors
  BY PlanningAssumption DEF PlanningInv, ProfileInv, Reported, IsTopology
<1>2. IsFiniteSet(A) /\ IsFiniteSet(DOMAIN bound \cap B) /\ IsFiniteSet(B)
  <2>1. A \subseteq Connectors /\ B \subseteq Connectors /\ DOMAIN bound \cap B \subseteq Connectors
    BY <1>1
  <2> QED
    BY <1>1, <2>1, FS_Subset
<1>3. PICK names \in Bijection(1..N, RealOutputs(profile.layout)) :
        \A i \in 1..N : /\ profile.rules[i].id = profile.layout[names[i]].id
                        /\ profile.rules[i].required = profile.layout[names[i]].enabled
  BY ProfileIsMatchable
<1>4. Matchable(profile, topology)
  BY ProfileIsMatchable
<1>5. n \in DOMAIN owners /\ n \in RealOutputs(profile.layout)
  BY <1>1 DEF RealOutputs
<1>6. A \subseteq RealOutputs(profile.layout) /\ B \subseteq RealOutputs(topology)
  <2>1. ASSUME NEW m \in A PROVE m \in RealOutputs(profile.layout)
    BY <1>1, <1>5, AlikeIdentities
  <2>2. ASSUME NEW c \in B PROVE c \in RealOutputs(topology)
    BY <1>1, <1>5, AlikeIdentities
  <2> QED
    BY <2>1, <2>2
<1>7. CASE \A m \in A : profile.layout[m].enabled
  <2> DEFINE R == {i \in 1..N : names[i] \in A}
  <2>1. MatchRules(profile, topology).ok
    BY DEF MatchesExactly
  <2>2. \A i \in R : profile.rules[i].required
    BY <1>3, <1>7
  <2>3. ASSUME NEW i \in 1..N, NEW c \in RealOutputs(topology),
               IdentitiesMatch(profile.rules[i].id, topology[c].id)
        PROVE  i \in R <=> c \in B
    <3>1. names[i] \in RealOutputs(profile.layout) /\ names[i] \in DOMAIN profile.layout
      BY <1>3 DEF Bijection, Injection, RealOutputs
    <3>2. Alike(owners[names[i]], cabling[c])
      BY <1>3, <2>3, <3>1 DEF Unambiguous
    <3>3. c \in DOMAIN cabling /\ names[i] \in DOMAIN owners
      BY <1>1, <3>1 DEF RealOutputs
    <3> QED
      BY <3>2, <3>3, AlikeIsEquivalence
  <2>4. Cardinality(DOMAIN bound \cap B) = Cardinality(R)
    <3>1. FitOnly(profile, topology, R, B) /\ AllRequired(profile, R)
      BY <2>2, <2>3 DEF FitOnly, AllRequired
    <3> HIDE DEF R, B
    <3> QED
      BY <1>4, <2>1, <3>1, RequiredRulesTakeOutputs
  <2>5. Cardinality(R) = Cardinality(A)
    <3> DEFINE g == [i \in R |-> names[i]]
    <3>1. g \in Bijection(R, A)
      <4>1. g \in [R -> A]
        OBVIOUS
      <4>2. \A i, j \in R : g[i] = g[j] => i = j
        BY <1>3 DEF Bijection, Injection, IsInjective
      <4>3. \A m \in A : \E i \in R : g[i] = m
        <5>1. \A m \in A : \E i \in 1..N : names[i] = m
          BY <1>3, <1>6 DEF Bijection, Surjection
        <5> QED
          BY <5>1
      <4> HIDE DEF g, R, A
      <4> QED
        BY <4>1, <4>2, <4>3 DEF Bijection, Injection, IsInjective, Surjection
    <3>2. IsFiniteSet(R)
      <4>1. N \in Nat
        BY <1>4 DEF Matchable
      <4>2. IsFiniteSet(1..N)
        BY <4>1, FS_Interval
      <4>3. R \subseteq 1..N
        OBVIOUS
      <4> HIDE DEF R
      <4> QED
        BY <4>2, <4>3, FS_Subset
    <3> HIDE DEF g, R, A
    <3> QED
      BY <3>1, <3>2, FS_Bijection DEF ExistsBijection
  <2>6. Cardinality(A) \in Nat
    BY <1>2, FS_CardinalityType
  <2> QED
    BY <1>2, <2>4, <2>5, <2>6
<1>8. ASSUME NEW m \in A, ~profile.layout[m].enabled
      PROVE  Cardinality(A) <= Cardinality(DOMAIN bound \cap B)
  <2>1. Alike(owners[n], owners[m]) /\ profile.layout[n].enabled # profile.layout[m].enabled
    BY <1>8, AlikeIsEquivalence
  <2>2. n \in DOMAIN profile.layout /\ m \in DOMAIN profile.layout
    BY <1>1, <1>5
  <2>3. Cardinality(A) <= Cardinality(B)
    BY <2>1, <2>2 DEF NoneMissing
  <2>4. RealOutputs(topology) \subseteq DOMAIN bound
    BY DEF MatchesExactly, ExtraOutputs
  <2>5. DOMAIN bound \cap B = B
    BY <1>6, <2>4
  <2> QED
    BY <2>3, <2>5
<1> QED
  BY <1>2, <1>7, <1>8

(* What a profile that matches is bound to is what its displays had. *)
LEMMA MatchGivesBack ==
    ASSUME PlanningInv, profile # NoValue, Unambiguous, MatchesExactly(profile, topology)
    PROVE  LET bound == MatchRules(profile, topology).bound
           IN  /\ bound \in [RealOutputs(topology) -> RealOutputs(profile.layout)]
               /\ OneToOne(bound)
               /\ NoneMissing => CoversLit(bound)
               /\ \A c \in RealOutputs(topology) :
                    /\ Alike(cabling[c], owners[bound[c]])
                    /\ IdentitiesMatch(profile.layout[bound[c]].id, topology[c].id)
<1> DEFINE bound == MatchRules(profile, topology).bound
<1>1. /\ Reported(cabling, topology) /\ Reported(owners, profile.layout)
      /\ DOMAIN cabling = DOMAIN topology /\ DOMAIN owners = DOMAIN profile.layout
  BY DEF PlanningInv, ProfileInv, Reported
<1>2. IsMatch(profile, topology, MatchRules(profile, topology))
  BY ProfileIsMatchable, MatchIsSound
<1>3. DOMAIN bound = RealOutputs(topology)
  BY <1>2 DEF IsMatch, MatchesExactly, ExtraOutputs
<1>4. bound \in [RealOutputs(topology) -> DOMAIN profile.layout] /\ OneToOne(bound)
  BY <1>2, <1>3 DEF IsMatch, OneToOne
<1>5. ASSUME NEW c \in RealOutputs(topology)
      PROVE  /\ Alike(cabling[c], owners[bound[c]])
             /\ bound[c] \in RealOutputs(profile.layout)
             /\ IdentitiesMatch(profile.layout[bound[c]].id, topology[c].id)
  <2>1. bound[c] \in DOMAIN profile.layout /\ c \in DOMAIN topology
    BY <1>4 DEF RealOutputs
  <2>2. IdentitiesMatch(profile.layout[bound[c]].id, topology[c].id)
    BY <1>2, <1>3 DEF IsMatch
  <2>3. Alike(cabling[c], owners[bound[c]])
    BY <2>1, <2>2, AlikeIsEquivalence DEF Unambiguous
  <2>4. c \in RealOutputs(topology) <=> bound[c] \in RealOutputs(profile.layout)
    BY <1>1, <2>1, <2>3, AlikeIdentities
  <2> QED
    BY <2>2, <2>3, <2>4
<1>6. bound \in [RealOutputs(topology) -> RealOutputs(profile.layout)]
  BY <1>4, <1>5
<1>7. ASSUME NoneMissing, NEW n \in RealOutputs(profile.layout), profile.layout[n].enabled
      PROVE  \E c \in DOMAIN bound : bound[c] = n
  <2> DEFINE A == {m \in DOMAIN owners : Alike(owners[m], owners[n])}
             B == {c \in DOMAIN cabling : Alike(cabling[c], owners[n])}
             D == DOMAIN bound \cap B
             g == [c \in D |-> bound[c]]
  <2>1. IsFiniteSet(A) /\ IsFiniteSet(D) /\ Cardinality(A) <= Cardinality(D)
    BY <1>7, ClassIsCovered
  <2>2. ASSUME NEW c \in D PROVE bound[c] \in A
    <3>1. c \in RealOutputs(topology) /\ Alike(cabling[c], owners[n])
      BY <1>3
    <3>2. Alike(cabling[c], owners[bound[c]]) /\ bound[c] \in DOMAIN owners
      BY <1>1, <1>5, <3>1 DEF RealOutputs
    <3>3. Alike(owners[bound[c]], owners[n])
      BY <3>1, <3>2, AlikeIsEquivalence
    <3> QED
      BY <3>2, <3>3
  <2>3. \A c, d \in D : bound[c] = bound[d] => c = d
    BY <1>4 DEF OneToOne
  <2>4. n \in A
    BY <1>1, <1>7, AlikeIsEquivalence DEF RealOutputs
  <2> HIDE DEF bound, A, D
  <2>5. g \in Injection(D, A)
    <3>1. g \in [D -> A]
      BY <2>2
    <3>2. \A c, d \in D : g[c] = g[d] => c = d
      BY <2>3
    <3> HIDE DEF g
    <3> QED
      BY <3>1, <3>2 DEF Injection, IsInjective
  <2>6. Cardinality(A) = Cardinality(D)
    <3>1. Cardinality(D) <= Cardinality(A)
      BY <2>1, <2>5, FS_Injection
    <3>2. Cardinality(D) \in Nat /\ Cardinality(A) \in Nat
      BY <2>1, FS_CardinalityType
    <3> QED
      BY <2>1, <3>1, <3>2
  <2>7. g \in Surjection(D, A)
    BY <2>1, <2>5, <2>6, FS_Injection
  <2>8. PICK c \in D : g[c] = n
    BY <2>4, <2>7 DEF Surjection
  <2> QED
    BY <2>8 DEF D
<1>8. NoneMissing => CoversLit(bound)
  BY <1>7 DEF CoversLit
<1> QED
  BY <1>4, <1>5, <1>6, <1>8

----------------------------------------------------------------------------
(* Whether there is a match. *)

FitsOutput(p, t, n, c) == IdentitiesMatch(p.layout[n].id, t[c].id)

(* The entries that fit an output, and the outputs they fit. *)
EntriesFor(p, t, c) == {n \in DOMAIN p.layout : FitsOutput(p, t, n, c)}
OutputsLike(p, t, c) ==
    {d \in RealOutputs(t) : \E n \in EntriesFor(p, t, c) : FitsOutput(p, t, n, d)}

(* Entries and outputs fall into classes in which everything fits, and     *)
(* nothing else does.                                                      *)
FitInClasses(p, t) ==
    /\ \A n, m \in DOMAIN p.layout, c, d \in RealOutputs(t) :
        FitsOutput(p, t, n, c) /\ FitsOutput(p, t, m, c) /\ FitsOutput(p, t, m, d)
            => FitsOutput(p, t, n, d)
    /\ \A n, m \in DOMAIN p.layout, c \in RealOutputs(t) :
        FitsOutput(p, t, n, c) /\ FitsOutput(p, t, m, c)
            => IdentitiesMatch(p.layout[n].id, p.layout[m].id)
    /\ \A n \in DOMAIN p.layout, c \in RealOutputs(t) :
        FitsOutput(p, t, n, c) => n \in RealOutputs(p.layout)

(* Each class has as many entries as outputs, and as many outputs as       *)
(* entries when one of these is lit.                                       *)
Enough(p, t) ==
    /\ \A c \in RealOutputs(t) :
        /\ EntriesFor(p, t, c) # {}
        /\ Cardinality(OutputsLike(p, t, c)) <= Cardinality(EntriesFor(p, t, c))
        /\ (\E n \in EntriesFor(p, t, c) : p.layout[n].enabled) =>
                Cardinality(EntriesFor(p, t, c)) <= Cardinality(OutputsLike(p, t, c))
    /\ \A n \in RealOutputs(p.layout) :
        p.layout[n].enabled => \E c \in RealOutputs(t) : FitsOutput(p, t, n, c)

RulesNamed(p, names) ==
    /\ names \in Bijection(1..Len(p.rules), RealOutputs(p.layout))
    /\ \A i \in 1..Len(p.rules) :
        /\ p.rules[i].id = p.layout[names[i]].id
        /\ p.rules[i].required = p.layout[names[i]].enabled

RulesFor(p, t, names, c) == {i \in 1..Len(p.rules) : names[i] \in EntriesFor(p, t, c)}

LEMMA ClassesAreFinite ==
    ASSUME NEW p, NEW t, Matchable(p, t), NEW c
    PROVE  /\ IsFiniteSet(EntriesFor(p, t, c)) /\ IsFiniteSet(OutputsLike(p, t, c))
           /\ Cardinality(EntriesFor(p, t, c)) \in Nat
           /\ Cardinality(OutputsLike(p, t, c)) \in Nat
<1>1. EntriesFor(p, t, c) \subseteq Connectors /\ OutputsLike(p, t, c) \subseteq Connectors
  BY DEF Matchable, EntriesFor, OutputsLike, RealOutputs
<1>2. IsFiniteSet(EntriesFor(p, t, c)) /\ IsFiniteSet(OutputsLike(p, t, c))
  BY <1>1, FS_Subset DEF Matchable
<1> QED
  BY <1>2, FS_CardinalityType

(* A class has as many rules as entries, and they fit its outputs only. *)
LEMMA RulesOfClass ==
    ASSUME NEW p, NEW t, Matchable(p, t), FitInClasses(p, t), NEW names, RulesNamed(p, names),
           NEW c \in RealOutputs(t)
    PROVE  LET R == RulesFor(p, t, names, c)
               B == OutputsLike(p, t, c)
           IN  /\ R \subseteq 1..Len(p.rules)
               /\ IsFiniteSet(R) /\ Cardinality(R) = Cardinality(EntriesFor(p, t, c))
               /\ \A i \in R, d \in B : IdentitiesMatch(p.rules[i].id, t[d].id)
               /\ \A i \in 1..Len(p.rules), d \in RealOutputs(t) :
                    IdentitiesMatch(p.rules[i].id, t[d].id) => (i \in R <=> d \in B)
<1> DEFINE N == Len(p.rules)
           A == EntriesFor(p, t, c)
           B == OutputsLike(p, t, c)
           R == RulesFor(p, t, names, c)
<1>1. A \subseteq RealOutputs(p.layout)
  BY DEF EntriesFor, FitInClasses
<1>2. R \subseteq 1..N
  BY DEF RulesFor
<1>3. IsFiniteSet(R)
  <2>1. IsFiniteSet(1..N)
    BY FS_Interval DEF Matchable
  <2> QED
    BY <1>2, <2>1, FS_Subset
<1>4. /\ \A i \in 1..N : names[i] \in RealOutputs(p.layout) /\ names[i] \in DOMAIN p.layout
      /\ \A i, j \in 1..N : names[i] = names[j] => i = j
      /\ \A n \in RealOutputs(p.layout) : \E i \in 1..N : names[i] = n
  BY DEF RulesNamed, Bijection, Injection, IsInjective, Surjection, RealOutputs
<1>5. Cardinality(R) = Cardinality(A)
  <2> DEFINE g == [i \in R |-> names[i]]
  <2>1. g \in [R -> A]
    BY DEF RulesFor
  <2>2. \A i, j \in R : g[i] = g[j] => i = j
    BY <1>2, <1>4
  <2>3. \A n \in A : \E i \in R : g[i] = n
    <3>1. \A n \in A : \E i \in 1..N : names[i] = n
      BY <1>1, <1>4
    <3> QED
      BY <3>1 DEF RulesFor
  <2> HIDE DEF g, R, A
  <2>4. g \in Bijection(R, A)
    BY <2>1, <2>2, <2>3 DEF Bijection, Injection, IsInjective, Surjection
  <2> QED
    BY <1>3, <2>4, FS_Bijection DEF ExistsBijection
<1>6. ASSUME NEW i \in 1..N, NEW d
      PROVE  IdentitiesMatch(p.rules[i].id, t[d].id) <=> FitsOutput(p, t, names[i], d)
  BY DEF RulesNamed, FitsOutput
<1>7. ASSUME NEW i \in R, NEW d \in B PROVE FitsOutput(p, t, names[i], d)
  <2>1. PICK n \in A : FitsOutput(p, t, n, d)
    BY DEF OutputsLike
  <2>2. FitsOutput(p, t, n, c) /\ FitsOutput(p, t, names[i], c) /\ n \in DOMAIN p.layout
    BY DEF RulesFor, EntriesFor
  <2>3. names[i] \in DOMAIN p.layout /\ d \in RealOutputs(t)
    BY <1>2, <1>4 DEF OutputsLike
  <2> QED
    BY <2>1, <2>2, <2>3 DEF FitInClasses
<1>8. ASSUME NEW i \in 1..N, NEW d \in RealOutputs(t), FitsOutput(p, t, names[i], d)
      PROVE  i \in R <=> d \in B
  <2>1. ASSUME i \in R PROVE d \in B
    BY <1>8, <2>1 DEF RulesFor, OutputsLike
  <2>2. ASSUME d \in B PROVE i \in R
    <3>1. PICK n \in A : FitsOutput(p, t, n, d)
      BY <2>2 DEF OutputsLike
    <3>2. FitsOutput(p, t, n, c) /\ n \in DOMAIN p.layout /\ names[i] \in DOMAIN p.layout
      BY <1>4 DEF EntriesFor
    <3>3. FitsOutput(p, t, names[i], c)
      BY <1>8, <3>1, <3>2 DEF FitInClasses
    <3> QED
      BY <3>2, <3>3 DEF RulesFor, EntriesFor
  <2> QED
    BY <2>1, <2>2
<1> QED
  BY <1>2, <1>3, <1>5, <1>6, <1>7, <1>8

(* Of a class, the outputs that are used and the rules that were taken. *)
UsedOf(p, t, m, c) == DOMAIN m.bound \cap OutputsLike(p, t, c)
TakenOf(p, t, names, i, c) == RulesFor(p, t, names, c) \cap (1..i)

(* They are as many, unless all outputs of the class are used. *)
Served(p, t, names, m, i, c) ==
    /\ Cardinality(UsedOf(p, t, m, c)) <= Cardinality(TakenOf(p, t, names, i, c))
    /\ \/ OutputsLike(p, t, c) \subseteq DOMAIN m.bound
       \/ Cardinality(UsedOf(p, t, m, c)) = Cardinality(TakenOf(p, t, names, i, c))

LEMMA UsedIsFinite ==
    ASSUME NEW p, NEW t, Matchable(p, t), NEW c, NEW m
    PROVE  IsFiniteSet(UsedOf(p, t, m, c)) /\ Cardinality(UsedOf(p, t, m, c)) \in Nat
BY ClassesAreFinite, FS_Subset, FS_CardinalityType DEF UsedOf

(* A rule of the class counts once it was taken. *)
LEMMA CountTaken ==
    ASSUME NEW p, NEW t, Matchable(p, t), FitInClasses(p, t), NEW names, RulesNamed(p, names),
           NEW c \in RealOutputs(t), NEW i \in 0..Len(p.rules) - 1
    PROVE  /\ Cardinality(TakenOf(p, t, names, i, c)) \in Nat
           /\ Cardinality(TakenOf(p, t, names, i + 1, c)) =
                IF i + 1 \in RulesFor(p, t, names, c)
                THEN Cardinality(TakenOf(p, t, names, i, c)) + 1
                ELSE Cardinality(TakenOf(p, t, names, i, c))
           /\ Cardinality(TakenOf(p, t, names, i + 1, c)) <= Cardinality(EntriesFor(p, t, c))
<1> DEFINE R == RulesFor(p, t, names, c)
<1>1. Len(p.rules) \in Nat /\ R \subseteq 1..Len(p.rules)
  BY DEF Matchable, RulesFor
<1>2. IsFiniteSet(R) /\ Cardinality(R) = Cardinality(EntriesFor(p, t, c))
  BY RulesOfClass
<1> HIDE DEF R
<1>3. /\ Cardinality(R \cap (1..i)) \in Nat
      /\ Cardinality(R \cap (1..i + 1)) =
            IF i + 1 \in R THEN Cardinality(R \cap (1..i)) + 1 ELSE Cardinality(R \cap (1..i))
  <2> DEFINE before == Cardinality(R \cap (1..i))
             after  == Cardinality(R \cap (1..i + 1))
  <2>1. before \in Nat /\ after = before + (IF i + 1 \in R THEN 1 ELSE 0)
    BY <1>1, OneMore, Zenon
  <2> HIDE DEF before, after
  <2>2. before \in Nat /\ after = IF i + 1 \in R THEN before + 1 ELSE before
    BY <2>1
  <2> QED
    BY <2>2 DEF before, after
<1>4. Cardinality(R \cap (1..i + 1)) <= Cardinality(EntriesFor(p, t, c))
  BY <1>2, FS_Subset
<1> QED
  BY <1>3, <1>4 DEF R, TakenOf

LEMMA RequiredFindsOutput ==
    ASSUME NEW p, NEW t, Matchable(p, t), FitInClasses(p, t), Enough(p, t),
           NEW names, RulesNamed(p, names), NEW m, IsMatch(p, t, m),
           NEW i \in 0..Len(p.rules) - 1,
           \A c \in RealOutputs(t) : Served(p, t, names, m, i, c),
           p.rules[i + 1].required
    PROVE  OutputCandidates(p.rules[i + 1], t, DOMAIN m.bound) # {}
<1> SUFFICES ASSUME OutputCandidates(p.rules[i + 1], t, DOMAIN m.bound) = {} PROVE FALSE
  OBVIOUS
<1>1. i + 1 \in 1..Len(p.rules)
  BY DEF Matchable
<1>2. names[i + 1] \in RealOutputs(p.layout) /\ p.layout[names[i + 1]].enabled
  BY <1>1 DEF RulesNamed, Bijection, Injection
<1>3. PICK c \in RealOutputs(t) : FitsOutput(p, t, names[i + 1], c)
  BY <1>2 DEF Enough
<1>4. names[i + 1] \in EntriesFor(p, t, c)
  BY <1>2, <1>3 DEF EntriesFor, RealOutputs
<1>5. i + 1 \in RulesFor(p, t, names, c)
  BY <1>1, <1>4 DEF RulesFor
<1>6. OutputsLike(p, t, c) \subseteq DOMAIN m.bound
  <2>1. ASSUME NEW d \in OutputsLike(p, t, c) PROVE d \in DOMAIN m.bound
    <3>1. d \in RealOutputs(t)
      BY DEF OutputsLike
    <3>2. IdentitiesMatch(p.rules[i + 1].id, t[d].id)
      BY <1>5, RulesOfClass
    <3> QED
      BY <3>1, <3>2 DEF OutputCandidates
  <2> QED
    BY <2>1
<1>7. Cardinality(EntriesFor(p, t, c)) <= Cardinality(OutputsLike(p, t, c))
  BY <1>2, <1>4 DEF Enough
<1>8. UsedOf(p, t, m, c) = OutputsLike(p, t, c)
  BY <1>6 DEF UsedOf
<1>9. Cardinality(OutputsLike(p, t, c)) <= Cardinality(TakenOf(p, t, names, i, c))
  BY <1>8 DEF Served
<1>10. /\ Cardinality(TakenOf(p, t, names, i, c)) \in Nat
       /\ Cardinality(TakenOf(p, t, names, i, c)) + 1 <= Cardinality(EntriesFor(p, t, c))
  BY <1>5, CountTaken
<1>11. Cardinality(OutputsLike(p, t, c)) \in Nat /\ Cardinality(EntriesFor(p, t, c)) \in Nat
  BY ClassesAreFinite
<1> QED
  BY <1>7, <1>9, <1>10, <1>11

(* A rule that finds an output finds an entry for it: there are as many    *)
(* entries as rules in the class.                                          *)
LEMMA OutputFindsEntry ==
    ASSUME NEW p, NEW t, Matchable(p, t), FitInClasses(p, t),
           NEW names, RulesNamed(p, names), NEW m, IsMatch(p, t, m),
           NEW i \in 0..Len(p.rules) - 1,
           \A c \in RealOutputs(t) : Served(p, t, names, m, i, c),
           NEW c \in OutputCandidates(p.rules[i + 1], t, DOMAIN m.bound)
    PROVE  LayoutCandidates(p.rules[i + 1], p.layout, t[c].id, UsedEntries(m)) # {}
<1> SUFFICES ASSUME LayoutCandidates(p.rules[i + 1], p.layout, t[c].id, UsedEntries(m)) = {}
             PROVE  FALSE
  OBVIOUS
<1> DEFINE A == EntriesFor(p, t, c)
           U == UsedOf(p, t, m, c)
<1>1. i + 1 \in 1..Len(p.rules)
  BY DEF Matchable
<1>2. c \in RealOutputs(t) /\ IdentitiesMatch(p.rules[i + 1].id, t[c].id)
  BY DEF OutputCandidates
<1>3. /\ names[i + 1] \in DOMAIN p.layout /\ FitsOutput(p, t, names[i + 1], c)
      /\ p.rules[i + 1].id = p.layout[names[i + 1]].id
  BY <1>1, <1>2 DEF RulesNamed, Bijection, Injection, RealOutputs, FitsOutput
<1>4. i + 1 \in RulesFor(p, t, names, c)
  BY <1>1, <1>3 DEF RulesFor, EntriesFor
<1>5. ASSUME NEW n \in A PROVE \E d \in U : m.bound[d] = n
  <2>1. n \in DOMAIN p.layout /\ FitsOutput(p, t, n, c)
    BY DEF EntriesFor
  <2>2. IdentitiesMatch(p.rules[i + 1].id, p.layout[n].id)
    BY <1>2, <1>3, <2>1 DEF FitInClasses
  <2>3. n \in UsedEntries(m)
    BY <2>1, <2>2 DEF LayoutCandidates, FitsOutput
  <2>4. PICK d \in DOMAIN m.bound : m.bound[d] = n
    BY <2>3 DEF UsedEntries
  <2>5. d \in RealOutputs(t) /\ FitsOutput(p, t, n, d)
    BY <2>4 DEF IsMatch, FitsOutput
  <2>6. d \in U
    BY <2>4, <2>5 DEF OutputsLike, UsedOf
  <2> QED
    BY <2>4, <2>6
<1>6. /\ IsFiniteSet(U) /\ Cardinality(U) \in Nat
      /\ Cardinality(TakenOf(p, t, names, i, c)) \in Nat
      /\ Cardinality(TakenOf(p, t, names, i, c)) + 1 <= Cardinality(A)
  BY <1>2, <1>4, CountTaken, UsedIsFinite
<1>7. Cardinality(U) <= Cardinality(TakenOf(p, t, names, i, c))
  BY <1>2 DEF Served
<1>8. Cardinality(A) <= Cardinality(U)
  <2> DEFINE g == [n \in A |-> CHOOSE d \in U : m.bound[d] = n]
  <2> HIDE DEF A, U
  <2>1. \A n \in A : g[n] \in U /\ m.bound[g[n]] = n
    BY <1>5
  <2>2. g \in [A -> U]
    BY <2>1
  <2>3. \A a, b \in A : g[a] = g[b] => a = b
    BY <2>1
  <2> HIDE DEF g
  <2>4. g \in Injection(A, U)
    BY <2>2, <2>3 DEF Injection, IsInjective
  <2> QED
    BY <1>6, <2>4, FS_Injection
<1>9. Cardinality(A) \in Nat
  BY ClassesAreFinite
<1> HIDE DEF A, U
<1> QED
  BY <1>6, <1>7, <1>8, <1>9

(* A rule that finds no output leaves its class served. *)
LEMMA ServedWithoutOutput ==
    ASSUME NEW p, NEW t, Matchable(p, t), FitInClasses(p, t),
           NEW names, RulesNamed(p, names), NEW m,
           NEW i \in 0..Len(p.rules) - 1,
           NEW c \in RealOutputs(t), Served(p, t, names, m, i, c),
           OutputCandidates(p.rules[i + 1], t, DOMAIN m.bound) = {},
           NEW next, next.bound = m.bound
    PROVE  Served(p, t, names, next, i + 1, c)
<1> DEFINE R == RulesFor(p, t, names, c)
           B == OutputsLike(p, t, c)
           used == Cardinality(UsedOf(p, t, m, c))
           taken == Cardinality(TakenOf(p, t, names, i, c))
           more == Cardinality(TakenOf(p, t, names, i + 1, c))
<1>1. used \in Nat /\ taken \in Nat /\ more = IF i + 1 \in R THEN taken + 1 ELSE taken
  BY CountTaken, UsedIsFinite
<1>2. used <= taken /\ (B \subseteq DOMAIN m.bound \/ used = taken)
  BY DEF Served
<1>3. ASSUME i + 1 \in R PROVE B \subseteq DOMAIN m.bound
  <2>1. ASSUME NEW d \in B PROVE d \in DOMAIN m.bound
    <3>1. d \in RealOutputs(t)
      BY DEF OutputsLike
    <3>2. IdentitiesMatch(p.rules[i + 1].id, t[d].id)
      BY <1>3, RulesOfClass
    <3> QED
      BY <3>1, <3>2 DEF OutputCandidates
  <2> QED
    BY <2>1
<1>4. UsedOf(p, t, next, c) = UsedOf(p, t, m, c) /\ DOMAIN next.bound = DOMAIN m.bound
  BY DEF UsedOf
<1>5. used <= more /\ (B \subseteq DOMAIN m.bound \/ used = more)
  <2> HIDE DEF R, B, used, taken, more
  <2> QED
    BY <1>1, <1>2, <1>3
<1> QED
  BY <1>4, <1>5 DEF Served

(* A rule that binds an output leaves every class served. *)
LEMMA ServedWithOutput ==
    ASSUME NEW p, NEW t, Matchable(p, t), FitInClasses(p, t),
           NEW names, RulesNamed(p, names), NEW m,
           NEW i \in 0..Len(p.rules) - 1,
           NEW c \in RealOutputs(t), Served(p, t, names, m, i, c),
           NEW d \in OutputCandidates(p.rules[i + 1], t, DOMAIN m.bound), NEW n,
           NEW next, next.bound = Put(m.bound, d, n)
    PROVE  Served(p, t, names, next, i + 1, c)
<1> DEFINE R == RulesFor(p, t, names, c)
           B == OutputsLike(p, t, c)
           U == UsedOf(p, t, m, c)
           taken == Cardinality(TakenOf(p, t, names, i, c))
           more == Cardinality(TakenOf(p, t, names, i + 1, c))
<1>1. /\ IsFiniteSet(U) /\ Cardinality(U) \in Nat
      /\ taken \in Nat /\ more = IF i + 1 \in R THEN taken + 1 ELSE taken
  BY CountTaken, UsedIsFinite
<1>2. Cardinality(U) <= taken /\ (B \subseteq DOMAIN m.bound \/ Cardinality(U) = taken)
  BY DEF Served
<1>3. /\ d \in RealOutputs(t) /\ d \notin DOMAIN m.bound
      /\ IdentitiesMatch(p.rules[i + 1].id, t[d].id)
  BY DEF OutputCandidates
<1>4. i + 1 \in R <=> d \in B
  <2>1. i + 1 \in 1..Len(p.rules)
    BY DEF Matchable
  <2> QED
    BY <1>3, <2>1, RulesOfClass
<1>5. DOMAIN next.bound = DOMAIN m.bound \cup {d}
  BY DEF Put
<1>6. UsedOf(p, t, next, c) = IF d \in B THEN U \cup {d} ELSE U
  <2> HIDE DEF B
  <2> QED
    BY <1>5 DEF UsedOf, B
<1>7. d \notin U /\ (B \subseteq DOMAIN m.bound => d \notin B)
  BY <1>3 DEF UsedOf
<1>8. Cardinality(U \cup {d}) = Cardinality(U) + 1
  BY <1>1, <1>7, FS_AddElement
<1> HIDE DEF R, B, U, taken, more
<1>9. CASE d \in B
  <2>1. Cardinality(UsedOf(p, t, next, c)) = Cardinality(U) + 1
    BY <1>6, <1>8, <1>9
  <2>2. Cardinality(UsedOf(p, t, next, c)) = more /\ more \in Nat
    BY <1>1, <1>2, <1>4, <1>7, <1>9, <2>1
  <2> QED
    BY <2>2 DEF Served, more
<1>10. CASE d \notin B
  <2>1. more = taken /\ UsedOf(p, t, next, c) = U
    BY <1>1, <1>4, <1>6, <1>10
  <2>2. B \subseteq DOMAIN m.bound => B \subseteq DOMAIN next.bound
    BY <1>5
  <2> QED
    BY <1>2, <2>1, <2>2 DEF Served, more, B
<1> QED
  BY <1>9, <1>10

(* Taking the rules one after the other, in any order, succeeds where      *)
(* entries and outputs fall into classes that are large enough.            *)
LEMMA GreedyMatches ==
    ASSUME NEW p, NEW t, Matchable(p, t), FitInClasses(p, t), Enough(p, t),
           NEW names, RulesNamed(p, names)
    PROVE  MatchesExactly(p, t)
<1> DEFINE N == Len(p.rules)
<1>1. N \in Nat
  BY DEF Matchable
<1>2. PICK match : InSteps(p, t, match, N) /\ MatchRules(p, t) = match[N]
  BY <1>1, MatchRulesInSteps
<1> DEFINE S == {i \in 0..N :
                    match[i].ok /\ \A c \in RealOutputs(t) : Served(p, t, names, match[i], i, c)}
<1>3. \A i \in 0..N : IsMatch(p, t, match[i])
  BY <1>2, StepsAreMatches
<1>4. 0 \in S
  <2>1. match[0] = NothingBound
    BY <1>2 DEF InSteps
  <2>2. match[0].ok /\ DOMAIN match[0].bound = {}
    <3>1. NothingBound.bound = <<>> /\ NothingBound.ok
      BY DEF NothingBound
    <3>2. \A c : c \notin DOMAIN <<>>
      OBVIOUS
    <3> QED
      BY <2>1, <3>1, <3>2
  <2>3. ASSUME NEW c \in RealOutputs(t) PROVE Served(p, t, names, match[0], 0, c)
    <3>1. UsedOf(p, t, match[0], c) = {}
      BY <2>2 DEF UsedOf
    <3>2. TakenOf(p, t, names, 0, c) = {}
      BY DEF TakenOf
    <3>3. Cardinality({}) \in Nat
      BY FS_EmptySet
    <3> QED
      BY <3>1, <3>2, <3>3 DEF Served
  <2>4. 0 \in 0..N
    BY <1>1
  <2> QED
    BY <2>2, <2>3, <2>4
<1>5. ASSUME NEW i \in 0..N - 1, i \in S PROVE i + 1 \in S
  <2> DEFINE m == match[i]
             next == match[i + 1]
             rule == p.rules[i + 1]
  <2>1. i + 1 \in 1..N /\ (i + 1) - 1 = i /\ i + 1 \in 0..N /\ i \in 0..N
    BY <1>1
  <2>2. /\ m.ok /\ IsMatch(p, t, m)
        /\ \A c \in RealOutputs(t) : Served(p, t, names, m, i, c)
    BY <1>3, <1>5, <2>1
  <2>3. RuleTakes(p, t, rule, m, next)
    BY <1>2, <2>1, <2>2, StepIsRule
  <2>4. rule.required => OutputCandidates(rule, t, DOMAIN m.bound) # {}
    BY <2>2, RequiredFindsOutput
  <2>5. \A c \in OutputCandidates(rule, t, DOMAIN m.bound) :
            LayoutCandidates(rule, p.layout, t[c].id, UsedEntries(m)) # {}
    BY <2>2, OutputFindsEntry
  <2>6. next.ok /\ \A c \in RealOutputs(t) : Served(p, t, names, next, i + 1, c)
    <3>1. CASE /\ OutputCandidates(rule, t, DOMAIN m.bound) = {}
               /\ next.bound = m.bound /\ next.ok = (m.ok /\ ~rule.required)
      <4>1. next.ok
        BY <2>2, <2>4, <3>1
      <4>2. \A c \in RealOutputs(t) : Served(p, t, names, next, i + 1, c)
        BY <2>2, <3>1, ServedWithoutOutput
      <4> QED
        BY <4>1, <4>2
    <3>2. CASE \E d \in OutputCandidates(rule, t, DOMAIN m.bound) :
                    \E n \in LayoutCandidates(rule, p.layout, t[d].id, UsedEntries(m)) :
                        next.bound = Put(m.bound, d, n) /\ next.ok = m.ok
      <4>1. PICK d \in OutputCandidates(rule, t, DOMAIN m.bound) :
                \E n : next.bound = Put(m.bound, d, n) /\ next.ok = m.ok
        BY <3>2
      <4>2. \A c \in RealOutputs(t) : Served(p, t, names, next, i + 1, c)
        BY <2>2, <4>1, ServedWithOutput
      <4> QED
        BY <2>2, <4>1, <4>2
    <3> HIDE DEF m, next, rule
    <3> QED
      BY <2>3, <2>5, <3>1, <3>2 DEF RuleTakes
  <2> QED
    BY <2>1, <2>6
<1>6. 0..N \subseteq S
  <2> HIDE DEF N, S
  <2> QED
    BY <1>1, <1>4, <1>5, InductionUpTo
<1>7. match[N].ok /\ \A c \in RealOutputs(t) : Served(p, t, names, match[N], N, c)
  <2>1. N \in 0..N
    BY <1>1
  <2> QED
    BY <1>6, <2>1
<1>8. ASSUME NEW c \in RealOutputs(t) PROVE c \in DOMAIN match[N].bound
  <2> DEFINE R == RulesFor(p, t, names, c)
             B == OutputsLike(p, t, c)
             U == UsedOf(p, t, match[N], c)
  <2>1. c \in B
    BY DEF Enough, EntriesFor, OutputsLike
  <2>2. TakenOf(p, t, names, N, c) = R /\ Cardinality(R) = Cardinality(EntriesFor(p, t, c))
    <3>1. R \subseteq 1..N /\ Cardinality(R) = Cardinality(EntriesFor(p, t, c))
      BY RulesOfClass
    <3> QED
      BY <3>1 DEF TakenOf
  <2>3. B \subseteq DOMAIN match[N].bound \/ Cardinality(U) = Cardinality(R)
    BY <1>7, <2>2 DEF Served
  <2>4. IsFiniteSet(B) /\ Cardinality(B) \in Nat /\ Cardinality(B) <= Cardinality(R)
    BY <2>2, ClassesAreFinite DEF Enough
  <2>5. Cardinality(U) = Cardinality(R) => U = B
    <3>1. U \subseteq B
      BY DEF UsedOf
    <3> HIDE DEF B, R, U
    <3>2. Cardinality(U) <= Cardinality(B) /\ (Cardinality(U) = Cardinality(B) => U = B)
      BY <2>4, <3>1, FS_Subset
    <3>3. Cardinality(U) \in Nat
      BY <2>4, <3>1, FS_Subset, FS_CardinalityType
    <3> QED
      BY <2>4, <3>2, <3>3
  <2> QED
    BY <2>1, <2>3, <2>5 DEF UsedOf
<1> QED
  BY <1>2, <1>7, <1>8 DEF MatchesExactly, ExtraOutputs

----------------------------------------------------------------------------
(* A match that there is is found. *)

(* A display that fits itself on whichever connector it is. *)
Portable(d) == \A b, c \in Connectors : IdentitiesMatch(Reports[d][b], Reports[d][c])

(* One that does not is known by its connector: identities of it match on  *)
(* the same connector only.                                                *)
LEMMA FitsItself ==
    ASSUME NEW d \in Displays
    PROVE  \/ Portable(d)
           \/ \A b, c \in Connectors : IdentitiesMatch(Reports[d][b], Reports[d][c]) <=> b = c
<1>1. ASSUME NEW b \in Connectors, NEW c \in Connectors
      PROVE  /\ Reports[d][b].edid = Reports[d][c].edid
             /\ Reports[d][b].make = Reports[d][c].make
             /\ Reports[d][b].model = Reports[d][c].model
             /\ Reports[d][b].serial = Reports[d][c].serial
             /\ Reports[d][b].connector = b /\ Reports[d][c].connector = c /\ Present(b)
  <2>1. /\ Reports[d][b] = [Reports[d][c] EXCEPT !.connector = b,
                                                 !.description = Reports[d][b].description]
        /\ Reports[d][b] \in OutputIdentity /\ Reports[d][c] \in OutputIdentity
        /\ Reports[d][b].connector = b /\ Reports[d][c].connector = c
    <3>1. Reports[d][b] = [Reports[d][c] EXCEPT !.connector = b,
                                                !.description = Reports[d][b].description]
      BY ReportsAssumption, ZenonT(60)
    <3>2. /\ Reports \in [Displays -> [Connectors -> OutputIdentity]]
          /\ Reports[d][b].connector = b /\ Reports[d][c].connector = c
      BY PlanningAssumption
    <3>3. Reports[d][b] \in OutputIdentity /\ Reports[d][c] \in OutputIdentity
      BY <3>2
    <3> QED
      BY <3>1, <3>2, <3>3
  <2>2. Present(b)
    BY NoValueAssumption DEF Present
  <2> QED
    BY <2>1, <2>2 DEF OutputIdentity
<1>2. ASSUME NEW b \in Connectors, NEW c \in Connectors
      PROVE  IdentitiesMatch(Reports[d][b], Reports[d][c]) <=>
                \/ Present(Reports[d][b].edid) \/ Present(Reports[d][b].serial)
                \/ b = c \/ SamePresent(Reports[d][b].description, Reports[d][c].description)
  <2>1. ~IsEmptyIdentity(Reports[d][b])
    BY <1>1 DEF IsEmptyIdentity
  <2>2. SamePresent(Reports[d][b].connector, Reports[d][c].connector) <=> b = c
    BY <1>1 DEF SamePresent
  <2>3. /\ Agree(Reports[d][b].make, Reports[d][c].make)
        /\ Agree(Reports[d][b].model, Reports[d][c].model)
        /\ Agree(Reports[d][b].serial, Reports[d][c].serial)
    BY <1>1 DEF Agree
  <2> QED
    BY <1>1, <2>1, <2>2, <2>3 DEF IdentitiesMatch
<1>3. CASE \A b, c \in Connectors : Reports[d][b].description = Reports[d][c].description
  <2>1. ASSUME NEW b \in Connectors, NEW c \in Connectors
        PROVE  /\ Present(Reports[d][b].description) <=> Present(Reports[d][c].description)
               /\ Present(Reports[d][b].edid) <=> Present(Reports[d][c].edid)
               /\ Present(Reports[d][b].serial) <=> Present(Reports[d][c].serial)
               /\ IdentitiesMatch(Reports[d][b], Reports[d][c]) <=>
                    \/ Present(Reports[d][b].edid) \/ Present(Reports[d][b].serial)
                    \/ b = c \/ Present(Reports[d][b].description)
    BY <1>1, <1>2, <1>3 DEF SamePresent
  <2> QED
    BY <2>1 DEF Portable
<1>4. CASE \A b, c \in Connectors :
                b # c => Reports[d][b].description # Reports[d][c].description
  <2>1. ASSUME NEW b \in Connectors, NEW c \in Connectors
        PROVE  /\ Present(Reports[d][b].edid) <=> Present(Reports[d][c].edid)
               /\ Present(Reports[d][b].serial) <=> Present(Reports[d][c].serial)
               /\ IdentitiesMatch(Reports[d][b], Reports[d][c]) <=>
                    Present(Reports[d][b].edid) \/ Present(Reports[d][b].serial) \/ b = c
    BY <1>1, <1>2, <1>4 DEF SamePresent
  <2> QED
    BY <2>1 DEF Portable
<1> QED
  BY <1>3, <1>4, ReportsAssumption

(* Entries fit the displays that are like their own, wherever these are if *)
(* they are portable.                                                      *)
LEMMA FitMeansAlike ==
    ASSUME PlanningInv, profile # NoValue, Unambiguous,
           NEW n \in DOMAIN profile.layout, NEW c \in RealOutputs(topology)
    PROVE  FitsOutput(profile, topology, n, c) <=>
                Alike(owners[n], cabling[c]) /\ (Portable(owners[n]) \/ n = c)
<1>1. /\ Reported(cabling, topology) /\ Reported(owners, profile.layout)
      /\ c \in DOMAIN topology
  BY DEF PlanningInv, ProfileInv, RealOutputs
<1>2. c \in Connectors /\ n \in Connectors /\ owners[n] \in Displays
  BY <1>1, PlanningAssumption DEF Reported
<1>3. profile.layout[n].id = Reports[owners[n]][n] /\ topology[c].id = Reports[cabling[c]][c]
  BY <1>1 DEF Reported
<1>4. Alike(owners[n], cabling[c]) => topology[c].id = Reports[owners[n]][c]
  BY <1>2, <1>3 DEF Alike
<1>5. FitsOutput(profile, topology, n, c) => Alike(owners[n], cabling[c])
  BY DEF FitsOutput, Unambiguous
<1>6. IdentitiesMatch(Reports[owners[n]][n], Reports[owners[n]][c]) <=>
            Portable(owners[n]) \/ n = c
  BY <1>2, FitsItself DEF Portable
<1> QED
  BY <1>3, <1>4, <1>5, <1>6 DEF FitsOutput

LEMMA PortableAlike ==
    ASSUME NEW d, NEW e, Alike(d, e)
    PROVE  Portable(d) <=> Portable(e)
BY DEF Alike, Portable

LEMMA FitsInClasses ==
    ASSUME PlanningInv, profile # NoValue, Unambiguous
    PROVE  FitInClasses(profile, topology)
<1> DEFINE Fits(n, c) == FitsOutput(profile, topology, n, c)
<1>1. ASSUME NEW n \in DOMAIN profile.layout, NEW m \in DOMAIN profile.layout,
             NEW c \in RealOutputs(topology), Fits(n, c), Fits(m, c)
      PROVE  /\ Alike(owners[n], cabling[c]) /\ Alike(owners[m], cabling[c])
             /\ Alike(owners[n], owners[m])
             /\ Portable(owners[n]) <=> Portable(owners[m])
             /\ ~Portable(owners[n]) => n = c /\ m = c
  <2>1. Alike(owners[n], cabling[c]) /\ Alike(owners[m], cabling[c])
    BY <1>1, FitMeansAlike
  <2>2. Alike(owners[n], owners[m])
    BY <2>1, AlikeIsEquivalence
  <2>3. Portable(owners[n]) <=> Portable(owners[m])
    BY <2>2, PortableAlike
  <2> QED
    BY <1>1, <2>1, <2>2, <2>3, FitMeansAlike
<1>2. ASSUME NEW n \in DOMAIN profile.layout, NEW m \in DOMAIN profile.layout,
             NEW c \in RealOutputs(topology), NEW d \in RealOutputs(topology),
             Fits(n, c), Fits(m, c), Fits(m, d)
      PROVE  Fits(n, d)
  <2>1. Alike(owners[m], cabling[d]) /\ (Portable(owners[m]) \/ m = d)
    BY <1>2, FitMeansAlike
  <2>2. Alike(owners[n], cabling[d])
    BY <1>1, <1>2, <2>1, AlikeIsEquivalence
  <2>3. Portable(owners[n]) \/ n = d
    BY <1>1, <1>2, <2>1
  <2> QED
    BY <2>2, <2>3, FitMeansAlike
<1>3. ASSUME NEW n \in DOMAIN profile.layout, NEW m \in DOMAIN profile.layout,
             NEW c \in RealOutputs(topology), Fits(n, c), Fits(m, c)
      PROVE  IdentitiesMatch(profile.layout[n].id, profile.layout[m].id)
  <2>1. /\ Alike(owners[n], owners[m]) /\ (Portable(owners[n]) \/ n = m)
    BY <1>1, <1>3
  <2>2. /\ n \in Connectors /\ m \in Connectors /\ owners[n] \in Displays
        /\ profile.layout[n].id = Reports[owners[n]][n]
        /\ profile.layout[m].id = Reports[owners[m]][m]
    BY PlanningAssumption DEF PlanningInv, ProfileInv, Reported
  <2>3. profile.layout[m].id = Reports[owners[n]][m]
    BY <2>1, <2>2 DEF Alike
  <2> QED
    BY <2>1, <2>2, <2>3, FitsItself DEF Portable
<1>4. ASSUME NEW n \in DOMAIN profile.layout, NEW c \in RealOutputs(topology), Fits(n, c)
      PROVE  n \in RealOutputs(profile.layout)
  <2>1. Alike(owners[n], cabling[c])
    BY <1>4, FitMeansAlike
  <2>2. Reported(cabling, topology) /\ Reported(owners, profile.layout) /\ c \in DOMAIN topology
    BY DEF PlanningInv, ProfileInv, RealOutputs
  <2> QED
    BY <2>1, <2>2, AlikeIdentities
<1> QED
  BY <1>2, <1>3, <1>4 DEF FitInClasses

(* A matching gives the outputs of a class entries of the class. *)
LEMMA MatchingKeepsClasses ==
    ASSUME PlanningInv, profile # NoValue, Unambiguous, NEW f \in Matchings,
           NEW c \in RealOutputs(topology)
    PROVE  /\ \A d \in OutputsLike(profile, topology, c) : f[d] \in EntriesFor(profile, topology, c)
           /\ \A d \in RealOutputs(topology) :
                f[d] \in EntriesFor(profile, topology, c)
                    => d \in OutputsLike(profile, topology, c)
           /\ f[c] \in EntriesFor(profile, topology, c)
<1> DEFINE Fits(n, d) == FitsOutput(profile, topology, n, d)
           A == EntriesFor(profile, topology, c)
           B == OutputsLike(profile, topology, c)
<1>1. \A d \in RealOutputs(topology) : f[d] \in DOMAIN profile.layout /\ Fits(f[d], d)
  BY DEF Matchings, FitsOutput, RealOutputs
<1>2. ASSUME NEW d \in B PROVE f[d] \in A
  <2>1. PICK n \in A : Fits(n, d)
    BY DEF OutputsLike
  <2>2. n \in DOMAIN profile.layout /\ Fits(n, c) /\ d \in RealOutputs(topology)
    BY DEF EntriesFor, OutputsLike
  <2>3. Fits(f[d], c)
    BY <1>1, <2>1, <2>2, FitsInClasses DEF FitInClasses
  <2> QED
    BY <1>1, <2>2, <2>3 DEF EntriesFor
<1>3. ASSUME NEW d \in RealOutputs(topology), f[d] \in A PROVE d \in B
  BY <1>1, <1>3 DEF OutputsLike
<1>4. f[c] \in A
  BY <1>1 DEF EntriesFor
<1> QED
  BY <1>2, <1>3, <1>4

(* A class with a lit entry has as many outputs as entries. *)
LEMMA LitClassIsComplete ==
    ASSUME PlanningInv, profile # NoValue, Unambiguous, NoneMissing, NEW f \in Matchings,
           NEW c \in RealOutputs(topology), NEW n \in EntriesFor(profile, topology, c),
           profile.layout[n].enabled
    PROVE  Cardinality(EntriesFor(profile, topology, c))
                <= Cardinality(OutputsLike(profile, topology, c))
<1> DEFINE Fits(m, d) == FitsOutput(profile, topology, m, d)
           A == EntriesFor(profile, topology, c)
           B == OutputsLike(profile, topology, c)
<1>1. IsFiniteSet(A) /\ IsFiniteSet(B) /\ Cardinality(A) \in Nat /\ Cardinality(B) \in Nat
  BY ProfileIsMatchable, ClassesAreFinite
<1>2. \A m \in A : m \in DOMAIN profile.layout /\ Fits(m, c) /\ m \in RealOutputs(profile.layout)
  BY FitsInClasses DEF EntriesFor, FitInClasses
<1>3. CASE \A m \in A : profile.layout[m].enabled
  <2>1. ASSUME NEW m \in A PROVE \E d \in B : f[d] = m
    <3>1. PICK d \in RealOutputs(topology) : f[d] = m
      BY <1>2, <1>3 DEF Matchings, CoversLit
    <3>2. d \in B
      BY <3>1, MatchingKeepsClasses
    <3> QED
      BY <3>1, <3>2
  <2> DEFINE g == [m \in A |-> CHOOSE d \in B : f[d] = m]
  <2> HIDE DEF A, B
  <2>2. \A m \in A : g[m] \in B /\ f[g[m]] = m
    BY <2>1
  <2>3. g \in [A -> B]
    BY <2>2
  <2>4. \A a, b \in A : g[a] = g[b] => a = b
    BY <2>2
  <2> HIDE DEF g
  <2>5. g \in Injection(A, B)
    BY <2>3, <2>4 DEF Injection, IsInjective
  <2>6. Cardinality(A) <= Cardinality(B)
    BY <1>1, <2>5, FS_Injection
  <2> QED
    BY <2>6 DEF A, B
<1>4. ASSUME NEW m \in A, ~profile.layout[m].enabled
      PROVE  Cardinality(A) <= Cardinality(B)
  <2> DEFINE S == {k \in DOMAIN owners : Alike(owners[k], owners[n])}
             T == {b \in DOMAIN cabling : Alike(cabling[b], owners[n])}
  <2>1. /\ Alike(owners[n], cabling[c]) /\ (Portable(owners[n]) \/ n = c)
        /\ Alike(owners[m], cabling[c]) /\ (Portable(owners[m]) \/ m = c)
    BY <1>2, FitMeansAlike
  <2>2. Alike(owners[n], owners[m])
    BY <2>1, AlikeIsEquivalence
  <2>3. Portable(owners[n])
    <3>1. Portable(owners[n]) <=> Portable(owners[m])
      BY <2>2, PortableAlike
    <3>2. n # m
      BY <1>4
    <3> QED
      BY <2>1, <3>1, <3>2
  <2>4. Cardinality(S) <= Cardinality(T)
    BY <1>2, <1>4, <2>2 DEF NoneMissing
  <2>5. /\ Reported(cabling, topology) /\ Reported(owners, profile.layout)
        /\ DOMAIN cabling = DOMAIN topology /\ DOMAIN owners = DOMAIN profile.layout
        /\ DOMAIN cabling \subseteq Connectors /\ DOMAIN owners \subseteq Connectors
    BY PlanningAssumption DEF PlanningInv, ProfileInv, Reported
  <2>6. A \subseteq S
    <3>1. ASSUME NEW k \in A PROVE Alike(owners[k], owners[n]) /\ k \in DOMAIN owners
      <4>1. Alike(owners[k], cabling[c])
        BY <1>2, FitMeansAlike
      <4> QED
        BY <1>2, <2>1, <2>5, <4>1, AlikeIsEquivalence
    <3> QED
      BY <3>1
  <2>7. T \subseteq B
    <3>1. ASSUME NEW b \in T PROVE b \in B
      <4>1. b \in DOMAIN topology /\ n \in DOMAIN profile.layout
        BY <1>2, <2>5
      <4>2. b \in RealOutputs(topology)
        BY <1>2, <2>5, <4>1, AlikeIdentities
      <4>3. Fits(n, b)
        BY <2>3, <4>1, <4>2, AlikeIsEquivalence, FitMeansAlike
      <4> QED
        BY <4>2, <4>3 DEF OutputsLike
    <3> QED
      BY <3>1
  <2>8. IsFiniteSet(S) /\ Cardinality(S) \in Nat /\ Cardinality(T) \in Nat
    <3>1. S \subseteq Connectors /\ T \subseteq Connectors
      BY <2>5
    <3> QED
      BY <3>1, FS_Subset, FS_CardinalityType, PlanningAssumption
  <2> HIDE DEF A, B, S, T
  <2>9. Cardinality(A) <= Cardinality(S) /\ Cardinality(T) <= Cardinality(B)
    BY <1>1, <2>6, <2>7, <2>8, FS_Subset
  <2> QED
    BY <1>1, <2>4, <2>8, <2>9
<1> QED
  BY <1>3, <1>4

LEMMA MatchingsAreEnough ==
    ASSUME PlanningInv, profile # NoValue, Unambiguous, NoneMissing, NEW f \in Matchings
    PROVE  Enough(profile, topology)
<1>1. ASSUME NEW c \in RealOutputs(topology)
      PROVE  /\ EntriesFor(profile, topology, c) # {}
             /\ Cardinality(OutputsLike(profile, topology, c))
                    <= Cardinality(EntriesFor(profile, topology, c))
  <2> DEFINE A == EntriesFor(profile, topology, c)
             B == OutputsLike(profile, topology, c)
             g == [d \in B |-> f[d]]
  <2>1. f[c] \in A /\ \A d \in B : f[d] \in A
    BY MatchingKeepsClasses
  <2>2. \A d, e \in B : f[d] = f[e] => d = e
    BY DEF Matchings, OneToOne, OutputsLike
  <2>3. IsFiniteSet(A)
    BY ProfileIsMatchable, ClassesAreFinite
  <2> HIDE DEF A, B
  <2>4. g \in [B -> A]
    BY <2>1
  <2>5. \A d, e \in B : g[d] = g[e] => d = e
    BY <2>2
  <2> HIDE DEF g
  <2>6. g \in Injection(B, A)
    BY <2>4, <2>5 DEF Injection, IsInjective
  <2>7. Cardinality(B) <= Cardinality(A)
    BY <2>3, <2>6, FS_Injection
  <2> QED
    BY <2>1, <2>7 DEF A, B
<1>2. ASSUME NEW n \in RealOutputs(profile.layout), profile.layout[n].enabled
      PROVE  \E c \in RealOutputs(topology) : FitsOutput(profile, topology, n, c)
  <2>1. PICK c \in RealOutputs(topology) : f[c] = n
    BY <1>2 DEF Matchings, CoversLit
  <2> QED
    BY <2>1 DEF Matchings, FitsOutput
<1> QED
  BY <1>1, <1>2, LitClassIsComplete DEF Enough

(* The matcher finds a match whenever there is one, and only then          *)
(* (score_profile).                                                        *)
THEOREM MatchIsFound == Spec => []GreedyFindsMatching
<1>1. PlanningInv => GreedyFindsMatching
  <2> SUFFICES ASSUME PlanningInv, profile # NoValue, Unambiguous, NoneMissing
               PROVE  MatchesExactly(profile, topology) <=> Matchings # {}
    BY DEF GreedyFindsMatching
  <2>1. ASSUME MatchesExactly(profile, topology) PROVE Matchings # {}
    <3> DEFINE bound == MatchRules(profile, topology).bound
    <3>1. /\ bound \in [RealOutputs(topology) -> RealOutputs(profile.layout)]
          /\ OneToOne(bound) /\ CoversLit(bound)
          /\ \A c \in RealOutputs(topology) :
                IdentitiesMatch(profile.layout[bound[c]].id, topology[c].id)
      BY <2>1, MatchGivesBack
    <3> HIDE DEF bound
    <3>2. bound \in Matchings
      BY <3>1 DEF Matchings
    <3> QED
      BY <3>2
  <2>2. ASSUME Matchings # {} PROVE MatchesExactly(profile, topology)
    <3>1. Enough(profile, topology)
      BY <2>2, MatchingsAreEnough
    <3>2. \E names : RulesNamed(profile, names)
      BY ProfileIsMatchable DEF RulesNamed
    <3> QED
      BY <3>1, <3>2, ProfileIsMatchable, FitsInClasses, GreedyMatches
  <2> QED
    BY <2>1, <2>2
<1> QED
  BY <1>1, InvariantHolds, PTL

----------------------------------------------------------------------------
(* Setting a profile. *)

(* What PlanFromProfile plans for an output is the entry it is bound to. *)
LEMMA PlannedEntry ==
    ASSUME NEW p, IsTopology(p.layout), NEW t, NEW c \in DOMAIN t,
           LET bound == MatchRules(p, t).bound
           IN  c \in DOMAIN bound /\ bound[c] \in DOMAIN p.layout
    PROVE  LET entry == p.layout[MatchRules(p, t).bound[c]]
               plan  == PlanFromProfile(p, t)
           IN  /\ c \in DOMAIN plan
               /\ plan[c].enabled = entry.enabled
               /\ \A o : Arranged(plan[c], o) <=> Arranged(entry, o)
<1> DEFINE bound == MatchRules(p, t).bound
           entry == p.layout[bound[c]]
           plan  == PlanFromProfile(p, t)
<1>1. entry \in OutputState
  BY DEF IsTopology
<1>2. c \in DOMAIN plan /\ plan[c] = [entry EXCEPT !.id = t[c].id]
  BY DEF PlanFromProfile
<1> HIDE DEF entry, plan, bound
<1>3. /\ plan[c].enabled = entry.enabled /\ plan[c].mode = entry.mode
      /\ plan[c].pos = entry.pos /\ plan[c].xform = entry.xform /\ plan[c].mirror = entry.mirror
  BY <1>1, <1>2 DEF OutputState
<1>4. \A o : Arranged(plan[c], o) <=> Arranged(entry, o)
  BY <1>3 DEF Arranged
<1> QED
  BY <1>2, <1>3, <1>4 DEF entry, plan, bound

(* Setting a profile gives the displays it was saved of their layouts back *)
(* (plan_profile_for_topology, find_matching_output,                       *)
(* find_matching_layout_entry).                                            *)
THEOREM ProfilesAreRestored == Spec => SetRestores
<1>1. PlanningInv /\ [Next]_vars => [did' = "profile" /\ Unambiguous => Restored(topology')]_vars
  <2> SUFFICES ASSUME PlanningInv, Next, did' = "profile", Unambiguous
               PROVE  Restored(topology')
    BY DEF vars
  <2>1. SetProfile
    <3>1. \A p \in SetPresets : p # "profile"
      BY PlanningAssumption DEF VirtualPresets
    <3> QED
      BY <3>1 DEF Next, Replug, Save, SetPreset
  <2>2. PICK plan \in ProfilePlans(profile, topology) : Submit(plan)
    BY <2>1 DEF SetProfile
  <2>3. /\ profile # NoValue
        /\ MatchesExactly(profile, topology) /\ plan = PlanFromProfile(profile, topology)
        /\ Submittable(plan, topology) /\ topology' = Configure(topology, plan)
    BY <2>1, <2>2 DEF SetProfile, ProfilePlans, Submit
  <2> DEFINE bound == MatchRules(profile, topology).bound
  <2>4. /\ bound \in [RealOutputs(topology) -> RealOutputs(profile.layout)]
        /\ OneToOne(bound)
        /\ NoneMissing => CoversLit(bound)
        /\ \A c \in RealOutputs(topology) : Alike(cabling[c], owners[bound[c]])
    BY <2>3, MatchGivesBack
  <2>5. /\ IsTopology(topology) /\ Unmirrored(topology) /\ IsTopology(profile.layout)
        /\ DOMAIN owners = DOMAIN profile.layout
        /\ Reported(cabling, topology) /\ Reported(cabling, topology')
    BY <2>3, ConfiguredIsReported DEF PlanningInv, ProfileInv, Reported
  <2>6. LayoutHolds(plan, topology')
    BY <2>3, <2>5, AppliedPlanHolds
  <2>7. RealOutputs(topology') = RealOutputs(topology)
    BY <2>5 DEF Reported, RealOutputs
  <2>8. bound \in [RealOutputs(topology') -> DOMAIN owners]
    BY <2>4, <2>5, <2>7 DEF RealOutputs
  <2>9. ASSUME NEW c \in RealOutputs(topology')
        PROVE  /\ Alike(cabling[c], owners[bound[c]])
               /\ topology'[c].enabled = profile.layout[bound[c]].enabled
               /\ topology'[c].enabled => Arranged(profile.layout[bound[c]], topology'[c])
    <3>1. /\ c \in DOMAIN topology /\ c \in RealOutputs(topology) /\ c \in DOMAIN bound
          /\ bound[c] \in DOMAIN profile.layout
      BY <2>4, <2>7, <2>9 DEF RealOutputs
    <3>2. /\ c \in DOMAIN plan /\ plan[c].enabled = profile.layout[bound[c]].enabled
          /\ \A o : Arranged(plan[c], o) <=> Arranged(profile.layout[bound[c]], o)
      BY <2>3, <2>5, <3>1, PlannedEntry
    <3>3. /\ topology'[c].enabled <=> plan[c].enabled
          /\ topology'[c].enabled => Arranged(plan[c], topology'[c])
      BY <2>6, <3>2 DEF LayoutHolds
    <3>4. topology'[c].enabled \in BOOLEAN /\ profile.layout[bound[c]].enabled \in BOOLEAN
      BY <2>5, <2>9, <3>1 DEF Reported, IsTopology, OutputState, RealOutputs
    <3> QED
      BY <2>4, <3>1, <3>2, <3>3, <3>4
  <2> HIDE DEF bound
  <2> QED
    BY <2>4, <2>8, <2>9 DEF Restored
<1> QED
  BY <1>1, InvariantHolds, PTL DEF Spec, SetRestores
=============================================================================
