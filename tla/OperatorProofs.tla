--------------------------- MODULE OperatorProofs ---------------------------
(***************************************************************************)
(* Lemmas about the operators the models are built from: what they return  *)
(* and what they preserve.                                                 *)
(***************************************************************************)
EXTENDS ProfilesFile, Heads, FiniteSetTheorems, TLAPS

----------------------------------------------------------------------------
(* Finite sets. *)

(* In a finite set that is totally ordered every place is taken: the one   *)
(* with i - 1 members before it is the i-th.                               *)
LEMMA EveryPlaceTaken ==
    ASSUME NEW S, IsFiniteSet(S), NEW before \in [S -> SUBSET S],
           \A c \in S : c \notin before[c],
           \A c, d \in S : c # d => c \in before[d] \/ d \in before[c],
           \A c, d, e \in S : c \in before[d] /\ d \in before[e] => c \in before[e]
    PROVE  /\ \A c \in S : Cardinality(before[c]) + 1 \in 1..Cardinality(S)
           /\ \A c, d \in S : Cardinality(before[c]) = Cardinality(before[d]) => c = d
           /\ \A i \in 1..Cardinality(S) : \E c \in S : Cardinality(before[c]) = i - 1
<1> DEFINE n     == Cardinality(S)
           place == [c \in S |-> Cardinality(before[c]) + 1]
<1>1. n \in Nat
  BY FS_CardinalityType
<1>2. ASSUME NEW c \in S
      PROVE  IsFiniteSet(before[c]) /\ Cardinality(before[c]) \in 0..n - 1
  <2>1. before[c] \in SUBSET (S \ {c})
    OBVIOUS
  <2>2. IsFiniteSet(S \ {c}) /\ Cardinality(S \ {c}) = n - 1
    BY FS_RemoveElement
  <2>3. IsFiniteSet(before[c]) /\ Cardinality(before[c]) <= n - 1
    BY <2>1, <2>2, FS_Subset
  <2>4. Cardinality(before[c]) \in Nat
    BY <2>3, FS_CardinalityType
  <2> HIDE DEF n
  <2> QED
    BY <1>1, <2>3, <2>4
<1>3. ASSUME NEW c \in S, NEW d \in S, c \in before[d]
      PROVE  Cardinality(before[c]) # Cardinality(before[d])
  <2>1. before[c] \in SUBSET before[d] /\ before[c] # before[d]
    BY <1>3
  <2>2. IsFiniteSet(before[d])
    BY <1>2
  <2> QED
    BY <2>1, <2>2, FS_Subset
<1>8. ASSUME NEW c \in S PROVE Cardinality(before[c]) + 1 \in 1..n
  <2> HIDE DEF n
  <2> QED
    BY <1>1, <1>2
<1>4. place \in Injection(S, 1..n)
  <2>1. place \in [S -> 1..n]
    BY <1>8
  <2>2. ASSUME NEW c \in S, NEW d \in S, place[c] = place[d]
        PROVE  c = d
    <3>1. Cardinality(before[c]) + 1 = Cardinality(before[d]) + 1
      BY <2>2
    <3>2. Cardinality(before[c]) \in Int /\ Cardinality(before[d]) \in Int
      BY <1>2
    <3>3. Cardinality(before[c]) = Cardinality(before[d])
      BY <3>1, <3>2
    <3> QED
      BY <1>3, <3>3
  <2> HIDE DEF place
  <2> QED
    BY <2>1, <2>2 DEF Injection, IsInjective
<1>5. IsFiniteSet(1..n) /\ Cardinality(1..n) = n
  <2> HIDE DEF n
  <2> QED
    BY <1>1, FS_Interval
<1>6. place \in Surjection(S, 1..n)
  <2> HIDE DEF place
  <2> QED
    BY <1>4, <1>5, FS_Injection
<1>7. ASSUME NEW i \in 1..n
      PROVE  \E c \in S : Cardinality(before[c]) = i - 1
  <2>1. PICK c \in S : place[c] = i
    <3> HIDE DEF place
    <3> QED
      BY <1>6 DEF Surjection
  <2>2. Cardinality(before[c]) + 1 = i /\ Cardinality(before[c]) \in Int
    BY <1>2, <2>1
  <2>3. Cardinality(before[c]) = i - 1
    BY <2>2
  <2> QED
    BY <2>3
<1> QED
  BY <1>3, <1>7, <1>8

(* Then InOrder lists every member, each once. *)
LEMMA InOrderLists ==
    ASSUME NEW S, IsFiniteSet(S), NEW before \in [S -> SUBSET S],
           \A c \in S : c \notin before[c],
           \A c, d \in S : c # d => c \in before[d] \/ d \in before[c],
           \A c, d, e \in S : c \in before[d] /\ d \in before[e] => c \in before[e]
    PROVE  LET list == InOrder(S, before) IN
           /\ DOMAIN list = 1..Cardinality(S)
           /\ \A i \in DOMAIN list : list[i] \in S
           /\ \A c \in S : \E i \in DOMAIN list : list[i] = c
           /\ \A i, j \in DOMAIN list : list[i] = list[j] => i = j
<1> DEFINE n    == Cardinality(S)
           list == InOrder(S, before)
<1>1. /\ \A c \in S : Cardinality(before[c]) + 1 \in 1..n
      /\ \A c, d \in S : Cardinality(before[c]) = Cardinality(before[d]) => c = d
      /\ \A i \in 1..n : \E c \in S : Cardinality(before[c]) = i - 1
  BY EveryPlaceTaken
<1>2. /\ DOMAIN list = 1..n
      /\ \A i \in 1..n : list[i] = CHOOSE c \in S : Cardinality(before[c]) = i - 1
  BY DEF InOrder
<1> HIDE DEF n, list
<1>3. \A i \in 1..n : list[i] \in S /\ Cardinality(before[list[i]]) = i - 1
  BY <1>1, <1>2
<1>4. ASSUME NEW c \in S
      PROVE  \E i \in 1..n : list[i] = c
  <2> DEFINE i == Cardinality(before[c]) + 1
  <2>1. i \in 1..n /\ Cardinality(before[list[i]]) = i - 1
    BY <1>1, <1>3
  <2>2. Cardinality(before[c]) = i - 1
    BY FS_Subset, FS_CardinalityType
  <2> QED
    BY <1>1, <1>3, <2>1, <2>2
<1>5. ASSUME NEW i \in 1..n, NEW j \in 1..n, list[i] = list[j]
      PROVE  i = j
  <2>1. i - 1 = j - 1
    BY <1>3, <1>5
  <2> QED
    BY <2>1
<1> QED
  BY <1>2, <1>3, <1>4, <1>5 DEF n, list

(* In a finite set that is totally ordered one member comes first. *)
LEMMA FirstInOrder ==
    ASSUME NEW S, IsFiniteSet(S), S # {}, NEW before \in [S -> SUBSET S],
           \A c \in S : c \notin before[c],
           \A c, d \in S : c # d => c \in before[d] \/ d \in before[c],
           \A c, d, e \in S : c \in before[d] /\ d \in before[e] => c \in before[e]
    PROVE  \E c \in S : \A d \in S \ {c} : c \in before[d]
<1>1. \A i \in 1..Cardinality(S) : \E c \in S : Cardinality(before[c]) = i - 1
  BY EveryPlaceTaken, ZenonT(60)
<1>2. 1 \in 1..Cardinality(S) /\ 1 - 1 = 0
  BY FS_CardinalityType, FS_EmptySet
<1>3. PICK c \in S : Cardinality(before[c]) = 0
  BY <1>1, <1>2
<1>4. IsFiniteSet(before[c])
  BY FS_Subset
<1>5. before[c] = {}
  BY <1>3, <1>4, FS_EmptySet
<1> QED
  BY <1>5

(* A set of places that is not empty has a first. *)
LEMMA FirstOfPlaces ==
    ASSUME NEW n \in Nat, NEW S \in SUBSET (1..n), S # {}
    PROVE  \E i \in S : \A j \in S : i <= j
<1> DEFINE before == [i \in S |-> {j \in S : j < i}]
<1>1. IsFiniteSet(S)
  <2>1. IsFiniteSet(1..n)
    BY FS_Interval
  <2> QED
    BY <2>1, FS_Subset
<1>2. \A i \in S : i \in Int
  OBVIOUS
<1>3. /\ before \in [S -> SUBSET S]
      /\ \A i \in S : i \notin before[i]
      /\ \A i, j \in S : i # j => i \in before[j] \/ j \in before[i]
      /\ \A i, j, k \in S : i \in before[j] /\ j \in before[k] => i \in before[k]
  BY <1>2
<1> HIDE DEF before
<1>4. \E i \in S : \A j \in S \ {i} : i \in before[j]
  BY <1>1, <1>3, FirstInOrder, ZenonT(60)
<1>5. PICK i \in S : \A j \in S \ {i} : i < j
  BY <1>4 DEF before
<1> QED
  BY <1>2, <1>5

(* Induction: what is so of 0, and of i + 1 when it is of i, is so up to n. *)
LEMMA InductionUpTo ==
    ASSUME NEW n \in Nat, NEW S, 0 \in S, \A i \in 0..n - 1 : i \in S => i + 1 \in S
    PROVE  0..n \subseteq S
<1> DEFINE T == {i \in 1..n : i \notin S}
<1>1. CASE T = {}
  BY <1>1
<1>2. CASE T # {}
  <2>1. PICK i \in T : \A j \in T : i <= j
    <3> HIDE DEF T
    <3>1. T \in SUBSET (1..n)
      BY DEF T
    <3> QED
      BY <1>2, <3>1, FirstOfPlaces
  <2>2. i - 1 \in 0..n - 1 /\ i - 1 \in S /\ (i - 1) + 1 = i
    BY <2>1
  <2> QED
    BY <2>1, <2>2
<1> QED
  BY <1>1, <1>2

(* Numbers up to one more. *)
LEMMA OneMore ==
    ASSUME NEW R, NEW n \in Nat, R \subseteq 1..n, NEW i \in 0..n - 1
    PROVE  /\ IsFiniteSet(R \cap (1..i))
           /\ R \cap (1..i + 1) = IF i + 1 \in R THEN (R \cap (1..i)) \cup {i + 1} ELSE R \cap (1..i)
           /\ Cardinality(R \cap (1..i)) \in Nat
           /\ Cardinality(R \cap (1..i + 1)) =
                Cardinality(R \cap (1..i)) + (IF i + 1 \in R THEN 1 ELSE 0)
<1>1. IsFiniteSet(R \cap (1..i))
  <2>1. IsFiniteSet(1..n)
    BY FS_Interval
  <2>2. R \cap (1..i) \subseteq 1..n
    OBVIOUS
  <2> QED
    BY <2>1, <2>2, FS_Subset
<1>2. R \cap (1..i + 1) = IF i + 1 \in R THEN (R \cap (1..i)) \cup {i + 1} ELSE R \cap (1..i)
  OBVIOUS
<1>3. i + 1 \notin R \cap (1..i)
  OBVIOUS
<1>4. Cardinality(R \cap (1..i)) \in Nat
  BY <1>1, FS_CardinalityType
<1>5. Cardinality((R \cap (1..i)) \cup {i + 1}) = Cardinality(R \cap (1..i)) + 1
  BY <1>1, <1>3, FS_AddElement
<1> QED
  BY <1>1, <1>2, <1>4, <1>5

----------------------------------------------------------------------------
(* Identities and topologies. *)

(* Completing an identity from another keeps every field it reports. *)
LEMMA WithFallbackKeeps ==
    ASSUME NEW id \in OutputIdentity, NEW fallback \in OutputIdentity
    PROVE  /\ WithFallback(id, fallback) \in OutputIdentity
           /\ WithFallback(id, fallback).real = id.real
           /\ \A field \in {"edid", "make", "model", "serial", "description"} :
                Present(fallback[field]) => Present(WithFallback(id, fallback)[field])
<1> DEFINE w == WithFallback(id, fallback)
<1>1. \A S : \A a, b \in Opt(S) : Choose(a, b) \in Opt(S)
  BY DEF Choose
<1>2. w \in OutputIdentity
  BY <1>1 DEF WithFallback, OutputIdentity
<1>3. /\ w.edid = Choose(id.edid, fallback.edid) /\ w.make = Choose(id.make, fallback.make)
      /\ w.model = Choose(id.model, fallback.model)
      /\ w.serial = Choose(id.serial, fallback.serial)
      /\ w.description = Choose(id.description, fallback.description)
      /\ w.real = id.real
  BY DEF WithFallback, OutputIdentity
<1> HIDE DEF w
<1>4. \A a, b : Present(b) => Present(Choose(a, b))
  BY DEF Choose
<1>5. ASSUME NEW field \in {"edid", "make", "model", "serial", "description"},
             Present(fallback[field])
      PROVE  Present(w[field])
  <2>1. w[field] = Choose(id[field], fallback[field])
    BY <1>3
  <2> QED
    BY <1>4, <1>5, <2>1
<1>6. w.real = id.real
  BY <1>3
<1> QED
  BY <1>2, <1>5, <1>6 DEF w

(* Normalising a topology keeps its outputs and their layout; only their   *)
(* identities change, and not in whether the output is real.               *)
LEMMA NormalizeKeepsLayout ==
    ASSUME NEW t, IsTopology(t), NEW known, DOMAIN known \subseteq Connectors,
           known \in [DOMAIN known -> OutputIdentity]
    PROVE  /\ IsTopology(NormalizeTopology(t, known))
           /\ DOMAIN NormalizeTopology(t, known) = DOMAIN t
           /\ \A c \in DOMAIN t : LET o == NormalizeTopology(t, known)[c] IN
                /\ o.id.real = t[c].id.real
                /\ o.enabled = t[c].enabled /\ o.mode = t[c].mode /\ o.pos = t[c].pos
                /\ o.xform = t[c].xform /\ o.mirror = t[c].mirror
<1> DEFINE n == NormalizeTopology(t, known)
<1>1. DOMAIN n = DOMAIN t
  BY DEF NormalizeTopology
<1>2. ASSUME NEW c \in DOMAIN t
      PROVE  /\ n[c] \in OutputState
             /\ n[c].id.real = t[c].id.real
             /\ n[c].enabled = t[c].enabled /\ n[c].mode = t[c].mode /\ n[c].pos = t[c].pos
             /\ n[c].xform = t[c].xform /\ n[c].mirror = t[c].mirror
  <2>1. t[c] \in OutputState
    BY DEF IsTopology
  <2>2. CASE c \in DOMAIN known
    <3>1. n[c] = [t[c] EXCEPT !.id = WithFallback(t[c].id, known[c])]
      BY <2>2 DEF NormalizeTopology
    <3>2. /\ WithFallback(t[c].id, known[c]) \in OutputIdentity
          /\ WithFallback(t[c].id, known[c]).real = t[c].id.real
      <4>1. t[c].id \in OutputIdentity /\ known[c] \in OutputIdentity
        BY <2>1, <2>2 DEF OutputState
      <4> QED
        BY <4>1, WithFallbackKeeps
    <3> QED
      BY <2>1, <3>1, <3>2 DEF OutputState
  <2>3. CASE c \notin DOMAIN known
    <3>1. n[c] = t[c]
      BY <2>3 DEF NormalizeTopology
    <3> QED
      BY <2>1, <3>1
  <2> QED
    BY <2>2, <2>3
<1>3. IsTopology(n)
  <2>1. n \in [DOMAIN n -> OutputState]
    BY <1>1, <1>2 DEF NormalizeTopology
  <2> QED
    BY <1>1, <2>1 DEF IsTopology
<1> QED
  BY <1>1, <1>2, <1>3

----------------------------------------------------------------------------
(* The displays. *)

(* What the compositor accepts makes a topology of a topology. *)
LEMMA ConfigureType ==
    ASSUME NEW plan, NEW t, IsTopology(t), Submittable(plan, t)
    PROVE  IsTopology(Configure(t, plan)) /\ DOMAIN Configure(t, plan) = DOMAIN t
<1>1. DOMAIN Configure(t, plan) = DOMAIN t
  BY DEF Configure
<1>2. ASSUME NEW c \in DOMAIN t PROVE Configure(t, plan)[c] \in OutputState
  <2>1. t[c] \in OutputState
    BY DEF IsTopology
  <2>2. CASE c \in DOMAIN plan /\ plan[c].enabled
    <3>1. /\ plan[c].mode \in Opt(Modes) /\ plan[c].pos \in Position
          /\ plan[c].xform \in Xforms
      BY <2>2 DEF Submittable
    <3>2. Configure(t, plan)[c] = Configured(t[c], plan[c])
      BY <2>2 DEF Configure
    <3> QED
      BY <2>1, <3>1, <3>2 DEF Configured, OutputState
  <2>3. CASE ~(c \in DOMAIN plan /\ plan[c].enabled)
    <3>1. Configure(t, plan)[c] = Off(t[c])
      BY <2>3 DEF Configure
    <3>2. /\ Preferred[t[c].modes] \in Opt(Modes) /\ Origin \in Position
          /\ DefaultXform \in Xforms
      BY <2>1, PreferredAssumption, XformAssumption DEF OutputState, Origin, Position
    <3> QED
      BY <2>1, <3>1, <3>2 DEF Off, OutputState
  <2> QED
    BY <2>2, <2>3
<1>3. Configure(t, plan) \in [DOMAIN Configure(t, plan) -> OutputState]
  BY <1>1, <1>2 DEF Configure
<1> QED
  BY <1>1, <1>3 DEF IsTopology

(* A plan the compositor accepts is in place when it has been applied. *)
LEMMA AppliedPlanHolds ==
    ASSUME NEW plan, NEW t, IsTopology(t), Unmirrored(t), Submittable(plan, t)
    PROVE  Unmirrored(Configure(t, plan)) /\ LayoutHolds(plan, Configure(t, plan))
<1>1. DOMAIN Configure(t, plan) = DOMAIN t
  BY DEF Configure
<1>2. ASSUME NEW c \in DOMAIN t
      PROVE  /\ Configure(t, plan)[c].mirror = NoValue
             /\ Configure(t, plan)[c].enabled <=> (c \in DOMAIN plan /\ plan[c].enabled)
             /\ Configure(t, plan)[c].enabled => Arranged(plan[c], Configure(t, plan)[c])
  <2>1. t[c] \in OutputState /\ t[c].mirror = NoValue
    BY DEF IsTopology, Unmirrored
  <2>2. CASE c \in DOMAIN plan /\ plan[c].enabled
    <3>1. plan[c].mirror = NoValue
      BY <2>2 DEF Submittable
    <3>2. Configure(t, plan)[c] = Configured(t[c], plan[c])
      BY <2>2 DEF Configure
    <3> QED
      BY <2>1, <2>2, <3>1, <3>2 DEF Configured, OutputState, Arranged
  <2>3. CASE ~(c \in DOMAIN plan /\ plan[c].enabled)
    <3>1. Configure(t, plan)[c] = Off(t[c])
      BY <2>3 DEF Configure
    <3> QED
      BY <2>1, <2>3, <3>1 DEF Off, OutputState
  <2> QED
    BY <2>2, <2>3
<1> QED
  BY <1>1, <1>2 DEF Unmirrored, LayoutHolds, RealOutputs

----------------------------------------------------------------------------
(* The state file. *)

(* Caching the identities of a normalised topology forgets nothing. *)
LEMMA CacheNeverForgets ==
    ASSUME NEW t, IsTopology(t), NEW known, DOMAIN known \subseteq Connectors,
           known \in [DOMAIN known -> OutputIdentity],
           NEW c \in DOMAIN known
    PROVE  LET cache == CacheIdentities(known, NormalizeTopology(t, known)) IN
           /\ c \in DOMAIN cache
           /\ \A field \in {"edid", "make", "model", "serial", "description"} :
                Present(known[c][field]) => Present(cache[c][field])
<1> DEFINE n == NormalizeTopology(t, known)
           cache == CacheIdentities(known, n)
<1>1. DOMAIN n = DOMAIN t
  BY DEF NormalizeTopology
<1>2. c \in DOMAIN cache
  BY DEF CacheIdentities
<1>3. CASE c \in DOMAIN t
  <2>1. t[c] \in OutputState /\ t[c].id \in OutputIdentity /\ known[c] \in OutputIdentity
    BY <1>3 DEF IsTopology, OutputState
  <2>2. n[c].id = WithFallback(t[c].id, known[c])
    BY <1>3, <2>1 DEF NormalizeTopology, OutputState
  <2>3. cache[c] = n[c].id
    BY <1>1, <1>3 DEF CacheIdentities
  <2> QED
    BY <1>2, <2>1, <2>2, <2>3, WithFallbackKeeps
<1>4. CASE c \notin DOMAIN t
  BY <1>1, <1>2, <1>4 DEF CacheIdentities
<1> QED
  BY <1>3, <1>4

LEMMA CacheType ==
    ASSUME NEW t, IsTopology(t), NEW known, DOMAIN known \subseteq Connectors,
           known \in [DOMAIN known -> OutputIdentity]
    PROVE  /\ DOMAIN CacheIdentities(known, t) \subseteq Connectors
           /\ CacheIdentities(known, t) \in
                [DOMAIN CacheIdentities(known, t) -> OutputIdentity]
<1> DEFINE cache == CacheIdentities(known, t)
<1>1. DOMAIN cache = DOMAIN known \cup DOMAIN t
  BY DEF CacheIdentities
<1>2. \A c \in DOMAIN t : t[c].id \in OutputIdentity
  BY DEF IsTopology, OutputState
<1>3. ASSUME NEW c \in DOMAIN cache PROVE cache[c] \in OutputIdentity
  BY <1>1, <1>2 DEF CacheIdentities
<1>4. cache \in [DOMAIN cache -> OutputIdentity]
  BY <1>3 DEF CacheIdentities
<1> QED
  BY <1>1, <1>4 DEF IsTopology

LEMMA EmptyStateType == IsState(EmptyState)
<1>1. DOMAIN <<>> = {}
  OBVIOUS
<1> QED
  BY <1>1 DEF IsState, EmptyState, Opt

LEMMA RecordDaemonStartedType ==
    ASSUME NEW s, IsState(s)
    PROVE  /\ IsState(RecordDaemonStarted(s))
           /\ RecordDaemonStarted(s).known = s.known
           /\ RecordDaemonStarted(s).remembered = s.remembered
BY DEF IsState, RecordDaemonStarted

(* The fields of the state after an observation. *)
LEMMA UpdateObservedFields ==
    ASSUME NEW s, IsState(s), NEW t, NEW name
    PROVE  LET n == NormalizeTopology(t, s.known)
               u == UpdateObserved(s, t, name)
           IN  /\ u \in [last : {name}, known : {u.known}, remembered : {u.remembered},
                         enabled : BOOLEAN]
               /\ u.known = CacheIdentities(s.known, n)
               /\ u.remembered = Remember(s.remembered, n)
BY DEF IsState, UpdateObserved

LEMMA UpdateObservedType ==
    ASSUME NEW s, IsState(s), NEW t, IsTopology(t), NEW name \in Opt(AppliedNames)
    PROVE  IsState(UpdateObserved(s, t, name))
<1> DEFINE n == NormalizeTopology(t, s.known)
           u == UpdateObserved(s, t, name)
<1>1. /\ DOMAIN s.known \subseteq Connectors
      /\ s.known \in [DOMAIN s.known -> OutputIdentity]
      /\ s.enabled \in BOOLEAN
      /\ \A fp \in DOMAIN s.remembered : IsTopology(s.remembered[fp])
  BY DEF IsState
<1>2. IsTopology(n)
  BY <1>1, NormalizeKeepsLayout
<1>3. /\ u \in [last : {name}, known : {u.known}, remembered : {u.remembered},
                enabled : BOOLEAN]
      /\ u.known = CacheIdentities(s.known, n)
      /\ u.remembered = Remember(s.remembered, n)
  BY UpdateObservedFields
<1>4. /\ DOMAIN u.known \subseteq Connectors
      /\ u.known \in [DOMAIN u.known -> OutputIdentity]
  <2> HIDE DEF n
  <2> QED
    BY <1>1, <1>2, <1>3, CacheType
<1>5. ASSUME NEW fp \in DOMAIN u.remembered PROVE IsTopology(u.remembered[fp])
  <2>1. u.remembered = Remember(s.remembered, n)
    BY <1>3
  <2> HIDE DEF n, u
  <2> QED
    BY <1>1, <1>2, <2>1 DEF Remember, Put
<1>6. u \in [last : Opt(AppliedNames), known : {u.known}, remembered : {u.remembered},
             enabled : BOOLEAN]
  <2> HIDE DEF n, u
  <2> QED
    BY <1>1, <1>3
<1> QED
  BY <1>4, <1>5, <1>6 DEF IsState
----------------------------------------------------------------------------
(* The profile store. *)

LEMMA CanonicalProfile ==
    ASSUME NEW p, IsProfile(p), NEW known, NEW order
    PROVE  /\ IsProfile(CanonicalizeProfile(p, known, order))
           /\ CanonicalizeProfile(p, known, order).name = p.name
<1> DEFINE inferred == WithInferredMatchRules(p, order)
           canonical == CanonicalizeProfile(p, known, order)
<1>1. inferred \in [name : {p.name}, priority : {p.priority}, rules : {inferred.rules},
                    layout : {p.layout}, hooks : {p.hooks}]
  BY DEF IsProfile, WithInferredMatchRules
<1>2. canonical \in [name : {p.name}, priority : {p.priority}, rules : {canonical.rules},
                     layout : {canonical.layout}, hooks : {p.hooks}]
  <2> HIDE DEF inferred
  <2> QED
    BY <1>1 DEF CanonicalizeProfile, inferred
<1> HIDE DEF canonical
<1> QED
  BY <1>2 DEF IsProfile, canonical

LEMMA ProfileFromTopologyType ==
    ASSUME NEW name \in ProfileNames, NEW t, NEW order
    PROVE  IsProfile(ProfileFromTopology(name, t, order))
BY DEF IsProfile, ProfileFromTopology

LEMMA EmptyStoreType == IsStore(EmptyStore)
<1>1. DOMAIN <<>> = {}
  OBVIOUS
<1> QED
  BY <1>1 DEF IsStore, EmptyStore

(* Every update of the store keeps it a store. *)
LEMMA SaveProfileType ==
    ASSUME NEW store, IsStore(store), NEW p, IsProfile(p), NEW known, NEW order
    PROVE  IsStore(SaveProfile(store, p, known, order))
<1> DEFINE profile == CanonicalizeProfile(p, known, order)
           old == ProfilesNamed(store, profile.name, ProfileSetupFingerprint(profile),
                                known, order)
           new == SaveProfile(store, p, known, order)
<1>1. IsProfile(profile)
  BY CanonicalProfile
<1>2. new = [store EXCEPT !.profiles = (store.profiles \ old) \cup {profile}]
  BY DEF SaveProfile, IsStore
<1> HIDE DEF profile, old, new
<1> QED
  BY <1>1, <1>2 DEF IsStore, new

LEMMA RemoveForSetupType ==
    ASSUME NEW store, IsStore(store), NEW name, NEW fp, NEW known, NEW order
    PROVE  IsStore(RemoveForSetup(store, name, fp, known, order))
<1> DEFINE gone == ProfilesNamed(store, name, fp, known, order)
           new == RemoveForSetup(store, name, fp, known, order)
<1>1. \/ new = store
      \/ new = [store EXCEPT !.profiles = store.profiles \ gone]
      \/ new = [store EXCEPT !.profiles = store.profiles \ gone,
                             !.defaults = Drop(store.defaults, fp)]
  BY DEF RemoveForSetup, IsStore
<1>2. \A x \in DOMAIN Drop(store.defaults, fp) : Drop(store.defaults, fp)[x] \in ProfileNames
  BY DEF Drop, IsStore
<1> HIDE DEF gone, new
<1> QED
  BY <1>1, <1>2 DEF IsStore, new

LEMMA SetSetupDefaultProfileType ==
    ASSUME NEW store, IsStore(store), NEW fp, NEW name \in ProfileNames
    PROVE  IsStore(SetSetupDefaultProfile(store, fp, name))
<1>1. /\ \A x \in DOMAIN Drop(store.layouts, fp) : Drop(store.layouts, fp)[x] \in VirtualPresets
      /\ \A x \in DOMAIN Put(store.defaults, fp, name) :
            Put(store.defaults, fp, name)[x] \in ProfileNames
  BY DEF Drop, Put, IsStore
<1> QED
  BY <1>1 DEF IsStore, SetSetupDefaultProfile

LEMMA SetSetupDefaultLayoutType ==
    ASSUME NEW store, IsStore(store), NEW fp, NEW preset \in VirtualPresets
    PROVE  IsStore(SetSetupDefaultLayout(store, fp, preset))
<1>1. /\ \A x \in DOMAIN Drop(store.defaults, fp) : Drop(store.defaults, fp)[x] \in ProfileNames
      /\ \A x \in DOMAIN Put(store.layouts, fp, preset) :
            Put(store.layouts, fp, preset)[x] \in VirtualPresets
  BY DEF Drop, Put, IsStore
<1> QED
  BY <1>1 DEF IsStore, SetSetupDefaultLayout

LEMMA ClearSetupDefaultLayoutType ==
    ASSUME NEW store, IsStore(store), NEW fp
    PROVE  IsStore(ClearSetupDefaultLayout(store, fp))
<1>1. \A x \in DOMAIN Drop(store.layouts, fp) : Drop(store.layouts, fp)[x] \in VirtualPresets
  BY DEF Drop, IsStore
<1> QED
  BY <1>1 DEF IsStore, ClearSetupDefaultLayout

LEMMA SetupProfilesType ==
    ASSUME NEW store, IsStore(store), NEW fp, NEW known, NEW order,
           NEW p \in ProfilesForSetup(store, fp, known, order)
    PROVE  IsProfile(p)
<1>1. PICK q \in store.profiles : p = CanonicalizeProfile(q, known, order)
  BY DEF ProfilesForSetup
<1> QED
  BY <1>1, CanonicalProfile DEF IsStore

----------------------------------------------------------------------------
(* Completing identities from the cache, and the setups that displays and  *)
(* profiles are filed under.                                               *)

(* What is completed twice is completed once.                              *)
LEMMA WithFallbackAgain ==
    ASSUME NEW id \in OutputIdentity, NEW fallback \in OutputIdentity
    PROVE  LET w == WithFallback(id, fallback) IN
           /\ WithFallback(w, fallback) = w /\ WithFallback(id, w) = w
           /\ WithFallback(id, id) = id
           /\ Present(id.connector) => w.connector = id.connector
<1>1. \A a, b : /\ Choose(Choose(a, b), b) = Choose(a, b) /\ Choose(a, Choose(a, b)) = Choose(a, b)
                /\ Choose(a, a) = a /\ (Present(a) => Choose(a, b) = a)
  BY DEF Choose
<1>2. \A S : \A a, b \in Opt(S) : Choose(a, b) \in Opt(S)
  BY DEF Choose
<1>3. ASSUME NEW a \in OutputIdentity, NEW b \in OutputIdentity
      PROVE  LET w == WithFallback(a, b) IN
             /\ w \in OutputIdentity
             /\ w.edid = Choose(a.edid, b.edid) /\ w.make = Choose(a.make, b.make)
             /\ w.model = Choose(a.model, b.model) /\ w.serial = Choose(a.serial, b.serial)
             /\ w.connector = Choose(a.connector, b.connector)
             /\ w.description = Choose(a.description, b.description) /\ w.real = a.real
  <2>1. WithFallback(a, b) \in OutputIdentity
    BY WithFallbackKeeps
  <2> QED
    BY <2>1 DEF WithFallback, OutputIdentity
<1>4. ASSUME NEW a \in OutputIdentity, NEW b \in OutputIdentity,
             a.edid = b.edid, a.make = b.make, a.model = b.model, a.serial = b.serial,
             a.connector = b.connector, a.description = b.description, a.real = b.real
      PROVE  a = b
  BY <1>4 DEF OutputIdentity
<1> DEFINE w == WithFallback(id, fallback)
<1>5. /\ w \in OutputIdentity
      /\ w.edid = Choose(id.edid, fallback.edid) /\ w.make = Choose(id.make, fallback.make)
      /\ w.model = Choose(id.model, fallback.model)
      /\ w.serial = Choose(id.serial, fallback.serial)
      /\ w.connector = Choose(id.connector, fallback.connector)
      /\ w.description = Choose(id.description, fallback.description)
      /\ w.real = id.real
  BY <1>3
<1> HIDE DEF w
<1>6. WithFallback(w, fallback) = w
  <2> DEFINE v == WithFallback(w, fallback)
  <2>1. /\ v \in OutputIdentity
        /\ v.edid = w.edid /\ v.make = w.make /\ v.model = w.model /\ v.serial = w.serial
        /\ v.connector = w.connector /\ v.description = w.description /\ v.real = w.real
    BY <1>1, <1>3, <1>5
  <2> HIDE DEF v
  <2>2. v = w
    BY <1>4, <1>5, <2>1
  <2> QED
    BY <2>2 DEF v
<1>7. WithFallback(id, w) = w
  <2> DEFINE v == WithFallback(id, w)
  <2>1. /\ v \in OutputIdentity
        /\ v.edid = w.edid /\ v.make = w.make /\ v.model = w.model /\ v.serial = w.serial
        /\ v.connector = w.connector /\ v.description = w.description /\ v.real = w.real
    BY <1>1, <1>3, <1>5
  <2> HIDE DEF v
  <2>2. v = w
    BY <1>4, <1>5, <2>1
  <2> QED
    BY <2>2 DEF v
<1>8. WithFallback(id, id) = id
  <2> DEFINE v == WithFallback(id, id)
  <2>1. /\ v \in OutputIdentity
        /\ v.edid = id.edid /\ v.make = id.make /\ v.model = id.model /\ v.serial = id.serial
        /\ v.connector = id.connector /\ v.description = id.description /\ v.real = id.real
    BY <1>1, <1>3
  <2> HIDE DEF v
  <2>2. v = id
    BY <1>4, <2>1
  <2> QED
    BY <2>2 DEF v
<1> QED
  BY <1>1, <1>5, <1>6, <1>7, <1>8 DEF w

(* How often each key occurs does not depend on the order they are in.     *)
LEMMA CountsAlong ==
    ASSUME NEW I, IsFiniteSet(I), NEW J, NEW g \in Bijection(I, J), NEW ids, DOMAIN ids = J
    PROVE  KeyCounts([i \in I |-> ids[g[i]]]) = KeyCounts(ids)
<1> DEFINE along == [i \in I |-> ids[g[i]]]
           here(k)  == {i \in I : PrimaryKey(ids[g[i]]) = k}
           there(k) == {j \in J : PrimaryKey(ids[j]) = k}
           keys == {PrimaryKey(ids[j]) : j \in J}
<1>1. /\ \A i \in I : g[i] \in J
      /\ \A j \in J : \E i \in I : g[i] = j
      /\ \A i, k \in I : g[i] = g[k] => i = k
  BY DEF Bijection, Injection, IsInjective, Surjection
<1>2. {PrimaryKey(ids[g[i]]) : i \in I} = keys
  BY <1>1
<1>3. ASSUME NEW k PROVE Cardinality(here(k)) = Cardinality(there(k))
  <2> DEFINE h == [i \in here(k) |-> g[i]]
  <2>1. IsFiniteSet(here(k))
    BY FS_Subset
  <2>2. /\ \A i \in here(k) : h[i] \in there(k)
        /\ \A j \in there(k) : \E i \in here(k) : h[i] = j
        /\ \A i, l \in here(k) : h[i] = h[l] => i = l
    BY <1>1
  <2>3. h \in Bijection(here(k), there(k))
    <3>1. h \in [here(k) -> there(k)]
      BY <2>2
    <3> HIDE DEF h, here, there
    <3> QED
      BY <2>2, <3>1 DEF Bijection, Injection, IsInjective, Surjection
  <2> HIDE DEF h, here, there
  <2> QED
    BY <2>1, <2>3, FS_Bijection DEF ExistsBijection
<1>4. KeyCounts(ids) = [k \in keys |-> Cardinality(there(k))]
  BY DEF KeyCounts
<1>5. KeyCounts(along) = [k \in {PrimaryKey(ids[g[i]]) : i \in I} |-> Cardinality(here(k))]
  <2>1. DOMAIN along = I /\ \A i \in I : along[i] = ids[g[i]]
    OBVIOUS
  <2>2. {PrimaryKey(along[i]) : i \in DOMAIN along} = {PrimaryKey(ids[g[i]]) : i \in I}
    BY <2>1
  <2>3. \A k : {i \in DOMAIN along : PrimaryKey(along[i]) = k} = here(k)
    BY <2>1
  <2> HIDE DEF along, here
  <2> QED
    BY <2>2, <2>3 DEF KeyCounts
<1> HIDE DEF here, there, keys, along
<1>6. KeyCounts(along) = KeyCounts(ids)
  BY <1>2, <1>3, <1>4, <1>5
<1> QED
  BY <1>6 DEF along
(* A cache of known identities. *)
IsCache(known) ==
    DOMAIN known \subseteq Connectors /\ known \in [DOMAIN known -> OutputIdentity]

LEMMA CachedIdentityType ==
    ASSUME NEW id \in OutputIdentity, NEW known, IsCache(known)
    PROVE  /\ CachedRuleIdentity(id, known) \in OutputIdentity
           /\ CachedRuleIdentity(id, known).real = id.real
<1>1. CASE id.connector \in DOMAIN known
  <2>1. known[id.connector] \in OutputIdentity
    BY <1>1 DEF IsCache
  <2> QED
    BY <1>1, <2>1, WithFallbackKeeps DEF CachedRuleIdentity
<1>2. CASE id.connector \notin DOMAIN known
  BY <1>2 DEF CachedRuleIdentity
<1> QED
  BY <1>1, <1>2

(* A profile as a query returns it: its match rules, given or inferred,    *)
(* with their identities completed, and its layout with nothing changed    *)
(* but identities.                                                         *)
LEMMA CanonicalFields ==
    ASSUME NEW p, IsProfile(p), NEW known, NEW order
    PROVE  LET inferred == WithInferredMatchRules(p, order)
               canonical == CanonicalizeProfile(p, known, order)
               completed(c) == IF c \in DOMAIN known THEN WithFallback(p.layout[c].id, known[c])
                               ELSE CachedRuleIdentity(p.layout[c].id, known)
           IN  /\ inferred.rules = IF p.rules = <<>> THEN RulesFromLayout(p.layout, order)
                                   ELSE p.rules
               /\ DOMAIN canonical.rules = DOMAIN inferred.rules
               /\ \A i \in DOMAIN inferred.rules : "id" \in DOMAIN inferred.rules[i] =>
                    canonical.rules[i].id = CachedRuleIdentity(inferred.rules[i].id, known)
               /\ DOMAIN canonical.layout = DOMAIN p.layout
               /\ \E f : canonical.layout = [c \in DOMAIN p.layout |-> f[c]]
               /\ \A c \in DOMAIN p.layout :
                    p.layout[c] \in OutputState /\ completed(c) \in OutputIdentity =>
                        /\ canonical.layout[c] \in OutputState
                        /\ canonical.layout[c].id = completed(c)
<1> DEFINE inferred == WithInferredMatchRules(p, order)
           canonical == CanonicalizeProfile(p, known, order)
           cached(c, id) == IF c \in DOMAIN known THEN WithFallback(id, known[c])
                            ELSE CachedRuleIdentity(id, known)
           rules  == [i \in DOMAIN inferred.rules |->
                        [inferred.rules[i] EXCEPT !.id = CachedRuleIdentity(@, known)]]
           layout == [c \in DOMAIN p.layout |-> [p.layout[c] EXCEPT !.id = cached(c, @)]]
<1>1. /\ inferred \in [name : {p.name}, priority : {p.priority}, rules : {inferred.rules},
                       layout : {p.layout}, hooks : {p.hooks}]
      /\ inferred.rules = IF p.rules = <<>> THEN RulesFromLayout(p.layout, order) ELSE p.rules
  BY DEF IsProfile, WithInferredMatchRules
<1>2. canonical = [inferred EXCEPT !.rules = rules, !.layout = layout]
  BY DEF CanonicalizeProfile
<1>3. canonical.rules = rules /\ canonical.layout = layout
  <2> HIDE DEF inferred, rules, layout, canonical
  <2> QED
    BY <1>1, <1>2
<1> HIDE DEF inferred, canonical
<1>4. /\ DOMAIN canonical.rules = DOMAIN inferred.rules
      /\ \A i \in DOMAIN inferred.rules : "id" \in DOMAIN inferred.rules[i] =>
            canonical.rules[i].id = CachedRuleIdentity(inferred.rules[i].id, known)
  BY <1>3
<1>5. DOMAIN canonical.layout = DOMAIN p.layout
  BY <1>3
<1>6. ASSUME NEW c \in DOMAIN p.layout, p.layout[c] \in OutputState,
             cached(c, p.layout[c].id) \in OutputIdentity
      PROVE  /\ canonical.layout[c] \in OutputState
             /\ canonical.layout[c].id = cached(c, p.layout[c].id)
  <2>1. canonical.layout[c] = [p.layout[c] EXCEPT !.id = cached(c, @)]
    BY <1>3
  <2> HIDE DEF cached, layout
  <2> QED
    BY <1>6, <2>1 DEF OutputState
<1>7. \E f : canonical.layout = [c \in DOMAIN p.layout |-> f[c]]
  <2>1. layout = [c \in DOMAIN p.layout |-> layout[c]]
    OBVIOUS
  <2> HIDE DEF layout
  <2> QED
    BY <1>3, <2>1
<1> QED
  BY <1>1, <1>4, <1>5, <1>6, <1>7 DEF inferred, canonical

LEMMA CanonicalLayout ==
    ASSUME NEW p, IsProfile(p), IsTopology(p.layout), NEW known, IsCache(known), NEW order
    PROVE  LET layout == CanonicalizeProfile(p, known, order).layout IN
           /\ IsTopology(layout) /\ DOMAIN layout = DOMAIN p.layout
           /\ RealOutputs(layout) = RealOutputs(p.layout)
<1> DEFINE layout == CanonicalizeProfile(p, known, order).layout
           completed(c) == IF c \in DOMAIN known THEN WithFallback(p.layout[c].id, known[c])
                           ELSE CachedRuleIdentity(p.layout[c].id, known)
<1>1. /\ DOMAIN layout = DOMAIN p.layout
      /\ \E f : layout = [c \in DOMAIN p.layout |-> f[c]]
      /\ \A c \in DOMAIN p.layout :
            p.layout[c] \in OutputState /\ completed(c) \in OutputIdentity =>
                layout[c] \in OutputState /\ layout[c].id = completed(c)
  BY CanonicalFields
<1>2. ASSUME NEW c \in DOMAIN p.layout
      PROVE  /\ p.layout[c] \in OutputState /\ completed(c) \in OutputIdentity
             /\ completed(c).real = p.layout[c].id.real
  <2>1. p.layout[c] \in OutputState /\ p.layout[c].id \in OutputIdentity
    BY DEF IsTopology, OutputState
  <2>2. CASE c \in DOMAIN known
    <3>1. known[c] \in OutputIdentity
      BY <2>2 DEF IsCache
    <3> QED
      BY <2>1, <2>2, <3>1, WithFallbackKeeps
  <2>3. CASE c \notin DOMAIN known
    BY <2>1, <2>3, CachedIdentityType
  <2> QED
    BY <2>2, <2>3, <2>1
<1> HIDE DEF layout, completed
<1>3. ASSUME NEW c \in DOMAIN layout
      PROVE  layout[c] \in OutputState /\ layout[c].id.real = p.layout[c].id.real
  BY <1>1, <1>2
<1>4. DOMAIN layout = DOMAIN p.layout
  BY <1>1
<1>5. layout \in [DOMAIN layout -> OutputState]
  BY <1>1, <1>3
<1>6. RealOutputs(layout) = RealOutputs(p.layout)
  BY <1>3, <1>4 DEF RealOutputs
<1> QED
  BY <1>4, <1>5, <1>6 DEF IsTopology, layout

(* Iterating over a hash map comes by every key once. *)
LEMMA IteratedLists ==
    ASSUME IsFiniteSet(Connectors), NEW S \in SUBSET Connectors, NEW order \in IterationOrders
    PROVE  LET list == Iterated(S, order) IN
           /\ IsFiniteSet(DOMAIN list) /\ DOMAIN list = 1..Cardinality(S)
           /\ list \in Bijection(DOMAIN list, S)
<1> DEFINE n == Cardinality(Connectors)
           before == [c \in S |-> {d \in S : \E i, j \in DOMAIN order :
                                                i < j /\ order[i] = d /\ order[j] = c}]
           list == InOrder(S, before)
<1>1. IsFiniteSet(S) /\ n \in Nat
  BY FS_Subset, FS_CardinalityType
<1>2. order \in [1..n -> Connectors] /\ \A i, j \in 1..n : order[i] = order[j] => i = j
  BY DEF IterationOrders
<1>3. \A c \in Connectors : \E i \in 1..n : order[i] = c
  <2>1. IsFiniteSet(1..n) /\ Cardinality(1..n) = n
    <3> HIDE DEF n
    <3> QED
      BY <1>1, FS_Interval
  <2>2. order \in Injection(1..n, Connectors)
    BY <1>2 DEF Injection, IsInjective
  <2>3. order \in Surjection(1..n, Connectors)
    BY <2>1, <2>2, FS_Injection
  <2> QED
    BY <2>3 DEF Surjection
<1>4. before \in [S -> SUBSET S]
  OBVIOUS
<1>5. ASSUME NEW c \in S, NEW d \in S
      PROVE  c \in before[d] <=> \E i, j \in 1..n : i < j /\ order[i] = c /\ order[j] = d
  BY <1>2
<1> HIDE DEF n, before
<1>6. \A c \in S : c \notin before[c]
  <2> SUFFICES ASSUME NEW c \in S, c \in before[c] PROVE FALSE
    OBVIOUS
  <2>1. PICK i, j \in 1..n : i < j /\ order[i] = c /\ order[j] = c
    BY <1>5
  <2> QED
    BY <1>1, <1>2, <2>1
<1>7. \A c, d \in S : c # d => c \in before[d] \/ d \in before[c]
  <2> SUFFICES ASSUME NEW c \in S, NEW d \in S, c # d PROVE c \in before[d] \/ d \in before[c]
    OBVIOUS
  <2>1. PICK i \in 1..n, j \in 1..n : order[i] = c /\ order[j] = d
    BY <1>3
  <2>2. i < j \/ j < i
    BY <1>1, <2>1
  <2> QED
    BY <1>5, <2>1, <2>2
<1>8. \A c, d, e \in S : c \in before[d] /\ d \in before[e] => c \in before[e]
  <2> SUFFICES ASSUME NEW c \in S, NEW d \in S, NEW e \in S, c \in before[d], d \in before[e]
               PROVE  c \in before[e]
    OBVIOUS
  <2>1. PICK i, j \in 1..n : i < j /\ order[i] = c /\ order[j] = d
    BY <1>5
  <2>2. PICK k, l \in 1..n : k < l /\ order[k] = d /\ order[l] = e
    BY <1>5
  <2>3. j = k
    BY <1>2, <2>1, <2>2
  <2>4. i < l
    BY <1>1, <2>1, <2>2, <2>3
  <2> QED
    BY <1>5, <2>1, <2>2, <2>4
<1>9. /\ DOMAIN list = 1..Cardinality(S)
      /\ \A i \in DOMAIN list : list[i] \in S
      /\ \A c \in S : \E i \in DOMAIN list : list[i] = c
      /\ \A i, j \in DOMAIN list : list[i] = list[j] => i = j
  BY <1>1, <1>4, <1>6, <1>7, <1>8, InOrderLists
<1>10. IsFiniteSet(DOMAIN list)
  BY <1>1, <1>9, FS_CardinalityType, FS_Interval
<1>11. list \in Bijection(DOMAIN list, S)
  <2>1. list \in [DOMAIN list -> S]
    BY <1>9 DEF InOrder
  <2> HIDE DEF list
  <2> QED
    BY <1>9, <2>1 DEF Bijection, Injection, IsInjective, Surjection
<1>12. Iterated(S, order) = list
  BY DEF Iterated, before
<1> QED
  BY <1>9, <1>10, <1>11, <1>12

(* A profile without match rules of its own is filed under the displays of *)
(* its layout, completed from the cache, in whatever order the layout is   *)
(* iterated over.                                                          *)
LEMMA InferredFingerprint ==
    ASSUME IsFiniteSet(Connectors), NEW p, IsProfile(p), IsTopology(p.layout),
           NEW known, IsCache(known), NEW order \in IterationOrders,
           p.rules = <<>> \/ p.rules = RulesFromLayout(p.layout, order)
    PROVE  ProfileSetupFingerprint(CanonicalizeProfile(p, known, order)) =
             KeyCounts([c \in RealOutputs(p.layout) |->
                           CachedRuleIdentity(p.layout[c].id, known)])
<1> DEFINE real == RealOutputs(p.layout)
           names == Iterated(real, order)
           ids == [c \in real |-> CachedRuleIdentity(p.layout[c].id, known)]
           canonical == CanonicalizeProfile(p, known, order)
           r == RulesFromLayout(p.layout, order)
<1>1. real \in SUBSET Connectors /\ real \subseteq DOMAIN p.layout
  BY DEF RealOutputs, IsTopology
<1>2. IsFiniteSet(DOMAIN names) /\ names \in Bijection(DOMAIN names, real)
  BY <1>1, IteratedLists
<1>3. /\ \A i \in DOMAIN names : names[i] \in real
      /\ \A c \in real : \E i \in DOMAIN names : names[i] = c
  BY <1>2 DEF Bijection, Injection, Surjection
<1>4. r = [i \in DOMAIN names |->
            [id |-> p.layout[names[i]].id, required |-> p.layout[names[i]].enabled,
             hint |-> p.layout[names[i]].pos]]
  BY DEF RulesFromLayout
<1>5. /\ DOMAIN canonical.rules = DOMAIN r
      /\ \A i \in DOMAIN r : "id" \in DOMAIN r[i] =>
            canonical.rules[i].id = CachedRuleIdentity(r[i].id, known)
  <2>1. WithInferredMatchRules(p, order).rules =
          IF p.rules = <<>> THEN RulesFromLayout(p.layout, order) ELSE p.rules
    BY CanonicalFields
  <2>2. WithInferredMatchRules(p, order).rules = r
    BY <2>1
  <2> HIDE DEF r
  <2> QED
    BY <2>2, CanonicalFields
<1>6. ASSUME NEW i \in DOMAIN names
      PROVE  canonical.rules[i].id = ids[names[i]] /\ canonical.rules[i].id.real
  <2>1. /\ names[i] \in real /\ p.layout[names[i]].id \in OutputIdentity
        /\ p.layout[names[i]].id.real
    BY <1>1, <1>3 DEF RealOutputs, IsTopology, OutputState
  <2> DEFINE id == p.layout[names[i]].id
  <2>2. CachedRuleIdentity(id, known).real
    BY <2>1, CachedIdentityType
  <2>3. r[i] = [id |-> id, required |-> p.layout[names[i]].enabled, hint |-> p.layout[names[i]].pos]
    BY <1>4
  <2>4. canonical.rules[i].id = CachedRuleIdentity(id, known)
    <3> HIDE DEF canonical, r, id
    <3> QED
      BY <1>4, <1>5, <2>3
  <2> HIDE DEF canonical, r
  <2> QED
    BY <2>1, <2>2, <2>4
<1>7. DOMAIN canonical.rules = DOMAIN names
  <2> HIDE DEF canonical, r
  <2> QED
    BY <1>4, <1>5
<1>8. CASE canonical.rules = <<>>
  <2>1. real = {}
    <3>1. DOMAIN <<>> = {}
      OBVIOUS
    <3> HIDE DEF canonical, real, names
    <3> QED
      BY <1>3, <1>7, <1>8, <3>1
  <2>2. RealOutputs(canonical.layout) = {}
    BY <2>1, CanonicalLayout
  <2>3. \A f, g : DOMAIN f = {} /\ DOMAIN g = {} => KeyCounts(f) = KeyCounts(g)
    BY DEF KeyCounts
  <2>4. SetupFingerprint(canonical.layout) = KeyCounts(ids)
    <3> HIDE DEF canonical, real
    <3> QED
      BY <2>1, <2>2, <2>3 DEF SetupFingerprint
  <2> HIDE DEF canonical, ids
  <2> QED
    BY <1>8, <2>4 DEF ProfileSetupFingerprint, canonical, ids
<1>9. CASE canonical.rules # <<>>
  <2> HIDE DEF canonical, ids, real, names, r
  <2>1. {j \in DOMAIN canonical.rules : canonical.rules[j].id.real} = DOMAIN names
    BY <1>6, <1>7
  <2>2. [i \in DOMAIN names |-> canonical.rules[i].id] = [i \in DOMAIN names |-> ids[names[i]]]
    BY <1>6
  <2>3. DOMAIN ids = real
    BY DEF ids
  <2>4. KeyCounts([i \in DOMAIN names |-> ids[names[i]]]) = KeyCounts(ids)
    BY <1>2, <2>3, CountsAlong
  <2>5. ProfileSetupFingerprint(canonical) = KeyCounts(ids)
    BY <1>9, <2>1, <2>2, <2>4 DEF ProfileSetupFingerprint
  <2> QED
    BY <2>5 DEF canonical, ids, real
<1> QED
  BY <1>8, <1>9
LEMMA FingerprintIgnoresOrder ==
    ASSUME IsFiniteSet(Connectors), NEW p, IsProfile(p), IsTopology(p.layout),
           NEW known, IsCache(known), NEW o1 \in IterationOrders, NEW o2 \in IterationOrders
    PROVE  ProfileSetupFingerprint(CanonicalizeProfile(p, known, o1)) =
             ProfileSetupFingerprint(CanonicalizeProfile(p, known, o2))
<1>1. CASE p.rules = <<>>
  BY <1>1, InferredFingerprint
<1>2. CASE p.rules # <<>>
  <2>1. WithInferredMatchRules(p, o1) = WithInferredMatchRules(p, o2)
    BY <1>2 DEF WithInferredMatchRules
  <2>2. CanonicalizeProfile(p, known, o1) = CanonicalizeProfile(p, known, o2)
    BY <2>1 DEF CanonicalizeProfile
  <2> QED
    BY <2>2
<1> QED
  BY <1>1, <1>2

(* The identities of a normalised topology. *)
LEMMA NormalizedIdentity ==
    ASSUME NEW t, IsTopology(t), NEW known, IsCache(known), NEW c \in DOMAIN t
    PROVE  NormalizeTopology(t, known)[c].id =
             IF c \in DOMAIN known THEN WithFallback(t[c].id, known[c]) ELSE t[c].id
<1>1. t[c] \in OutputState
  BY DEF IsTopology
<1> QED
  BY <1>1 DEF NormalizeTopology, OutputState

(* A setup fingerprint depends on the identities only. *)
LEMMA FingerprintOfIdentities ==
    ASSUME NEW t, NEW u, DOMAIN t = DOMAIN u, \A c \in DOMAIN t : t[c].id = u[c].id
    PROVE  SetupFingerprint(t) = SetupFingerprint(u)
<1>1. RealOutputs(t) = RealOutputs(u)
  BY DEF RealOutputs
<1>2. \A c \in RealOutputs(t) : t[c].id = u[c].id
  BY DEF RealOutputs
<1>3. [c \in RealOutputs(t) |-> t[c].id] = [c \in RealOutputs(u) |-> u[c].id]
  BY <1>1, <1>2
<1> QED
  BY <1>3 DEF SetupFingerprint

(* What is reported after a configuration are the same displays.           *)
LEMMA ConfigureKeepsIdentities ==
    ASSUME NEW plan, NEW t, IsTopology(t), Submittable(plan, t), NEW known, IsCache(known)
    PROVE  /\ \A c \in DOMAIN t : Configure(t, plan)[c].id = t[c].id
           /\ SetupFingerprint(NormalizeTopology(Configure(t, plan), known)) =
                SetupFingerprint(NormalizeTopology(t, known))
<1> DEFINE u == Configure(t, plan)
<1>1. IsTopology(u) /\ DOMAIN u = DOMAIN t
  BY ConfigureType
<1>2. ASSUME NEW c \in DOMAIN t PROVE u[c].id = t[c].id
  <2>1. t[c] \in OutputState
    BY DEF IsTopology
  <2>2. u[c] = Configured(t[c], plan[c]) \/ u[c] = Off(t[c])
    BY DEF Configure
  <2> HIDE DEF u
  <2> QED
    BY <2>1, <2>2 DEF Configured, Off, OutputState
<1> HIDE DEF u
<1>3. /\ DOMAIN NormalizeTopology(u, known) = DOMAIN t
      /\ DOMAIN NormalizeTopology(t, known) = DOMAIN t
  BY <1>1 DEF NormalizeTopology
<1>4. \A c \in DOMAIN t : NormalizeTopology(u, known)[c].id = NormalizeTopology(t, known)[c].id
  BY <1>1, <1>2, NormalizedIdentity
<1> QED
  BY <1>2, <1>3, <1>4, FingerprintOfIdentities DEF u

(* A topology that is completed from a cache that has learned of it stays  *)
(* as it was completed then.                                               *)
LEMMA NormalizeAgain ==
    ASSUME NEW t, IsTopology(t), NEW known, IsCache(known)
    PROVE  LET n == NormalizeTopology(t, known) IN
           /\ NormalizeTopology(t, CacheIdentities(known, n)) = n
           /\ \A c \in DOMAIN t : NormalizeTopology(n, known)[c].id = n[c].id
<1> DEFINE n == NormalizeTopology(t, known)
           cache == CacheIdentities(known, n)
           m == NormalizeTopology(t, cache)
<1>1. IsTopology(n) /\ DOMAIN n = DOMAIN t
  BY NormalizeKeepsLayout DEF IsCache
<1>2. DOMAIN cache = DOMAIN known \cup DOMAIN t /\ \A c \in DOMAIN t : cache[c] = n[c].id
  BY <1>1 DEF CacheIdentities
<1>3. ASSUME NEW c \in DOMAIN t
      PROVE  /\ m[c] = n[c]
             /\ NormalizeTopology(n, known)[c].id = n[c].id
  <2>1. t[c] \in OutputState /\ t[c].id \in OutputIdentity
    BY DEF IsTopology, OutputState
  <2>2. m[c] = [t[c] EXCEPT !.id = WithFallback(t[c].id, n[c].id)]
    BY <1>2 DEF NormalizeTopology
  <2>3. CASE c \in DOMAIN known
    <3>1. known[c] \in OutputIdentity
      BY <2>3 DEF IsCache
    <3>2. n[c] = [t[c] EXCEPT !.id = WithFallback(t[c].id, known[c])]
      BY <2>3 DEF NormalizeTopology
    <3>3. n[c].id = WithFallback(t[c].id, known[c])
      BY <2>1, <3>2 DEF OutputState
    <3>4. WithFallback(t[c].id, n[c].id) = n[c].id /\ WithFallback(n[c].id, known[c]) = n[c].id
      BY <2>1, <3>1, <3>3, WithFallbackAgain
    <3>5. m[c] = n[c]
      BY <2>2, <3>2, <3>3, <3>4
    <3>6. NormalizeTopology(n, known)[c].id = WithFallback(n[c].id, known[c])
      BY <1>1, <2>3, NormalizedIdentity
    <3> QED
      BY <3>4, <3>5, <3>6
  <2>4. CASE c \notin DOMAIN known
    <3>1. n[c] = t[c]
      BY <2>4 DEF NormalizeTopology
    <3>2. WithFallback(t[c].id, n[c].id) = t[c].id
      BY <2>1, <3>1, WithFallbackAgain
    <3>3. m[c] = t[c]
      <4>1. m[c] = [t[c] EXCEPT !.id = t[c].id]
        BY <2>2, <3>2
      <4> HIDE DEF m
      <4> QED
        BY <2>1, <4>1 DEF OutputState
    <3>4. NormalizeTopology(n, known)[c].id = n[c].id
      BY <1>1, <2>4, NormalizedIdentity
    <3> QED
      BY <3>1, <3>3, <3>4
  <2> QED
    BY <2>3, <2>4
<1>4. m = n
  <2>1. m = [c \in DOMAIN t |-> m[c]] /\ n = [c \in DOMAIN t |-> n[c]]
    BY DEF NormalizeTopology
  <2> HIDE DEF m, n
  <2> QED
    BY <1>3, <2>1
<1> QED
  BY <1>3, <1>4

(* Where every display is reported with its connector, the layout of a     *)
(* profile is completed as a topology is.                                  *)
LEMMA CanonicalIsNormal ==
    ASSUME NEW p, IsProfile(p), IsTopology(p.layout),
           \A c \in DOMAIN p.layout : p.layout[c].id.connector = c,
           NEW known, NEW order
    PROVE  CanonicalizeProfile(p, known, order).layout = NormalizeTopology(p.layout, known)
<1> DEFINE t == p.layout
           inferred == WithInferredMatchRules(p, order)
           Cached(c, id) == IF c \in DOMAIN known THEN WithFallback(id, known[c])
                            ELSE CachedRuleIdentity(id, known)
           rules  == [i \in DOMAIN inferred.rules |->
                        [inferred.rules[i] EXCEPT !.id = CachedRuleIdentity(@, known)]]
           layout == [c \in DOMAIN t |-> [t[c] EXCEPT !.id = Cached(c, @)]]
<1>1. inferred \in [name : {p.name}, priority : {p.priority}, rules : {inferred.rules},
                    layout : {t}, hooks : {p.hooks}]
  BY DEF IsProfile, WithInferredMatchRules
<1>2. CanonicalizeProfile(p, known, order) = [inferred EXCEPT !.rules = rules, !.layout = layout]
  BY DEF CanonicalizeProfile
<1>3. CanonicalizeProfile(p, known, order).layout = layout
  <2> HIDE DEF inferred, rules, layout
  <2> QED
    BY <1>1, <1>2
<1>4. ASSUME NEW c \in DOMAIN t
      PROVE  layout[c] = IF c \in DOMAIN known THEN [t[c] EXCEPT !.id = WithFallback(@, known[c])]
                         ELSE t[c]
  <2>1. t[c] \in OutputState /\ t[c].id.connector = c
    BY DEF IsTopology
  <2>2. CASE c \in DOMAIN known
    BY <2>2
  <2>3. CASE c \notin DOMAIN known
    <3>1. Cached(c, t[c].id) = t[c].id
      BY <2>1, <2>3 DEF CachedRuleIdentity
    <3>2. layout[c] = [t[c] EXCEPT !.id = t[c].id]
      BY <3>1
    <3>3. [t[c] EXCEPT !.id = t[c].id] = t[c]
      BY <2>1 DEF OutputState
    <3> QED
      BY <2>3, <3>2, <3>3
  <2> QED
    BY <2>2, <2>3
<1> QED
  BY <1>3, <1>4 DEF NormalizeTopology

(* What is saved of a topology is the topology, completed, with a rule for *)
(* every display of it.                                                    *)
LEMMA SavedProfile ==
    ASSUME IsFiniteSet(Connectors), NEW t, IsTopology(t),
           \A c \in DOMAIN t : t[c].id.connector = c,
           NEW known, IsCache(known), NEW order \in IterationOrders, NEW name \in ProfileNames
    PROVE  LET q == CanonicalizeProfile(ProfileFromTopology(name, t, order), known, order)
           IN  /\ IsProfile(q) /\ q.name = name
               /\ q.layout = NormalizeTopology(t, known)
               /\ q.rules = RulesFromLayout(q.layout, order)
<1> DEFINE p == ProfileFromTopology(name, t, order)
           q == CanonicalizeProfile(p, known, order)
           n == NormalizeTopology(t, known)
           r == RulesFromLayout(t, order)
           names == Iterated(RealOutputs(t), order)
<1>1. IsProfile(p) /\ p.layout = t /\ p.rules = r /\ p.name = name
  BY ProfileFromTopologyType DEF ProfileFromTopology
<1>2. /\ IsTopology(n) /\ DOMAIN n = DOMAIN t /\ RealOutputs(n) = RealOutputs(t)
      /\ \A c \in DOMAIN t : n[c].enabled = t[c].enabled /\ n[c].pos = t[c].pos
  BY NormalizeKeepsLayout DEF IsCache, RealOutputs
<1>3. \A i \in DOMAIN names : names[i] \in RealOutputs(t) /\ names[i] \in DOMAIN t
  <2>1. RealOutputs(t) \in SUBSET Connectors /\ RealOutputs(t) \subseteq DOMAIN t
    BY DEF RealOutputs, IsTopology
  <2>2. names \in Bijection(DOMAIN names, RealOutputs(t))
    BY <2>1, IteratedLists
  <2> QED
    BY <2>1, <2>2 DEF Bijection, Injection
<1>4. WithInferredMatchRules(p, order) = p
  <2> HIDE DEF p, r
  <2>1. p.rules = <<>> => [p EXCEPT !.rules = RulesFromLayout(p.layout, order)] = p
    BY <1>1 DEF IsProfile, r
  <2> QED
    BY <2>1 DEF WithInferredMatchRules
<1>5. q.rules = [i \in DOMAIN r |-> [r[i] EXCEPT !.id = CachedRuleIdentity(@, known)]]
  <2> HIDE DEF p, r
  <2>1. p \in [name : ProfileNames, priority : Int, rules : {p.rules}, layout : {p.layout},
               hooks : BOOLEAN]
    BY <1>1 DEF IsProfile
  <2> QED
    BY <1>1, <1>4, <2>1 DEF CanonicalizeProfile
<1>6. \A i \in DOMAIN names :
        [r[i] EXCEPT !.id = CachedRuleIdentity(@, known)] =
            [id |-> n[names[i]].id, required |-> n[names[i]].enabled, hint |-> n[names[i]].pos]
  <2> SUFFICES ASSUME NEW i \in DOMAIN names
               PROVE  [r[i] EXCEPT !.id = CachedRuleIdentity(@, known)] =
                        [id |-> n[names[i]].id, required |-> n[names[i]].enabled,
                         hint |-> n[names[i]].pos]
    OBVIOUS
  <2> DEFINE c == names[i]
  <2>1. r[i] = [id |-> t[c].id, required |-> t[c].enabled, hint |-> t[c].pos]
    BY DEF RulesFromLayout
  <2>2. c \in DOMAIN t /\ t[c].id.connector = c
    BY <1>3
  <2>3. n[c].id = CachedRuleIdentity(t[c].id, known)
    BY <2>2, NormalizedIdentity DEF CachedRuleIdentity
  <2> HIDE DEF c, n, r
  <2> QED
    BY <1>2, <2>1, <2>2, <2>3 DEF c
<1>7. DOMAIN r = DOMAIN names
  BY DEF RulesFromLayout
<1>8. q.layout = n
  <2> HIDE DEF p
  <2> QED
    BY <1>1, CanonicalIsNormal
<1>9. q.rules = RulesFromLayout(n, order)
  <2>1. RulesFromLayout(n, order) =
          [i \in DOMAIN names |->
            [id |-> n[names[i]].id, required |-> n[names[i]].enabled, hint |-> n[names[i]].pos]]
    <3> HIDE DEF n
    <3> QED
      BY <1>2 DEF RulesFromLayout
  <2> HIDE DEF q, n, r, names
  <2> QED
    BY <1>5, <1>6, <1>7, <2>1
<1>10. IsProfile(q) /\ q.name = name
  <2> HIDE DEF p
  <2> QED
    BY <1>1, CanonicalProfile
<1> QED
  BY <1>8, <1>9, <1>10

(* Read again, with whatever is known then, it is filed under its layout   *)
(* as completed then.                                                      *)
LEMMA FiledAgain ==
    ASSUME IsFiniteSet(Connectors), NEW q, IsProfile(q), IsTopology(q.layout),
           \A c \in DOMAIN q.layout : q.layout[c].id.connector = c,
           NEW o \in IterationOrders, q.rules = RulesFromLayout(q.layout, o),
           NEW known, IsCache(known), NEW order \in IterationOrders
    PROVE  ProfileSetupFingerprint(CanonicalizeProfile(q, known, order))
             = SetupFingerprint(NormalizeTopology(q.layout, known))
<1> DEFINE t == q.layout
           n == NormalizeTopology(t, known)
<1>1. IsTopology(n) /\ DOMAIN n = DOMAIN t /\ RealOutputs(n) = RealOutputs(t)
  BY NormalizeKeepsLayout DEF IsCache, RealOutputs
<1> HIDE DEF n
<1>2. ProfileSetupFingerprint(CanonicalizeProfile(q, known, o)) =
        KeyCounts([c \in RealOutputs(t) |-> CachedRuleIdentity(t[c].id, known)])
  BY InferredFingerprint
<1>3. ASSUME NEW c \in RealOutputs(t)
      PROVE  CachedRuleIdentity(t[c].id, known) = n[c].id
  <2>1. c \in DOMAIN t /\ t[c].id.connector = c
    BY DEF RealOutputs
  <2> QED
    BY <2>1, NormalizedIdentity DEF CachedRuleIdentity, n
<1>4. [c \in RealOutputs(t) |-> CachedRuleIdentity(t[c].id, known)] =
        [c \in RealOutputs(n) |-> n[c].id]
  BY <1>1, <1>3
<1>5. ProfileSetupFingerprint(CanonicalizeProfile(q, known, o)) = SetupFingerprint(n)
  BY <1>2, <1>4 DEF SetupFingerprint
<1> QED
  BY <1>5, FingerprintIgnoresOrder DEF n

(* What is saved of a topology is filed under the displays it has when     *)
(* they are completed from the cache.                                      *)
LEMMA SavedFingerprint ==
    ASSUME IsFiniteSet(Connectors), NEW t, IsTopology(t),
           \A c \in DOMAIN t : t[c].id.connector = c,
           NEW known, IsCache(known), NEW order \in IterationOrders, NEW name \in ProfileNames
    PROVE  ProfileSetupFingerprint(
               CanonicalizeProfile(ProfileFromTopology(name, t, order), known, order))
             = SetupFingerprint(NormalizeTopology(t, known))
<1> DEFINE p == ProfileFromTopology(name, t, order)
<1>1. IsProfile(p) /\ p.layout = t /\ p.rules = RulesFromLayout(p.layout, order)
  BY ProfileFromTopologyType DEF ProfileFromTopology
<1> HIDE DEF p
<1> QED
  BY <1>1, FiledAgain DEF p
----------------------------------------------------------------------------
(* Selection and planning. *)

(* What is selected is a stored profile, a preset, a remembered layout or  *)
(* nothing.                                                                *)
LEMMA SelectedTarget ==
    ASSUME NEW t, NEW profiles, \A p \in profiles : IsProfile(p),
           NEW settings, IsStore(settings), NEW remembered, NEW order,
           NEW target \in SelectTargets(t, profiles, settings, remembered, order)
    PROVE  \/ /\ target.kind \in {"default", "exact"}
              /\ IsProfile(target.profile)
           \/ target.kind = "layout" /\ target.preset \in VirtualPresets
           \/ target.kind = "remembered"
           \/ target = NoTarget
<1> DEFINE fp == SetupFingerprint(t)
<1>1. \/ \E p \in profiles : target \in {ProfileTarget("default", p), ProfileTarget("exact", p)}
      \/ fp \in DOMAIN settings.layouts /\ target = LayoutTarget(settings.layouts[fp])
      \/ target = ProfileTarget("remembered",
                      ProfileFromTopology(RememberedName, remembered[fp], order))
      \/ target = NoTarget
  BY DEF SelectTargets, SetupDefaults, FirstListed, BestExactMatches
<1>2. CASE \E p \in profiles :
             target \in {ProfileTarget("default", p), ProfileTarget("exact", p)}
  BY <1>2 DEF ProfileTarget
<1>3. CASE fp \in DOMAIN settings.layouts /\ target = LayoutTarget(settings.layouts[fp])
  BY <1>3 DEF LayoutTarget, IsStore
<1>4. CASE target = ProfileTarget("remembered",
                        ProfileFromTopology(RememberedName, remembered[fp], order))
  BY <1>4 DEF ProfileTarget
<1> QED
  BY <1>1, <1>2, <1>3, <1>4

LEMMA RecordedNameType ==
    ASSUME NEW t, NEW profiles, \A p \in profiles : IsProfile(p),
           NEW settings, IsStore(settings), NEW remembered, NEW order,
           NEW target \in SelectTargets(t, profiles, settings, remembered, order)
    PROVE  RecordedName(target) \in Opt(AppliedNames)
<1>1. CASE target.kind \in {"default", "exact"} /\ IsProfile(target.profile)
  BY <1>1 DEF RecordedName, IsProfile, Opt, AppliedNames
<1>2. CASE target.kind = "layout" /\ target.preset \in VirtualPresets
  BY <1>2 DEF RecordedName, Opt, AppliedNames
<1>3. CASE target.kind \in {"remembered", "none"}
  BY <1>3 DEF RecordedName, Opt
<1> QED
  BY <1>1, <1>2, <1>3, SelectedTarget DEF NoTarget

(* A preset plans for outputs of the topology only. *)
LEMMA PresetPlanKeys ==
    ASSUME NEW preset \in VirtualPresets, NEW t, NEW builtin,
           NEW plan \in PresetPlans(preset, t, builtin)
    PROVE  DOMAIN plan \subseteq DOMAIN t
<1>1. RealOutputs(t) \subseteq DOMAIN t
  BY DEF RealOutputs
<1>2. CASE preset = "off"
  BY <1>2 DEF PresetPlans, PlanOff
<1>3. CASE preset = "external"
  BY <1>3 DEF PresetPlans, PlanExternal
<1>4. CASE preset = "builtin"
  BY <1>4 DEF PresetPlans, PlanBuiltin
<1>5. CASE preset \in {"horizontal", "horizontal-reverse", "vertical", "vertical-reverse"}
  <2>1. \E horizontal, reverse \in BOOLEAN : plan \in PlanLinear(t, horizontal, reverse)
    BY <1>5 DEF PresetPlans
  <2> QED
    BY <1>1, <2>1 DEF PlanLinear
<1>6. CASE preset = "common"
  BY <1>1, <1>6 DEF PresetPlans, PlanCommon
<1>7. CASE preset = "largest"
  BY <1>1, <1>7 DEF PresetPlans, PlanLargest
<1>8. CASE preset = "mirror"
  BY <1>1, <1>8 DEF PresetPlans, PlanMirror
<1> QED
  BY <1>2, <1>3, <1>4, <1>5, <1>6, <1>7, <1>8 DEF VirtualPresets

LEMMA PlanKeys ==
    ASSUME NEW t, NEW builtin, NEW target,
           target.kind = "layout" => target.preset \in VirtualPresets,
           NEW plan \in PlansFor(target, t, builtin)
    PROVE  DOMAIN plan \subseteq DOMAIN t
<1>1. CASE target.kind = "layout"
  <2>1. plan \in PresetPlans(target.preset, t, builtin)
    BY <1>1 DEF PlansFor
  <2> QED
    BY <1>1, <2>1, PresetPlanKeys
<1>2. CASE target.kind # "layout"
  <2>1. plan \in ProfilePlans(target.profile, t)
    BY <1>2 DEF PlansFor
  <2>2. plan = PlanFromProfile(target.profile, t)
    BY <2>1 DEF ProfilePlans
  <2> QED
    BY <2>2 DEF PlanFromProfile
<1> QED
  BY <1>1, <1>2
----------------------------------------------------------------------------
(* Matching the rules of a profile to outputs. *)

(* The matches of the first rules of a profile, one after the other. *)
Follows(p, t, match, n) ==
    match[n] = IF ~match[n - 1].ok THEN match[n - 1] ELSE MatchOneRule(p, t, p.rules[n], match[n - 1])

InSteps(p, t, match, n) ==
    /\ DOMAIN match = 0..n
    /\ match = [i \in 0..n |-> match[i]]
    /\ match[0] = NothingBound
    /\ \A i \in 1..n : Follows(p, t, match, i)

(* There is one such sequence. *)
LEMMA OneSequence ==
    ASSUME NEW p, NEW t, NEW n \in Nat, NEW f, NEW g,
           InSteps(p, t, f, n), InSteps(p, t, g, n)
    PROVE  f = g
<1> DEFINE S == {i \in 0..n : f[i] = g[i]}
<1>1. 0 \in S
  BY DEF InSteps
<1>2. ASSUME NEW i \in 0..n - 1, i \in S PROVE i + 1 \in S
  <2>1. i + 1 \in 1..n /\ (i + 1) - 1 = i /\ i + 1 \in 0..n
    OBVIOUS
  <2>2. Follows(p, t, f, i + 1) /\ Follows(p, t, g, i + 1)
    BY <2>1 DEF InSteps
  <2>3. f[i] = g[i]
    BY <1>2
  <2> HIDE DEF S
  <2>4. f[i + 1] = g[i + 1]
    BY <2>1, <2>2, <2>3, Zenon DEF Follows
  <2> QED
    BY <2>1, <2>4 DEF S
<1>3. 0..n \subseteq S
  <2> HIDE DEF S
  <2> QED
    BY <1>1, <1>2, InductionUpTo
<1>4. \A i \in 0..n : f[i] = g[i]
  BY <1>3
<1> HIDE DEF S
<1> QED
  BY <1>4, Zenon DEF InSteps

LEMMA SequenceExists ==
    ASSUME NEW p, NEW t, NEW n \in Nat
    PROVE  \E match : InSteps(p, t, match, n)
<1> DEFINE S == {i \in 0..n : \E match : InSteps(p, t, match, i)}
<1>1. 0 \in S
  <2> DEFINE match == [i \in 0..0 |-> NothingBound]
  <2>1. InSteps(p, t, match, 0)
    BY DEF InSteps
  <2> HIDE DEF match
  <2> QED
    BY <2>1
<1>2. ASSUME NEW i \in 0..n - 1, i \in S PROVE i + 1 \in S
  <2>1. PICK f : InSteps(p, t, f, i)
    BY <1>2
  <2> DEFINE last == IF ~f[i].ok THEN f[i] ELSE MatchOneRule(p, t, p.rules[i + 1], f[i])
             match == [j \in 0..i + 1 |-> IF j = i + 1 THEN last ELSE f[j]]
  <2>2. /\ i \in Nat
        /\ DOMAIN match = 0..i + 1
        /\ match[i + 1] = last
        /\ \A j \in 0..i : match[j] = f[j]
    <3> HIDE DEF last
    <3> QED
      OBVIOUS
  <2>3. match = [j \in 0..i + 1 |-> match[j]]
    <3> HIDE DEF last
    <3> QED
      OBVIOUS
  <2> HIDE DEF match
  <2>4. match[0] = NothingBound
    BY <2>1, <2>2 DEF InSteps
  <2>5. ASSUME NEW j \in 1..i + 1 PROVE Follows(p, t, match, j)
    <3>1. CASE j = i + 1
      <4>1. match[j - 1] = f[i] /\ match[j] = last
        BY <2>2, <3>1
      <4> QED
        BY <3>1, <4>1, Zenon DEF Follows
    <3>2. CASE j # i + 1
      <4>1. j \in 1..i /\ match[j] = f[j] /\ match[j - 1] = f[j - 1]
        BY <2>2, <3>2
      <4>2. Follows(p, t, f, j)
        BY <2>1, <4>1 DEF InSteps
      <4> QED
        BY <4>1, <4>2, Zenon DEF Follows
    <3> QED
      BY <3>1, <3>2
  <2>6. InSteps(p, t, match, i + 1)
    <3> HIDE DEF last
    <3> QED
      BY <2>2, <2>3, <2>4, <2>5 DEF InSteps
  <2> QED
    BY <2>6
<1>3. 0..n \subseteq S
  <2> HIDE DEF S
  <2> QED
    BY <1>1, <1>2, InductionUpTo
<1> QED
  BY <1>3

(* What MatchRules defines the sequence by. *)
MatchingOf(p, t, f) ==
    [n \in 0..Len(p.rules) |->
        IF n = 0 THEN NothingBound
        ELSE IF ~f[n - 1].ok THEN f[n - 1]
        ELSE MatchOneRule(p, t, p.rules[n], f[n - 1])]

(* MatchRules is the last of the sequence. *)
LEMMA MatchRulesInSteps ==
    ASSUME NEW p, NEW t, Len(p.rules) \in Nat
    PROVE  \E match : /\ InSteps(p, t, match, Len(p.rules))
                      /\ MatchRules(p, t) = match[Len(p.rules)]
<1> DEFINE n == Len(p.rules)
<1>1. ASSUME NEW f PROVE InSteps(p, t, f, n) <=> f = MatchingOf(p, t, f)
  <2>1. ASSUME InSteps(p, t, f, n) PROVE f = MatchingOf(p, t, f)
    <3>1. \A i \in 0..n : i # 0 => i \in 1..n
      OBVIOUS
    <3> HIDE DEF n
    <3>2. \A i \in 0..n : f[i] = IF i = 0 THEN NothingBound
            ELSE IF ~f[i - 1].ok THEN f[i - 1]
            ELSE MatchOneRule(p, t, p.rules[i], f[i - 1])
      BY <2>1, <3>1, Zenon DEF InSteps, Follows
    <3>3. f = [i \in 0..n |-> f[i]]
      BY <2>1 DEF InSteps
    <3> QED
      BY <3>2, <3>3, Zenon DEF MatchingOf, n
  <2>2. ASSUME f = MatchingOf(p, t, f) PROVE InSteps(p, t, f, n)
    <3>1. DOMAIN f = 0..n
      BY <2>2, Zenon DEF MatchingOf
    <3>2. f = [i \in 0..n |-> f[i]]
      BY <2>2, <3>1, Zenon DEF MatchingOf
    <3>3. 0 \in 0..n /\ \A i \in 1..n : i \in 0..n /\ i # 0
      OBVIOUS
    <3> HIDE DEF n
    <3>4. \A i \in 0..n : f[i] = IF i = 0 THEN NothingBound
            ELSE IF ~f[i - 1].ok THEN f[i - 1]
            ELSE MatchOneRule(p, t, p.rules[i], f[i - 1])
      BY <2>2, Zenon DEF MatchingOf, n
    <3> QED
      BY <3>1, <3>2, <3>3, <3>4, Zenon DEF InSteps, Follows
  <2> QED
    BY <2>1, <2>2
<1>2. PICK g : InSteps(p, t, g, n)
  BY SequenceExists
<1>3. g = MatchingOf(p, t, g) /\ \A f : f = MatchingOf(p, t, f) => f = g
  <2> HIDE DEF n
  <2>1. n \in Nat
    BY DEF n
  <2> QED
    BY <1>1, <1>2, <2>1, OneSequence, Zenon
<1>4. MatchRules(p, t) = g[Len(p.rules)]
  BY <1>3, ZenonT(20) DEF MatchRules, MatchingOf
<1> QED
  BY <1>2, <1>4

LEMMA MatchStrengthType ==
    ASSUME NEW id
    PROVE  MatchStrength(id) \in Nat
BY DEF MatchStrength, Weight

(* Where a rule has candidates, it finds one of them. *)
LEMMA FindsOutput ==
    ASSUME IsFiniteSet(Connectors), NEW t, DOMAIN t \subseteq Connectors, NEW rule, NEW used,
           OutputCandidates(rule, t, used) # {}
    PROVE  FindMatchingOutput(rule, t, used) \in OutputCandidates(rule, t, used)
<1> DEFINE S == OutputCandidates(rule, t, used)
           before == [c \in S |-> {d \in S : BetterOutput(rule, t, d, c)}]
           hinted == [c \in S |-> rule.hint = t[c].pos]
           strength == [c \in S |-> MatchStrength(t[c].id)]
<1>1. S \subseteq Connectors
  BY DEF OutputCandidates, RealOutputs
<1>2. IsFiniteSet(S)
  BY <1>1, FS_Subset
<1>3. ASSUME NEW c \in S, NEW d \in S
      PROVE  c \in before[d] <=>
                \/ hinted[c] /\ ~hinted[d]
                \/ /\ hinted[c] = hinted[d]
                   /\ \/ strength[c] > strength[d]
                      \/ strength[c] = strength[d] /\ Rank[c] < Rank[d]
  <2> HIDE DEF S
  <2> QED
    BY DEF BetterOutput
<1>4. strength \in [S -> Nat] /\ hinted \in [S -> BOOLEAN]
  <2> HIDE DEF S
  <2> QED
    BY MatchStrengthType
<1>5. before \in [S -> SUBSET S]
  <2> HIDE DEF S
  <2> QED
    OBVIOUS
<1>6. \A c \in S : Rank[c] \in Nat /\ \A d \in S : Rank[c] = Rank[d] => c = d
  BY <1>1, RankAssumption
<1> HIDE DEF S, before, strength, hinted
<1>7. \A c \in S : c \notin before[c]
  BY <1>3, <1>4, <1>6
<1>8. \A c, d \in S : c # d => c \in before[d] \/ d \in before[c]
  BY <1>3, <1>4, <1>6
<1>9. \A c, d, e \in S : c \in before[d] /\ d \in before[e] => c \in before[e]
  BY <1>3, <1>4, <1>6, SMTT(30)
<1>10. S # {}
  BY DEF S
<1>11. \E c \in S : \A d \in S \ {c} : c \in before[d]
  BY <1>2, <1>5, <1>7, <1>8, <1>9, <1>10, FirstInOrder, ZenonT(60)
<1>12. \E c \in S : \A d \in S \ {c} : BetterOutput(rule, t, c, d)
  BY <1>11 DEF before
<1> QED
  BY <1>12, Zenon DEF FindMatchingOutput, S

(* The same of an output and the entries of a layout. *)
LEMMA FindsLayoutEntry ==
    ASSUME IsFiniteSet(Connectors), NEW layout, DOMAIN layout \subseteq Connectors, NEW rule,
           NEW id, NEW used, LayoutCandidates(rule, layout, id, used) # {}
    PROVE  FindMatchingLayoutEntry(rule, layout, id, used) \in LayoutCandidates(rule, layout, id, used)
<1> DEFINE S == LayoutCandidates(rule, layout, id, used)
           before == [c \in S |-> {d \in S : BetterEntry(rule, layout, d, c)}]
           hinted == [c \in S |-> rule.hint = layout[c].pos]
<1>1. S \subseteq Connectors
  BY DEF LayoutCandidates
<1>2. IsFiniteSet(S)
  BY <1>1, FS_Subset
<1>3. ASSUME NEW c \in S, NEW d \in S
      PROVE  c \in before[d] <=>
                \/ hinted[c] /\ ~hinted[d]
                \/ hinted[c] = hinted[d] /\ Rank[c] < Rank[d]
  <2> HIDE DEF S
  <2> QED
    BY DEF BetterEntry
<1>4. hinted \in [S -> BOOLEAN]
  <2> HIDE DEF S
  <2> QED
    OBVIOUS
<1>5. before \in [S -> SUBSET S]
  <2> HIDE DEF S
  <2> QED
    OBVIOUS
<1>6. \A c \in S : Rank[c] \in Nat /\ \A d \in S : Rank[c] = Rank[d] => c = d
  BY <1>1, RankAssumption
<1> HIDE DEF S, before, hinted
<1>7. \A c \in S : c \notin before[c]
  BY <1>3, <1>4, <1>6
<1>8. \A c, d \in S : c # d => c \in before[d] \/ d \in before[c]
  BY <1>3, <1>4, <1>6
<1>9. \A c, d, e \in S : c \in before[d] /\ d \in before[e] => c \in before[e]
  BY <1>3, <1>4, <1>6, SMTT(30)
<1>10. S # {}
  BY DEF S
<1>11. \E c \in S : \A d \in S \ {c} : c \in before[d]
  BY <1>2, <1>5, <1>7, <1>8, <1>9, <1>10, FirstInOrder, ZenonT(60)
<1>12. \E c \in S : \A d \in S \ {c} : BetterEntry(rule, layout, c, d)
  BY <1>11 DEF before
<1> QED
  BY <1>12, Zenon DEF FindMatchingLayoutEntry, S

(* What some of the rules have bound: each output of its own, to an entry  *)
(* of its own that fits it.                                                *)
IsMatch(p, t, m) ==
    /\ m = [bound |-> m.bound, score |-> m.score, ok |-> m.ok]
    /\ m.ok \in BOOLEAN
    /\ m.bound \in [DOMAIN m.bound -> DOMAIN p.layout]
    /\ DOMAIN m.bound \subseteq RealOutputs(t)
    /\ \A c, d \in DOMAIN m.bound : m.bound[c] = m.bound[d] => c = d
    /\ \A c \in DOMAIN m.bound : IdentitiesMatch(p.layout[m.bound[c]].id, t[c].id)

UsedEntries(m) == {m.bound[c] : c \in DOMAIN m.bound}

(* What a rule does: it finds no output, or an output and no entry, or     *)
(* both.                                                                   *)
RuleTakes(p, t, rule, m, next) ==
    \/ /\ OutputCandidates(rule, t, DOMAIN m.bound) = {}
       /\ next.bound = m.bound /\ next.ok = (m.ok /\ ~rule.required)
    \/ \E c \in OutputCandidates(rule, t, DOMAIN m.bound) :
        /\ LayoutCandidates(rule, p.layout, t[c].id, UsedEntries(m)) = {}
        /\ next.bound = m.bound /\ ~next.ok
    \/ \E c \in OutputCandidates(rule, t, DOMAIN m.bound) :
        \E n \in LayoutCandidates(rule, p.layout, t[c].id, UsedEntries(m)) :
            next.bound = Put(m.bound, c, n) /\ next.ok = m.ok

(* MatchOneRule does one of these and keeps what is bound a match. *)
LEMMA OneRule ==
    ASSUME IsFiniteSet(Connectors), NEW t, DOMAIN t \subseteq Connectors,
           NEW p, DOMAIN p.layout \subseteq Connectors, NEW rule, rule.required \in BOOLEAN,
           NEW m, IsMatch(p, t, m)
    PROVE  /\ IsMatch(p, t, MatchOneRule(p, t, rule, m))
           /\ RuleTakes(p, t, rule, m, MatchOneRule(p, t, rule, m))
<1> DEFINE next == MatchOneRule(p, t, rule, m)
           outputs == OutputCandidates(rule, t, DOMAIN m.bound)
           c == FindMatchingOutput(rule, t, DOMAIN m.bound)
           entries == LayoutCandidates(rule, p.layout, t[c].id, UsedEntries(m))
           n == FindMatchingLayoutEntry(rule, p.layout, t[c].id, UsedEntries(m))
<1>1. next = IF outputs = {} THEN [m EXCEPT !.ok = @ /\ ~rule.required]
             ELSE IF entries = {} THEN [m EXCEPT !.ok = FALSE]
             ELSE [bound |-> Put(m.bound, c, n),
                   score |-> m.score + MatchScore(rule.id), ok |-> m.ok]
  BY DEF MatchOneRule, UsedEntries
<1> HIDE DEF next, c, n, entries, outputs
<1>2. CASE outputs = {}
  <2>1. next = [bound |-> m.bound, score |-> m.score, ok |-> m.ok /\ ~rule.required]
    BY <1>1, <1>2 DEF IsMatch
  <2>2. next.bound = m.bound /\ next.ok = (m.ok /\ ~rule.required)
    BY <2>1
  <2>3. next = [bound |-> next.bound, score |-> next.score, ok |-> next.ok] /\ next.ok \in BOOLEAN
    BY <2>1
  <2>4. IsMatch(p, t, next)
    BY <2>2, <2>3 DEF IsMatch
  <2> QED
    BY <1>2, <2>2, <2>4 DEF next, outputs, RuleTakes
<1>3. CASE outputs # {} /\ entries = {}
  <2>1. next = [bound |-> m.bound, score |-> m.score, ok |-> FALSE]
    BY <1>1, <1>3 DEF IsMatch
  <2>2. next.bound = m.bound /\ ~next.ok
    BY <2>1
  <2>3. next = [bound |-> next.bound, score |-> next.score, ok |-> next.ok] /\ next.ok \in BOOLEAN
    BY <2>1
  <2>4. IsMatch(p, t, next)
    BY <2>2, <2>3 DEF IsMatch
  <2>5. c \in outputs
    BY <1>3, FindsOutput DEF c, outputs
  <2> QED
    BY <1>3, <2>2, <2>4, <2>5 DEF next, outputs, entries, RuleTakes
<1>4. CASE outputs # {} /\ entries # {}
  <2>1. c \in outputs /\ n \in entries
    BY <1>4, FindsOutput, FindsLayoutEntry DEF c, outputs, n, entries
  <2>2. next = [bound |-> Put(m.bound, c, n), score |-> m.score + MatchScore(rule.id), ok |-> m.ok]
    BY <1>1, <1>4
  <2>3. next.bound = Put(m.bound, c, n) /\ next.ok = m.ok
    BY <2>2
  <2>4. next = [bound |-> next.bound, score |-> next.score, ok |-> next.ok] /\ next.ok \in BOOLEAN
    BY <2>2 DEF IsMatch
  <2>5. c \in RealOutputs(t) /\ c \notin DOMAIN m.bound
    BY <2>1 DEF outputs, OutputCandidates
  <2>6. /\ n \in DOMAIN p.layout /\ n \notin UsedEntries(m)
        /\ IdentitiesMatch(p.layout[n].id, t[c].id)
    BY <2>1 DEF entries, LayoutCandidates
  <2>7. /\ DOMAIN next.bound = DOMAIN m.bound \cup {c}
        /\ next.bound = [d \in DOMAIN m.bound \cup {c} |-> IF d = c THEN n ELSE m.bound[d]]
    BY <2>3 DEF Put
  <2>8. IsMatch(p, t, next)
    BY <2>4, <2>5, <2>6, <2>7 DEF IsMatch, UsedEntries
  <2> QED
    BY <2>1, <2>3, <2>8 DEF next, outputs, entries, RuleTakes
<1> QED
  BY <1>2, <1>3, <1>4

(* What a profile's rules are to the matcher. *)
Matchable(p, t) ==
    /\ IsFiniteSet(Connectors)
    /\ DOMAIN t \subseteq Connectors /\ DOMAIN p.layout \subseteq Connectors
    /\ Len(p.rules) \in Nat
    /\ \A i \in 1..Len(p.rules) : p.rules[i].required \in BOOLEAN

(* Each step is that of one rule, as long as none has failed. *)
LEMMA StepIsRule ==
    ASSUME NEW p, NEW t, Matchable(p, t), NEW match, InSteps(p, t, match, Len(p.rules)),
           NEW i \in 1..Len(p.rules), IsMatch(p, t, match[i - 1])
    PROVE  /\ IsMatch(p, t, match[i])
           /\ match[i - 1].ok => RuleTakes(p, t, p.rules[i], match[i - 1], match[i])
           /\ ~match[i - 1].ok => match[i] = match[i - 1]
<1> DEFINE m == match[i - 1]
           rule == p.rules[i]
<1>1. Follows(p, t, match, i)
  BY DEF InSteps
<1>2. match[i] = IF ~m.ok THEN m ELSE MatchOneRule(p, t, rule, m)
  BY <1>1, Zenon DEF Follows
<1>3. IsMatch(p, t, m) /\ rule.required \in BOOLEAN
  BY DEF Matchable
<1> HIDE DEF m, rule
<1>4. /\ IsMatch(p, t, MatchOneRule(p, t, rule, m))
      /\ RuleTakes(p, t, rule, m, MatchOneRule(p, t, rule, m))
  BY <1>3, OneRule DEF Matchable
<1>5. /\ IsMatch(p, t, match[i])
      /\ m.ok => RuleTakes(p, t, rule, m, match[i])
      /\ ~m.ok => match[i] = m
  BY <1>2, <1>3, <1>4, Zenon
<1> QED
  BY <1>5 DEF m, rule

LEMMA StepsAreMatches ==
    ASSUME NEW p, NEW t, Matchable(p, t), NEW match, InSteps(p, t, match, Len(p.rules))
    PROVE  \A i \in 0..Len(p.rules) : IsMatch(p, t, match[i])
<1> DEFINE N == Len(p.rules)
           S == {i \in 0..N : IsMatch(p, t, match[i])}
<1>1. N \in Nat
  BY DEF Matchable
<1>2. match[0] = NothingBound
  BY DEF InSteps
<1>3. 0 \in S
  <2>1. IsMatch(p, t, NothingBound)
    BY DEF IsMatch, NothingBound
  <2> HIDE DEF N
  <2> QED
    BY <1>1, <1>2, <2>1
<1>4. ASSUME NEW i \in 0..N - 1, i \in S PROVE i + 1 \in S
  <2>1. i + 1 \in 1..N /\ (i + 1) - 1 = i /\ i + 1 \in 0..N
    BY <1>1
  <2>2. IsMatch(p, t, match[i])
    BY <1>4
  <2>3. IsMatch(p, t, match[i + 1])
    BY <2>1, <2>2, StepIsRule
  <2> QED
    BY <2>1, <2>3
<1>5. 0..N \subseteq S
  <2> HIDE DEF N, S
  <2> QED
    BY <1>1, <1>3, <1>4, InductionUpTo
<1> QED
  BY <1>5

(* Whatever the order of the rules, what they bind is a match. *)
LEMMA MatchIsSound ==
    ASSUME NEW p, NEW t, Matchable(p, t)
    PROVE  IsMatch(p, t, MatchRules(p, t))
<1>1. Len(p.rules) \in Nat
  BY DEF Matchable
<1>2. PICK match : /\ InSteps(p, t, match, Len(p.rules))
                   /\ MatchRules(p, t) = match[Len(p.rules)]
  BY <1>1, MatchRulesInSteps
<1>3. Len(p.rules) \in 0..Len(p.rules)
  BY <1>1
<1>4. IsMatch(p, t, match[Len(p.rules)])
  BY <1>2, <1>3, StepsAreMatches
<1> QED
  BY <1>2, <1>4

(* A match that is in order was in order after every rule. *)
LEMMA AlwaysInOrder ==
    ASSUME NEW p, NEW t, Matchable(p, t), NEW match, InSteps(p, t, match, Len(p.rules)),
           match[Len(p.rules)].ok
    PROVE  /\ \A i \in 0..Len(p.rules) : match[i].ok
           /\ \A i \in 1..Len(p.rules) : RuleTakes(p, t, p.rules[i], match[i - 1], match[i])
<1> DEFINE N == Len(p.rules)
           S == {i \in 0..N : match[i].ok => \A j \in 0..i : match[j].ok}
<1>1. N \in Nat
  BY DEF Matchable
<1>2. \A i \in 1..N : i - 1 \in 0..N
  BY <1>1
<1>3. ASSUME NEW i \in 1..N
      PROVE  /\ match[i].ok => match[i - 1].ok
             /\ match[i - 1].ok => RuleTakes(p, t, p.rules[i], match[i - 1], match[i])
  <2>1. IsMatch(p, t, match[i - 1])
    BY <1>2, StepsAreMatches
  <2> QED
    BY <2>1, StepIsRule
<1> HIDE DEF N
<1>4. 0 \in S
  BY <1>1
<1>5. ASSUME NEW i \in 0..N - 1, i \in S PROVE i + 1 \in S
  <2>1. i + 1 \in 1..N /\ (i + 1) - 1 = i /\ i + 1 \in 0..N
    BY <1>1
  <2>2. match[i + 1].ok => match[i].ok
    BY <1>3, <2>1
  <2>3. ASSUME match[i + 1].ok, NEW j \in 0..i + 1 PROVE match[j].ok
    <3>1. j \in 0..i \/ j = i + 1
      BY <1>1
    <3> QED
      BY <1>5, <2>2, <2>3, <3>1
  <2> QED
    BY <2>1, <2>3
<1>6. N \in S
  <2> HIDE DEF S
  <2>1. 0..N \subseteq S
    BY <1>1, <1>4, <1>5, InductionUpTo
  <2> QED
    BY <1>1, <2>1
<1>7. \A i \in 0..N : match[i].ok
  BY <1>6 DEF N
<1> QED
  BY <1>2, <1>3, <1>7 DEF N

(* Rules R and outputs B fit one another and nothing else.                 *)
FitOnly(p, t, R, B) ==
    /\ R \subseteq 1..Len(p.rules)
    /\ \A i \in 1..Len(p.rules), c \in RealOutputs(t) :
            IdentitiesMatch(p.rules[i].id, t[c].id) => (i \in R <=> c \in B)

AllRequired(p, R) == \A i \in R : p.rules[i].required

(* If all of them are required, the outputs that are used are as many.     *)
LEMMA RequiredRulesTakeOutputs ==
    ASSUME NEW p, NEW t, Matchable(p, t), MatchRules(p, t).ok, NEW R, NEW B,
           FitOnly(p, t, R, B), AllRequired(p, R)
    PROVE  Cardinality(DOMAIN MatchRules(p, t).bound \cap B) = Cardinality(R)
<1> DEFINE N == Len(p.rules)
<1>1. /\ N \in Nat
      /\ R \subseteq 1..N
      /\ \A i \in R : p.rules[i].required
      /\ \A i \in 1..N, c \in RealOutputs(t) :
            IdentitiesMatch(p.rules[i].id, t[c].id) => (i \in R <=> c \in B)
  BY DEF Matchable, FitOnly, AllRequired
<1>2. PICK match : InSteps(p, t, match, N) /\ MatchRules(p, t) = match[N]
  BY <1>1, MatchRulesInSteps
<1> DEFINE U(i) == DOMAIN match[i].bound \cap B
           S == {i \in 0..N : Cardinality(U(i)) = Cardinality(R \cap (1..i))}
<1>3. \A i \in 0..N : match[i].ok /\ IsMatch(p, t, match[i])
  BY <1>2, AlwaysInOrder, StepsAreMatches
<1>4. \A i \in 1..N : RuleTakes(p, t, p.rules[i], match[i - 1], match[i])
  BY <1>2, AlwaysInOrder
<1>5. \A i \in 0..N : IsFiniteSet(DOMAIN match[i].bound)
  <2>1. \A i \in 0..N : DOMAIN match[i].bound \subseteq Connectors
    BY <1>3 DEF IsMatch, RealOutputs, Matchable
  <2> QED
    BY <2>1, FS_Subset DEF Matchable
<1> HIDE DEF N
<1>6. 0 \in S
  <2>1. DOMAIN match[0].bound = {}
    <3>1. NothingBound.bound = <<>>
      BY DEF NothingBound
    <3>2. match[0] = NothingBound
      BY <1>2 DEF InSteps
    <3>3. \A c : c \notin DOMAIN <<>>
      OBVIOUS
    <3> QED
      BY <3>1, <3>2, <3>3
  <2>2. U(0) = {} /\ R \cap (1..0) = {} /\ 0 \in 0..N
    BY <1>1, <2>1
  <2>3. Cardinality(U(0)) = Cardinality(R \cap (1..0))
    BY <2>2, Zenon
  <2> HIDE DEF U
  <2> QED
    BY <2>2, <2>3
<1>7. ASSUME NEW i \in 0..N - 1, i \in S PROVE i + 1 \in S
  <2>1. i + 1 \in 1..N /\ (i + 1) - 1 = i /\ i + 1 \in 0..N /\ i \in 0..N
    BY <1>1
  <2> DEFINE m == match[i]
             next == match[i + 1]
             rule == p.rules[i + 1]
  <2>2. RuleTakes(p, t, rule, m, next)
    BY <1>4, <2>1
  <2>3. m.ok /\ next.ok /\ IsFiniteSet(DOMAIN m.bound)
    BY <1>3, <1>5, <2>1
  <2>4. Cardinality(R \cap (1..i + 1)) =
            Cardinality(R \cap (1..i)) + (IF i + 1 \in R THEN 1 ELSE 0)
    BY <1>1, OneMore
  <2>5. Cardinality(U(i)) = Cardinality(R \cap (1..i))
    BY <1>7
  <2>6. Cardinality(R \cap (1..i)) \in Nat
    BY <1>1, OneMore
  <2>7. ASSUME next.bound = m.bound, ~rule.required
        PROVE  Cardinality(U(i + 1)) = Cardinality(R \cap (1..i + 1))
    <3>1. i + 1 \notin R
      BY <1>1, <2>1, <2>7
    <3>2. U(i + 1) = U(i)
      BY <2>7
    <3> HIDE DEF U
    <3> QED
      BY <2>4, <2>5, <2>6, <3>1, <3>2
  <2>8. ASSUME NEW c \in OutputCandidates(rule, t, DOMAIN m.bound), NEW n,
               next.bound = Put(m.bound, c, n)
        PROVE  Cardinality(U(i + 1)) = Cardinality(R \cap (1..i + 1))
    <3>1. c \in RealOutputs(t) /\ c \notin DOMAIN m.bound /\ IdentitiesMatch(rule.id, t[c].id)
      BY <2>8 DEF OutputCandidates
    <3>2. i + 1 \in R <=> c \in B
      BY <1>1, <2>1, <3>1
    <3>3. DOMAIN next.bound = DOMAIN m.bound \cup {c}
      BY <2>8 DEF Put
    <3>4. IsFiniteSet(U(i)) /\ c \notin U(i)
      BY <2>3, <3>1, FS_Subset
    <3>5. U(i + 1) = IF c \in B THEN U(i) \cup {c} ELSE U(i)
      BY <3>3
    <3> HIDE DEF U
    <3>6. Cardinality(U(i) \cup {c}) = Cardinality(U(i)) + 1
      BY <3>4, FS_AddElement
    <3> QED
      BY <2>4, <2>5, <2>6, <3>2, <3>5, <3>6
  <2>9. Cardinality(U(i + 1)) = Cardinality(R \cap (1..i + 1))
    <3> HIDE DEF m, next, rule, U
    <3> QED
      BY <2>2, <2>3, <2>7, <2>8 DEF RuleTakes
  <2> HIDE DEF U
  <2> QED
    BY <2>1, <2>9
<1>8. N \in S
  <2> HIDE DEF S
  <2>1. 0..N \subseteq S
    BY <1>1, <1>6, <1>7, InductionUpTo
  <2> QED
    BY <1>1, <2>1
<1>9. R \cap (1..N) = R
  BY <1>1
<1> QED
  BY <1>2, <1>8, <1>9

----------------------------------------------------------------------------
(* Displays that can be told apart. *)

(* Whether the rule or the entry may be of the output. *)
RuleFits(p, t, i, c)  == IdentitiesMatch(p.rules[i].id, t[c].id)
EntryFits(p, t, n, c) == IdentitiesMatch(p.layout[n].id, t[c].id)

(* No rule and no entry of the profile fits two displays, and no two of    *)
(* them fit one.                                                           *)
Distinguished(p, t) ==
    \A c, d \in RealOutputs(t) :
        /\ \A i, j \in 1..Len(p.rules) :
            RuleFits(p, t, i, c) /\ RuleFits(p, t, j, d) => (i = j <=> c = d)
        /\ \A n, m \in DOMAIN p.layout :
            EntryFits(p, t, n, c) /\ EntryFits(p, t, m, d) => (n = m <=> c = d)

(* The rule has an output and an entry, or may do without. *)
Placeable(p, t, i) ==
    IF \A c \in RealOutputs(t) : ~RuleFits(p, t, i, c)
    THEN ~p.rules[i].required
    ELSE \E c \in RealOutputs(t), n \in DOMAIN p.layout :
            /\ RuleFits(p, t, i, c) /\ EntryFits(p, t, n, c)
            /\ IdentitiesMatch(p.rules[i].id, p.layout[n].id)

(* The outputs of the first n rules. *)
OutputsOf(p, t, n) == {c \in RealOutputs(t) : \E i \in 1..n : RuleFits(p, t, i, c)}

(* The next rule neither meets an output nor an entry that is taken. *)
LEMMA DistinctRule ==
    ASSUME NEW p, NEW t, Matchable(p, t), Distinguished(p, t), NEW i \in 1..Len(p.rules),
           NEW m, IsMatch(p, t, m), m.ok, DOMAIN m.bound = OutputsOf(p, t, i - 1),
           NEW next, next.ok \in BOOLEAN, RuleTakes(p, t, p.rules[i], m, next)
    PROVE  /\ next.ok <=> Placeable(p, t, i)
           /\ next.ok => DOMAIN next.bound = OutputsOf(p, t, i)
<1> DEFINE real == RealOutputs(t)
           rule == p.rules[i]
           N == Len(p.rules)
<1>1. N \in Nat /\ rule.required \in BOOLEAN
  BY DEF Matchable
<1>2. \A j \in 1..i - 1 : j \in 1..N /\ j # i
  BY <1>1
<1>3. \A j \in 1..i : j = i \/ j \in 1..i - 1
  BY <1>1
<1>4. i \in 1..i /\ \A j \in 1..i - 1 : j \in 1..i
  BY <1>1
<1> HIDE DEF N
<1>5. \A c \in real : RuleFits(p, t, i, c) => c \notin DOMAIN m.bound
  BY <1>2 DEF OutputsOf, Distinguished, N
<1>6. \A c : c \in OutputCandidates(rule, t, DOMAIN m.bound) <=> c \in real /\ RuleFits(p, t, i, c)
  BY <1>5 DEF OutputCandidates, RuleFits
<1>7. ASSUME NEW c \in real, RuleFits(p, t, i, c), NEW n
      PROVE  n \in LayoutCandidates(rule, p.layout, t[c].id, UsedEntries(m)) <=>
                /\ n \in DOMAIN p.layout /\ EntryFits(p, t, n, c)
                /\ IdentitiesMatch(rule.id, p.layout[n].id)
  <2>1. ASSUME n \in DOMAIN p.layout, EntryFits(p, t, n, c), n \in UsedEntries(m) PROVE FALSE
    <3>1. PICK d \in DOMAIN m.bound : n = m.bound[d]
      BY <2>1 DEF UsedEntries
    <3>2. d \in real /\ EntryFits(p, t, n, d)
      BY <3>1 DEF IsMatch, EntryFits
    <3>3. c = d
      BY <2>1, <3>2 DEF Distinguished
    <3> QED
      BY <1>5, <1>7, <3>1, <3>3
  <2> QED
    BY <2>1 DEF LayoutCandidates, EntryFits
<1>8. \A c, d \in real : RuleFits(p, t, i, c) /\ RuleFits(p, t, i, d) => c = d
  BY DEF Distinguished
<1>9. \A c \in real :
        c \in OutputsOf(p, t, i) <=> c \in OutputsOf(p, t, i - 1) \/ RuleFits(p, t, i, c)
  BY <1>3, <1>4 DEF OutputsOf
<1>10. OutputsOf(p, t, i) \subseteq real /\ OutputsOf(p, t, i - 1) \subseteq real
  BY DEF OutputsOf
<1> HIDE DEF rule, real
<1>11. ASSUME OutputCandidates(rule, t, DOMAIN m.bound) = {},
              next.bound = m.bound, next.ok = (m.ok /\ ~rule.required)
       PROVE  (next.ok <=> Placeable(p, t, i)) /\ DOMAIN next.bound = OutputsOf(p, t, i)
  <2>1. \A c \in real : ~RuleFits(p, t, i, c)
    BY <1>6, <1>11
  <2>2. OutputsOf(p, t, i) = OutputsOf(p, t, i - 1)
    BY <1>9, <1>10, <2>1
  <2> QED
    BY <1>1, <1>11, <2>1, <2>2, Zenon DEF Placeable, real, rule
<1>12. ASSUME NEW c \in OutputCandidates(rule, t, DOMAIN m.bound),
              LayoutCandidates(rule, p.layout, t[c].id, UsedEntries(m)) = {}, ~next.ok
       PROVE  next.ok <=> Placeable(p, t, i)
  <2>1. c \in real /\ RuleFits(p, t, i, c)
    BY <1>6, <1>12
  <2>2. \A n \in DOMAIN p.layout :
            ~(EntryFits(p, t, n, c) /\ IdentitiesMatch(rule.id, p.layout[n].id))
    BY <1>7, <1>12, <2>1
  <2>3. ~Placeable(p, t, i)
    BY <1>8, <2>1, <2>2, Zenon DEF Placeable, real, rule
  <2> QED
    BY <1>12, <2>3
<1>13. ASSUME NEW c \in OutputCandidates(rule, t, DOMAIN m.bound),
              NEW n \in LayoutCandidates(rule, p.layout, t[c].id, UsedEntries(m)),
              next.bound = Put(m.bound, c, n), next.ok = m.ok
       PROVE  next.ok /\ Placeable(p, t, i) /\ DOMAIN next.bound = OutputsOf(p, t, i)
  <2>1. c \in real /\ RuleFits(p, t, i, c)
    BY <1>6, <1>13
  <2>2. /\ n \in DOMAIN p.layout /\ EntryFits(p, t, n, c)
        /\ IdentitiesMatch(rule.id, p.layout[n].id)
    BY <1>7, <1>13, <2>1
  <2>3. Placeable(p, t, i)
    BY <2>1, <2>2, Zenon DEF Placeable, real, rule
  <2>4. DOMAIN next.bound = DOMAIN m.bound \cup {c}
    BY <1>13 DEF Put
  <2>5. \A d : d \in DOMAIN next.bound <=> d \in OutputsOf(p, t, i)
    BY <1>8, <1>9, <1>10, <2>1, <2>4
  <2> QED
    BY <1>13, <2>3, <2>5
<1> QED
  BY <1>11, <1>12, <1>13, Zenon DEF RuleTakes, rule

(* Then the rules find their outputs and entries in any order. *)
LEMMA DistinctMatch ==
    ASSUME NEW p, NEW t, Matchable(p, t), Distinguished(p, t)
    PROVE  LET m == MatchRules(p, t) IN
           /\ m.ok <=> \A i \in 1..Len(p.rules) : Placeable(p, t, i)
           /\ m.ok => DOMAIN m.bound = OutputsOf(p, t, Len(p.rules))
<1> DEFINE N == Len(p.rules)
<1>1. N \in Nat
  BY DEF Matchable
<1>2. PICK match : InSteps(p, t, match, N) /\ MatchRules(p, t) = match[N]
  BY <1>1, MatchRulesInSteps
<1>3. \A i \in 0..N : IsMatch(p, t, match[i])
  BY <1>2, StepsAreMatches
<1> DEFINE Right(i) == /\ match[i].ok <=> \A j \in 1..i : Placeable(p, t, j)
                       /\ match[i].ok => DOMAIN match[i].bound = OutputsOf(p, t, i)
           S == {i \in 0..N : Right(i)}
<1>4. 0 \in S
  <2>1. match[0].ok /\ DOMAIN match[0].bound = {}
    <3>1. NothingBound.bound = <<>> /\ NothingBound.ok
      BY DEF NothingBound
    <3>2. match[0] = NothingBound
      BY <1>2 DEF InSteps
    <3>3. DOMAIN <<>> = {}
      OBVIOUS
    <3> QED
      BY <3>1, <3>2, <3>3, Zenon
  <2>2. OutputsOf(p, t, 0) = {} /\ 0 \in 0..N /\ \A j \in 1..0 : FALSE
    BY <1>1 DEF OutputsOf
  <2> QED
    BY <2>1, <2>2, Zenon
<1>5. ASSUME NEW i \in 0..N - 1, i \in S PROVE i + 1 \in S
  <2>1. /\ i + 1 \in 1..N /\ (i + 1) - 1 = i /\ i + 1 \in 0..N /\ i \in 0..N
        /\ i + 1 \in 1..i + 1
        /\ \A j \in 1..i + 1 : j = i + 1 \/ j \in 1..i
        /\ \A j \in 1..i : j \in 1..i + 1
    BY <1>1
  <2>2. Right(i)
    BY <1>5
  <2>3. /\ match[i].ok => RuleTakes(p, t, p.rules[i + 1], match[i], match[i + 1])
        /\ ~match[i].ok => match[i + 1] = match[i]
    BY <1>2, <1>3, <2>1, StepIsRule
  <2>4. match[i + 1].ok \in BOOLEAN
    BY <1>3, <2>1 DEF IsMatch
  <2>5. CASE match[i].ok
    <3>1. DOMAIN match[i].bound = OutputsOf(p, t, i)
      BY <2>2, <2>5
    <3> HIDE DEF N
    <3>2. /\ match[i + 1].ok <=> Placeable(p, t, i + 1)
          /\ match[i + 1].ok => DOMAIN match[i + 1].bound = OutputsOf(p, t, i + 1)
      BY <1>3, <2>1, <2>3, <2>4, <2>5, <3>1, DistinctRule DEF N
    <3>3. \A j \in 1..i : Placeable(p, t, j)
      BY <2>2, <2>5
    <3>4. Right(i + 1)
      BY <2>1, <3>2, <3>3, Zenon
    <3> QED
      BY <2>1, <3>4
  <2>6. CASE ~match[i].ok
    <3>1. ~match[i + 1].ok
      BY <2>3, <2>6
    <3>2. ~\A j \in 1..i + 1 : Placeable(p, t, j)
      BY <2>1, <2>2, <2>6
    <3>3. Right(i + 1)
      BY <3>1, <3>2
    <3> QED
      BY <2>1, <3>3
  <2> QED
    BY <2>5, <2>6
<1>6. N \in S
  <2> HIDE DEF S
  <2>1. 0..N \subseteq S
    BY <1>1, <1>4, <1>5, InductionUpTo
  <2> QED
    BY <1>1, <2>1
<1>7. Right(N)
  BY <1>6
<1> QED
  BY <1>2, <1>7

(* Read again, what was saved of a topology has the rules of it. *)
LEMMA RulesAgain ==
    ASSUME IsFiniteSet(Connectors), NEW t, IsTopology(t),
           \A c \in DOMAIN t : t[c].id.connector = c,
           NEW known, IsCache(known), NormalizeTopology(t, known) = t,
           NEW q, IsProfile(q), q.layout = t,
           NEW o \in IterationOrders, q.rules = RulesFromLayout(t, o), NEW order \in IterationOrders
    PROVE  \E o2 \in IterationOrders :
                CanonicalizeProfile(q, known, order).rules = RulesFromLayout(t, o2)
<1> DEFINE inferred == WithInferredMatchRules(q, order)
           r == CanonicalizeProfile(q, known, order)
<1>1. PICK o2 \in IterationOrders : inferred.rules = RulesFromLayout(t, o2)
  BY CanonicalFields, ZenonT(60)
<1> DEFINE names == Iterated(RealOutputs(t), o2)
           rules == RulesFromLayout(t, o2)
<1>2. r.rules = [i \in DOMAIN rules |-> [rules[i] EXCEPT !.id = CachedRuleIdentity(@, known)]]
  <2>1. inferred \in [name : {q.name}, priority : {q.priority}, rules : {inferred.rules},
                      layout : {q.layout}, hooks : {q.hooks}]
    BY DEF IsProfile, WithInferredMatchRules
  <2> HIDE DEF inferred, rules
  <2> QED
    BY <1>1, <2>1 DEF CanonicalizeProfile, inferred, rules
<1>3. \A i \in DOMAIN names : names[i] \in DOMAIN t
  <2>1. RealOutputs(t) \in SUBSET Connectors /\ RealOutputs(t) \subseteq DOMAIN t
    BY DEF RealOutputs, IsTopology
  <2>2. names \in Bijection(DOMAIN names, RealOutputs(t))
    BY <2>1, IteratedLists
  <2> QED
    BY <2>1, <2>2 DEF Bijection, Injection
<1>4. /\ DOMAIN rules = DOMAIN names
      /\ rules = [i \in DOMAIN names |-> [id |-> t[names[i]].id, required |-> t[names[i]].enabled,
                                          hint |-> t[names[i]].pos]]
  BY DEF RulesFromLayout
<1>5. ASSUME NEW i \in DOMAIN names
      PROVE  [rules[i] EXCEPT !.id = CachedRuleIdentity(@, known)] = rules[i]
  <2> DEFINE c == names[i]
  <2>1. rules[i] = [id |-> t[c].id, required |-> t[c].enabled, hint |-> t[c].pos]
    BY <1>4
  <2>2. c \in DOMAIN t /\ t[c].id.connector = c
    BY <1>3
  <2>3. NormalizeTopology(t, known)[c].id = CachedRuleIdentity(t[c].id, known)
    BY <2>2, NormalizedIdentity DEF CachedRuleIdentity
  <2>4. CachedRuleIdentity(t[c].id, known) = t[c].id
    BY <2>3
  <2> HIDE DEF c, rules
  <2> QED
    BY <2>1, <2>4
<1>6. r.rules = rules
  <2> HIDE DEF r, rules, names
  <2> QED
    BY <1>2, <1>4, <1>5
<1> QED
  BY <1>6

(* A display may be taken for itself. *)
LEMMA SelfFits ==
    ASSUME NEW id, Present(id.connector)
    PROVE  IdentitiesMatch(id, id)
BY Zenon DEF IdentitiesMatch, Agree, SamePresent

(* A profile made of displays that can be told apart matches them and is   *)
(* planned as they are.                                                    *)
LEMMA OwnMatch ==
    ASSUME IsFiniteSet(Connectors), NEW t, IsTopology(t),
           \A c \in DOMAIN t : t[c].id.connector = c,
           NEW p, p.layout = t, NEW order \in IterationOrders,
           p.rules = RulesFromLayout(t, order), Distinguished(p, t)
    PROVE  /\ MatchesExactly(p, t)
           /\ DOMAIN PlanFromProfile(p, t) = RealOutputs(t)
           /\ \A c \in RealOutputs(t) :
                PlanFromProfile(p, t)[c] = [t[c] EXCEPT !.id = t[c].id]
<1> DEFINE real == RealOutputs(t)
           names == Iterated(real, order)
           N == Cardinality(real)
           m == MatchRules(p, t)
<1>1. real \in SUBSET Connectors /\ real \subseteq DOMAIN t /\ DOMAIN t \subseteq Connectors
  BY DEF RealOutputs, IsTopology
<1>2. N \in Nat
  BY <1>1, FS_Subset, FS_CardinalityType
<1>3. /\ DOMAIN names = 1..N
      /\ \A i \in 1..N : names[i] \in real
      /\ \A c \in real : \E i \in 1..N : names[i] = c
  <2>1. DOMAIN names = 1..N /\ names \in Bijection(DOMAIN names, real)
    BY <1>1, IteratedLists
  <2> HIDE DEF names, real, N
  <2> QED
    BY <2>1 DEF Bijection, Injection, Surjection
<1>4. p.rules = [i \in 1..N |-> [id |-> t[names[i]].id, required |-> t[names[i]].enabled,
                                 hint |-> t[names[i]].pos]]
  BY <1>3 DEF RulesFromLayout
<1> HIDE DEF names, real, N
<1>5. Len(p.rules) = N
  BY <1>2, <1>4
<1>6. \A i \in 1..N : p.rules[i].id = t[names[i]].id /\ p.rules[i].required = t[names[i]].enabled
  BY <1>4
<1>7. ASSUME NEW c \in DOMAIN t PROVE t[c].enabled \in BOOLEAN /\ IdentitiesMatch(t[c].id, t[c].id)
  <2>1. t[c] \in OutputState /\ c \in Connectors
    BY DEF IsTopology
  <2>2. Present(t[c].id.connector)
    BY <2>1, NoValueAssumption DEF Present
  <2> QED
    BY <2>1, <2>2, SelfFits DEF OutputState
<1>8. Matchable(p, t)
  <2>1. \A i \in 1..N : p.rules[i].required \in BOOLEAN
    BY <1>1, <1>3, <1>6, <1>7
  <2> QED
    BY <1>1, <1>2, <1>5, <2>1 DEF Matchable
<1>9. ASSUME NEW i \in 1..N
      PROVE  RuleFits(p, t, i, names[i]) /\ Placeable(p, t, i)
  <2>1. names[i] \in real /\ names[i] \in DOMAIN t
    BY <1>1, <1>3
  <2>2. RuleFits(p, t, i, names[i]) /\ EntryFits(p, t, names[i], names[i])
    BY <1>6, <1>7, <2>1 DEF RuleFits, EntryFits
  <2>3. IdentitiesMatch(p.rules[i].id, p.layout[names[i]].id)
    BY <1>6, <1>7, <2>1
  <2> QED
    BY <2>1, <2>2, <2>3, Zenon DEF Placeable, real
<1>10. OutputsOf(p, t, N) = real
  BY <1>3, <1>9 DEF OutputsOf, real
<1>11. m.ok /\ DOMAIN m.bound = real
  BY <1>5, <1>8, <1>9, <1>10, DistinctMatch
<1>12. ASSUME NEW c \in real PROVE m.bound[c] = c
  <2>1. IsMatch(p, t, m)
    BY <1>8, MatchIsSound
  <2>2. m.bound[c] \in DOMAIN t /\ EntryFits(p, t, m.bound[c], c) /\ c \in DOMAIN t
    BY <1>1, <1>11, <2>1 DEF IsMatch, EntryFits
  <2>3. EntryFits(p, t, c, c)
    BY <1>7, <2>2 DEF EntryFits
  <2> QED
    BY <2>2, <2>3 DEF Distinguished, real
<1>13. MatchesExactly(p, t)
  BY <1>11 DEF MatchesExactly, ExtraOutputs, real
<1>14. PlanFromProfile(p, t) = [c \in real |-> [t[m.bound[c]] EXCEPT !.id = t[c].id]]
  <2>1. DOMAIN t \cap DOMAIN m.bound = real
    BY <1>1, <1>11
  <2> QED
    BY <2>1 DEF PlanFromProfile
<1> HIDE DEF m
<1> QED
  BY <1>12, <1>13, <1>14 DEF real

----------------------------------------------------------------------------
(* Setting a preset again. *)

(* What the displays t are once they are configured by a plan. *)
Outcome(t, plan, u) ==
    /\ DOMAIN u = DOMAIN t /\ Unmirrored(u)
    /\ \A c \in DOMAIN t :
        /\ u[c].id = t[c].id /\ u[c].modes = t[c].modes
        /\ u[c].enabled <=> c \in DOMAIN plan /\ plan[c].enabled
        /\ u[c].enabled =>
            /\ u[c].pos = plan[c].pos /\ u[c].xform = plan[c].xform
            /\ u[c].mode = IF plan[c].mode = NoValue THEN t[c].mode ELSE plan[c].mode

(* A plan for u that lights what the first plan lights, and there.         *)
Repeats(again, plan, u) ==
    \A c \in RealOutputs(u) :
        /\ c \in DOMAIN again /\ again[c].enabled <=> c \in DOMAIN plan /\ plan[c].enabled
        /\ c \in DOMAIN again /\ again[c].enabled =>
            /\ again[c].pos = plan[c].pos /\ again[c].xform = u[c].xform
            /\ again[c].mirror = NoValue /\ again[c].mode \in {NoValue, u[c].mode}

LEMMA RepeatedHolds ==
    ASSUME NEW t, NEW u, IsTopology(u), NEW plan, Outcome(t, plan, u),
           NEW again, Repeats(again, plan, u)
    PROVE  LayoutHolds(again, u)
<1> SUFFICES ASSUME NEW c \in RealOutputs(u)
             PROVE  /\ u[c].enabled <=> (c \in DOMAIN again /\ again[c].enabled)
                    /\ u[c].enabled => Arranged(again[c], u[c])
  BY DEF LayoutHolds
<1>1. c \in DOMAIN t /\ c \in DOMAIN u
  BY DEF RealOutputs, Outcome
<1>2. /\ u[c].enabled <=> c \in DOMAIN plan /\ plan[c].enabled
      /\ u[c].enabled => u[c].pos = plan[c].pos
      /\ u[c].mirror = NoValue
  BY <1>1 DEF Outcome, Unmirrored
<1>3. u[c].enabled <=> (c \in DOMAIN again /\ again[c].enabled)
  BY <1>2 DEF Repeats
<1> QED
  BY <1>2, <1>3 DEF Repeats, Arranged

(* The displays are the same ones. *)
LEMMA SameOnes ==
    ASSUME NEW t, NEW u, NEW plan, Outcome(t, plan, u), NEW builtin
    PROVE  /\ RealOutputs(u) = RealOutputs(t)
           /\ \A c \in DOMAIN t : IsInternalOutput(u[c], builtin) = IsInternalOutput(t[c], builtin)
           /\ InternalOutputs(u, builtin) = InternalOutputs(t, builtin)
<1>1. /\ DOMAIN u = DOMAIN t
      /\ \A c \in DOMAIN t : u[c].id = t[c].id
  BY DEF Outcome
<1>2. RealOutputs(u) = RealOutputs(t)
  BY <1>1 DEF RealOutputs
<1>3. \A c \in DOMAIN t : IsInternalOutput(u[c], builtin) = IsInternalOutput(t[c], builtin)
  BY <1>1 DEF IsInternalOutput
<1>4. RealOutputs(t) \subseteq DOMAIN t
  BY DEF RealOutputs
<1> QED
  BY <1>2, <1>3, <1>4 DEF InternalOutputs

LEMMA UnplacedFields ==
    ASSUME NEW o \in OutputState, NEW on
    PROVE  LET v == Unplaced(Enable(o, on))
           IN  /\ v.enabled = on /\ v.pos = Origin /\ v.mirror = NoValue
               /\ v.mode = o.mode /\ v.xform = o.xform /\ v.id = o.id
BY DEF Unplaced, Enable, OutputState

LEMMA OffAgain ==
    ASSUME NEW t, IsTopology(t), NEW u, IsTopology(u), NEW builtin,
           NEW plan \in PlanOff(t, builtin), Outcome(t, plan, u)
    PROVE  \E again \in PlanOff(u, builtin) : LayoutHolds(again, u)
<1> DEFINE on(v, o) == InternalOutputs(v, builtin) # {} /\ IsInternalOutput(o, builtin)
           again == [c \in DOMAIN u |-> Unplaced(Enable(u[c], on(u, u[c])))]
<1>1. t # <<>> /\ plan = [c \in DOMAIN t |-> Unplaced(Enable(t[c], on(t, t[c])))]
  BY DEF PlanOff
<1>2. DOMAIN u = DOMAIN t
  BY DEF Outcome
<1>3. u # <<>>
  <2>1. t = [c \in DOMAIN t |-> t[c]]
    BY DEF IsTopology
  <2>2. u = <<>> => DOMAIN t = {}
    BY <1>2
  <2>3. DOMAIN t = {} => t = <<>>
    BY <2>1
  <2> QED
    BY <1>1, <2>2, <2>3
<1>4. again \in PlanOff(u, builtin)
  BY <1>3 DEF PlanOff
<1>5. \A c \in DOMAIN t : on(u, u[c]) = on(t, t[c])
  BY SameOnes
<1>6. \A c \in DOMAIN t : t[c] \in OutputState /\ u[c] \in OutputState
  BY <1>2 DEF IsTopology
<1>7. \A c \in RealOutputs(u) : c \in DOMAIN t /\ c \in DOMAIN u
  BY <1>2 DEF RealOutputs
<1> HIDE DEF on
<1>8. Repeats(again, plan, u)
  BY <1>1, <1>2, <1>5, <1>6, <1>7, UnplacedFields DEF Repeats
<1> QED
  BY <1>4, <1>8, RepeatedHolds

LEMMA BuiltinAgain ==
    ASSUME NEW t, IsTopology(t), NEW u, IsTopology(u), NEW builtin,
           NEW plan \in PlanBuiltin(t, builtin), Outcome(t, plan, u)
    PROVE  \E again \in PlanBuiltin(u, builtin) : LayoutHolds(again, u)
<1> DEFINE on(o) == IsInternalOutput(o, builtin)
           again == [c \in DOMAIN u |->
                        IF u[c].id.real THEN Unplaced(Enable(u[c], on(u[c]))) ELSE u[c]]
<1>1. /\ InternalOutputs(t, builtin) # {}
      /\ plan = [c \in DOMAIN t |->
                    IF t[c].id.real THEN Unplaced(Enable(t[c], on(t[c]))) ELSE t[c]]
  BY DEF PlanBuiltin
<1>2. DOMAIN u = DOMAIN t
  BY DEF Outcome
<1>3. InternalOutputs(u, builtin) # {}
  BY <1>1, SameOnes
<1>4. again \in PlanBuiltin(u, builtin)
  BY <1>3 DEF PlanBuiltin
<1>5. \A c \in DOMAIN t : on(u[c]) = on(t[c])
  BY SameOnes
<1>6. \A c \in DOMAIN t : t[c] \in OutputState /\ u[c] \in OutputState
  BY <1>2 DEF IsTopology
<1>7. \A c \in RealOutputs(u) : c \in DOMAIN t /\ c \in DOMAIN u /\ u[c].id.real /\ t[c].id.real
  <2>1. RealOutputs(u) = RealOutputs(t)
    BY SameOnes
  <2> QED
    BY <2>1 DEF RealOutputs
<1> HIDE DEF on
<1>8. Repeats(again, plan, u)
  BY <1>1, <1>2, <1>5, <1>6, <1>7, UnplacedFields DEF Repeats
<1> QED
  BY <1>4, <1>8, RepeatedHolds

(* The least of finitely many numbers. *)
Least(f, S) == Sets!Min({f[c] : c \in S})

LEMMA LeastOf ==
    ASSUME NEW S \in SUBSET Connectors, IsFiniteSet(S), S # {}, NEW f \in [S -> Int]
    PROVE  /\ \E c \in S : Least(f, S) = f[c]
           /\ \A c \in S : Least(f, S) <= f[c]
<1> DEFINE before == [c \in S |-> {d \in S : f[d] < f[c] \/ (f[d] = f[c] /\ Rank[d] < Rank[c])}]
           V == {f[c] : c \in S}
<1>1. \A c \in S : f[c] \in Int /\ Rank[c] \in Nat
  BY RankAssumption
<1>2. \A c, d \in S : Rank[c] = Rank[d] => c = d
  BY RankAssumption
<1>3. /\ before \in [S -> SUBSET S]
      /\ \A c \in S : c \notin before[c]
      /\ \A c, d \in S : c # d => c \in before[d] \/ d \in before[c]
      /\ \A c, d, e \in S : c \in before[d] /\ d \in before[e] => c \in before[e]
  BY <1>1, <1>2
<1> HIDE DEF before
<1>4. \E c \in S : \A d \in S \ {c} : c \in before[d]
  BY <1>3, FirstInOrder, ZenonT(60)
<1>5. PICK c \in S : \A d \in S \ {c} : f[c] <= f[d]
  BY <1>1, <1>4 DEF before
<1>6. f[c] \in V /\ \A v \in V : f[c] <= v
  BY <1>1, <1>5
<1> HIDE DEF V
<1>7. Sets!Min(V) \in V /\ \A v \in V : Sets!Min(V) <= v
  BY <1>6 DEF Sets!Min
<1> QED
  BY <1>7 DEF V, Least

(* Moved to the origin, displays stay there. *)
LEMMA MovedOnce ==
    ASSUME NEW S \in SUBSET Connectors, IsFiniteSet(S), S # {}, NEW f \in [S -> Int],
           NEW g \in [S -> Int], \A c \in S : g[c] = f[c] - Least(f, S)
    PROVE  Least(g, S) = 0
<1>1. PICK c \in S : Least(f, S) = f[c]
  BY LeastOf
<1>2. \A e \in S : Least(f, S) <= f[e]
  BY LeastOf
<1>3. PICK d \in S : Least(g, S) = g[d]
  BY LeastOf
<1>4. \A e \in S : Least(g, S) <= g[e]
  BY LeastOf
<1>5. f[c] \in Int /\ f[d] \in Int /\ g[c] = f[c] - Least(f, S) /\ g[d] = f[d] - Least(f, S)
  OBVIOUS
<1>6. Least(g, S) <= g[c] /\ Least(f, S) <= f[d]
  BY <1>2, <1>4
<1> QED
  BY <1>1, <1>3, <1>5, <1>6

LEMMA ExternalAgain ==
    ASSUME IsFiniteSet(Connectors), NEW t, IsTopology(t), NEW u, IsTopology(u), NEW builtin,
           NEW plan \in PlanExternal(t, builtin), Outcome(t, plan, u)
    PROVE  \E again \in PlanExternal(u, builtin) : LayoutHolds(again, u)
<1> DEFINE Lit(v) == IF RealOutputs(v) = InternalOutputs(v, builtin) THEN InternalOutputs(v, builtin)
                     ELSE RealOutputs(v) \ InternalOutputs(v, builtin)
           On(v, c) == IF v[c].id.real THEN c \in Lit(v) ELSE v[c].enabled
           X(v) == Sets!Min({v[c].pos.x : c \in Lit(v)})
           Y(v) == Sets!Min({v[c].pos.y : c \in Lit(v)})
           Place(v, c) == IF ~On(v, c) THEN Origin
                          ELSE IF c \notin Lit(v) THEN v[c].pos
                          ELSE [x |-> v[c].pos.x - X(v), y |-> v[c].pos.y - Y(v)]
           Planned(v) == [c \in DOMAIN v |->
                            [v[c] EXCEPT !.enabled = On(v, c), !.pos = Place(v, c),
                                         !.mirror = NoValue]]
<1>1. t # <<>> /\ plan = Planned(t)
  BY DEF PlanExternal
<1>2. DOMAIN u = DOMAIN t
  BY DEF Outcome
<1>3. u # <<>>
  <2>1. t = [c \in DOMAIN t |-> t[c]]
    BY DEF IsTopology
  <2>2. u = <<>> => DOMAIN t = {}
    BY <1>2
  <2>3. DOMAIN t = {} => t = <<>>
    BY <2>1
  <2> QED
    BY <1>1, <2>2, <2>3
<1>4. Planned(u) \in PlanExternal(u, builtin)
  BY <1>3 DEF PlanExternal
<1>5. /\ RealOutputs(u) = RealOutputs(t) /\ Lit(u) = Lit(t)
      /\ Lit(t) \subseteq RealOutputs(t)
  BY SameOnes DEF InternalOutputs
<1>6. /\ \A c \in DOMAIN t : t[c] \in OutputState /\ u[c] \in OutputState
      /\ DOMAIN t \subseteq Connectors
  BY <1>2 DEF IsTopology
<1>7. \A c \in RealOutputs(u) : c \in DOMAIN t /\ c \in DOMAIN u /\ u[c].id.real /\ t[c].id.real
  BY <1>5 DEF RealOutputs
<1>8. \A v, c : v[c].id.real => (On(v, c) <=> c \in Lit(v))
  OBVIOUS
<1> HIDE DEF Lit, On, X, Y
<1>9. \A c \in RealOutputs(u) :
        /\ plan[c].enabled = On(t, c) /\ plan[c].pos = Place(t, c)
        /\ Planned(u)[c].enabled = On(u, c) /\ Planned(u)[c].pos = Place(u, c)
        /\ Planned(u)[c].mirror = NoValue /\ Planned(u)[c].mode = u[c].mode
        /\ Planned(u)[c].xform = u[c].xform
  <2> SUFFICES ASSUME NEW c \in RealOutputs(u)
               PROVE  /\ plan[c].enabled = On(t, c) /\ plan[c].pos = Place(t, c)
                      /\ Planned(u)[c].enabled = On(u, c) /\ Planned(u)[c].pos = Place(u, c)
                      /\ Planned(u)[c].mirror = NoValue /\ Planned(u)[c].mode = u[c].mode
                      /\ Planned(u)[c].xform = u[c].xform
    OBVIOUS
  <2>1. t[c] \in OutputState /\ u[c] \in OutputState /\ c \in DOMAIN t /\ c \in DOMAIN u
    BY <1>6, <1>7
  <2> HIDE DEF Place
  <2> QED
    BY <1>1, <2>1 DEF OutputState
<1>10. ASSUME NEW c \in Lit(t)
       PROVE  /\ u[c].pos = plan[c].pos
              /\ u[c].pos.x = t[c].pos.x - X(t) /\ u[c].pos.y = t[c].pos.y - Y(t)
  <2>1. c \in RealOutputs(u) /\ On(t, c)
    BY <1>5, <1>7, <1>8
  <2>2. plan[c].pos = [x |-> t[c].pos.x - X(t), y |-> t[c].pos.y - Y(t)]
    BY <1>9, <2>1
  <2>3. c \in DOMAIN plan /\ plan[c].enabled /\ c \in DOMAIN t
    BY <1>1, <1>7, <1>9, <2>1
  <2>4. u[c].pos = plan[c].pos
    BY <2>3 DEF Outcome
  <2> QED
    BY <2>2, <2>4
<1>11. Lit(t) # {} => X(u) = 0 /\ Y(u) = 0
  <2> SUFFICES ASSUME Lit(t) # {} PROVE X(u) = 0 /\ Y(u) = 0
    OBVIOUS
  <2> DEFINE S == Lit(t)
             xt == [c \in S |-> t[c].pos.x]
             yt == [c \in S |-> t[c].pos.y]
             xu == [c \in S |-> u[c].pos.x]
             yu == [c \in S |-> u[c].pos.y]
  <2>1. S \in SUBSET Connectors /\ IsFiniteSet(S) /\ S # {} /\ \A c \in S : c \in DOMAIN t
    <3>1. S \in SUBSET Connectors /\ \A c \in S : c \in DOMAIN t
      BY <1>5, <1>6, <1>7
    <3> QED
      BY <3>1, FS_Subset
  <2>2. \A c \in S : t[c].pos \in Position /\ u[c].pos \in Position
    BY <1>6, <2>1 DEF OutputState
  <2>3. xt \in [S -> Int] /\ yt \in [S -> Int] /\ xu \in [S -> Int] /\ yu \in [S -> Int]
    BY <2>2 DEF Position
  <2>4. /\ {xt[c] : c \in S} = {t[c].pos.x : c \in S} /\ {yt[c] : c \in S} = {t[c].pos.y : c \in S}
        /\ {xu[c] : c \in S} = {u[c].pos.x : c \in S} /\ {yu[c] : c \in S} = {u[c].pos.y : c \in S}
    OBVIOUS
  <2>5. X(t) = Least(xt, S) /\ Y(t) = Least(yt, S) /\ X(u) = Least(xu, S) /\ Y(u) = Least(yu, S)
    BY <1>5, <2>4 DEF X, Y, Least
  <2>6. \A c \in S : xu[c] = xt[c] - X(t) /\ yu[c] = yt[c] - Y(t)
    <3> SUFFICES ASSUME NEW c \in S
                 PROVE  xu[c] = xt[c] - X(t) /\ yu[c] = yt[c] - Y(t)
      OBVIOUS
    <3>1. u[c].pos.x = t[c].pos.x - X(t) /\ u[c].pos.y = t[c].pos.y - Y(t)
      BY <1>10
    <3> QED
      BY <3>1
  <2> HIDE DEF S, xt, yt, xu, yu
  <2>7. /\ \A c \in S : xu[c] = xt[c] - Least(xt, S)
        /\ \A c \in S : yu[c] = yt[c] - Least(yt, S)
    BY <2>5, <2>6
  <2>8. Least(xu, S) = 0
    BY <2>1, <2>3, <2>7, MovedOnce
  <2>9. Least(yu, S) = 0
    BY <2>1, <2>3, <2>7, MovedOnce
  <2> QED
    BY <2>5, <2>8, <2>9
<1>12. \A c \in RealOutputs(u) : On(u, c) => Place(u, c) = plan[c].pos /\ c \in DOMAIN plan
  <2> SUFFICES ASSUME NEW c \in RealOutputs(u), On(u, c)
               PROVE  Place(u, c) = plan[c].pos /\ c \in DOMAIN plan
    OBVIOUS
  <2>1. c \in Lit(u) /\ c \in Lit(t)
    BY <1>5, <1>7, <1>8
  <2>2. u[c].pos \in Position
    BY <1>6, <1>7 DEF OutputState
  <2>3. [x |-> u[c].pos.x - 0, y |-> u[c].pos.y - 0] = u[c].pos
    BY <2>2 DEF Position
  <2> QED
    BY <1>1, <1>7, <1>10, <1>11, <2>1, <2>3
<1>13. \A c \in RealOutputs(u) : On(u, c) <=> On(t, c)
  BY <1>5, <1>7, <1>8
<1>14. \A c \in RealOutputs(u) : c \in DOMAIN Planned(u) /\ c \in DOMAIN plan
  BY <1>1, <1>7
<1> HIDE DEF Planned, Place
<1>15. Repeats(Planned(u), plan, u)
  BY <1>9, <1>12, <1>13, <1>14 DEF Repeats
<1> QED
  BY <1>4, <1>15, RepeatedHolds

(* Where PlanLinear puts a display, by the sizes of the displays. *)
LinearPlace(S, widths, heights, horizontal, reverse, c) ==
    LET before == {d \in S : IF reverse THEN Rank[d] > Rank[c] ELSE Rank[d] < Rank[c]}
    IN  IF horizontal THEN [x |-> Sums!SumFunctionOnSet(widths, before), y |-> 0]
        ELSE [x |-> (Sets!Max({widths[d] : d \in S}) - widths[c]) \div 2,
              y |-> Sums!SumFunctionOnSet(heights, before)]

Widths(t)  == [c \in RealOutputs(t) |-> Width(t[c])]
Heights(t) == [c \in RealOutputs(t) |-> Height(t[c])]

LitAt(o, pos) == [Enable(o, TRUE) EXCEPT !.pos = pos, !.mirror = NoValue]

InLine(t, horizontal, reverse) ==
    [c \in RealOutputs(t) |->
        LitAt(t[c], LinearPlace(RealOutputs(t), Widths(t), Heights(t), horizontal, reverse, c))]

LEMMA LinearPlan ==
    ASSUME NEW t, NEW horizontal, NEW reverse
    PROVE  PlanLinear(t, horizontal, reverse) =
             IF RealOutputs(t) = {} THEN {} ELSE {InLine(t, horizontal, reverse)}
BY Zenon DEF PlanLinear, InLine, LitAt, LinearPlace, Widths, Heights

LEMMA PutAtFields ==
    ASSUME NEW o \in OutputState, NEW pos, NEW on
    PROVE  LET v == [Enable(o, on) EXCEPT !.pos = pos, !.mirror = NoValue]
           IN  /\ v.enabled = on /\ v.pos = pos /\ v.mirror = NoValue
               /\ v.mode = o.mode /\ v.xform = o.xform
BY DEF Enable, OutputState

LEMMA LitAtFields ==
    ASSUME NEW o \in OutputState, NEW pos
    PROVE  /\ LitAt(o, pos).enabled = TRUE /\ LitAt(o, pos).pos = pos
           /\ LitAt(o, pos).mirror = NoValue /\ LitAt(o, pos).mode = o.mode
           /\ LitAt(o, pos).xform = o.xform
<1> DEFINE on == TRUE
           v == [Enable(o, on) EXCEPT !.pos = pos, !.mirror = NoValue]
<1>1. LitAt(o, pos) = v /\ on = TRUE
  BY Zenon DEF LitAt
<1> HIDE DEF on
<1>2. v.enabled = on /\ v.pos = pos /\ v.mirror = NoValue /\ v.mode = o.mode /\ v.xform = o.xform
  BY PutAtFields
<1> HIDE DEF v
<1> QED
  BY <1>1, <1>2, Zenon

LEMMA LinearAgain ==
    ASSUME NEW t, IsTopology(t), NEW u, IsTopology(u), NEW horizontal, NEW reverse,
           NEW plan \in PlanLinear(t, horizontal, reverse), Outcome(t, plan, u)
    PROVE  \E again \in PlanLinear(u, horizontal, reverse) : LayoutHolds(again, u)
<1> DEFINE S == RealOutputs(t)
           again == InLine(u, horizontal, reverse)
           place(c) == LinearPlace(S, Widths(t), Heights(t), horizontal, reverse, c)
<1>1. S # {} /\ plan = InLine(t, horizontal, reverse)
  BY LinearPlan
<1>2. RealOutputs(u) = S
  BY SameOnes
<1>3. again \in PlanLinear(u, horizontal, reverse)
  BY <1>1, <1>2, LinearPlan
<1>4. \A c \in S : c \in DOMAIN t /\ t[c] \in OutputState /\ u[c] \in OutputState
  BY <1>2 DEF IsTopology, RealOutputs
<1>5. ASSUME NEW c \in S
      PROVE  /\ c \in DOMAIN plan /\ plan[c].enabled = TRUE /\ plan[c].mode = t[c].mode
             /\ plan[c].pos = place(c)
  <2>1. c \in DOMAIN plan /\ plan[c] = LitAt(t[c], place(c))
    BY <1>1, Zenon DEF InLine
  <2>2. /\ LitAt(t[c], place(c)).enabled = TRUE /\ LitAt(t[c], place(c)).pos = place(c)
        /\ LitAt(t[c], place(c)).mode = t[c].mode
    BY <1>4, LitAtFields, Zenon
  <2> HIDE DEF place
  <2> QED
    BY <2>1, <2>2, Zenon
<1>6. ASSUME NEW c \in S PROVE u[c].mode = t[c].mode
  <2>1. u[c].enabled
    BY <1>4, <1>5 DEF Outcome
  <2> QED
    BY <1>4, <1>5, <2>1 DEF Outcome
<1>7. Widths(u) = Widths(t) /\ Heights(u) = Heights(t)
  BY <1>2, <1>6 DEF Widths, Heights, Width, Height
<1>8. ASSUME NEW c \in S
      PROVE  /\ c \in DOMAIN again /\ again[c].enabled = TRUE /\ again[c].pos = place(c)
             /\ again[c].mirror = NoValue /\ again[c].mode = u[c].mode
             /\ again[c].xform = u[c].xform
  <2>1. /\ c \in DOMAIN again
        /\ again[c] = LitAt(u[c], place(c))
    BY <1>2, <1>7, Zenon DEF InLine
  <2>2. /\ LitAt(u[c], place(c)).enabled = TRUE /\ LitAt(u[c], place(c)).pos = place(c)
        /\ LitAt(u[c], place(c)).mirror = NoValue /\ LitAt(u[c], place(c)).mode = u[c].mode
        /\ LitAt(u[c], place(c)).xform = u[c].xform
    BY <1>4, LitAtFields, Zenon
  <2> HIDE DEF place, again
  <2> QED
    BY <2>1, <2>2, Zenon
<1> HIDE DEF again, place
<1>9. Repeats(again, plan, u)
  BY <1>2, <1>5, <1>8 DEF Repeats
<1> QED
  BY <1>3, <1>9, RepeatedHolds

(* A mode of its own does not change the modes a display has. *)
LEMMA ModesAgain ==
    ASSUME NEW t, IsTopology(t), NEW u, NEW plan, Outcome(t, plan, u), NEW c \in RealOutputs(t),
           c \in DOMAIN plan, plan[c].enabled, plan[c].mode \in OutputModes(t[c])
    PROVE  OutputModes(u[c]) = OutputModes(t[c])
<1>1. c \in DOMAIN t
  BY DEF RealOutputs
<1>2. /\ u[c].modes = t[c].modes
      /\ u[c].mode = IF plan[c].mode = NoValue THEN t[c].mode ELSE plan[c].mode
  BY <1>1 DEF Outcome
<1> QED
  BY <1>2 DEF OutputModes

(* A display at the origin, in a mode.                                     *)
LEMMA AtOriginFields ==
    ASSUME NEW o \in OutputState, NEW mode
    PROVE  LET v == AtOrigin(o, mode)
           IN  /\ v.enabled = TRUE /\ v.pos = Origin /\ v.mirror = NoValue
               /\ v.mode = mode /\ v.xform = o.xform
BY DEF AtOrigin, Unplaced, Enable, OutputState

(* With a mode of its own each, all displays have the modes they had.      *)
LEMMA AtOriginAgain ==
    ASSUME NEW t, IsTopology(t), NEW u, IsTopology(u), NEW pick,
           NEW plan, plan = [c \in RealOutputs(t) |-> AtOrigin(t[c], pick[c])],
           Outcome(t, plan, u), \A c \in RealOutputs(t) : pick[c] \in OutputModes(t[c])
    PROVE  /\ RealOutputs(u) = RealOutputs(t)
           /\ \A c \in RealOutputs(t) : OutputModes(u[c]) = OutputModes(t[c])
           /\ LayoutHolds([c \in RealOutputs(u) |-> AtOrigin(u[c], pick[c])], u)
<1> DEFINE S == RealOutputs(t)
           again == [c \in RealOutputs(u) |-> AtOrigin(u[c], pick[c])]
<1>1. RealOutputs(u) = S
  BY SameOnes
<1>2. \A c \in S : c \in DOMAIN t /\ t[c] \in OutputState /\ u[c] \in OutputState
  BY <1>1 DEF IsTopology, RealOutputs
<1>3. \A c \in S : /\ c \in DOMAIN plan /\ plan[c].enabled = TRUE /\ plan[c].mode = pick[c]
                   /\ plan[c].pos = Origin
  <2> SUFFICES ASSUME NEW c \in S
               PROVE  /\ c \in DOMAIN plan /\ plan[c].enabled = TRUE /\ plan[c].mode = pick[c]
                      /\ plan[c].pos = Origin
    OBVIOUS
  <2>1. c \in DOMAIN plan /\ plan[c] = AtOrigin(t[c], pick[c])
    OBVIOUS
  <2>2. t[c] \in OutputState
    BY <1>2
  <2>3. LET v == AtOrigin(t[c], pick[c])
        IN  v.enabled = TRUE /\ v.pos = Origin /\ v.mirror = NoValue /\ v.mode = pick[c] /\ v.xform = t[c].xform
    BY ONLY <2>2, AtOriginFields
  <2> QED
    BY <2>1, <2>3
<1>4. \A c \in S : OutputModes(u[c]) = OutputModes(t[c])
  BY <1>3, ModesAgain
<1>5. \A c \in S : u[c].mode \in {t[c].mode, pick[c]} /\ (pick[c] # NoValue => u[c].mode = pick[c])
  <2> SUFFICES ASSUME NEW c \in S
               PROVE  u[c].mode \in {t[c].mode, pick[c]} /\ (pick[c] # NoValue => u[c].mode = pick[c])
    OBVIOUS
  <2>1. u[c].enabled
    BY <1>2, <1>3 DEF Outcome
  <2> QED
    BY <1>2, <1>3, <2>1 DEF Outcome
<1>6. \A c \in S : /\ c \in DOMAIN again /\ again[c].enabled = TRUE /\ again[c].pos = Origin
                   /\ again[c].mirror = NoValue /\ again[c].mode = pick[c]
                   /\ again[c].xform = u[c].xform
  <2> SUFFICES ASSUME NEW c \in S
               PROVE  /\ c \in DOMAIN again /\ again[c].enabled = TRUE /\ again[c].pos = Origin
                      /\ again[c].mirror = NoValue /\ again[c].mode = pick[c]
                      /\ again[c].xform = u[c].xform
    OBVIOUS
  <2>1. c \in DOMAIN again /\ again[c] = AtOrigin(u[c], pick[c])
    BY <1>1
  <2> HIDE DEF again
  <2>2. u[c] \in OutputState
    BY <1>2
  <2>3. LET v == AtOrigin(u[c], pick[c])
        IN  v.enabled = TRUE /\ v.pos = Origin /\ v.mirror = NoValue /\ v.mode = pick[c] /\ v.xform = u[c].xform
    BY ONLY <2>2, AtOriginFields
  <2> QED
    BY <2>1, <2>3
<1> HIDE DEF again
<1>7. Repeats(again, plan, u)
  BY <1>1, <1>3, <1>5, <1>6 DEF Repeats
<1> QED
  BY <1>1, <1>4, <1>7, RepeatedHolds DEF again

LEMMA CommonAgain ==
    ASSUME NEW t, IsTopology(t), NEW u, IsTopology(u),
           NEW plan \in PlanCommon(t), Outcome(t, plan, u)
    PROVE  \E again \in PlanCommon(u) : LayoutHolds(again, u)
<1> DEFINE S == RealOutputs(t)
<1>1. PICK mode \in LargestModes(SharedModes(t)) : plan = [c \in S |-> AtOrigin(t[c], mode)]
  BY DEF PlanCommon
<1> DEFINE pick == [c \in S |-> mode]
<1>2. \A c \in S : pick[c] \in OutputModes(t[c])
  BY DEF LargestModes, SharedModes
<1>3. plan = [c \in S |-> AtOrigin(t[c], pick[c])]
  BY <1>1
<1>4. /\ RealOutputs(u) = S
      /\ \A c \in S : OutputModes(u[c]) = OutputModes(t[c])
      /\ LayoutHolds([c \in RealOutputs(u) |-> AtOrigin(u[c], pick[c])], u)
  <2> HIDE DEF pick
  <2> QED
    BY <1>2, <1>3, AtOriginAgain
<1>5. SharedModes(u) = SharedModes(t)
  BY <1>4 DEF SharedModes
<1>6. [c \in RealOutputs(u) |-> AtOrigin(u[c], mode)] \in PlanCommon(u)
  BY <1>5 DEF PlanCommon
<1>7. [c \in RealOutputs(u) |-> AtOrigin(u[c], mode)] = [c \in RealOutputs(u) |-> AtOrigin(u[c], pick[c])]
  BY <1>4
<1> QED
  BY <1>4, <1>6, <1>7

LEMMA LargestAgain ==
    ASSUME NEW t, IsTopology(t), NEW u, IsTopology(u),
           NEW plan \in PlanLargest(t), Outcome(t, plan, u)
    PROVE  \E again \in PlanLargest(u) : LayoutHolds(again, u)
<1> DEFINE S == RealOutputs(t)
           best(v, c) == LargestModes(OutputModes(v[c]))
           all(v) == UNION {best(v, c) : c \in RealOutputs(v)}
           picks(v) == {f \in [RealOutputs(v) -> all(v)] : \A c \in RealOutputs(v) : f[c] \in best(v, c)}
<1>1. S # {} /\ \E pick \in picks(t) : plan = [c \in S |-> AtOrigin(t[c], pick[c])]
  BY DEF PlanLargest
<1>2. PICK pick \in picks(t) : plan = [c \in S |-> AtOrigin(t[c], pick[c])]
  BY <1>1
<1>3. \A c \in S : pick[c] \in OutputModes(t[c])
  BY DEF LargestModes
<1>4. /\ RealOutputs(u) = S
      /\ \A c \in S : OutputModes(u[c]) = OutputModes(t[c])
      /\ LayoutHolds([c \in RealOutputs(u) |-> AtOrigin(u[c], pick[c])], u)
  BY <1>2, <1>3, AtOriginAgain
<1>5. \A c \in S : best(u, c) = best(t, c)
  BY <1>4
<1>6. all(u) = all(t)
  BY <1>4, <1>5
<1>7. pick \in picks(u)
  BY <1>4, <1>5, <1>6
<1>8. [c \in RealOutputs(u) |-> AtOrigin(u[c], pick[c])] \in PlanLargest(u)
  BY <1>1, <1>4, <1>7 DEF PlanLargest
<1> QED
  BY <1>4, <1>8

(* Set again, a preset arranges the displays as it has arranged them: they *)
(* have the sizes and the modes they had then, and what was moved to the   *)
(* origin is there.                                                        *)
LEMMA PresetAgain ==
    ASSUME IsFiniteSet(Connectors), NEW t, IsTopology(t), NEW u, IsTopology(u), NEW builtin,
           NEW preset \in VirtualPresets \ {"mirror"},
           NEW plan \in PresetPlans(preset, t, builtin), Outcome(t, plan, u)
    PROVE  \E again \in PresetPlans(preset, u, builtin) : LayoutHolds(again, u)
<1>1. CASE preset = "off"
  BY <1>1, OffAgain DEF PresetPlans
<1>2. CASE preset = "external"
  BY <1>2, ExternalAgain DEF PresetPlans
<1>3. CASE preset = "builtin"
  BY <1>3, BuiltinAgain DEF PresetPlans
<1>4. CASE preset \in {"horizontal", "horizontal-reverse", "vertical", "vertical-reverse"}
  <2>1. PICK horizontal, reverse : /\ PresetPlans(preset, t, builtin) = PlanLinear(t, horizontal, reverse)
                                   /\ PresetPlans(preset, u, builtin) = PlanLinear(u, horizontal, reverse)
    BY <1>4 DEF PresetPlans
  <2> QED
    BY <2>1, LinearAgain
<1>5. CASE preset = "common"
  BY <1>5, CommonAgain DEF PresetPlans
<1>6. CASE preset = "largest"
  BY <1>6, LargestAgain DEF PresetPlans
<1> QED
  BY <1>1, <1>2, <1>3, <1>4, <1>5, <1>6 DEF VirtualPresets

----------------------------------------------------------------------------
(* A profile that is read again. *)

(* The outputs are the same ones. *)
SameOutputs(t, u) == DOMAIN t = DOMAIN u /\ \A c \in DOMAIN t : t[c].id = u[c].id

(* The rules are the same, in any order. *)
SameRules(p, q) ==
    /\ \A i \in 1..Len(p.rules) : \E j \in 1..Len(q.rules) : p.rules[i] = q.rules[j]
    /\ \A j \in 1..Len(q.rules) : \E i \in 1..Len(p.rules) : p.rules[i] = q.rules[j]

(* What may be of an output does not depend on how the outputs are         *)
(* arranged.                                                               *)
LEMMA FitsTheSame ==
    ASSUME NEW t, NEW u, SameOutputs(t, u), NEW p
    PROVE  /\ RealOutputs(t) = RealOutputs(u)
           /\ \A i : \A c \in DOMAIN t : RuleFits(p, t, i, c) <=> RuleFits(p, u, i, c)
           /\ \A n : \A c \in DOMAIN t : EntryFits(p, t, n, c) <=> EntryFits(p, u, n, c)
           /\ \A i : Placeable(p, t, i) <=> Placeable(p, u, i)
           /\ Distinguished(p, t) <=> Distinguished(p, u)
<1>1. RealOutputs(t) = RealOutputs(u) /\ RealOutputs(t) \subseteq DOMAIN t
  BY DEF RealOutputs, SameOutputs
<1>2. \A i : \A c \in DOMAIN t : RuleFits(p, t, i, c) <=> RuleFits(p, u, i, c)
  BY DEF RuleFits, SameOutputs
<1>3. \A n : \A c \in DOMAIN t : EntryFits(p, t, n, c) <=> EntryFits(p, u, n, c)
  BY DEF EntryFits, SameOutputs
<1>4. \A i : Placeable(p, t, i) <=> Placeable(p, u, i)
  <2> SUFFICES ASSUME NEW i PROVE Placeable(p, t, i) <=> Placeable(p, u, i)
    OBVIOUS
  <2>1. (\A c \in RealOutputs(t) : ~RuleFits(p, t, i, c))
            <=> (\A c \in RealOutputs(u) : ~RuleFits(p, u, i, c))
    BY <1>1, <1>2
  <2>2. (\E c \in RealOutputs(t), n \in DOMAIN p.layout :
            /\ RuleFits(p, t, i, c) /\ EntryFits(p, t, n, c)
            /\ IdentitiesMatch(p.rules[i].id, p.layout[n].id))
        <=> (\E c \in RealOutputs(u), n \in DOMAIN p.layout :
            /\ RuleFits(p, u, i, c) /\ EntryFits(p, u, n, c)
            /\ IdentitiesMatch(p.rules[i].id, p.layout[n].id))
    BY <1>1, <1>2, <1>3
  <2> QED
    BY <2>1, <2>2, Zenon DEF Placeable
<1>5. Distinguished(p, t) <=> Distinguished(p, u)
  BY <1>1, <1>2, <1>3 DEF Distinguished
<1> QED
  BY <1>1, <1>2, <1>3, <1>4, <1>5

(* Whether a rule finds what it needs depends on the rule and the layout.  *)
LEMMA PlaceableRule ==
    ASSUME NEW p, NEW q, p.layout = q.layout, NEW t, NEW i, NEW j, p.rules[i] = q.rules[j]
    PROVE  /\ \A c : RuleFits(p, t, i, c) <=> RuleFits(q, t, j, c)
           /\ Placeable(p, t, i) <=> Placeable(q, t, j)
<1>1. \A c : RuleFits(p, t, i, c) <=> RuleFits(q, t, j, c)
  BY DEF RuleFits
<1>2. \A c, n : EntryFits(p, t, n, c) <=> EntryFits(q, t, n, c)
  BY DEF EntryFits
<1>3. (\A c \in RealOutputs(t) : ~RuleFits(p, t, i, c))
            <=> (\A c \in RealOutputs(t) : ~RuleFits(q, t, j, c))
  BY <1>1
<1>4. (\E c \in RealOutputs(t), n \in DOMAIN p.layout :
            /\ RuleFits(p, t, i, c) /\ EntryFits(p, t, n, c)
            /\ IdentitiesMatch(p.rules[i].id, p.layout[n].id))
        <=> (\E c \in RealOutputs(t), n \in DOMAIN q.layout :
            /\ RuleFits(q, t, j, c) /\ EntryFits(q, t, n, c)
            /\ IdentitiesMatch(q.rules[j].id, q.layout[n].id))
  BY <1>1, <1>2
<1> QED
  BY <1>1, <1>3, <1>4, Zenon DEF Placeable

(* A profile matches and is planned the same way when its rules come in    *)
(* another order and the outputs are arranged differently.                 *)
LEMMA SameMatch ==
    ASSUME NEW t, NEW u, SameOutputs(t, u), NEW p, NEW q, p.layout = q.layout, SameRules(p, q),
           Matchable(p, t), Matchable(q, u), Distinguished(p, u), Distinguished(q, u),
           MatchesExactly(p, t)
    PROVE  MatchesExactly(q, u) /\ PlanFromProfile(q, u) = PlanFromProfile(p, t)
<1> DEFINE m == MatchRules(p, t)
           k == MatchRules(q, u)
           M == Len(p.rules)
           K == Len(q.rules)
<1>1. /\ RealOutputs(t) = RealOutputs(u) /\ RealOutputs(t) \subseteq DOMAIN t
      /\ \A i : \A c \in DOMAIN t : RuleFits(p, t, i, c) <=> RuleFits(p, u, i, c)
      /\ \A i : Placeable(p, t, i) <=> Placeable(p, u, i)
      /\ \A n : \A c \in DOMAIN t : EntryFits(p, t, n, c) <=> EntryFits(p, u, n, c)
      /\ Distinguished(p, t) <=> Distinguished(p, u)
  <2>1. RealOutputs(t) \subseteq DOMAIN t
    BY DEF RealOutputs
  <2> QED
    BY <2>1, FitsTheSame
<1>2. /\ m.ok <=> \A i \in 1..M : Placeable(p, t, i)
      /\ m.ok => DOMAIN m.bound = OutputsOf(p, t, M)
  BY <1>1, DistinctMatch
<1>3. /\ k.ok <=> \A j \in 1..K : Placeable(q, u, j)
      /\ k.ok => DOMAIN k.bound = OutputsOf(q, u, K)
  BY DistinctMatch
<1>4. m.ok /\ RealOutputs(t) \ DOMAIN m.bound = {}
  BY DEF MatchesExactly, ExtraOutputs
<1>5. IsMatch(p, t, m) /\ IsMatch(q, u, k)
  BY MatchIsSound
<1> HIDE DEF m, k, M, K
<1>6. ASSUME NEW j \in 1..K PROVE Placeable(q, u, j)
  <2>1. PICK i \in 1..M : p.rules[i] = q.rules[j]
    BY DEF SameRules, M, K
  <2>2. Placeable(p, u, i)
    BY <1>1, <1>2, <1>4
  <2> QED
    BY <2>1, <2>2, PlaceableRule
<1>7. OutputsOf(q, u, K) = OutputsOf(p, t, M)
  <2>1. ASSUME NEW c \in RealOutputs(t)
        PROVE  (\E i \in 1..M : RuleFits(p, t, i, c)) <=> (\E j \in 1..K : RuleFits(q, u, j, c))
    <3>1. ASSUME NEW i \in 1..M, RuleFits(p, t, i, c) PROVE \E j \in 1..K : RuleFits(q, u, j, c)
      <4>1. PICK j \in 1..K : p.rules[i] = q.rules[j]
        BY DEF SameRules, M, K
      <4>2. RuleFits(p, u, i, c)
        BY <1>1, <3>1
      <4> QED
        BY <4>1, <4>2, PlaceableRule
    <3>2. ASSUME NEW j \in 1..K, RuleFits(q, u, j, c) PROVE \E i \in 1..M : RuleFits(p, t, i, c)
      <4>1. PICK i \in 1..M : p.rules[i] = q.rules[j]
        BY DEF SameRules, M, K
      <4>2. RuleFits(p, u, i, c)
        BY <3>2, <4>1, PlaceableRule
      <4> QED
        BY <1>1, <4>2
    <3> QED
      BY <3>1, <3>2
  <2> QED
    BY <1>1, <2>1 DEF OutputsOf
<1>8. k.ok /\ DOMAIN k.bound = DOMAIN m.bound
  BY <1>2, <1>3, <1>4, <1>6, <1>7
<1>9. MatchesExactly(q, u)
  BY <1>1, <1>4, <1>8 DEF MatchesExactly, ExtraOutputs, k
<1>10. ASSUME NEW c \in DOMAIN m.bound PROVE k.bound[c] = m.bound[c]
  <2>1. /\ c \in RealOutputs(u) /\ k.bound[c] \in DOMAIN q.layout /\ m.bound[c] \in DOMAIN q.layout
        /\ EntryFits(q, u, k.bound[c], c) /\ EntryFits(p, t, m.bound[c], c)
    BY <1>1, <1>5, <1>8 DEF IsMatch, EntryFits
  <2>2. EntryFits(q, u, m.bound[c], c)
    BY <1>1, <2>1 DEF EntryFits
  <2> QED
    BY <2>1, <2>2 DEF Distinguished
<1>11. PlanFromProfile(q, u) = PlanFromProfile(p, t)
  <2>1. PlanFromProfile(q, u) =
            [c \in DOMAIN u \cap DOMAIN k.bound |-> [q.layout[k.bound[c]] EXCEPT !.id = u[c].id]]
    BY DEF PlanFromProfile, k
  <2>2. PlanFromProfile(p, t) =
            [c \in DOMAIN t \cap DOMAIN m.bound |-> [p.layout[m.bound[c]] EXCEPT !.id = t[c].id]]
    BY DEF PlanFromProfile, m
  <2> QED
    BY <1>8, <1>10, <2>1, <2>2 DEF SameOutputs
<1> QED
  BY <1>9, <1>11

(* The rules of a layout are rules. *)
LEMMA LayoutRulesType ==
    ASSUME IsFiniteSet(Connectors), NEW t, IsTopology(t), NEW order \in IterationOrders
    PROVE  RulesFromLayout(t, order) \in Seq(MatchRule)
<1> DEFINE names == Iterated(RealOutputs(t), order)
           N == Cardinality(RealOutputs(t))
<1>1. RealOutputs(t) \in SUBSET Connectors /\ RealOutputs(t) \subseteq DOMAIN t
  BY DEF RealOutputs, IsTopology
<1>2. N \in Nat
  BY <1>1, FS_Subset, FS_CardinalityType
<1>3. DOMAIN names = 1..N /\ \A i \in 1..N : names[i] \in DOMAIN t
  <2>1. DOMAIN names = 1..N /\ names \in Bijection(DOMAIN names, RealOutputs(t))
    BY <1>1, IteratedLists
  <2> HIDE DEF names, N
  <2> QED
    BY <1>1, <2>1 DEF Bijection, Injection
<1>4. \A c \in DOMAIN t : [id |-> t[c].id, required |-> t[c].enabled, hint |-> t[c].pos] \in MatchRule
  <2> SUFFICES ASSUME NEW c \in DOMAIN t
               PROVE  [id |-> t[c].id, required |-> t[c].enabled, hint |-> t[c].pos] \in MatchRule
    OBVIOUS
  <2>1. t[c] \in OutputState
    BY DEF IsTopology
  <2>2. t[c].id \in OutputIdentity /\ t[c].enabled \in BOOLEAN /\ t[c].pos \in Position
    BY <2>1 DEF OutputState
  <2> QED
    BY <2>2 DEF MatchRule, Opt
<1>5. RulesFromLayout(t, order) =
        [i \in 1..N |-> [id |-> t[names[i]].id, required |-> t[names[i]].enabled,
                         hint |-> t[names[i]].pos]]
  BY <1>3 DEF RulesFromLayout
<1> HIDE DEF names, N
<1>6. RulesFromLayout(t, order) \in [1..N -> MatchRule]
  BY <1>3, <1>4, <1>5
<1> QED
  BY <1>2, <1>6

(* Completed, they still are. *)
LEMMA CanonicalRulesType ==
    ASSUME IsFiniteSet(Connectors), NEW p, IsProfile(p), IsTopology(p.layout),
           p.rules \in Seq(MatchRule), NEW known, IsCache(known), NEW order \in IterationOrders
    PROVE  CanonicalizeProfile(p, known, order).rules \in Seq(MatchRule)
<1> DEFINE inferred == WithInferredMatchRules(p, order)
           canonical == CanonicalizeProfile(p, known, order)
<1>1. inferred.rules \in Seq(MatchRule)
  <2>1. inferred.rules = IF p.rules = <<>> THEN RulesFromLayout(p.layout, order) ELSE p.rules
    BY CanonicalFields
  <2>2. RulesFromLayout(p.layout, order) \in Seq(MatchRule)
    BY LayoutRulesType
  <2> HIDE DEF inferred
  <2> QED
    BY <2>1, <2>2
<1>2. canonical.rules = [i \in DOMAIN inferred.rules |->
                            [inferred.rules[i] EXCEPT !.id = CachedRuleIdentity(@, known)]]
  <2>1. inferred \in [name : {p.name}, priority : {p.priority}, rules : {inferred.rules},
                      layout : {p.layout}, hooks : {p.hooks}]
    BY DEF IsProfile, WithInferredMatchRules
  <2> HIDE DEF inferred
  <2> QED
    BY <2>1 DEF CanonicalizeProfile, inferred
<1> HIDE DEF inferred, canonical
<1>3. ASSUME NEW r \in MatchRule
      PROVE  [r EXCEPT !.id = CachedRuleIdentity(@, known)] \in MatchRule
  <2>1. r.id \in OutputIdentity
    BY DEF MatchRule
  <2>2. CachedRuleIdentity(r.id, known) \in OutputIdentity
    BY <2>1, CachedIdentityType
  <2> QED
    BY <2>2 DEF MatchRule
<1>4. canonical.rules \in [1..Len(inferred.rules) -> MatchRule]
  BY <1>1, <1>2, <1>3
<1>5. Len(inferred.rules) \in Nat
  BY <1>1
<1> QED
  BY <1>4, <1>5 DEF canonical

(* A profile whose rules are rules can be matched. *)
LEMMA RulesMatchable ==
    ASSUME IsFiniteSet(Connectors), NEW p, IsTopology(p.layout), p.rules \in Seq(MatchRule),
           NEW t, IsTopology(t)
    PROVE  Matchable(p, t)
<1>1. Len(p.rules) \in Nat /\ \A i \in 1..Len(p.rules) : p.rules[i] \in MatchRule
  OBVIOUS
<1>2. \A i \in 1..Len(p.rules) : p.rules[i].required \in BOOLEAN
  BY <1>1 DEF MatchRule
<1> QED
  BY <1>1, <1>2 DEF Matchable, IsTopology

(* However its rules are listed, a profile has the same. *)
LEMMA CanonicalSame ==
    ASSUME IsFiniteSet(Connectors), NEW p, IsProfile(p), IsTopology(p.layout), NEW known,
           NEW order \in IterationOrders, NEW other \in IterationOrders
    PROVE  LET q == CanonicalizeProfile(p, known, order)
               r == CanonicalizeProfile(p, known, other)
           IN  q.layout = r.layout /\ SameRules(q, r)
<1> DEFINE t == p.layout
           Inferred(o) == WithInferredMatchRules(p, o)
           Canonical(o) == CanonicalizeProfile(p, known, o)
           Complete(rule) == [rule EXCEPT !.id = CachedRuleIdentity(@, known)]
           Completed(list) == [i \in DOMAIN list |-> Complete(list[i])]
           Cached(c, id) == IF c \in DOMAIN known THEN WithFallback(id, known[c])
                            ELSE CachedRuleIdentity(id, known)
<1>1. ASSUME NEW o
      PROVE  /\ Canonical(o).layout = [c \in DOMAIN t |-> [t[c] EXCEPT !.id = Cached(c, @)]]
             /\ Canonical(o).rules = Completed(Inferred(o).rules)
             /\ Inferred(o).rules = IF p.rules = <<>> THEN RulesFromLayout(t, o) ELSE p.rules
  <2> DEFINE inferred == Inferred(o)
  <2>1. inferred \in [name : {p.name}, priority : {p.priority}, rules : {inferred.rules},
                      layout : {p.layout}, hooks : {p.hooks}]
    BY DEF IsProfile, WithInferredMatchRules
  <2>2. inferred.rules = IF p.rules = <<>> THEN RulesFromLayout(t, o) ELSE p.rules
    BY CanonicalFields
  <2> DEFINE rules  == [i \in DOMAIN inferred.rules |-> Complete(inferred.rules[i])]
             layout == [c \in DOMAIN t |-> [t[c] EXCEPT !.id = Cached(c, @)]]
  <2>3. Canonical(o) = [inferred EXCEPT !.rules = rules, !.layout = layout]
    BY DEF CanonicalizeProfile
  <2>4. Canonical(o).rules = rules /\ Canonical(o).layout = layout
    <3> HIDE DEF inferred, rules, layout, Canonical
    <3> QED
      BY <2>1, <2>3
  <2> QED
    BY <2>2, <2>4
<1>2. Canonical(order).layout = Canonical(other).layout
  BY <1>1
<1> HIDE DEF Canonical, Complete, Completed, Inferred
<1>3. CASE p.rules # <<>>
  <2>1. Canonical(order).rules = Canonical(other).rules
    BY <1>1, <1>3
  <2> QED
    BY <1>2, <2>1 DEF SameRules, Canonical
<1>4. CASE p.rules = <<>>
  <2> DEFINE real == RealOutputs(t)
             N == Cardinality(real)
             Names(o) == Iterated(real, o)
             Rule(c) == [id |-> t[c].id, required |-> t[c].enabled, hint |-> t[c].pos]
  <2>1. real \in SUBSET Connectors
    BY DEF RealOutputs, IsTopology
  <2>2. N \in Nat
    BY <2>1, FS_Subset, FS_CardinalityType
  <2>3. ASSUME NEW o \in IterationOrders
        PROVE  /\ DOMAIN Names(o) = 1..N
               /\ \A i \in 1..N : Names(o)[i] \in real
               /\ \A c \in real : \E i \in 1..N : Names(o)[i] = c
    <3> DEFINE names == Names(o)
    <3>1. DOMAIN names = 1..N /\ names \in Bijection(DOMAIN names, real)
      BY <2>1, IteratedLists
    <3> HIDE DEF Names, real, N
    <3> QED
      BY <3>1 DEF Bijection, Injection, Surjection
  <2>4. ASSUME NEW o \in IterationOrders
        PROVE  /\ Len(Canonical(o).rules) = N
               /\ \A i \in 1..N : Canonical(o).rules[i] = Complete(Rule(Names(o)[i]))
    <3>1. Inferred(o).rules = [i \in DOMAIN Names(o) |-> Rule(Names(o)[i])]
      BY <1>1, <1>4 DEF RulesFromLayout
    <3>2. DOMAIN Inferred(o).rules = 1..N
      BY <2>3, <3>1
    <3> HIDE DEF Rule, Names, N
    <3>3. \A i \in 1..N : Inferred(o).rules[i] = Rule(Names(o)[i])
      BY <3>1, <3>2
    <3> DEFINE listed == Canonical(o).rules
               inferred == Inferred(o).rules
    <3>4. listed = [i \in DOMAIN inferred |-> Complete(inferred[i])]
      BY <1>1 DEF Completed
    <3> HIDE DEF listed, inferred
    <3>5. DOMAIN listed = 1..N /\ \A i \in 1..N : listed[i] = Complete(inferred[i])
      BY <3>2, <3>4 DEF inferred
    <3>6. Len(listed) = N
      BY <2>2, <3>5
    <3>7. \A i \in 1..N : listed[i] = Complete(Rule(Names(o)[i]))
      BY <3>3, <3>5 DEF inferred
    <3> QED
      BY <3>6, <3>7 DEF listed
  <2> HIDE DEF Rule, Names, N, real
  <2>5. ASSUME NEW o \in IterationOrders, NEW u \in IterationOrders, NEW i \in 1..N
        PROVE  \E j \in 1..N : Canonical(o).rules[i] = Canonical(u).rules[j]
    <3>1. PICK j \in 1..N : Names(u)[j] = Names(o)[i]
      BY <2>3
    <3>2. Canonical(o).rules[i] = Complete(Rule(Names(o)[i]))
      BY <2>4
    <3>3. Canonical(u).rules[j] = Complete(Rule(Names(u)[j]))
      BY <2>4
    <3> QED
      BY <3>1, <3>2, <3>3
  <2>6. SameRules(Canonical(order), Canonical(other))
    <3>1. \A i \in 1..N : \E j \in 1..N : Canonical(order).rules[i] = Canonical(other).rules[j]
      BY <2>5
    <3>2. \A i \in 1..N : \E j \in 1..N : Canonical(order).rules[j] = Canonical(other).rules[i]
      BY <2>5
    <3>3. Len(Canonical(order).rules) = N /\ Len(Canonical(other).rules) = N
      BY <2>4
    <3> QED
      BY <3>1, <3>2, <3>3 DEF SameRules
  <2> QED
    BY <1>2, <2>6 DEF Canonical
<1> QED
  BY <1>3, <1>4

(* Configured by a plan and seen again, the displays are as it says. *)
LEMMA ConfiguredOutcome ==
    ASSUME NEW t, IsTopology(t), NEW plan, Submittable(plan, t), Unmirrored(t),
           NEW known, IsCache(known)
    PROVE  Outcome(NormalizeTopology(t, known), plan,
                   NormalizeTopology(Configure(t, plan), known))
<1> DEFINE u == Configure(t, plan)
           n == NormalizeTopology(t, known)
           v == NormalizeTopology(u, known)
<1>1. IsTopology(u) /\ DOMAIN u = DOMAIN t
  BY ConfigureType
<1>2. \A c \in DOMAIN t : u[c].id = t[c].id
  BY ConfigureKeepsIdentities
<1>3. DOMAIN n = DOMAIN t /\ DOMAIN v = DOMAIN t
  BY <1>1 DEF NormalizeTopology
<1>4. ASSUME NEW s, IsTopology(s), NEW c \in DOMAIN s
      PROVE  LET o == NormalizeTopology(s, known)[c] IN
             /\ o.modes = s[c].modes /\ o.enabled = s[c].enabled /\ o.mode = s[c].mode
             /\ o.pos = s[c].pos /\ o.xform = s[c].xform /\ o.mirror = s[c].mirror
  <2>1. s[c] \in OutputState
    BY <1>4 DEF IsTopology
  <2> QED
    BY <2>1 DEF NormalizeTopology, OutputState
<1>5. \A c \in DOMAIN t : v[c].id = n[c].id
  BY <1>1, <1>2, NormalizedIdentity
<1>6. ASSUME NEW c \in DOMAIN t
      PROVE  /\ u[c].modes = t[c].modes /\ u[c].mirror = NoValue
             /\ u[c].enabled <=> c \in DOMAIN plan /\ plan[c].enabled
             /\ u[c].enabled =>
                /\ u[c].pos = plan[c].pos /\ u[c].xform = plan[c].xform
                /\ u[c].mode = IF plan[c].mode = NoValue THEN t[c].mode ELSE plan[c].mode
  <2>1. t[c] \in OutputState /\ t[c].mirror = NoValue
    BY DEF IsTopology, Unmirrored
  <2>2. CASE c \in DOMAIN plan /\ plan[c].enabled
    <3>1. u[c] = Configured(t[c], plan[c])
      BY <2>2 DEF Configure
    <3> HIDE DEF u
    <3> QED
      BY <2>1, <2>2, <3>1 DEF Configured, OutputState
  <2>3. CASE ~(c \in DOMAIN plan /\ plan[c].enabled)
    <3>1. u[c] = Off(t[c])
      BY <2>3 DEF Configure
    <3> HIDE DEF u
    <3>2. u[c].enabled = FALSE /\ u[c].modes = t[c].modes /\ u[c].mirror = NoValue
      BY <2>1, <3>1 DEF Off, OutputState
    <3> QED
      BY <2>3, <3>2
  <2> QED
    BY <2>2, <2>3
<1>7. \A c \in DOMAIN t : /\ v[c].modes = u[c].modes /\ v[c].enabled = u[c].enabled
                          /\ v[c].mode = u[c].mode /\ v[c].pos = u[c].pos
                          /\ v[c].xform = u[c].xform /\ v[c].mirror = u[c].mirror
                          /\ n[c].modes = t[c].modes /\ n[c].mode = t[c].mode
  BY <1>1, <1>4
<1> HIDE DEF u, n, v
<1>8. Outcome(n, plan, v)
  BY <1>3, <1>5, <1>6, <1>7 DEF Outcome, Unmirrored
<1> QED
  BY <1>8 DEF n, v, u

(* Completed once, a topology is not completed further. *)
LEMMA NormalizedTwice ==
    ASSUME NEW t, IsTopology(t), NEW known, IsCache(known)
    PROVE  LET n == NormalizeTopology(t, known) IN NormalizeTopology(n, known) = n
<1> DEFINE n == NormalizeTopology(t, known)
           m == NormalizeTopology(n, known)
<1>1. IsTopology(n) /\ DOMAIN n = DOMAIN t
  BY NormalizeKeepsLayout DEF IsCache
<1>2. \A c \in DOMAIN n : m[c].id = n[c].id
  BY <1>1, NormalizeAgain
<1>3. /\ m = [c \in DOMAIN n |-> m[c]] /\ n = [c \in DOMAIN n |-> n[c]]
      /\ \A c \in DOMAIN n : m[c] = IF c \in DOMAIN known
                                    THEN [n[c] EXCEPT !.id = WithFallback(n[c].id, known[c])]
                                    ELSE n[c]
  BY <1>1 DEF NormalizeTopology
<1> HIDE DEF n, m
<1>4. ASSUME NEW c \in DOMAIN n PROVE m[c] = n[c]
  <2>1. n[c] \in OutputState
    BY <1>1 DEF IsTopology
  <2>2. CASE c \in DOMAIN known
    <3>1. m[c] = [n[c] EXCEPT !.id = WithFallback(n[c].id, known[c])]
      BY <1>3, <2>2
    <3>2. m[c].id = WithFallback(n[c].id, known[c])
      BY <2>1, <3>1 DEF OutputState
    <3> QED
      BY <1>2, <2>1, <3>1, <3>2 DEF OutputState
  <2> QED
    BY <1>3, <2>2
<1>5. m = n
  BY <1>3, <1>4
<1> QED
  BY <1>5 DEF n, m

(* The display that the others mirror is one of them. *)
PrimaryOf(t) == CHOOSE c \in RealOutputs(t) : \A d \in RealOutputs(t) : Rank[c] <= Rank[d]

MirrorOf(t, c) == IF c = PrimaryOf(t) THEN NoValue ELSE PrimaryOf(t)

LEMMA MirrorPlans ==
    ASSUME NEW t
    PROVE  PlanMirror(t) =
             {[c \in RealOutputs(t) |-> [AtOrigin(t[c], mode) EXCEPT !.mirror = MirrorOf(t, c)]] :
                mode \in MirrorModes(t)}
BY DEF PlanMirror, MirrorOf, PrimaryOf

LEMMA PrimaryIsOutput ==
    ASSUME IsFiniteSet(Connectors), NEW t, IsTopology(t), RealOutputs(t) # {}
    PROVE  PrimaryOf(t) \in RealOutputs(t)
<1> DEFINE S == RealOutputs(t)
           rank == [c \in S |-> Rank[c]]
<1>1. S \in SUBSET Connectors
  BY DEF RealOutputs, IsTopology
<1>2. IsFiniteSet(S) /\ rank \in [S -> Int]
  BY <1>1, FS_Subset, RankAssumption
<1>3. PICK c \in S : Least(rank, S) = rank[c]
  <2> HIDE DEF rank, S
  <2> QED
    BY <1>1, <1>2, LeastOf DEF S
<1>4. \A d \in S : Least(rank, S) <= rank[d]
  <2> HIDE DEF rank, S
  <2> QED
    BY <1>1, <1>2, LeastOf DEF S
<1>5. \A d \in S : Rank[c] <= Rank[d]
  BY <1>3, <1>4
<1> QED
  BY <1>5 DEF PrimaryOf

(* A single display mirrors none; set again, the preset leaves it as it is. *)
LEMMA MirrorAgain ==
    ASSUME IsFiniteSet(Connectors), NEW t, IsTopology(t), NEW u, IsTopology(u),
           NEW plan \in PlanMirror(t), Outcome(t, plan, u),
           \A c \in DOMAIN plan : plan[c].enabled => plan[c].mirror = NoValue
    PROVE  \E again \in PlanMirror(u) : LayoutHolds(again, u)
<1> DEFINE S == RealOutputs(t)
<1>1. PICK mode \in MirrorModes(t) :
        plan = [c \in S |-> [AtOrigin(t[c], mode) EXCEPT !.mirror = MirrorOf(t, c)]]
  BY MirrorPlans
<1>2. RealOutputs(u) = S
  BY SameOnes
<1>3. S \subseteq DOMAIN t /\ S \subseteq Connectors /\ \A c \in S : t[c] \in OutputState /\ u[c] \in OutputState
  BY <1>2 DEF RealOutputs, IsTopology
<1>4. ASSUME NEW c \in S
      PROVE  /\ c \in DOMAIN plan /\ plan[c].enabled = TRUE /\ plan[c].mirror = MirrorOf(t, c)
             /\ plan[c] = [AtOrigin(t[c], mode) EXCEPT !.mirror = MirrorOf(t, c)]
  <2>1. c \in DOMAIN plan /\ plan[c] = [AtOrigin(t[c], mode) EXCEPT !.mirror = MirrorOf(t, c)]
    BY <1>1
  <2>2. t[c] \in OutputState
    BY <1>3
  <2> QED
    BY <2>1, <2>2 DEF AtOrigin, Unplaced, Enable, OutputState
<1>5. ASSUME NEW c \in S PROVE c = PrimaryOf(t)
  <2>1. MirrorOf(t, c) = NoValue
    BY <1>4
  <2>2. PrimaryOf(t) \in Connectors
    BY <1>3, PrimaryIsOutput
  <2> QED
    BY <2>1, <2>2, NoValueAssumption DEF MirrorOf
<1>6. PrimaryOf(u) = PrimaryOf(t)
  BY <1>2 DEF PrimaryOf
<1> DEFINE pick == [c \in S |-> mode]
<1>7. \A c \in S : plan[c] = AtOrigin(t[c], mode)
  <2> SUFFICES ASSUME NEW c \in S PROVE plan[c] = AtOrigin(t[c], mode)
    OBVIOUS
  <2>1. plan[c] = [AtOrigin(t[c], mode) EXCEPT !.mirror = NoValue]
    BY <1>4, <1>5 DEF MirrorOf
  <2>2. t[c] \in OutputState
    BY <1>3
  <2> QED
    BY <2>1, <2>2 DEF AtOrigin, Unplaced, Enable, OutputState
<1>8. mode \in SharedModes(t)
  BY DEF MirrorModes, SmallestModes, LargestModes
<1>9. \A c \in S : pick[c] \in OutputModes(t[c])
  BY <1>8 DEF SharedModes
<1>10. plan = [c \in S |-> AtOrigin(t[c], pick[c])]
  BY <1>1, <1>7
<1>11. /\ \A c \in S : OutputModes(u[c]) = OutputModes(t[c])
       /\ LayoutHolds([c \in RealOutputs(u) |-> AtOrigin(u[c], pick[c])], u)
  <2> HIDE DEF pick
  <2> QED
    BY <1>9, <1>10, AtOriginAgain
<1>12. SharedModes(u) = SharedModes(t)
  BY <1>2, <1>11 DEF SharedModes
<1>13. mode \in Modes
  <2>1. PICK c \in S : mode \in OutputModes(t[c])
    BY <1>8 DEF SharedModes
  <2>2. t[c] \in OutputState
    BY <1>3
  <2> QED
    BY <2>1, <2>2 DEF OutputModes, OutputState, Opt
<1>14. \A c \in S : u[c].enabled /\ u[c].mode = mode
  <2> SUFFICES ASSUME NEW c \in S PROVE u[c].enabled /\ u[c].mode = mode
    OBVIOUS
  <2>0. t[c] \in OutputState
    BY <1>3
  <2>1. plan[c].mode = mode
    <3>1. LET v == AtOrigin(t[c], mode) IN v.mode = mode
      BY ONLY <2>0, AtOriginFields
    <3> QED
      BY <1>7, <3>1
  <2>2. u[c].enabled
    BY <1>3, <1>4 DEF Outcome
  <2> QED
    BY <1>3, <1>4, <1>13, <2>1, <2>2, ModesAssumption DEF Outcome
<1>15. mode \in MirrorModes(u)
  <2> DEFINE lit == {u[c].mode : c \in {d \in RealOutputs(u) : u[d].enabled}} \ {NoValue}
             fits(floor) == {m \in SharedModes(u) : m.width <= floor.width /\ m.height <= floor.height}
             for(floor)  == IF floor \in SharedModes(u) THEN {floor}
                            ELSE IF fits(floor) # {} THEN LargestModes(fits(floor))
                            ELSE SmallestModes(SharedModes(u))
  <2>1. MirrorModes(u) = IF lit = {} THEN SmallestModes(SharedModes(u))
                         ELSE UNION {for(floor) : floor \in SmallestModes(lit)}
    BY DEF MirrorModes
  <2>2. PICK c \in S : TRUE
    BY <1>8 DEF SharedModes
  <2>3. lit = {mode}
    BY <1>2, <1>13, <1>14, <2>2, ModesAssumption
  <2>4. ~LargerMode(mode, mode)
    <3>1. Area(mode) \in Int /\ mode.refresh \in Int
      BY <1>13, ModesAssumption DEF Area
    <3> QED
      BY <3>1 DEF LargerMode
  <2>5. mode \in SmallestModes(lit)
    BY <2>3, <2>4 DEF SmallestModes
  <2>6. for(mode) = {mode}
    BY <1>8, <1>12
  <2> HIDE DEF for, lit
  <2> QED
    BY <2>1, <2>3, <2>5, <2>6
<1> DEFINE again == [c \in RealOutputs(u) |-> [AtOrigin(u[c], mode) EXCEPT !.mirror = MirrorOf(u, c)]]
<1>16. again \in PlanMirror(u)
  BY <1>15, MirrorPlans
<1>17. again = [c \in RealOutputs(u) |-> AtOrigin(u[c], pick[c])]
  <2>1. \A c \in S : [AtOrigin(u[c], mode) EXCEPT !.mirror = MirrorOf(u, c)] = AtOrigin(u[c], pick[c])
    <3> SUFFICES ASSUME NEW c \in S
                 PROVE  [AtOrigin(u[c], mode) EXCEPT !.mirror = MirrorOf(u, c)] = AtOrigin(u[c], pick[c])
      OBVIOUS
    <3>1. MirrorOf(u, c) = NoValue
      BY <1>5, <1>6 DEF MirrorOf
    <3>2. u[c] \in OutputState
      BY <1>3
    <3> QED
      BY <3>1, <3>2 DEF AtOrigin, Unplaced, Enable, OutputState
  <2> HIDE DEF pick
  <2> QED
    BY <1>2, <2>1
<1> QED
  BY <1>11, <1>16, <1>17

(* So does any preset whose plan lets no display mirror another.           *)
LEMMA AnyPresetAgain ==
    ASSUME IsFiniteSet(Connectors), NEW t, IsTopology(t), NEW u, IsTopology(u), NEW builtin,
           NEW preset \in VirtualPresets,
           NEW plan \in PresetPlans(preset, t, builtin), Outcome(t, plan, u),
           \A c \in DOMAIN t \cap DOMAIN plan : plan[c].enabled => plan[c].mirror = NoValue
    PROVE  \E again \in PresetPlans(preset, u, builtin) : LayoutHolds(again, u)
<1>1. CASE preset = "mirror"
  <2>1. PresetPlans(preset, t, builtin) = PlanMirror(t) /\ PresetPlans(preset, u, builtin) = PlanMirror(u)
    BY <1>1 DEF PresetPlans
  <2>2. DOMAIN plan = RealOutputs(t)
    BY <2>1, MirrorPlans
  <2>3. \A c \in DOMAIN plan : plan[c].enabled => plan[c].mirror = NoValue
    BY <2>2 DEF RealOutputs
  <2> QED
    BY <2>1, <2>3, MirrorAgain
<1>2. CASE preset # "mirror"
  BY <1>2, PresetAgain
<1> QED
  BY <1>1, <1>2

----------------------------------------------------------------------------
(* The score of a match. *)

LEMMA MatchScoreType ==
    ASSUME NEW id
    PROVE  MatchScore(id) \in Nat
BY DEF MatchScore, Weight

(* A mark for every point a display brings the first n rules. *)
Points(p, i) == 1..MatchScore(p.rules[i].id)

Marks(p, t, n) ==
    {m \in RealOutputs(t) \X Nat : \E i \in 1..n : RuleFits(p, t, i, m[1]) /\ m[2] \in Points(p, i)}

ScoreWith(m, rule) == m.score + MatchScore(rule.id)

(* A rule that finds an output scores. *)
LEMMA RuleScores ==
    ASSUME NEW p, NEW t, NEW rule, NEW m, IsMatch(p, t, m),
           NEW next, next = MatchOneRule(p, t, rule, m), next.ok
    PROVE  /\ OutputCandidates(rule, t, DOMAIN m.bound) = {} => next.score = m.score
           /\ OutputCandidates(rule, t, DOMAIN m.bound) # {} => next.score = ScoreWith(m, rule)
<1> DEFINE outputs == OutputCandidates(rule, t, DOMAIN m.bound)
           output  == FindMatchingOutput(rule, t, DOMAIN m.bound)
           usedNames == {m.bound[c] : c \in DOMAIN m.bound}
           entries == LayoutCandidates(rule, p.layout, t[output].id, usedNames)
           entry   == FindMatchingLayoutEntry(rule, p.layout, t[output].id, usedNames)
           put     == Put(m.bound, output, entry)
<1>1. next = IF outputs = {} THEN [m EXCEPT !.ok = @ /\ ~rule.required]
             ELSE IF entries = {} THEN [m EXCEPT !.ok = FALSE]
             ELSE [bound |-> put, score |-> m.score + MatchScore(rule.id), ok |-> m.ok]
  BY DEF MatchOneRule
<1> HIDE DEF outputs, entries, put
<1>2. ASSUME outputs = {}
      PROVE  next.score = m.score
  <2> DEFINE b == m.bound
             s == m.score
             k == m.ok
  <2>1. m = [bound |-> b, score |-> s, ok |-> k]
    BY DEF IsMatch
  <2>2. next = [m EXCEPT !.ok = @ /\ ~rule.required]
    BY <1>1, <1>2
  <2> HIDE DEF b, s, k
  <2>3. next.score = s
    BY <2>1, <2>2
  <2> QED
    BY <2>3 DEF s
<1>3. ASSUME outputs # {}, next.ok
      PROVE  next.score = ScoreWith(m, rule)
  <2> DEFINE b == m.bound
             s == m.score
             k == m.ok
  <2>1. m = [bound |-> b, score |-> s, ok |-> k]
    BY DEF IsMatch
  <2> HIDE DEF b, s, k
  <2>2. entries # {}
    <3> SUFFICES ASSUME entries = {} PROVE FALSE
      OBVIOUS
    <3>1. next = [m EXCEPT !.ok = FALSE]
      BY <1>1, <1>3
    <3>2. next.ok = FALSE
      BY <2>1, <3>1
    <3> QED
      BY <1>3, <3>2
  <2> QED
    BY <1>1, <1>3, <2>2 DEF ScoreWith
<1> QED
  BY <1>2, <1>3 DEF outputs

(* A rule adds the marks of its output. *)
LEMMA ScoreStep ==
    ASSUME NEW p, NEW t, Matchable(p, t), Distinguished(p, t), NEW k \in 1..Len(p.rules),
           NEW m, IsMatch(p, t, m), m.ok, DOMAIN m.bound = OutputsOf(p, t, k - 1),
           IsFiniteSet(Marks(p, t, k - 1)), m.score = Cardinality(Marks(p, t, k - 1)),
           NEW next, next = MatchOneRule(p, t, p.rules[k], m), next.ok
    PROVE  IsFiniteSet(Marks(p, t, k)) /\ next.score = Cardinality(Marks(p, t, k))
<1> DEFINE i == k - 1
           N == Len(p.rules)
           M(n) == Marks(p, t, n)
           rule == p.rules[k]
           w == MatchScore(rule.id)
<1>1. N \in Nat
  BY DEF Matchable
<1>2. /\ \A j \in 1..i : j \in 1..k /\ j \in 1..N /\ j # k
      /\ \A j \in 1..k : j = k \/ j \in 1..i
      /\ k \in 1..k
  BY <1>1
<1> DEFINE outputs == OutputCandidates(rule, t, DOMAIN m.bound)
<1>3. outputs = {} => next.score = m.score
  <2>1. \A r, e, n : IsMatch(p, t, e) /\ n = MatchOneRule(p, t, r, e) /\ n.ok
                        => (OutputCandidates(r, t, DOMAIN e.bound) = {} => n.score = e.score)
    BY RuleScores
  <2> QED
    BY <2>1
<1>4. outputs # {} => next.score = m.score + w
  <2>1. \A q, s, r, e, n : IsMatch(q, s, e) /\ n = MatchOneRule(q, s, r, e) /\ n.ok
            => (OutputCandidates(r, s, DOMAIN e.bound) # {} => n.score = ScoreWith(e, r))
    BY ONLY RuleScores
  <2>2. outputs # {} => next.score = ScoreWith(m, rule)
    <3> HIDE DEF rule
    <3>1. IsMatch(p, t, m) /\ next = MatchOneRule(p, t, rule, m) /\ next.ok
      BY DEF rule
    <3> QED
      BY ONLY <2>1, <3>1 DEF outputs
  <2>3. ScoreWith(m, rule) = m.score + w
    BY ONLY TRUE DEF ScoreWith
  <2> QED
    BY <2>2, <2>3
<1>5. w \in Nat
  BY MatchScoreType
<1>9. /\ IsFiniteSet(M(i)) /\ m.score = Cardinality(M(i)) /\ DOMAIN m.bound = OutputsOf(p, t, i)
      /\ k \in 1..N
  OBVIOUS
<1> HIDE DEF w, outputs, i, N
<1>6. ASSUME NEW c \in RealOutputs(t), RuleFits(p, t, k, c)
      PROVE  c \in outputs /\ \A j \in 1..i : ~RuleFits(p, t, j, c)
  <2>1. \A j \in 1..i : ~RuleFits(p, t, j, c)
    BY <1>2, <1>6, <1>9 DEF Distinguished, N
  <2>2. c \notin DOMAIN m.bound
    BY <1>9, <2>1 DEF OutputsOf
  <2> QED
    BY <1>6, <2>1, <2>2 DEF OutputCandidates, RuleFits, outputs
<1>7. CASE outputs = {}
  <2>1. \A c \in RealOutputs(t) : ~RuleFits(p, t, k, c)
    BY <1>6, <1>7
  <2>2. M(k) = M(i)
    <3>1. ASSUME NEW x \in RealOutputs(t) \X Nat
          PROVE  (\E j \in 1..k : RuleFits(p, t, j, x[1]) /\ x[2] \in Points(p, j))
                 <=> (\E j \in 1..i : RuleFits(p, t, j, x[1]) /\ x[2] \in Points(p, j))
      BY <1>2, <2>1
    <3> QED
      BY <3>1 DEF Marks
  <2> HIDE DEF M
  <2> QED
    BY <1>3, <1>7, <1>9, <2>2 DEF M
<1>8. CASE outputs # {}
  <2>1. PICK c \in RealOutputs(t) : RuleFits(p, t, k, c)
    BY <1>8 DEF OutputCandidates, RuleFits, outputs
  <2>2. \A d \in RealOutputs(t) : RuleFits(p, t, k, d) => d = c
    BY <1>9, <2>1 DEF Distinguished, N
  <2> DEFINE own == {c} \X (1..w)
  <2>3. IsFiniteSet(own) /\ Cardinality(own) = w
    <3>1. IsFiniteSet({c}) /\ Cardinality({c}) = 1
      BY FS_Singleton
    <3>2. IsFiniteSet(1..w) /\ Cardinality(1..w) = w
      <4>1. 1 \in Int /\ w \in Int /\ (1 > w => w = 0) /\ w - 1 + 1 = w
        BY <1>5
      <4>2. \A a, b \in Int : /\ IsFiniteSet(a..b)
                              /\ Cardinality(a..b) = IF a > b THEN 0 ELSE b - a + 1
        BY FS_Interval
      <4> QED
        BY <4>1, <4>2
    <3>3. \A S1, S2 : IsFiniteSet(S1) /\ IsFiniteSet(S2)
              => IsFiniteSet(S1 \X S2) /\ Cardinality(S1 \X S2) = Cardinality(S1) * Cardinality(S2)
      BY FS_Product
    <3>4. IsFiniteSet(own) /\ Cardinality(own) = Cardinality({c}) * Cardinality(1..w)
      <4> DEFINE single == {c}
                 points == 1..w
      <4>1. IsFiniteSet(single) /\ IsFiniteSet(points) /\ own = single \X points
        BY <3>1, <3>2
      <4> HIDE DEF own, single, points
      <4>2. IsFiniteSet(own) /\ Cardinality(own) = Cardinality(single) * Cardinality(points)
        BY <3>3, <4>1
      <4> QED
        BY <4>2 DEF single, points
    <3>5. 1 * w = w
      BY <1>5
    <3> HIDE DEF own
    <3> QED
      BY <3>1, <3>2, <3>4, <3>5
  <2>4. M(k) = M(i) \cup own
    <3>1. \A x \in own : x \in RealOutputs(t) \X Nat /\ x[1] = c /\ x[2] \in Points(p, k)
      BY <1>5 DEF Points, w
    <3>2. \A x \in RealOutputs(t) \X Nat : x[1] = c /\ x[2] \in Points(p, k) => x \in own
      BY DEF Points, w
    <3> HIDE DEF own
    <3>3. ASSUME NEW x \in M(k) PROVE x \in M(i) \cup own
      <4>1. PICK j \in 1..k : RuleFits(p, t, j, x[1]) /\ x[2] \in Points(p, j)
        BY <3>3 DEF Marks
      <4>2. x \in RealOutputs(t) \X Nat /\ x[1] \in RealOutputs(t)
        BY <3>3 DEF Marks
      <4>3. CASE j = k
        BY <2>2, <3>2, <4>1, <4>2, <4>3
      <4>4. CASE j \in 1..i
        BY <4>1, <4>2, <4>4 DEF Marks
      <4> QED
        BY <1>2, <4>3, <4>4
    <3>4. ASSUME NEW x \in M(i) PROVE x \in M(k)
      BY <1>2, <3>4 DEF Marks
    <3>5. ASSUME NEW x \in own PROVE x \in M(k)
      BY <1>2, <2>1, <3>1, <3>5 DEF Marks
    <3> HIDE DEF M
    <3> QED
      BY <3>3, <3>4, <3>5
  <2>5. M(i) \cap own = {}
    <3>1. \A x \in own : x[1] = c
      OBVIOUS
    <3>2. \A x \in M(i) : \E j \in 1..i : RuleFits(p, t, j, x[1])
      BY DEF Marks
    <3>3. \A j \in 1..i : ~RuleFits(p, t, j, c)
      BY <1>6, <2>1
    <3> HIDE DEF own, M
    <3> QED
      BY <3>1, <3>2, <3>3
  <2> HIDE DEF own, M
  <2>6. IsFiniteSet(M(k)) /\ Cardinality(M(k)) = Cardinality(M(i)) + w - 0
    <3>1. IsFiniteSet(M(i) \cup own)
          /\ Cardinality(M(i) \cup own) = Cardinality(M(i)) + Cardinality(own) - Cardinality(M(i) \cap own)
      BY <1>9, <2>3, FS_Union
    <3>2. Cardinality({}) = 0
      BY FS_EmptySet
    <3> QED
      BY <2>3, <2>4, <2>5, <3>1, <3>2
  <2>7. Cardinality(M(i)) \in Nat
    BY <1>9, FS_CardinalityType
  <2>8. next.score = Cardinality(M(k))
    BY <1>4, <1>5, <1>8, <1>9, <2>6, <2>7
  <2> QED
    BY <2>6, <2>8 DEF M
<1> QED
  BY <1>7, <1>8

(* Where displays can be told apart the score is the number of marks, so   *)
(* it depends neither on the order of the rules nor on how the displays    *)
(* are arranged.                                                           *)
LEMMA ScoreIsMarks ==
    ASSUME NEW p, NEW t, Matchable(p, t), Distinguished(p, t), MatchRules(p, t).ok
    PROVE  /\ MatchRules(p, t).score = Cardinality(Marks(p, t, Len(p.rules)))
           /\ MatchRules(p, t).score \in Nat
<1> DEFINE N == Len(p.rules)
           M(i) == Marks(p, t, i)
<1>1. N \in Nat
  BY DEF Matchable
<1>2. PICK match : InSteps(p, t, match, N) /\ MatchRules(p, t) = match[N]
  BY <1>1, MatchRulesInSteps
<1>3. \A i \in 0..N : IsMatch(p, t, match[i])
  BY <1>2, StepsAreMatches
<1>4. /\ \A i \in 0..N : match[i].ok
      /\ \A i \in 1..N : RuleTakes(p, t, p.rules[i], match[i - 1], match[i])
  BY <1>2, AlwaysInOrder
<1> DEFINE Right(i) == /\ DOMAIN match[i].bound = OutputsOf(p, t, i)
                       /\ IsFiniteSet(M(i)) /\ match[i].score = Cardinality(M(i))
           S == {i \in 0..N : Right(i)}
<1>5. 0 \in S
  <2>1. M(0) = {} /\ OutputsOf(p, t, 0) = {}
    BY DEF Marks, OutputsOf
  <2>2. match[0] = NothingBound
    BY <1>2 DEF InSteps
  <2>3. NothingBound.bound = <<>> /\ NothingBound.score = 0
    BY DEF NothingBound
  <2>4. DOMAIN <<>> = {}
    OBVIOUS
  <2>5. IsFiniteSet({}) /\ Cardinality({}) = 0
    BY FS_EmptySet
  <2>6. 0 \in 0..N
    BY <1>1
  <2> HIDE DEF M
  <2> QED
    BY <2>1, <2>2, <2>3, <2>4, <2>5, <2>6, Zenon
<1>6. ASSUME NEW i \in 0..N - 1, i \in S PROVE i + 1 \in S
  <2> DEFINE k == i + 1
             m == match[i]
             next == match[k]
             rule == p.rules[k]
             w == MatchScore(rule.id)
  <2>1. k \in 1..N /\ k - 1 = i /\ k \in 0..N /\ i \in 0..N /\ k \in 1..k
    BY <1>1
  <2>2. /\ \A j \in 1..i : j \in 1..k /\ j \in 1..N /\ j # k
        /\ \A j \in 1..k : j = k \/ j \in 1..i
    BY <1>1, <2>1
  <2>3. Right(i)
    BY <1>6
  <2>4. IsMatch(p, t, m) /\ m.ok /\ next.ok
    BY <1>3, <1>4, <2>1
  <2>5. RuleTakes(p, t, rule, m, next)
    BY <1>4, <2>1
  <2>6. next.ok \in BOOLEAN
    BY <1>3, <2>1 DEF IsMatch
  <2>7. DOMAIN next.bound = OutputsOf(p, t, k)
    <3>1. DOMAIN match[i].bound = OutputsOf(p, t, i) /\ match[i].ok
      BY <2>3, <2>4
    <3>2. RuleTakes(p, t, p.rules[i + 1], match[i], match[i + 1])
      BY <2>5
    <3>3. match[i + 1].ok \in BOOLEAN
      BY <2>6
    <3> HIDE DEF N
    <3>4. /\ match[i + 1].ok <=> Placeable(p, t, i + 1)
          /\ match[i + 1].ok => DOMAIN match[i + 1].bound = OutputsOf(p, t, i + 1)
      BY <1>3, <2>1, <3>1, <3>2, <3>3, DistinctRule DEF N
    <3> QED
      BY <2>4, <3>4
  <2>8. next = MatchOneRule(p, t, rule, m)
    <3>1. Follows(p, t, match, k)
      BY <1>2, <2>1 DEF InSteps
    <3> QED
      BY <2>1, <2>4, <3>1 DEF Follows
  <2>9. IsFiniteSet(M(k)) /\ next.score = Cardinality(M(k))
    <3>1. /\ IsMatch(p, t, match[i]) /\ match[i].ok /\ DOMAIN match[i].bound = OutputsOf(p, t, k - 1)
          /\ IsFiniteSet(Marks(p, t, k - 1)) /\ match[i].score = Cardinality(Marks(p, t, k - 1))
          /\ k \in 1..Len(p.rules)
      BY <2>1, <2>3, <2>4
    <3> HIDE DEF k, next, N
    <3> QED
      BY <2>4, <2>8, <3>1, ScoreStep
  <2> QED
    BY <2>1, <2>7, <2>9
<1>7. N \in S
  <2> HIDE DEF S
  <2>1. 0..N \subseteq S
    BY <1>1, <1>5, <1>6, InductionUpTo
  <2> QED
    BY <1>1, <2>1
<1>8. Right(N)
  BY <1>7
<1>9. Cardinality(M(N)) \in Nat
  BY <1>8, FS_CardinalityType
<1> QED
  BY <1>2, <1>8, <1>9

LEMMA SameScore ==
    ASSUME NEW t, NEW u, SameOutputs(t, u), NEW p, NEW q, p.layout = q.layout, SameRules(p, q),
           Matchable(p, t), Matchable(q, u), Distinguished(p, u), Distinguished(q, u),
           MatchesExactly(p, t), MatchesExactly(q, u)
    PROVE  MatchRules(p, t).score = MatchRules(q, u).score /\ MatchRules(p, t).score \in Nat
<1> DEFINE M == Len(p.rules)
           K == Len(q.rules)
<1>1. RealOutputs(t) = RealOutputs(u) /\ RealOutputs(t) \subseteq DOMAIN t
  BY FitsTheSame DEF RealOutputs
<1>2. Distinguished(p, t) /\ \A i : \A c \in DOMAIN t : RuleFits(p, t, i, c) <=> RuleFits(p, u, i, c)
  BY FitsTheSame
<1>3. /\ MatchRules(p, t).score = Cardinality(Marks(p, t, M)) /\ MatchRules(p, t).score \in Nat
      /\ MatchRules(q, u).score = Cardinality(Marks(q, u, K))
  BY <1>2, ScoreIsMarks DEF MatchesExactly
<1>4. ASSUME NEW i \in 1..M, NEW j \in 1..K, p.rules[i] = q.rules[j]
      PROVE  /\ Points(p, i) = Points(q, j)
             /\ \A c \in RealOutputs(t) : RuleFits(p, t, i, c) <=> RuleFits(q, u, j, c)
  <2>1. \A c : RuleFits(p, u, i, c) <=> RuleFits(q, u, j, c)
    BY <1>4, PlaceableRule
  <2> QED
    BY <1>1, <1>2, <1>4, <2>1 DEF Points
<1>5. \A i \in 1..M : \E j \in 1..K : p.rules[i] = q.rules[j]
  BY DEF SameRules
<1>6. \A j \in 1..K : \E i \in 1..M : p.rules[i] = q.rules[j]
  BY DEF SameRules
<1> HIDE DEF M, K
<1>7. ASSUME NEW x \in RealOutputs(t) \X Nat
      PROVE  (\E i \in 1..M : RuleFits(p, t, i, x[1]) /\ x[2] \in Points(p, i))
             <=> (\E j \in 1..K : RuleFits(q, u, j, x[1]) /\ x[2] \in Points(q, j))
  <2>1. x[1] \in RealOutputs(t)
    OBVIOUS
  <2>2. ASSUME NEW i \in 1..M, RuleFits(p, t, i, x[1]), x[2] \in Points(p, i)
        PROVE  \E j \in 1..K : RuleFits(q, u, j, x[1]) /\ x[2] \in Points(q, j)
    BY <1>4, <1>5, <2>1, <2>2
  <2>3. ASSUME NEW j \in 1..K, RuleFits(q, u, j, x[1]), x[2] \in Points(q, j)
        PROVE  \E i \in 1..M : RuleFits(p, t, i, x[1]) /\ x[2] \in Points(p, i)
    BY <1>4, <1>6, <2>1, <2>3
  <2> QED
    BY <2>2, <2>3
<1>8. Marks(p, t, M) = Marks(q, u, K)
  BY <1>1, <1>7 DEF Marks
<1> QED
  BY <1>3, <1>8
----------------------------------------------------------------------------
(* Choosing again. *)

(* Two readings of one stored profile. *)
ReadAlike(p, q) ==
    /\ p.name = q.name /\ p.priority = q.priority
    /\ p.layout = q.layout /\ SameRules(p, q)

(* The profiles, and the same ones read in another order, for displays     *)
(* that are the same and that the profiles can tell apart.                 *)
ReadingOf(P, t, u) ==
    /\ \A p \in P : /\ p.name \in ProfileNames /\ p.priority \in Int
                    /\ Matchable(p, t) /\ Matchable(p, u) /\ Distinguished(p, u)
    /\ \A p, q \in P : p.name = q.name => p = q

Reread(P, Q, t, u) ==
    /\ SameOutputs(t, u) /\ ReadingOf(P, t, u) /\ ReadingOf(Q, t, u)
    /\ \A p \in P : \E q \in Q : ReadAlike(p, q)
    /\ \A q \in Q : \E p \in P : ReadAlike(p, q)

LEMMA AlikeMatch ==
    ASSUME NEW t, NEW u, NEW P, NEW Q, Reread(P, Q, t, u),
           NEW p \in P, NEW q \in Q, ReadAlike(p, q)
    PROVE  /\ MatchesExactly(p, t) <=> MatchesExactly(q, u)
           /\ MatchesExactly(p, t) => PlanFromProfile(q, u) = PlanFromProfile(p, t)
           /\ MatchesExactly(p, t) =>
                MatchRules(p, t).score = MatchRules(q, u).score /\ MatchRules(p, t).score \in Nat
<1>1. /\ SameOutputs(t, u) /\ p.layout = q.layout /\ SameRules(p, q)
      /\ Matchable(p, t) /\ Matchable(q, u) /\ Matchable(p, u) /\ Matchable(q, t)
      /\ Distinguished(p, u) /\ Distinguished(q, u)
  BY DEF Reread, ReadingOf, ReadAlike
<1>2. MatchesExactly(p, t) => MatchesExactly(q, u) /\ PlanFromProfile(q, u) = PlanFromProfile(p, t)
  BY <1>1, SameMatch
<1>3. MatchesExactly(q, u) => MatchesExactly(p, t)
  <2>1. SameOutputs(u, t) /\ SameRules(q, p)
    BY <1>1 DEF SameOutputs, SameRules
  <2>2. Distinguished(p, t) /\ Distinguished(q, t)
    BY <1>1, FitsTheSame
  <2> QED
    BY <1>1, <2>1, <2>2, SameMatch
<1>4. MatchesExactly(p, t) =>
        MatchRules(p, t).score = MatchRules(q, u).score /\ MatchRules(p, t).score \in Nat
  BY <1>1, <1>2, SameScore
<1> QED
  BY <1>2, <1>3, <1>4

(* One reading is the best exactly when the other is. *)
LEMMA AlikeBest ==
    ASSUME NEW t, NEW u, NEW P, NEW Q, Reread(P, Q, t, u),
           NEW p \in P, NEW q \in Q, ReadAlike(p, q)
    PROVE  p \in BestExactMatches(t, P) <=> q \in BestExactMatches(u, Q)
<1>1. \A a \in P, b \in Q : ReadAlike(a, b) =>
        /\ MatchesExactly(a, t) <=> MatchesExactly(b, u)
        /\ MatchesExactly(a, t) => MatchRules(a, t).score = MatchRules(b, u).score
        /\ a.priority = b.priority /\ a.name = b.name
  BY AlikeMatch DEF ReadAlike
<1>2. ASSUME NEW a \in P, NEW b \in Q, ReadAlike(a, b), MatchesExactly(a, t), MatchesExactly(p, t)
      PROVE  BetterMatch(t, a, p) <=> BetterMatch(u, b, q)
  <2>1. /\ MatchRules(a, t).score = MatchRules(b, u).score
        /\ MatchRules(p, t).score = MatchRules(q, u).score
        /\ a.priority = b.priority /\ a.name = b.name
        /\ p.priority = q.priority /\ p.name = q.name
    BY <1>1, <1>2
  <2> QED
    BY <2>1 DEF BetterMatch
<1>3. MatchesExactly(p, t) <=> MatchesExactly(q, u)
  BY <1>1
<1>4. ASSUME MatchesExactly(p, t), \A a \in P : MatchesExactly(a, t) => ~BetterMatch(t, a, p),
             NEW b \in Q, MatchesExactly(b, u)
      PROVE  ~BetterMatch(u, b, q)
  <2>1. PICK a \in P : ReadAlike(a, b)
    BY DEF Reread
  <2> QED
    BY <1>1, <1>2, <1>4, <2>1
<1>5. ASSUME MatchesExactly(p, t), \A b \in Q : MatchesExactly(b, u) => ~BetterMatch(u, b, q),
             NEW a \in P, MatchesExactly(a, t)
      PROVE  ~BetterMatch(t, a, p)
  <2>1. PICK b \in Q : ReadAlike(a, b)
    BY DEF Reread
  <2> QED
    BY <1>1, <1>2, <1>5, <2>1
<1> QED
  BY <1>3, <1>4, <1>5 DEF BestExactMatches

(* With names that differ there is one best. *)
LEMMA OneBest ==
    ASSUME NEW t, NEW u, NEW P, NEW Q, Reread(P, Q, t, u),
           NEW p \in BestExactMatches(t, P), NEW q \in BestExactMatches(t, P)
    PROVE  p = q
<1>1. p \in P /\ q \in P /\ MatchesExactly(p, t) /\ MatchesExactly(q, t)
      /\ ~BetterMatch(t, p, q) /\ ~BetterMatch(t, q, p)
  BY DEF BestExactMatches
<1>2. MatchRules(p, t).score \in Nat /\ MatchRules(q, t).score \in Nat
  BY <1>1, AlikeMatch DEF Reread
<1>3. p.priority \in Int /\ q.priority \in Int /\ Rank[p.name] \in Nat /\ Rank[q.name] \in Nat
  BY <1>1, RankAssumption DEF Reread, ReadingOf
<1> DEFINE a == MatchRules(p, t).score
           b == MatchRules(q, t).score
<1>4. Rank[p.name] = Rank[q.name]
  <2>1. ~(\/ a > b
          \/ a = b /\ p.priority > q.priority
          \/ a = b /\ p.priority = q.priority /\ Rank[p.name] < Rank[q.name])
    BY <1>1 DEF BetterMatch
  <2>2. ~(\/ b > a
          \/ b = a /\ q.priority > p.priority
          \/ b = a /\ q.priority = p.priority /\ Rank[q.name] < Rank[p.name])
    BY <1>1 DEF BetterMatch
  <2>3. a \in Nat /\ b \in Nat
    BY <1>2
  <2> HIDE DEF a, b
  <2> QED
    BY <1>3, <2>1, <2>2, <2>3
<1>5. p.name = q.name
  BY <1>1, <1>4, RankAssumption DEF Reread, ReadingOf
<1> QED
  BY <1>1, <1>5 DEF Reread, ReadingOf

(* A profile has the same rules and layout however it is read. *)
LEMMA StoredAgain ==
    ASSUME IsFiniteSet(Connectors), NEW store, IsStore(store),
           \A s \in store.profiles : IsTopology(s.layout) /\ s.rules \in Seq(MatchRule),
           NEW known, IsCache(known), NEW fp, NEW o \in IterationOrders, NEW other \in IterationOrders,
           NEW q \in ProfilesForSetup(store, fp, known, o)
    PROVE  /\ \E r \in ProfilesForSetup(store, fp, known, other) : ReadAlike(q, r) /\ ReadAlike(r, q)
           /\ IsProfile(q) /\ \A t : IsTopology(t) => Matchable(q, t)
<1>1. PICK s \in store.profiles :
        q = CanonicalizeProfile(s, known, o) /\ ProfileSetupFingerprint(q) = fp
  BY DEF ProfilesForSetup
<1>2. IsProfile(s) /\ IsTopology(s.layout) /\ s.rules \in Seq(MatchRule)
  BY DEF IsStore
<1> DEFINE r == CanonicalizeProfile(s, known, other)
<1>3. r \in ProfilesForSetup(store, fp, known, other)
  <2>1. ProfileSetupFingerprint(r) = fp
    BY <1>1, <1>2, FingerprintIgnoresOrder
  <2> QED
    BY <2>1 DEF ProfilesForSetup
<1>4. q.name = r.name /\ q.priority = r.priority
  BY <1>1, <1>2 DEF CanonicalizeProfile, WithInferredMatchRules, IsProfile
<1>5. q.layout = r.layout /\ SameRules(q, r)
  BY <1>1, <1>2, CanonicalSame
<1>6. SameRules(r, q)
  BY <1>5 DEF SameRules
<1>7. IsTopology(q.layout) /\ q.rules \in Seq(MatchRule)
  BY <1>1, <1>2, CanonicalLayout, CanonicalRulesType
<1>8. \A t : IsTopology(t) => Matchable(q, t)
  BY <1>7, RulesMatchable
<1>9. IsProfile(q)
  BY SetupProfilesType
<1> HIDE DEF r
<1> QED
  BY <1>3, <1>4, <1>5, <1>6, <1>8, <1>9 DEF ReadAlike

(* The rules made of a layout are the same in any order. *)
LEMMA LayoutRulesSame ==
    ASSUME IsFiniteSet(Connectors), NEW t, IsTopology(t),
           NEW o \in IterationOrders, NEW other \in IterationOrders,
           NEW p, p.rules = RulesFromLayout(t, o), NEW q, q.rules = RulesFromLayout(t, other)
    PROVE  SameRules(p, q)
<1> DEFINE real == RealOutputs(t)
           N == Cardinality(real)
           Rule(c) == [id |-> t[c].id, required |-> t[c].enabled, hint |-> t[c].pos]
<1>1. real \in SUBSET Connectors
  BY DEF RealOutputs, IsTopology
<1>2. N \in Nat
  BY <1>1, FS_Subset, FS_CardinalityType
<1>3. ASSUME NEW v \in IterationOrders
      PROVE  LET rules == RulesFromLayout(t, v) IN
             /\ Len(rules) = N
             /\ \A i \in 1..N : \E c \in real : rules[i] = Rule(c)
             /\ \A c \in real : \E i \in 1..N : rules[i] = Rule(c)
  <2> DEFINE names == Iterated(real, v)
             rules == RulesFromLayout(t, v)
  <2>1. DOMAIN names = 1..N /\ names \in Bijection(DOMAIN names, real)
    BY <1>1, IteratedLists
  <2>2. /\ \A i \in 1..N : names[i] \in real
        /\ \A c \in real : \E i \in 1..N : names[i] = c
    <3> HIDE DEF names, real, N
    <3> QED
      BY <2>1 DEF Bijection, Injection, Surjection
  <2>3. rules = [i \in 1..N |-> Rule(names[i])]
    BY <2>1 DEF RulesFromLayout
  <2> HIDE DEF rules, names, N, Rule
  <2>4. Len(rules) = N /\ \A i \in 1..N : rules[i] = Rule(names[i])
    BY <1>2, <2>3
  <2>5. /\ Len(rules) = N
        /\ \A i \in 1..N : \E c \in real : rules[i] = Rule(c)
        /\ \A c \in real : \E i \in 1..N : rules[i] = Rule(c)
    BY <2>2, <2>4
  <2> QED
    BY <2>5 DEF rules
<1> HIDE DEF real, N, Rule
<1>4. /\ Len(p.rules) = N /\ Len(q.rules) = N
      /\ \A i \in 1..N : \E c \in real : p.rules[i] = Rule(c)
      /\ \A i \in 1..N : \E c \in real : q.rules[i] = Rule(c)
      /\ \A c \in real : \E i \in 1..N : p.rules[i] = Rule(c)
      /\ \A c \in real : \E i \in 1..N : q.rules[i] = Rule(c)
  BY <1>3
<1>5. ASSUME NEW i \in 1..N PROVE \E j \in 1..N : p.rules[i] = q.rules[j]
  BY <1>4
<1>6. ASSUME NEW j \in 1..N PROVE \E i \in 1..N : p.rules[i] = q.rules[j]
  BY <1>4
<1> QED
  BY <1>4, <1>5, <1>6 DEF SameRules

(* A layout that is remembered, made a profile in another order. *)
LEMMA RememberedAgain ==
    ASSUME IsFiniteSet(Connectors), NEW t, IsTopology(t), NEW name,
           NEW o \in IterationOrders, NEW other \in IterationOrders
    PROVE  LET p == ProfileFromTopology(name, t, o)
               q == ProfileFromTopology(name, t, other)
           IN  /\ p.layout = t /\ q.layout = t /\ p.rules = RulesFromLayout(t, o)
               /\ SameRules(p, q) /\ \A u : IsTopology(u) => Matchable(p, u) /\ Matchable(q, u)
<1> DEFINE p == ProfileFromTopology(name, t, o)
           q == ProfileFromTopology(name, t, other)
<1>1. /\ p.layout = t /\ q.layout = t
      /\ p.rules = RulesFromLayout(t, o) /\ q.rules = RulesFromLayout(t, other)
  BY DEF ProfileFromTopology
<1> HIDE DEF p, q
<1>2. SameRules(p, q)
  BY <1>1, LayoutRulesSame
<1>3. p.rules \in Seq(MatchRule) /\ q.rules \in Seq(MatchRule)
  BY <1>1, LayoutRulesType
<1>4. \A u : IsTopology(u) => Matchable(p, u) /\ Matchable(q, u)
  BY <1>1, <1>3, RulesMatchable
<1> QED
  BY <1>1, <1>2, <1>4 DEF p, q

(* The targets are those of one and the same profile read again, of the    *)
(* same built-in layout, or once more what is remembered.                  *)
ChosenAgain(target, next, P, Q, layouts, fp, R, R2, o, other) ==
    \/ \E p \in P, q \in Q :
        /\ ReadAlike(p, q)
        /\ \E kind \in {"default", "exact"} :
            target = ProfileTarget(kind, p) /\ next = ProfileTarget(kind, q)
    \/ /\ fp \in DOMAIN layouts
       /\ target = LayoutTarget(layouts[fp]) /\ next = target
    \/ /\ fp \in DOMAIN R /\ fp \in DOMAIN R2
       /\ target = ProfileTarget("remembered", ProfileFromTopology(RememberedName, R[fp], o))
       /\ next = ProfileTarget("remembered", ProfileFromTopology(RememberedName, R2[fp], other))

(* The target chosen again, from the same profiles and defaults and for    *)
(* the same displays, is the same.                                         *)
LEMMA SelectAgain ==
    ASSUME NEW t, NEW u, NEW P, NEW Q, Reread(P, Q, t, u),
           NEW fp, SetupFingerprint(t) = fp, SetupFingerprint(u) = fp,
           \A p \in P \cup Q : ProfileSetupFingerprint(p) = fp,
           NEW settings, NEW store,
           settings.defaults = store.defaults, settings.layouts = store.layouts,
           NEW R, NEW R2, fp \in DOMAIN R /\ HasEnabledRealOutputs(R[fp])
                            => fp \in DOMAIN R2 /\ HasEnabledRealOutputs(R2[fp]),
           NEW o, NEW other,
           NEW target \in SelectTargets(t, P, settings, R, o), target.kind # "none",
           NEW next \in SelectTargets(u, Q, store, R2, other)
    PROVE  ChosenAgain(target, next, P, Q, store.layouts, fp, R, R2, o, other)
<1> DEFINE named  == SetupDefaults(fp, P, settings)
           named2 == SetupDefaults(fp, Q, store)
           best   == BestExactMatches(t, P)
           best2  == BestExactMatches(u, Q)
           old    == ProfileFromTopology(RememberedName, R[fp], o)
           old2   == ProfileFromTopology(RememberedName, R2[fp], other)
           kept   == fp \in DOMAIN R /\ HasEnabledRealOutputs(R[fp])
           kept2  == fp \in DOMAIN R2 /\ HasEnabledRealOutputs(R2[fp])
<1>1. /\ named # {} => \E p \in FirstListed(named) : target = ProfileTarget("default", p)
      /\ named = {} /\ fp \in DOMAIN settings.layouts => target = LayoutTarget(settings.layouts[fp])
      /\ named = {} /\ fp \notin DOMAIN settings.layouts /\ best # {}
            => \E p \in best : target = ProfileTarget("exact", p)
      /\ named = {} /\ fp \notin DOMAIN settings.layouts /\ best = {} /\ kept
            => target = ProfileTarget("remembered", old)
      /\ named = {} /\ fp \notin DOMAIN settings.layouts /\ best = {} /\ ~kept => target = NoTarget
  <2> HIDE DEF named, best, old
  <2> QED
    BY DEF SelectTargets, named, best, old
<1>2. /\ named2 # {} => \E q \in FirstListed(named2) : next = ProfileTarget("default", q)
      /\ named2 = {} /\ fp \in DOMAIN store.layouts => next = LayoutTarget(store.layouts[fp])
      /\ named2 = {} /\ fp \notin DOMAIN store.layouts /\ best2 # {}
            => \E q \in best2 : next = ProfileTarget("exact", q)
      /\ named2 = {} /\ fp \notin DOMAIN store.layouts /\ best2 = {} /\ kept2
            => next = ProfileTarget("remembered", old2)
  <2> HIDE DEF named2, best2, old2
  <2> QED
    BY DEF SelectTargets, named2, best2, old2
<1>3. /\ \A p : p \in named <=> p \in P /\ fp \in DOMAIN store.defaults /\ store.defaults[fp] = p.name
      /\ \A q : q \in named2 <=> q \in Q /\ fp \in DOMAIN store.defaults /\ store.defaults[fp] = q.name
  BY DEF SetupDefaults
<1>4. /\ \A p \in P : \E q \in Q : ReadAlike(p, q)
      /\ \A q \in Q : \E p \in P : ReadAlike(p, q)
      /\ \A p \in P, q \in Q : ReadAlike(p, q) => p.name = q.name
      /\ \A q, r \in Q : q.name = r.name => q = r
  BY DEF Reread, ReadingOf, ReadAlike
<1>5. /\ \A p \in P, q \in Q : ReadAlike(p, q) => (p \in best <=> q \in best2)
      /\ best \subseteq P /\ best2 \subseteq Q
  BY AlikeBest DEF BestExactMatches
<1>6. kept => kept2
  OBVIOUS
<1> HIDE DEF named, named2, best, best2, old, old2, kept, kept2
<1>7. CASE named # {}
  <2>1. PICK p \in named : target = ProfileTarget("default", p)
    BY <1>1, <1>7 DEF FirstListed
  <2>2. PICK q \in Q : ReadAlike(p, q)
    BY <1>3, <1>4, <2>1
  <2>3. q \in named2
    BY <1>3, <1>4, <2>1, <2>2
  <2>4. PICK r \in named2 : next = ProfileTarget("default", r)
    BY <1>2, <2>3 DEF FirstListed
  <2>5. r = q
    BY <1>3, <1>4, <2>3, <2>4
  <2> QED
    BY <1>3, <2>1, <2>2, <2>4, <2>5 DEF ChosenAgain
<1>8. CASE named = {}
  <2>1. named2 = {}
    <3> SUFFICES ASSUME NEW q \in named2 PROVE FALSE
      OBVIOUS
    <3>1. PICK p \in P : ReadAlike(p, q)
      BY <1>3, <1>4
    <3> QED
      BY <1>3, <1>4, <1>8, <3>1
  <2>2. CASE fp \in DOMAIN store.layouts
    <3>1. target = LayoutTarget(store.layouts[fp]) /\ next = LayoutTarget(store.layouts[fp])
      BY <1>1, <1>2, <1>8, <2>1, <2>2
    <3> QED
      BY <2>2, <3>1 DEF ChosenAgain
  <2>3. CASE fp \notin DOMAIN store.layouts /\ best # {}
    <3>1. PICK p \in best : target = ProfileTarget("exact", p)
      BY <1>1, <1>8, <2>3
    <3>2. PICK q \in Q : ReadAlike(p, q)
      BY <1>4, <1>5
    <3>3. q \in best2
      BY <1>5, <3>1, <3>2
    <3>4. PICK r \in best2 : next = ProfileTarget("exact", r)
      BY <1>2, <2>1, <2>3, <3>3
    <3>5. PICK v \in P : ReadAlike(v, r)
      BY <1>4, <1>5, <3>4
    <3>6. v = p
      BY <1>5, <3>1, <3>4, <3>5, OneBest DEF best
    <3>7. r = q
      BY <1>4, <1>5, <3>2, <3>4, <3>5, <3>6
    <3> QED
      BY <1>5, <3>1, <3>2, <3>4, <3>7 DEF ChosenAgain
  <2>4. CASE fp \notin DOMAIN store.layouts /\ best = {}
    <3>1. best2 = {}
      <4> SUFFICES ASSUME NEW q \in best2 PROVE FALSE
        OBVIOUS
      <4>1. PICK p \in P : ReadAlike(p, q)
        BY <1>4, <1>5
      <4> QED
        BY <1>5, <2>4, <4>1
    <3>2. kept
      <4>1. NoTarget.kind = "none"
        BY DEF NoTarget
      <4> QED
        BY <1>1, <1>8, <2>4, <4>1
    <3>3. target = ProfileTarget("remembered", old) /\ next = ProfileTarget("remembered", old2)
      BY <1>1, <1>2, <1>6, <1>8, <2>1, <2>4, <3>1, <3>2
    <3> QED
      BY <1>6, <3>2, <3>3 DEF kept, kept2, old, old2, ChosenAgain
  <2> QED
    BY <2>2, <2>3, <2>4
<1> QED
  BY <1>7, <1>8

(* What is remembered of the displays as they are leaves them so. *)
LEMMA OwnLayoutStays ==
    ASSUME IsFiniteSet(Connectors), NEW t, IsTopology(t),
           \A c \in DOMAIN t : t[c].id.connector = c,
           NEW p, p.layout = t, NEW order \in IterationOrders,
           p.rules = RulesFromLayout(t, order), Distinguished(p, t)
    PROVE  \E plan \in ProfilePlans(p, t) : LayoutHolds(plan, t)
<1>a. MatchesExactly(p, t)
  BY OwnMatch
<1>b. DOMAIN PlanFromProfile(p, t) = RealOutputs(t)
  BY OwnMatch
<1>c. \A c \in RealOutputs(t) : PlanFromProfile(p, t)[c] = [t[c] EXCEPT !.id = t[c].id]
  BY OwnMatch
<1> DEFINE plan == PlanFromProfile(p, t)
<1>1. /\ MatchesExactly(p, t) /\ DOMAIN plan = RealOutputs(t)
      /\ \A c \in RealOutputs(t) : plan[c] = [t[c] EXCEPT !.id = t[c].id]
  BY <1>a, <1>b, <1>c
<1> HIDE DEF plan
<1>2. ASSUME NEW c \in RealOutputs(t)
      PROVE  /\ c \in DOMAIN plan /\ t[c].enabled = plan[c].enabled
             /\ t[c].mode = plan[c].mode /\ t[c].pos = plan[c].pos
             /\ t[c].xform = plan[c].xform /\ t[c].mirror = plan[c].mirror
  <2>1. t[c] \in OutputState
    BY DEF RealOutputs, IsTopology
  <2> QED
    BY <1>1, <2>1 DEF OutputState
<1>3. LayoutHolds(plan, t)
  BY <1>2, Zenon DEF LayoutHolds, Arranged
<1> QED
  BY <1>1, <1>3 DEF ProfilePlans, plan

(* A layout is in place whether the displays are completed or not. *)
LEMMA CompletedHolds ==
    ASSUME NEW t, IsTopology(t), NEW known, IsCache(known), NEW plan, LayoutHolds(plan, t)
    PROVE  LayoutHolds(plan, NormalizeTopology(t, known))
<1> DEFINE n == NormalizeTopology(t, known)
<1>1. /\ DOMAIN n = DOMAIN t
      /\ \A c \in DOMAIN t :
            /\ n[c].id.real = t[c].id.real /\ n[c].enabled = t[c].enabled /\ n[c].mode = t[c].mode
            /\ n[c].pos = t[c].pos /\ n[c].xform = t[c].xform /\ n[c].mirror = t[c].mirror
  BY NormalizeKeepsLayout DEF IsCache
<1> HIDE DEF n
<1>2. RealOutputs(n) = RealOutputs(t) /\ RealOutputs(t) \subseteq DOMAIN t
  BY <1>1 DEF RealOutputs
<1>3. ASSUME NEW c \in RealOutputs(n)
      PROVE  /\ n[c].enabled <=> (c \in DOMAIN plan /\ plan[c].enabled)
             /\ n[c].enabled => Arranged(plan[c], n[c])
  <2>1. /\ t[c].enabled <=> (c \in DOMAIN plan /\ plan[c].enabled)
        /\ t[c].enabled => Arranged(plan[c], t[c])
    BY <1>2 DEF LayoutHolds
  <2>2. n[c].enabled = t[c].enabled
    BY <1>1, <1>2
  <2>3. Arranged(plan[c], t[c]) => Arranged(plan[c], n[c])
    BY <1>1, <1>2 DEF Arranged
  <2> QED
    BY <2>1, <2>2, <2>3
<1>4. LayoutHolds(plan, n)
  BY <1>3 DEF LayoutHolds
<1> QED
  BY <1>4 DEF n
=============================================================================
