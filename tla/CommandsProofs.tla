--------------------------- MODULE CommandsProofs ---------------------------
(***************************************************************************)
(* What holds of the commands for any displays, any stores, any commands   *)
(* and any number of them at once.                                         *)
(***************************************************************************)
EXTENDS Commands, OperatorProofs

----------------------------------------------------------------------------
(* The steps of a command.  Left are those it still has before it; the     *)
(* proofs need to know which these may be, and in which order.             *)

Left(todo) == {todo[i] : i \in DOMAIN todo}

(* The steps a command may take. *)
Uses(c) ==
    {s \in Steps :
        /\ s = "look"     => c.kind # "set" \/ (c.save /\ ~c.default)
        /\ s \in {"layouts", "others"} => Saves(c) /\ ~c.default
        /\ s \in {"exists", "defaulted", "remove", "clear"} => c.kind = "remove"
        /\ s = "find"     => c.kind = "profile"
        /\ s = "list"     => c.kind \in {"auto", "cycle"}
        /\ s = "select"   => c.kind = "auto"
        /\ s = "next"     => c.kind = "cycle"
        /\ s \in {"plan", "validate", "hooks", "apply", "snapshot", "record"} => Applies(c)
        /\ s = "key"      => c.kind \in {"set", "profile"} /\ (c.save \/ c.default)
        /\ s = "store"    => Saves(c)
        /\ s = "default"  => Saves(c) \/ (c.kind = "profile" /\ c.default)
        /\ s = "layout"   => c.kind = "set" /\ c.default /\ ~c.save}

(* They are taken in this order, but for two that are taken at any time. *)
Anytime == {"context", "settings"}

Turn(c, step) ==
    CASE step = "look"      -> 1
      [] step = "layouts"   -> 2
      [] step = "others"    -> 3
      [] step \in {"find", "list"} -> 4
      [] step \in {"select", "next"} -> 5
      [] step = "plan"      -> 6
      [] step = "validate"  -> 7
      [] step = "hooks"     -> 8
      [] step = "apply"     -> 9
      [] step = "snapshot"  -> 10
      [] step = "record"    -> IF c.save THEN 15 ELSE 11
      [] step = "key"       -> 12
      [] step = "store"     -> 13
      [] step \in {"default", "layout"} -> 14
      [] step = "exists"    -> 16
      [] step = "defaulted" -> 17
      [] step \in {"remove", "clear"} -> 18
      [] OTHER              -> 20

InTurn(c, todo) ==
    \A i, j \in DOMAIN todo :
        i < j /\ todo[i] \notin Anytime /\ todo[j] \notin Anytime
            => Turn(c, todo[i]) < Turn(c, todo[j])

(* What other steps put in front is in front. *)
Added == {"others", "hooks", "defaulted", "remove", "clear"}

AddedInFront(todo) ==
    \A i \in DOMAIN todo :
        todo[i] \in Added => i = 1 \/ (i = 2 /\ todo[1] = "context")

(* What depends on the cache of known outputs has it read just before. *)
Informed == {"others", "store", "remove"}

InformedAfterContext(todo) ==
    \A i \in DOMAIN todo : todo[i] \in Informed => i = 1 \/ todo[i - 1] = "context"

Control(c, todo) ==
    /\ todo \in Seq(Steps) /\ Left(todo) \subseteq Uses(c)
    /\ InTurn(c, todo) /\ AddedInFront(todo) /\ InformedAfterContext(todo)

(* No step of the program is left out. *)
Complete(c, todo) ==
    \A x \in Left(todo) \ Anytime, y \in Left(Program(c)) \ Anytime :
        Turn(c, x) <= Turn(c, y) => y \in Left(todo)

(* What is left of two runs of steps. *)
LEMMA LeftOfConcat ==
    ASSUME NEW s \in Seq(Steps), NEW t \in Seq(Steps)
    PROVE  /\ s \o t \in Seq(Steps)
           /\ Left(s \o t) = Left(s) \cup Left(t)
<1>1. s \o t \in Seq(Steps)
  OBVIOUS
<1>2. /\ DOMAIN (s \o t) = 1..(Len(s) + Len(t)) /\ DOMAIN s = 1..Len(s) /\ DOMAIN t = 1..Len(t)
      /\ Len(s) \in Nat /\ Len(t) \in Nat
  OBVIOUS
<1>3. \A i \in DOMAIN (s \o t) :
        (s \o t)[i] = IF i <= Len(s) THEN s[i] ELSE t[i - Len(s)]
  OBVIOUS
<1>4. \A i \in DOMAIN (s \o t) : i \in DOMAIN s \/ i - Len(s) \in DOMAIN t
  BY <1>2
<1>5. Left(s \o t) \subseteq Left(s) \cup Left(t)
  BY <1>2, <1>3, <1>4 DEF Left
<1>6. \A i \in DOMAIN s : i \in DOMAIN (s \o t) /\ (s \o t)[i] = s[i]
  BY <1>2, <1>3
<1>7. \A i \in DOMAIN t : i + Len(s) \in DOMAIN (s \o t) /\ (s \o t)[i + Len(s)] = t[i]
  BY <1>2, <1>3
<1>8. \A x \in Left(s) \cup Left(t) : x \in Left(s \o t)
  BY <1>6, <1>7 DEF Left
<1> QED
  BY <1>1, <1>5, <1>8

(* Two runs of steps in one. *)
LEMMA ControlOfConcat ==
    ASSUME NEW c, NEW s, NEW t, Control(c, s), Control(c, t),
           \A x \in Left(s) \ Anytime, y \in Left(t) \ Anytime : Turn(c, x) < Turn(c, y),
           Left(t) \cap Added = {}, t # <<>> => Head(t) \notin Informed
    PROVE  Control(c, s \o t) /\ Left(s \o t) = Left(s) \cup Left(t)
<1> DEFINE u == s \o t
           n == Len(s)
<1>1. /\ s \in Seq(Steps) /\ t \in Seq(Steps)
      /\ u \in Seq(Steps) /\ Left(u) = Left(s) \cup Left(t)
  BY LeftOfConcat DEF Control
<1>2. /\ DOMAIN u = 1..(n + Len(t)) /\ DOMAIN s = 1..n /\ DOMAIN t = 1..Len(t)
      /\ n \in Nat /\ Len(t) \in Nat
  BY <1>1
<1>3. \A i \in DOMAIN u : u[i] = IF i <= n THEN s[i] ELSE t[i - n]
  BY <1>1
<1>4. Len(t) > 0 => t # <<>> /\ Head(t) = t[1]
  BY <1>1
<1> HIDE DEF u, n
<1>5. InTurn(c, u)
  <2> SUFFICES ASSUME NEW i \in DOMAIN u, NEW j \in DOMAIN u, i < j,
                      u[i] \notin Anytime, u[j] \notin Anytime
               PROVE  Turn(c, u[i]) < Turn(c, u[j])
    BY DEF InTurn
  <2>1. CASE j <= n
    <3>1. i \in DOMAIN s /\ j \in DOMAIN s /\ u[i] = s[i] /\ u[j] = s[j]
      BY <1>2, <1>3, <2>1
    <3> QED
      BY <3>1 DEF Control, InTurn
  <2>2. CASE i > n
    <3>1. /\ i - n \in DOMAIN t /\ j - n \in DOMAIN t /\ i - n < j - n
          /\ u[i] = t[i - n] /\ u[j] = t[j - n]
      BY <1>2, <1>3, <2>2
    <3> QED
      BY <3>1 DEF Control, InTurn
  <2>3. CASE i <= n /\ j > n
    <3>1. i \in DOMAIN s /\ j - n \in DOMAIN t /\ u[i] = s[i] /\ u[j] = t[j - n]
      BY <1>2, <1>3, <2>3
    <3> QED
      BY <3>1 DEF Left
  <2> QED
    BY <1>2, <2>1, <2>2, <2>3
<1>6. AddedInFront(u)
  <2> SUFFICES ASSUME NEW i \in DOMAIN u, u[i] \in Added
               PROVE  i = 1 \/ (i = 2 /\ u[1] = "context")
    BY DEF AddedInFront
  <2>1. i \in DOMAIN s /\ u[i] = s[i]
    <3>1. CASE i > n
      <4>1. i - n \in DOMAIN t /\ u[i] = t[i - n]
        BY <1>2, <1>3, <3>1
      <4> QED
        BY <4>1 DEF Left
    <3> QED
      BY <1>2, <1>3, <3>1
  <2>2. i = 2 => 1 \in DOMAIN u /\ u[1] = s[1]
    BY <1>2, <1>3, <2>1
  <2> QED
    BY <2>1, <2>2 DEF Control, AddedInFront
<1>7. InformedAfterContext(u)
  <2> SUFFICES ASSUME NEW i \in DOMAIN u, u[i] \in Informed, i # 1
               PROVE  u[i - 1] = "context"
    BY DEF InformedAfterContext
  <2>1. CASE i <= n
    <3>1. i \in DOMAIN s /\ u[i] = s[i] /\ u[i - 1] = s[i - 1]
      BY <1>2, <1>3, <2>1
    <3> QED
      BY <3>1 DEF Control, InformedAfterContext
  <2>2. CASE i = n + 1
    <3>1. Len(t) > 0 /\ u[i] = t[1]
      BY <1>2, <1>3, <2>2
    <3> QED
      BY <1>4, <3>1
  <2>3. CASE i > n + 1
    <3>1. /\ i - n \in DOMAIN t /\ i - n # 1 /\ u[i] = t[i - n]
          /\ u[i - 1] = t[i - n - 1]
      BY <1>2, <1>3, <2>3
    <3> QED
      BY <3>1 DEF Control, InformedAfterContext
  <2> QED
    BY <1>2, <2>1, <2>2, <2>3
<1>8. Left(u) \subseteq Uses(c)
  BY <1>1 DEF Control
<1> QED
  BY <1>1, <1>5, <1>6, <1>7, <1>8 DEF Control, u

(* The first step is taken. *)
LEMMA ControlOfTail ==
    ASSUME NEW c, NEW todo, Control(c, todo), todo # <<>>
    PROVE  LET h == Head(todo)
               t == Tail(todo)
           IN  /\ h \in Uses(c) /\ Control(c, t) /\ Left(todo) = {h} \cup Left(t)
               /\ h \notin Anytime => \A x \in Left(t) \ Anytime : Turn(c, h) < Turn(c, x)
               /\ h # "context" => Left(t) \cap Added = {}
               /\ t # <<>> /\ h # "context" => Head(t) \notin Informed
<1> DEFINE h == Head(todo)
           t == Tail(todo)
<1>1. /\ todo \in Seq(Steps) /\ t \in Seq(Steps) /\ Len(todo) \in Nat \ {0}
      /\ DOMAIN todo = 1..Len(todo) /\ DOMAIN t = 1..Len(todo) - 1 /\ h = todo[1]
  BY DEF Control
<1>2. \A i \in DOMAIN t : i + 1 \in DOMAIN todo /\ t[i] = todo[i + 1]
  BY <1>1
<1>3. t # <<>> => 1 \in DOMAIN t /\ Head(t) = t[1]
  BY <1>1
<1>4. \A i \in DOMAIN todo : i = 1 \/ (i - 1 \in DOMAIN t /\ todo[i] = t[i - 1])
  BY <1>1, <1>2
<1>5. 1 \in DOMAIN todo
  BY <1>1
<1> HIDE DEF h, t
<1>6. Left(todo) = {h} \cup Left(t)
  BY <1>1, <1>2, <1>4, <1>5 DEF Left
<1>7. InTurn(c, t)
  <2> SUFFICES ASSUME NEW i \in DOMAIN t, NEW j \in DOMAIN t, i < j,
                      t[i] \notin Anytime, t[j] \notin Anytime
               PROVE  Turn(c, t[i]) < Turn(c, t[j])
    BY DEF InTurn
  <2>1. i + 1 < j + 1
    BY <1>1
  <2> QED
    BY <1>2, <2>1 DEF Control, InTurn
<1>8. AddedInFront(t)
  <2> SUFFICES ASSUME NEW i \in DOMAIN t, t[i] \in Added PROVE i = 1
    BY DEF AddedInFront
  <2>1. i + 1 = 1 \/ i + 1 = 2
    BY <1>2 DEF Control, AddedInFront
  <2> QED
    BY <1>1, <2>1
<1>9. InformedAfterContext(t)
  <2> SUFFICES ASSUME NEW i \in DOMAIN t, t[i] \in Informed, i # 1
               PROVE  t[i - 1] = "context"
    BY DEF InformedAfterContext
  <2>1. i + 1 # 1 /\ (i + 1) - 1 = (i - 1) + 1 /\ i - 1 \in DOMAIN t
    BY <1>1
  <2> QED
    BY <1>2, <2>1 DEF Control, InformedAfterContext
<1>10. h \notin Anytime => \A x \in Left(t) \ Anytime : Turn(c, h) < Turn(c, x)
  <2> SUFFICES ASSUME h \notin Anytime, NEW i \in DOMAIN t, t[i] \notin Anytime
               PROVE  Turn(c, h) < Turn(c, t[i])
    BY DEF Left
  <2>1. 1 < i + 1
    BY <1>1
  <2> QED
    BY <1>1, <1>2, <1>5, <2>1 DEF Control, InTurn
<1>11. h # "context" => Left(t) \cap Added = {}
  <2> SUFFICES ASSUME h # "context", NEW i \in DOMAIN t, t[i] \in Added PROVE FALSE
    BY DEF Left
  <2>1. i + 1 = 1 \/ (i + 1 = 2 /\ todo[1] = "context")
    BY <1>2 DEF Control, AddedInFront
  <2> QED
    BY <1>1, <2>1
<1>12. t # <<>> /\ h # "context" => Head(t) \notin Informed
  <2> SUFFICES ASSUME t # <<>>, h # "context", Head(t) \in Informed PROVE FALSE
    OBVIOUS
  <2>1. 2 \in DOMAIN todo /\ todo[2] \in Informed
    BY <1>2, <1>3
  <2>2. todo[2 - 1] = "context"
    BY <2>1 DEF Control, InformedAfterContext
  <2> QED
    BY <1>1, <2>2
<1>13. h \in Uses(c) /\ Left(t) \subseteq Uses(c)
  BY <1>6 DEF Control
<1> QED
  BY <1>1, <1>6, <1>7, <1>8, <1>9, <1>10, <1>11, <1>12, <1>13 DEF Control, h, t

(* What is left of short runs of steps. *)
LEMMA LeftOfTuples ==
    /\ Left(<<>>) = {}
    /\ \A a : Left(<<a>>) = {a}
    /\ \A a, b : Left(<<a, b>>) = {a, b}
<1>1. \A a, b : DOMAIN <<a, b>> = {1, 2} /\ <<a, b>>[1] = a /\ <<a, b>>[2] = b
  OBVIOUS
<1>2. \A a : DOMAIN <<a>> = {1} /\ <<a>>[1] = a
  OBVIOUS
<1>3. DOMAIN <<>> = {}
  OBVIOUS
<1> QED
  BY <1>1, <1>2, <1>3 DEF Left

(* Turns are numbers. *)
LEMMA TurnType == \A c, s : Turn(c, s) \in Nat
BY DEF Turn

(* What a step may put in front of those that follow it. *)
Continuations(step) ==
    {<<>>}
        \cup {s \in {<<"context", "others">>} : step = "layouts"}
        \cup {s \in {<<"settings">>} : step = "next"}
        \cup {s \in {<<"hooks">>} : step = "validate"}
        \cup {s \in {<<"defaulted">>} : step = "exists"}
        \cup {s \in {<<"context", "remove">>} : step \in {"exists", "defaulted"}}
        \cup {s \in {<<"clear">>} : step = "defaulted"}

(* What a step puts in front is taken right after it. *)
LEMMA ControlOfContinuation ==
    ASSUME NEW c, NEW step \in Uses(c), NEW s \in Continuations(step)
    PROVE  /\ Control(c, s)
           /\ \A x \in Left(s) \ Anytime, y \in Steps \ (Added \cup Anytime) :
                 /\ Turn(c, step) < Turn(c, x)
                 /\ Turn(c, step) < Turn(c, y) => Turn(c, x) < Turn(c, y)
           /\ s # <<>> => step # "context" /\ Head(s) \notin Informed
<1>1. s \in Seq(Steps) /\ Left(s) \subseteq Uses(c)
  <2>1. /\ {"context", "others", "settings", "hooks", "defaulted", "remove", "clear"} \subseteq Steps
        /\ \A a, b \in Steps : <<>> \in Seq(Steps) /\ <<a>> \in Seq(Steps) /\ <<a, b>> \in Seq(Steps)
    BY DEF Steps
  <2>2. CASE s = <<>>
    BY <2>1, <2>2, LeftOfTuples
  <2>3. CASE s = <<"context", "others">>
    BY <2>1, <2>3, LeftOfTuples DEF Continuations, Uses, Steps
  <2>4. CASE s \in {<<"settings">>, <<"hooks">>, <<"defaulted">>, <<"clear">>}
    BY <2>1, <2>4, LeftOfTuples DEF Continuations, Uses, Steps
  <2>5. CASE s = <<"context", "remove">>
    BY <2>1, <2>5, LeftOfTuples DEF Continuations, Uses, Steps
  <2> QED
    BY <2>2, <2>3, <2>4, <2>5 DEF Continuations
<1>2. InTurn(c, s) /\ AddedInFront(s) /\ InformedAfterContext(s)
  BY DEF Continuations, InTurn, AddedInFront, InformedAfterContext, Anytime, Informed, Added
<1>3. s # <<>> => step # "context" /\ Head(s) \notin Informed
  BY DEF Continuations, Informed
<1>4. ASSUME NEW x \in Left(s) \ Anytime, NEW y \in Steps \ (Added \cup Anytime)
      PROVE  /\ Turn(c, step) < Turn(c, x)
             /\ Turn(c, step) < Turn(c, y) => Turn(c, x) < Turn(c, y)
  <2>1. <<step, x>> \in {<<"layouts", "others">>, <<"validate", "hooks">>,
                         <<"exists", "defaulted">>, <<"exists", "remove">>,
                         <<"defaulted", "remove">>, <<"defaulted", "clear">>}
    BY LeftOfTuples DEF Continuations, Anytime
  <2>2. CASE step = "layouts" /\ x = "others"
    BY <2>2 DEF Turn, Steps, Added, Anytime
  <2>3. CASE step = "validate" /\ x = "hooks"
    BY <2>3 DEF Turn, Steps, Added, Anytime
  <2>4. CASE step = "exists" /\ x \in {"defaulted", "remove"}
    BY <2>4 DEF Turn, Steps, Added, Anytime
  <2>5. CASE step = "defaulted" /\ x \in {"remove", "clear"}
    BY <2>5 DEF Turn, Steps, Added, Anytime
  <2> QED
    BY <2>1, <2>2, <2>3, <2>4, <2>5
<1> QED
  BY <1>1, <1>2, <1>3, <1>4 DEF Control

(* A step is taken, and what it puts in front is. *)
LEMMA ControlOfStep ==
    ASSUME NEW c, NEW todo, Control(c, todo), Complete(c, todo), todo # <<>>,
           NEW s \in Continuations(Head(todo))
    PROVE  LET next == s \o Tail(todo)
           IN  /\ Control(c, next) /\ Complete(c, next)
               /\ Left(next) = Left(s) \cup Left(Tail(todo))
               /\ next # <<>> /\ Head(todo) # "context" => Head(next) \notin Informed
<1> DEFINE h == Head(todo)
           t == Tail(todo)
           next == s \o t
<1>1. /\ h \in Uses(c) /\ Control(c, t) /\ Left(todo) = {h} \cup Left(t)
      /\ h \notin Anytime => \A x \in Left(t) \ Anytime : Turn(c, h) < Turn(c, x)
      /\ h # "context" => Left(t) \cap Added = {}
      /\ t # <<>> /\ h # "context" => Head(t) \notin Informed
  BY ControlOfTail
<1> HIDE DEF h, t
<1>2. s \in Continuations(h)
  BY DEF h
<1>3. /\ Control(c, s)
      /\ \A x \in Left(s) \ Anytime, y \in Steps \ (Added \cup Anytime) :
            /\ Turn(c, h) < Turn(c, x)
            /\ Turn(c, h) < Turn(c, y) => Turn(c, x) < Turn(c, y)
      /\ s # <<>> => h # "context" /\ Head(s) \notin Informed
  BY <1>1, <1>2, ControlOfContinuation
<1>4. Left(t) \subseteq Steps /\ Left(s) \subseteq Steps /\ t \in Seq(Steps) /\ s \in Seq(Steps)
  BY <1>1, <1>3 DEF Control, Uses
<1>5. Left(s) \ Anytime # {} => h \notin Anytime /\ s # <<>>
  BY <1>2, LeftOfTuples DEF Continuations, Anytime
<1>6. Control(c, next) /\ Left(next) = Left(s) \cup Left(t)
  <2>1. CASE s = <<>>
    <3>1. next = t
      BY <1>4, <2>1
    <3> QED
      BY <1>1, <2>1, <3>1, LeftOfTuples
  <2>2. CASE s # <<>>
    <3>1. ASSUME NEW x \in Left(s) \ Anytime, NEW y \in Left(t) \ Anytime
          PROVE  Turn(c, x) < Turn(c, y)
      <4>1. h \notin Anytime /\ h # "context"
        BY <1>3, <1>5, <2>2
      <4>2. Turn(c, h) < Turn(c, y) /\ y \in Steps \ (Added \cup Anytime)
        BY <1>1, <1>4, <4>1
      <4> QED
        BY <1>3, <4>2
    <3>2. Left(t) \cap Added = {} /\ (t # <<>> => Head(t) \notin Informed)
      BY <1>1, <1>3, <2>2
    <3>3. Control(c, s) /\ Control(c, t)
      BY <1>1, <1>3
    <3> HIDE DEF next
    <3>4. Control(c, s \o t) /\ Left(s \o t) = Left(s) \cup Left(t)
      BY <3>1, <3>2, <3>3, ControlOfConcat, ZenonT(60)
    <3> QED
      BY <3>4 DEF next
  <2> QED
    BY <2>1, <2>2
<1>7. Complete(c, next)
  <2> SUFFICES ASSUME NEW x \in Left(next) \ Anytime, NEW y \in Left(Program(c)) \ Anytime,
                      Turn(c, x) <= Turn(c, y)
               PROVE  y \in Left(next)
    BY DEF Complete
  <2>1. CASE h \in Anytime
    <3>1. x \in Left(t)
      BY <1>5, <1>6, <2>1
    <3> QED
      BY <1>1, <1>6, <2>1, <3>1 DEF Complete
  <2>2. CASE h \notin Anytime
    <3>1. Turn(c, h) < Turn(c, x)
      <4>1. CASE x \in Left(s)
        <5>1. "report" \in Steps \ (Added \cup Anytime)
          BY DEF Steps, Added, Anytime
        <5> QED
          BY <1>3, <4>1, <5>1
      <4> QED
        BY <1>1, <1>6, <2>2, <4>1
    <3>2. Turn(c, h) <= Turn(c, y) /\ Turn(c, h) # Turn(c, y)
      BY <3>1, TurnType
    <3> QED
      BY <1>1, <1>6, <2>2, <3>2 DEF Complete
  <2> QED
    BY <2>1, <2>2
<1>8. next # <<>> /\ h # "context" => Head(next) \notin Informed
  <2>1. CASE s = <<>>
    <3>1. next = t
      BY <1>4, <2>1
    <3> QED
      BY <1>1, <3>1
  <2>2. CASE s # <<>>
    <3>1. Head(next) = Head(s)
      BY <1>4, <2>2
    <3> QED
      BY <1>3, <2>2, <3>1
  <2> QED
    BY <2>1, <2>2
<1> QED
  BY <1>6, <1>7, <1>8, ZenonT(60) DEF h, t, next
----------------------------------------------------------------------------
(* The programs. *)

(* A run of steps that a command may begin with or go on with, with its    *)
(* steps and the turns they have.                                          *)
Part(c, s, steps, first, last) ==
    /\ Control(c, s) /\ Left(s) = steps /\ steps \cap Added = {}
    /\ \A x \in steps \ Anytime : Turn(c, x) \in first..last
    /\ s # <<>> => Head(s) \notin Informed

(* Parts of a program that follow each other make one part. *)
LEMMA PartsJoined ==
    ASSUME NEW c, NEW s, NEW t, NEW S, NEW T, NEW i \in Nat, NEW j \in Nat, NEW k \in Nat,
           NEW l \in Nat, Part(c, s, S, i, j), Part(c, t, T, k, l), i <= j, j < k, k <= l
    PROVE  Part(c, s \o t, S \cup T, i, l)
<1>1. Control(c, s) /\ Control(c, t) /\ Left(s) = S /\ Left(t) = T
      /\ s \in Seq(Steps) /\ t \in Seq(Steps)
  BY DEF Part, Control
<1>2. ASSUME NEW x \in Left(s) \ Anytime, NEW y \in Left(t) \ Anytime
      PROVE  Turn(c, x) < Turn(c, y)
  <2>1. Turn(c, x) \in i..j /\ Turn(c, y) \in k..l
    BY <1>1 DEF Part
  <2> QED
    BY <2>1
<1>3. Left(t) \cap Added = {} /\ (t # <<>> => Head(t) \notin Informed)
  BY <1>1 DEF Part
<1>4. Control(c, s \o t) /\ Left(s \o t) = S \cup T
  BY <1>1, <1>2, <1>3, ControlOfConcat, ZenonT(60)
<1>5. \A x \in (S \cup T) \ Anytime : Turn(c, x) \in i..l
  <2>1. \A n \in i..j : n \in i..l
    OBVIOUS
  <2>2. \A n \in k..l : n \in i..l
    OBVIOUS
  <2> QED
    BY <2>1, <2>2 DEF Part
<1>6. s \o t # <<>> => Head(s \o t) \notin Informed
  <2>1. CASE s = <<>>
    <3>1. s \o t = t
      BY <1>1, <2>1
    <3> QED
      BY <1>3, <3>1
  <2>2. CASE s # <<>>
    <3>1. Head(s \o t) = Head(s)
      BY <1>1, <2>2
    <3> QED
      BY <2>2, <3>1 DEF Part
  <2> QED
    BY <2>1, <2>2
<1> QED
  BY <1>4, <1>5, <1>6 DEF Part

(* A part of a few steps in turn. *)
LEMMA PartOfFour ==
    ASSUME NEW c, NEW a1 \in Uses(c), NEW a2 \in Uses(c), NEW a3 \in Uses(c), NEW a4 \in Uses(c),
           InTurn(c, <<a1, a2, a3, a4>>), {a1, a2, a3, a4} \cap Added = {},
           a1 \notin Informed, a2 \in Informed => a1 = "context",
           a3 \in Informed => a2 = "context", a4 \in Informed => a3 = "context",
           NEW i, NEW j, \A x \in {a1, a2, a3, a4} \ Anytime : Turn(c, x) \in i..j
    PROVE  Part(c, <<a1, a2, a3, a4>>, {a1, a2, a3, a4}, i, j)
<1> DEFINE s == <<a1, a2, a3, a4>>
<1>1. /\ DOMAIN s = {1, 2, 3, 4} /\ s[1] = a1 /\ s[2] = a2 /\ s[3] = a3 /\ s[4] = a4
      /\ Head(s) = a1
  OBVIOUS
<1>2. s \in Seq(Steps)
  BY DEF Uses
<1> HIDE DEF s
<1>3. Left(s) = {a1, a2, a3, a4}
  BY <1>1 DEF Left
<1>4. InformedAfterContext(s)
  BY <1>1 DEF InformedAfterContext
<1>5. AddedInFront(s)
  BY <1>1 DEF AddedInFront
<1>6. InTurn(c, s)
  BY DEF s
<1>7. Control(c, s)
  BY <1>2, <1>3, <1>4, <1>5, <1>6 DEF Control
<1>8. s # <<>> => Head(s) \notin Informed
  BY <1>1
<1> QED
  BY <1>3, <1>7, <1>8 DEF Part, s

(* A part of three steps. *)
LEMMA PartOfThree ==
    ASSUME NEW c, NEW a1 \in Uses(c), NEW a2 \in Uses(c), NEW a3 \in Uses(c),
           InTurn(c, <<a1, a2, a3>>), {a1, a2, a3} \cap (Added \cup Informed) = {},
           NEW i, NEW j, \A x \in {a1, a2, a3} \ Anytime : Turn(c, x) \in i..j
    PROVE  Part(c, <<a1, a2, a3>>, {a1, a2, a3}, i, j)
<1> DEFINE s == <<a1, a2, a3>>
<1>1. DOMAIN s = {1, 2, 3} /\ s[1] = a1 /\ s[2] = a2 /\ s[3] = a3 /\ Head(s) = a1
  OBVIOUS
<1>2. s \in Seq(Steps)
  BY DEF Uses
<1> HIDE DEF s
<1>3. Left(s) = {a1, a2, a3}
  BY <1>1 DEF Left
<1>4. InformedAfterContext(s) /\ AddedInFront(s)
  BY <1>1 DEF InformedAfterContext, AddedInFront
<1>5. InTurn(c, s)
  BY DEF s
<1>6. Control(c, s)
  BY <1>2, <1>3, <1>4, <1>5 DEF Control
<1>7. s # <<>> => Head(s) \notin Informed
  BY <1>1
<1> QED
  BY <1>3, <1>6, <1>7 DEF Part, s

(* A part of two steps. *)
LEMMA PartOfTwo ==
    ASSUME NEW c, NEW a1 \in Uses(c), NEW a2 \in Uses(c),
           InTurn(c, <<a1, a2>>), {a1, a2} \cap (Added \cup Informed) = {},
           NEW i, NEW j, \A x \in {a1, a2} \ Anytime : Turn(c, x) \in i..j
    PROVE  Part(c, <<a1, a2>>, {a1, a2}, i, j)
<1> DEFINE s == <<a1, a2>>
<1>1. DOMAIN s = {1, 2} /\ s[1] = a1 /\ s[2] = a2 /\ Head(s) = a1
  OBVIOUS
<1>2. s \in Seq(Steps)
  BY DEF Uses
<1> HIDE DEF s
<1>3. Left(s) = {a1, a2}
  BY <1>1 DEF Left
<1>4. InformedAfterContext(s) /\ AddedInFront(s)
  BY <1>1 DEF InformedAfterContext, AddedInFront
<1>5. InTurn(c, s)
  BY DEF s
<1>6. Control(c, s)
  BY <1>2, <1>3, <1>4, <1>5 DEF Control
<1>7. s # <<>> => Head(s) \notin Informed
  BY <1>1
<1> QED
  BY <1>3, <1>6, <1>7 DEF Part, s

(* A part of one step. *)
LEMMA PartOfOne ==
    ASSUME NEW c, NEW a \in Uses(c) \ (Added \cup Informed),
           NEW i, NEW j, a \notin Anytime => Turn(c, a) \in i..j
    PROVE  Part(c, <<a>>, {a}, i, j)
<1> DEFINE s == <<a>>
<1>1. DOMAIN s = {1} /\ s[1] = a /\ Head(s) = a
  OBVIOUS
<1>2. s \in Seq(Steps)
  BY DEF Uses
<1> HIDE DEF s
<1>3. Left(s) = {a}
  BY <1>1 DEF Left
<1>4. InformedAfterContext(s) /\ AddedInFront(s) /\ InTurn(c, s)
  BY <1>1 DEF InformedAfterContext, AddedInFront, InTurn
<1>5. Control(c, s)
  BY <1>2, <1>3, <1>4 DEF Control
<1>6. s # <<>> => Head(s) \notin Informed
  BY <1>1
<1> QED
  BY <1>3, <1>5, <1>6 DEF Part, s

(* A part that depends on a condition. *)
LEMMA PartWhen ==
    ASSUME NEW c, NEW condition \in BOOLEAN, NEW s, NEW S, NEW i, NEW j,
           condition => Part(c, s, S, i, j)
    PROVE  Part(c, When(condition, s), {x \in S : condition}, i, j)
<1>1. CASE condition
  <2>1. {x \in S : condition} = S
    BY <1>1
  <2> QED
    BY <1>1, <2>1 DEF When
<1>2. CASE ~condition
  <2>1. {x \in S : condition} = {} /\ When(condition, s) = <<>> /\ DOMAIN <<>> = {}
    BY <1>2 DEF When
  <2>2. Control(c, <<>>)
    BY <2>1, LeftOfTuples DEF Control, InTurn, AddedInFront, InformedAfterContext
  <2> QED
    BY <2>1, <2>2, LeftOfTuples DEF Part
<1> QED
  BY <1>1, <1>2

(* What every program has. *)
Sound(c, s) ==
    \E S : /\ Part(c, s, S, 1, 20) /\ "report" \in S
           /\ "look" \in Uses(c) => "look" \in S
           /\ "key" \in Uses(c) => "key" \in S
           /\ Applies(c) => {"plan", "validate", "apply", "snapshot", "record"} \subseteq S
           /\ Saves(c) => {"store", "default"} \subseteq S
           /\ Saves(c) /\ ~c.default => "layouts" \in S
           /\ "layout" \in Uses(c) => "layout" \in S

(* What a command line says. *)
LEMMA CommandLineType ==
    ASSUME NEW c \in CommandLines
    PROVE  /\ c.kind \in {"save", "set", "profile", "auto", "remove", "cycle"}
           /\ c.default \in BOOLEAN /\ c.save \in BOOLEAN
           /\ c.name \in Opt(ProfileNames \cup VirtualPresets)
           /\ c.save => c.kind = "set"
BY CommandsAssumption DEF CommandLine

(* The steps that apply a layout. *)
LEMMA ApplyingPart ==
    ASSUME NEW c, Applies(c)
    PROVE  Part(c, Applying, {"plan", "validate", "apply", "snapshot"}, 6, 10)
<1>1. /\ {"plan", "validate", "apply", "snapshot"} \subseteq Uses(c)
      /\ {"plan", "validate", "apply", "snapshot"} \cap (Added \cup Informed \cup Anytime) = {}
  BY DEF Uses, Steps, Added, Informed, Anytime
<1>2. /\ Turn(c, "plan") = 6 /\ Turn(c, "validate") = 7 /\ Turn(c, "apply") = 9
      /\ Turn(c, "snapshot") = 10
  BY DEF Turn
<1>3. InTurn(c, <<"plan", "validate", "apply", "snapshot">>)
  BY <1>2 DEF InTurn
<1>4. \A x \in {"plan", "validate", "apply", "snapshot"} : Turn(c, x) \in 6..10
  BY <1>2
<1> QED
  BY <1>1, <1>3, <1>4, PartOfFour DEF Applying

(* The program of save. *)
LEMMA SaveProgram ==
    ASSUME NEW c \in CommandLines, c.kind = "save"
    PROVE  Sound(c, Program(c))
<1> DEFINE S1 == {"look"}
           S2 == {x \in {"layouts"} : ~c.default}
           S3 == {"context", "store", "default", "report"}
<1>1. c.default \in BOOLEAN /\ c.save = FALSE
  BY CommandLineType
<1>2. Part(c, <<"look">>, S1, 1, 1)
  <2>1. "look" \in Uses(c) \ (Added \cup Informed)
    BY DEF Uses, Steps, Added, Informed
  <2>2. Turn(c, "look") \in 1..1
    BY DEF Turn
  <2> QED
    BY <2>1, <2>2, PartOfOne
<1>3. Part(c, When(~c.default, <<"layouts">>), S2, 2, 2)
  <2>1. ~c.default => Part(c, <<"layouts">>, {"layouts"}, 2, 2)
    <3>1. ~c.default => "layouts" \in Uses(c) \ (Added \cup Informed)
      BY DEF Uses, Steps, Added, Informed, Saves
    <3>2. Turn(c, "layouts") \in 2..2
      BY DEF Turn
    <3> QED
      BY <3>1, <3>2, PartOfOne
  <2> QED
    BY <1>1, <2>1, PartWhen
<1>4. Part(c, <<"context", "store", "default", "report">>, S3, 13, 20)
  <2>1. S3 \subseteq Uses(c) /\ S3 \cap Added = {}
    BY DEF Uses, Steps, Added, Saves
  <2>2. Turn(c, "store") = 13 /\ Turn(c, "default") = 14 /\ Turn(c, "report") = 20
    BY DEF Turn
  <2>3. InTurn(c, <<"context", "store", "default", "report">>)
    BY <2>2 DEF InTurn, Anytime
  <2>4. \A x \in S3 \ Anytime : Turn(c, x) \in 13..20
    BY <2>2 DEF Anytime
  <2> QED
    BY <2>1, <2>3, <2>4, PartOfFour DEF Informed
<1>5. Program(c) = <<"look">> \o When(~c.default, <<"layouts">>)
                      \o <<"context", "store", "default", "report">>
  BY DEF Program
<1> HIDE DEF S1, S2, S3
<1>6. Part(c, <<"look">> \o When(~c.default, <<"layouts">>), S1 \cup S2, 1, 2)
  BY <1>2, <1>3, PartsJoined
<1>7. Part(c, Program(c), (S1 \cup S2) \cup S3, 1, 20)
  BY <1>4, <1>5, <1>6, PartsJoined
<1> QED
  BY <1>1, <1>7 DEF Sound, S1, S2, S3, Uses, Applies

(* The program of set. *)
LEMMA SetProgram ==
    ASSUME NEW c \in CommandLines, c.kind = "set"
    PROVE  Sound(c, Program(c))
<1> DEFINE s1 == When(c.save /\ ~c.default, <<"look", "layouts">>)
           s2 == <<"settings">>
           s4 == When(c.save, <<"key", "context", "store", "default">>)
           s5 == <<"record">>
           s6 == When(c.default /\ ~c.save, <<"key", "layout">>)
           s7 == <<"report">>
           S1 == {x \in {"look", "layouts"} : c.save /\ ~c.default}
           S2 == {"settings"}
           S3 == {"plan", "validate", "apply", "snapshot"}
           S4 == {x \in {"key", "context", "store", "default"} : c.save}
           S5 == {"record"}
           S6 == {x \in {"key", "layout"} : c.default /\ ~c.save}
           S7 == {"report"}
           r  == IF c.save THEN 15 ELSE 11
<1>1. c.default \in BOOLEAN /\ c.save \in BOOLEAN
  BY CommandLineType
<1>2. Part(c, s1, S1, 1, 2)
  <2>1. ASSUME c.save /\ ~c.default
        PROVE  Part(c, <<"look", "layouts">>, {"look", "layouts"}, 1, 2)
    <3>1. {"look", "layouts"} \subseteq Uses(c)
      BY <2>1 DEF Uses, Steps, Saves
    <3>2. {"look", "layouts"} \cap (Added \cup Informed) = {}
      BY DEF Added, Informed
    <3>3. Turn(c, "look") = 1 /\ Turn(c, "layouts") = 2
      BY DEF Turn
    <3>4. InTurn(c, <<"look", "layouts">>)
      BY <3>3 DEF InTurn, Anytime
    <3>5. \A x \in {"look", "layouts"} \ Anytime : Turn(c, x) \in 1..2
      BY <3>3
    <3> QED
      BY <3>1, <3>2, <3>4, <3>5, PartOfTwo
  <2> QED
    BY <1>1, <2>1, PartWhen
<1>3. Part(c, s2, S2, 3, 3)
  BY PartOfOne DEF Uses, Steps, Added, Informed, Anytime
<1>4. Part(c, Applying, S3, 6, 10)
  BY ApplyingPart DEF Applies
<1>5. Part(c, s4, S4, 12, 14)
  <2>1. ASSUME c.save
        PROVE  Part(c, <<"key", "context", "store", "default">>,
                    {"key", "context", "store", "default"}, 12, 14)
    <3>1. /\ {"key", "context", "store", "default"} \subseteq Uses(c)
          /\ {"key", "context", "store", "default"} \cap Added = {}
      BY <2>1 DEF Uses, Steps, Added, Saves
    <3>2. Turn(c, "key") = 12 /\ Turn(c, "store") = 13 /\ Turn(c, "default") = 14
      BY DEF Turn
    <3>3. InTurn(c, <<"key", "context", "store", "default">>)
      BY <3>2 DEF InTurn, Anytime
    <3>4. \A x \in {"key", "context", "store", "default"} \ Anytime : Turn(c, x) \in 12..14
      BY <3>2 DEF Anytime
    <3> QED
      BY <3>1, <3>3, <3>4, PartOfFour DEF Informed
  <2> QED
    BY <1>1, <2>1, PartWhen
<1>6. Part(c, s5, S5, r, r)
  <2>1. "record" \in Uses(c) \ (Added \cup Informed)
    BY DEF Uses, Steps, Added, Informed, Applies
  <2>2. Turn(c, "record") \in r..r
    BY <1>1 DEF Turn
  <2> QED
    BY <2>1, <2>2, PartOfOne
<1>7. Part(c, s6, S6, 12, 14)
  <2>1. ASSUME c.default /\ ~c.save
        PROVE  Part(c, <<"key", "layout">>, {"key", "layout"}, 12, 14)
    <3>1. {"key", "layout"} \subseteq Uses(c)
      BY <2>1 DEF Uses, Steps
    <3>2. {"key", "layout"} \cap (Added \cup Informed) = {}
      BY DEF Added, Informed
    <3>3. Turn(c, "key") = 12 /\ Turn(c, "layout") = 14
      BY DEF Turn
    <3>4. InTurn(c, <<"key", "layout">>)
      BY <3>3 DEF InTurn, Anytime
    <3>5. \A x \in {"key", "layout"} \ Anytime : Turn(c, x) \in 12..14
      BY <3>3
    <3> QED
      BY <3>1, <3>2, <3>4, <3>5, PartOfTwo
  <2> QED
    BY <1>1, <2>1, PartWhen
<1>8. Part(c, s7, S7, 20, 20)
  <2>1. "report" \in Uses(c) \ (Added \cup Informed)
    BY DEF Uses, Steps, Added, Informed
  <2>2. Turn(c, "report") \in 20..20
    BY DEF Turn
  <2> QED
    BY <2>1, <2>2, PartOfOne
<1>9. Program(c) = s1 \o s2 \o Applying \o s4 \o s5 \o s6 \o s7
  BY DEF Program
<1>10. /\ "key" \in Uses(c) => c.save \/ c.default
       /\ "layout" \in Uses(c) => c.default /\ ~c.save
  BY DEF Uses
<1>11. "look" \in Uses(c) => c.save /\ ~c.default
  BY DEF Uses
<1>12. /\ c.save /\ ~c.default => S1 = {"look", "layouts"}
       /\ S3 = {"plan", "validate", "apply", "snapshot"} /\ S5 = {"record"}
       /\ c.save => {"key", "store", "default"} \subseteq S4
       /\ c.default /\ ~c.save => {"key", "layout"} \subseteq S6
       /\ "report" \in S7
  OBVIOUS
<1> HIDE DEF s1, s2, s4, s5, s6, s7, S1, S2, S3, S4, S5, S6, S7
<1>13. Part(c, s1 \o s2 \o Applying, (S1 \cup S2) \cup S3, 1, 10)
  <2>1. Part(c, s1 \o s2, S1 \cup S2, 1, 3)
    BY <1>2, <1>3, PartsJoined
  <2> QED
    BY <1>4, <2>1, PartsJoined
<1>14. CASE c.save
  <2>1. r = 15
    BY <1>14
  <2>2. Part(c, s1 \o s2 \o Applying \o s4, ((S1 \cup S2) \cup S3) \cup S4, 1, 14)
    BY <1>5, <1>13, PartsJoined
  <2>3. Part(c, s1 \o s2 \o Applying \o s4 \o s5, (((S1 \cup S2) \cup S3) \cup S4) \cup S5, 1, 15)
    BY <1>6, <2>1, <2>2, PartsJoined
  <2>4. s6 = <<>> /\ s1 \o s2 \o Applying \o s4 \o s5 \o s6 = s1 \o s2 \o Applying \o s4 \o s5
    <3>1. s6 = <<>>
      BY <1>14 DEF s6, When
    <3>2. s1 \o s2 \o Applying \o s4 \o s5 \in Seq(Steps)
      BY <2>3 DEF Part, Control
    <3> QED
      BY <3>1, <3>2
  <2>5. Part(c, Program(c), ((((S1 \cup S2) \cup S3) \cup S4) \cup S5) \cup S7, 1, 20)
    BY <1>8, <1>9, <2>3, <2>4, PartsJoined
  <2> QED
    BY <1>1, <1>10, <1>11, <1>12, <1>14, <2>5 DEF Sound
<1>15. CASE ~c.save
  <2>1. r = 11
    BY <1>15
  <2>2. s4 = <<>> /\ s1 \o s2 \o Applying \o s4 = s1 \o s2 \o Applying
    <3>1. s4 = <<>>
      BY <1>15 DEF s4, When
    <3>2. s1 \o s2 \o Applying \in Seq(Steps)
      BY <1>13 DEF Part, Control
    <3> QED
      BY <3>1, <3>2
  <2>3. Part(c, s1 \o s2 \o Applying \o s5, ((S1 \cup S2) \cup S3) \cup S5, 1, 11)
    BY <1>6, <1>13, <2>1, PartsJoined
  <2>4. Part(c, s1 \o s2 \o Applying \o s5 \o s6, (((S1 \cup S2) \cup S3) \cup S5) \cup S6, 1, 14)
    BY <1>7, <2>3, PartsJoined
  <2>5. Part(c, Program(c), ((((S1 \cup S2) \cup S3) \cup S5) \cup S6) \cup S7, 1, 20)
    BY <1>8, <1>9, <2>2, <2>4, PartsJoined
  <2> QED
    BY <1>1, <1>10, <1>11, <1>12, <1>15, <2>5 DEF Sound, Saves
<1> QED
  BY <1>1, <1>14, <1>15

(* The program of set --profile. *)
LEMMA ProfileProgram ==
    ASSUME NEW c \in CommandLines, c.kind = "profile"
    PROVE  Sound(c, Program(c))
<1> DEFINE s1 == <<"look", "context", "find">>
           s3 == <<"record">>
           s4 == When(c.default, <<"key", "default">>)
           s5 == <<"report">>
           S1 == {"look", "context", "find"}
           S2 == {"plan", "validate", "apply", "snapshot"}
           S3 == {"record"}
           S4 == {x \in {"key", "default"} : c.default}
           S5 == {"report"}
<1>1. c.default \in BOOLEAN /\ c.save = FALSE
  BY CommandLineType
<1>2. Part(c, s1, S1, 1, 4)
  <2>1. S1 \subseteq Uses(c) /\ S1 \cap (Added \cup Informed) = {}
    BY DEF Uses, Steps, Added, Informed
  <2>2. Turn(c, "look") = 1 /\ Turn(c, "find") = 4
    BY DEF Turn
  <2>3. InTurn(c, s1)
    BY <2>2 DEF InTurn, Anytime
  <2>4. \A x \in S1 \ Anytime : Turn(c, x) \in 1..4
    BY <2>2 DEF Anytime
  <2> QED
    BY <2>1, <2>3, <2>4, PartOfThree
<1>3. Part(c, Applying, S2, 6, 10)
  BY ApplyingPart DEF Applies
<1>4. Part(c, s3, S3, 11, 11)
  <2>1. "record" \in Uses(c) \ (Added \cup Informed)
    BY DEF Uses, Steps, Added, Informed, Applies
  <2>2. Turn(c, "record") \in 11..11
    BY <1>1 DEF Turn
  <2> QED
    BY <2>1, <2>2, PartOfOne
<1>5. Part(c, s4, S4, 12, 14)
  <2>1. ASSUME c.default
        PROVE  Part(c, <<"key", "default">>, {"key", "default"}, 12, 14)
    <3>1. {"key", "default"} \subseteq Uses(c)
      BY <2>1 DEF Uses, Steps
    <3>2. {"key", "default"} \cap (Added \cup Informed) = {}
      BY DEF Added, Informed
    <3>3. Turn(c, "key") = 12 /\ Turn(c, "default") = 14
      BY DEF Turn
    <3>4. InTurn(c, <<"key", "default">>)
      BY <3>3 DEF InTurn, Anytime
    <3>5. \A x \in {"key", "default"} \ Anytime : Turn(c, x) \in 12..14
      BY <3>3
    <3> QED
      BY <3>1, <3>2, <3>4, <3>5, PartOfTwo
  <2> QED
    BY <1>1, <2>1, PartWhen
<1>6. Part(c, s5, S5, 20, 20)
  <2>1. "report" \in Uses(c) \ (Added \cup Informed)
    BY DEF Uses, Steps, Added, Informed
  <2>2. Turn(c, "report") \in 20..20
    BY DEF Turn
  <2> QED
    BY <2>1, <2>2, PartOfOne
<1>7. Program(c) = s1 \o Applying \o s3 \o s4 \o s5
  BY DEF Program
<1>8. ("key" \in Uses(c) => c.default) /\ "layout" \notin Uses(c)
  BY <1>1 DEF Uses
<1>9. /\ "look" \in S1 /\ S2 = {"plan", "validate", "apply", "snapshot"} /\ S3 = {"record"}
      /\ c.default => "key" \in S4
      /\ "report" \in S5
  OBVIOUS
<1> HIDE DEF s1, s3, s4, s5, S1, S2, S3, S4, S5
<1>10. Part(c, s1 \o Applying \o s3, (S1 \cup S2) \cup S3, 1, 11)
  <2>1. Part(c, s1 \o Applying, S1 \cup S2, 1, 10)
    BY <1>2, <1>3, PartsJoined
  <2> QED
    BY <1>4, <2>1, PartsJoined
<1>11. Part(c, s1 \o Applying \o s3 \o s4, ((S1 \cup S2) \cup S3) \cup S4, 1, 14)
  BY <1>5, <1>10, PartsJoined
<1>12. Part(c, Program(c), (((S1 \cup S2) \cup S3) \cup S4) \cup S5, 1, 20)
  BY <1>6, <1>7, <1>11, PartsJoined
<1> QED
  BY <1>1, <1>8, <1>9, <1>12 DEF Sound, Saves

(* set auto and cycle: what to apply is chosen, applied and recorded.      *)
LEMMA ChoosingProgram ==
    ASSUME NEW c \in CommandLines, c.kind \in {"auto", "cycle"}
    PROVE  Sound(c, Program(c))
<1> DEFINE s1 == IF c.kind = "auto" THEN <<"look", "context", "list", "select">>
                 ELSE <<"context", "look", "list", "next">>
           s3 == <<"record", "report">>
           S1 == {"look", "context", "list", IF c.kind = "auto" THEN "select" ELSE "next"}
           S2 == {"plan", "validate", "apply", "snapshot"}
           S3 == {"record", "report"}
<1>1. c.save = FALSE
  BY CommandLineType
<1>2. Part(c, s1, S1, 1, 5)
  <2>1. /\ Turn(c, "look") = 1 /\ Turn(c, "list") = 4 /\ Turn(c, "select") = 5
        /\ Turn(c, "next") = 5
    BY DEF Turn
  <2>2. S1 \cap (Added \cup Informed) = {}
    BY DEF Added, Informed
  <2>3. \A x \in S1 \ Anytime : Turn(c, x) \in 1..5
    BY <2>1 DEF Anytime
  <2>4. CASE c.kind = "auto"
    <3>1. {"look", "context", "list", "select"} \subseteq Uses(c)
      BY <2>4 DEF Uses, Steps
    <3>2. InTurn(c, <<"look", "context", "list", "select">>)
      BY <2>1 DEF InTurn, Anytime
    <3>3. Part(c, <<"look", "context", "list", "select">>, {"look", "context", "list", "select"}, 1, 5)
      BY <2>2, <2>3, <2>4, <3>1, <3>2, PartOfFour
    <3> QED
      BY <2>4, <3>3
  <2>5. CASE c.kind = "cycle"
    <3>1. {"look", "context", "list", "next"} \subseteq Uses(c)
      BY <2>5 DEF Uses, Steps
    <3>2. InTurn(c, <<"context", "look", "list", "next">>)
      BY <2>1 DEF InTurn, Anytime
    <3>3. Part(c, <<"context", "look", "list", "next">>, {"context", "look", "list", "next"}, 1, 5)
      BY <2>2, <2>3, <2>5, <3>1, <3>2, PartOfFour
    <3>4. {"context", "look", "list", "next"} = S1 /\ s1 = <<"context", "look", "list", "next">>
      BY <2>5
    <3> QED
      BY <3>3, <3>4
  <2> QED
    BY <2>4, <2>5
<1>3. Part(c, Applying, S2, 6, 10)
  BY ApplyingPart DEF Applies
<1>4. Part(c, s3, S3, 11, 20)
  <2>1. S3 \subseteq Uses(c) /\ S3 \cap (Added \cup Informed) = {}
    BY DEF Uses, Steps, Added, Informed, Applies
  <2>2. Turn(c, "record") = 11 /\ Turn(c, "report") = 20
    BY <1>1 DEF Turn
  <2>3. InTurn(c, s3)
    BY <2>2 DEF InTurn
  <2>4. \A x \in S3 \ Anytime : Turn(c, x) \in 11..20
    BY <2>2
  <2> QED
    BY <2>1, <2>3, <2>4, PartOfTwo
<1>5. Program(c) = s1 \o Applying \o s3
  BY DEF Program
<1>6. Uses(c) \cap {"key", "layout"} = {}
  BY <1>1 DEF Uses
<1>7. "look" \in S1 /\ S2 = {"plan", "validate", "apply", "snapshot"} /\ S3 = {"record", "report"}
  OBVIOUS
<1> HIDE DEF s1, s3, S1, S2, S3
<1>8. Part(c, s1 \o Applying, S1 \cup S2, 1, 10)
  BY <1>2, <1>3, PartsJoined
<1>9. Part(c, Program(c), (S1 \cup S2) \cup S3, 1, 20)
  BY <1>4, <1>5, <1>8, PartsJoined
<1> QED
  BY <1>1, <1>6, <1>7, <1>9 DEF Sound, Saves

(* The program of remove. *)
LEMMA RemoveProgram ==
    ASSUME NEW c \in CommandLines, c.kind = "remove"
    PROVE  Sound(c, Program(c))
<1> DEFINE S == {"look", "context", "exists", "report"}
<1>1. c.save = FALSE
  BY CommandLineType
<1>2. S \subseteq Uses(c) /\ S \cap (Added \cup Informed) = {}
  BY DEF Uses, Steps, Added, Informed
<1>3. Turn(c, "look") = 1 /\ Turn(c, "exists") = 16 /\ Turn(c, "report") = 20
  BY DEF Turn
<1>4. InTurn(c, <<"look", "context", "exists", "report">>)
  BY <1>3 DEF InTurn, Anytime
<1>5. \A x \in S \ Anytime : Turn(c, x) \in 1..20
  BY <1>3 DEF Anytime
<1>6. Part(c, <<"look", "context", "exists", "report">>, S, 1, 20)
  BY <1>2, <1>4, <1>5, PartOfFour
<1>7. Program(c) = <<"look", "context", "exists", "report">>
  BY DEF Program
<1>8. Uses(c) \cap {"key", "layout"} = {} /\ ~Applies(c) /\ ~Saves(c)
  BY <1>1 DEF Uses, Applies, Saves
<1> QED
  BY <1>6, <1>7, <1>8 DEF Sound

(* Every program has its steps in turn, and all that it needs. *)
LEMMA ProgramControl ==
    ASSUME NEW c \in CommandLines
    PROVE  LET L == Left(Program(c)) IN
           /\ Control(c, Program(c)) /\ Complete(c, Program(c)) /\ L \cap Added = {}
           /\ "report" \in L
           /\ Program(c) # <<>> => Head(Program(c)) \notin Informed
           /\ "look" \in Uses(c) => "look" \in L
           /\ "key" \in Uses(c) => "key" \in L
           /\ Applies(c) => {"plan", "validate", "apply", "snapshot", "record"} \subseteq L
           /\ Saves(c) => {"store", "default"} \subseteq L
           /\ Saves(c) /\ ~c.default => "layouts" \in L
           /\ "layout" \in Uses(c) => "layout" \in L
<1>1. Sound(c, Program(c))
  BY CommandLineType, SaveProgram, SetProgram, ProfileProgram, ChoosingProgram, RemoveProgram
<1>2. Complete(c, Program(c))
  BY DEF Complete
<1> QED
  BY <1>1, <1>2 DEF Sound, Part
----------------------------------------------------------------------------
(* Type correctness.  Inductively: a command has steps left that its       *)
(* program may leave, and holds what its steps need.                       *)

IsTarget(t) ==
    /\ t.kind \in {"none", "layout", "default", "exact", "explicit", "remembered"}
    /\ t.kind \in {"default", "exact", "explicit"} => IsProfile(t.profile)
    /\ t.kind = "layout" => t.preset \in VirtualPresets

HeldFields(r) ==
    [cmd : CommandLines \cup {NoCommand}, todo : Seq(Steps), topo : {r.topo}, key : {r.key},
     known : {r.known}, last : Opt(AppliedNames), settings : {r.settings}, listed : {r.listed},
     name : Opt(AppliedNames), assign : BOOLEAN, target : {r.target}, plan : {r.plan},
     quiet : BOOLEAN]

Held(r) ==
    /\ r \in HeldFields(r)
    /\ IsTopology(r.topo) /\ IsCache(r.known) /\ IsStore(r.settings)
    /\ IsFiniteSet(r.listed) /\ \A q \in r.listed : IsProfile(q)
    /\ IsTarget(r.target) /\ DOMAIN r.plan \subseteq Connectors

Controlled(r) ==
    r.todo # <<>> =>
        /\ r.cmd \in CommandLines /\ Control(r.cmd, r.todo) /\ Complete(r.cmd, r.todo)
        /\ r.cmd.kind = "save" => "look" \in Left(r.todo) \/ r.name \in ProfileNames
        /\ r.cmd.kind # "save" => r.name = r.cmd.name

RunInv == DOMAIN run = Procs /\ \A p \in Procs : Held(run[p]) /\ Controlled(run[p])

StoreInv ==
    /\ IsStore(ps) /\ IsFiniteSet(ps.profiles)
    /\ \A q \in ps.profiles : IsTopology(q.layout) /\ q.rules \in Seq(MatchRule)

SharedInv == IsTopology(hw) /\ Unmirrored(hw) /\ Connected(hw) /\ IsState(st) /\ StoreInv

TypeInv == SharedInv /\ RunInv /\ ran \in 0..MaxCommands /\ epoch \in 0..MaxChanges

(* Nothing is a target too. *)
LEMMA NoTargetType == IsTarget(NoTarget) /\ RecordedName(NoTarget) = NoValue
BY DEF IsTarget, NoTarget, RecordedName

(* A target is recorded under a name or none. *)
LEMMA TargetName == \A t : IsTarget(t) => RecordedName(t) \in Opt(AppliedNames)
BY DEF IsTarget, RecordedName, Opt, AppliedNames, IsProfile

(* The invariant implies the types. *)
LEMMA TypeInvTypeOK == TypeInv => TypeOK
BY TargetName DEF TypeInv, SharedInv, StoreInv, RunInv, Held, HeldFields, TypeOK

(* Nothing has every type. *)
LEMMA EmptyTypes ==
    /\ DOMAIN <<>> = {} /\ IsTopology(<<>>) /\ IsCache(<<>>)
    /\ IsFiniteSet({}) /\ <<>> \in Seq(Steps)
<1>1. DOMAIN <<>> = {} /\ <<>> \in Seq(Steps) /\ <<>> = [x \in {} |-> {}]
  OBVIOUS
<1>2. IsTopology(<<>>) /\ IsCache(<<>>)
  BY <1>1 DEF IsTopology, IsCache
<1> QED
  BY <1>1, <1>2, FS_EmptySet

(* An idle process holds nothing. *)
LEMMA IdleHeld == Held(Idle) /\ Controlled(Idle) /\ Idle.todo = <<>>
<1>1. Idle \in HeldFields(Idle)
  BY EmptyTypes DEF Idle, HeldFields, Opt
<1>2. /\ Idle.topo = <<>> /\ Idle.known = <<>> /\ Idle.settings = EmptyStore /\ Idle.listed = {}
      /\ Idle.target = NoTarget /\ Idle.plan = <<>> /\ Idle.todo = <<>>
  BY DEF Idle
<1> QED
  BY <1>1, <1>2, EmptyTypes, EmptyStoreType, NoTargetType DEF Held, Controlled

(* Taking a step changes nothing that is held but the steps left; being    *)
(* disturbed changes nothing but that the command is alone.                *)
SameHeld(r, s) ==
    /\ r.cmd = s.cmd /\ r.topo = s.topo /\ r.key = s.key /\ r.known = s.known
    /\ r.last = s.last /\ r.settings = s.settings /\ r.listed = s.listed /\ r.name = s.name
    /\ r.assign = s.assign /\ r.target = s.target /\ r.plan = s.plan

(* Other steps left, and all else as before. *)
LEMMA TodoHeld ==
    ASSUME NEW r, Held(r), NEW todo \in Seq(Steps)
    PROVE  LET m == [r EXCEPT !.todo = todo]
           IN  Held(m) /\ SameHeld(m, r) /\ m.todo = todo /\ m.quiet = r.quiet
<1> DEFINE m == [r EXCEPT !.todo = todo]
<1>1. r \in HeldFields(r)
  BY DEF Held
<1>2. SameHeld(m, r) /\ m.todo = todo /\ m.quiet = r.quiet
  BY <1>1 DEF SameHeld, HeldFields
<1>3. m \in HeldFields(r)
  BY <1>1 DEF HeldFields
<1> HIDE DEF m
<1>4. m \in HeldFields(m)
  BY <1>2, <1>3 DEF SameHeld, HeldFields
<1> QED
  BY <1>2, <1>4 DEF Held, SameHeld, m

(* No longer alone, and all else as before. *)
LEMMA DisturbedHeld ==
    ASSUME NEW r, Held(r), Controlled(r)
    PROVE  LET m == [r EXCEPT !.quiet = FALSE]
           IN  Held(m) /\ Controlled(m) /\ SameHeld(m, r) /\ m.todo = r.todo /\ m.quiet = FALSE
<1> DEFINE m == [r EXCEPT !.quiet = FALSE]
<1>1. r \in HeldFields(r)
  BY DEF Held
<1>2. SameHeld(m, r) /\ m.todo = r.todo /\ m.quiet = FALSE
  BY <1>1 DEF SameHeld, HeldFields
<1>3. m \in HeldFields(r)
  BY <1>1 DEF HeldFields
<1> HIDE DEF m
<1>4. m \in HeldFields(m)
  BY <1>2, <1>3 DEF SameHeld, HeldFields
<1>5. Controlled(m)
  BY <1>2 DEF Controlled, SameHeld
<1> QED
  BY <1>2, <1>4, <1>5 DEF Held, SameHeld, m

(* A process that takes a step, holding r. *)
Moves(p, steps, r) ==
    /\ run[p].todo # <<>> /\ Held(r) /\ r.cmd = run[p].cmd /\ r.todo = run[p].todo
    /\ r.quiet = run[p].quiet /\ steps \in Continuations(Head(run[p].todo))
    /\ \/ r.name = run[p].name /\ ~(At(p, "look") /\ r.cmd.kind = "save")
       \/ At(p, "look") /\ r.cmd.kind = "save" /\ r.name \in ProfileNames
    /\ GoVia(p, steps, r) \/ (steps = <<>> /\ GoChanging(p, r))

(* What a process holds that has a step left. *)
LEMMA NowHeld ==
    ASSUME RunInv, NEW p \in Procs, run[p].todo # <<>>
    PROVE  /\ Held(run[p]) /\ Controlled(run[p]) /\ run[p] \in HeldFields(run[p])
           /\ run[p].cmd \in CommandLines /\ run[p].todo \in Seq(Steps)
           /\ Control(run[p].cmd, run[p].todo) /\ Complete(run[p].cmd, run[p].todo)
           /\ Head(run[p].todo) \in Uses(run[p].cmd)
           /\ <<>> \in Continuations(Head(run[p].todo))
<1>1. Held(run[p]) /\ Controlled(run[p]) /\ run[p] \in HeldFields(run[p])
  BY DEF RunInv, Held
<1>2. /\ run[p].cmd \in CommandLines /\ Control(run[p].cmd, run[p].todo)
      /\ Complete(run[p].cmd, run[p].todo)
  BY <1>1 DEF Controlled
<1>3. Head(run[p].todo) \in Uses(run[p].cmd)
  BY <1>2, ControlOfTail
<1>4. run[p].todo \in Seq(Steps) /\ <<>> \in Continuations(Head(run[p].todo))
  BY <1>2 DEF Control, Continuations
<1> QED
  BY <1>1, <1>2, <1>3, <1>4

(* A process that takes a step is well afterwards, and so are the others.  *)
LEMMA MovesRun ==
    ASSUME RunInv, NEW p \in Procs, NEW steps, NEW r, Moves(p, steps, r)
    PROVE  /\ RunInv'
           /\ run'[p].todo = steps \o Tail(run[p].todo) /\ SameHeld(run'[p], r)
           /\ run'[p].quiet = run[p].quiet
           /\ \A q \in Procs \ {p} : (GoVia(p, steps, r) /\ run'[q] = run[q]) \/ ~run'[q].quiet
<1> DEFINE c == run[p].cmd
           todo == run[p].todo
           next == steps \o Tail(todo)
           m == [r EXCEPT !.todo = next]
<1>1. /\ todo # <<>> /\ Held(r) /\ r.cmd = c /\ r.todo = todo /\ r.quiet = run[p].quiet
      /\ steps \in Continuations(Head(todo))
  BY DEF Moves
<1>2. /\ c \in CommandLines /\ todo \in Seq(Steps) /\ Control(c, todo) /\ Complete(c, todo)
      /\ Controlled(run[p])
  BY <1>1, NowHeld
<1>3. Control(c, next) /\ Complete(c, next) /\ Left(next) = Left(steps) \cup Left(Tail(todo))
  BY <1>1, <1>2, ControlOfStep
<1>4. next \in Seq(Steps)
  BY <1>3 DEF Control
<1> HIDE DEF next
<1>5. Held(m) /\ SameHeld(m, r) /\ m.todo = next /\ m.quiet = r.quiet
  BY <1>1, <1>4, TodoHeld
<1>6. r.todo \in Seq(Steps) /\ r \in HeldFields(r)
  BY <1>1 DEF Held, HeldFields
<1>7. /\ DOMAIN run = Procs
      /\ \A q \in Procs : Held(run[q]) /\ Controlled(run[q])
  BY DEF RunInv
<1>10. /\ DOMAIN run' = Procs /\ run'[p] = m
       /\ \A q \in Procs \ {p} : \/ GoVia(p, steps, r) /\ run'[q] = run[q]
                               \/ run'[q] = [run[q] EXCEPT !.quiet = FALSE]
  <2>1. CASE GoVia(p, steps, r)
    <3>1. run' = [run EXCEPT ![p] = [r EXCEPT !.todo = steps \o Tail(r.todo)]]
      BY <2>1 DEF GoVia
    <3>2. run' = [run EXCEPT ![p] = m]
      BY <1>1, <3>1 DEF next
    <3> HIDE DEF m
    <3> QED
      BY <1>7, <2>1, <3>2
  <2>2. CASE steps = <<>> /\ GoChanging(p, r)
    <3>1. next = Tail(todo)
      BY <1>2, <2>2 DEF next
    <3>2. run' = [q \in Procs |-> IF q = p THEN [r EXCEPT !.todo = Tail(r.todo)]
                                 ELSE [run[q] EXCEPT !.quiet = FALSE]]
      BY <2>2 DEF GoChanging, Changing
    <3>3. run' = [q \in Procs |-> IF q = p THEN m ELSE [run[q] EXCEPT !.quiet = FALSE]]
      BY <1>1, <3>1, <3>2
    <3> HIDE DEF m
    <3> QED
      BY <3>3
  <2> QED
    BY <2>1, <2>2 DEF Moves
<1>11. Controlled(m)
  <2>1. /\ m.cmd = c /\ m.name = r.name
        /\ c.kind = "save" => "look" \in Left(todo) \/ run[p].name \in ProfileNames
        /\ c.kind # "save" => run[p].name = c.name
    BY <1>1, <1>2, <1>5 DEF SameHeld, Controlled
  <2>2. Left(todo) = {Head(todo)} \cup Left(Tail(todo))
    BY <1>1, <1>2, ControlOfTail
  <2>3. CASE At(p, "look") /\ c.kind = "save" /\ r.name \in ProfileNames
    BY <1>2, <1>3, <1>5, <2>1, <2>3 DEF Controlled
  <2>4. CASE r.name = run[p].name /\ ~(At(p, "look") /\ c.kind = "save")
    <3>1. c.kind = "save" => Head(todo) # "look"
      BY <1>1, <2>4 DEF At
    <3> QED
      BY <1>2, <1>3, <1>5, <2>1, <2>2, <2>4, <3>1 DEF Controlled
  <2> QED
    BY <1>1, <2>3, <2>4 DEF Moves
<1> HIDE DEF m
<1>12. ASSUME NEW q \in Procs \ {p}
       PROVE  /\ Held(run'[q]) /\ Controlled(run'[q])
              /\ (GoVia(p, steps, r) /\ run'[q] = run[q]) \/ ~run'[q].quiet
  <2>1. Held(run[q]) /\ Controlled(run[q])
    BY <1>7
  <2>2. CASE GoVia(p, steps, r) /\ run'[q] = run[q]
    BY <2>1, <2>2
  <2>3. CASE run'[q] = [run[q] EXCEPT !.quiet = FALSE]
    BY <2>1, <2>3, DisturbedHeld
  <2> QED
    BY <1>10, <2>2, <2>3
<1>13. RunInv'
  <2>1. ASSUME NEW q \in Procs PROVE Held(run'[q]) /\ Controlled(run'[q])
    BY <1>5, <1>10, <1>11, <1>12
  <2> QED
    BY <1>10, <2>1 DEF RunInv
<1> QED
  BY <1>1, <1>5, <1>10, <1>12, <1>13 DEF next
----------------------------------------------------------------------------
(* What each step leaves the process with.                                 *)

(* The displays as they are seen. *)
LEMMA SeenType ==
    ASSUME SharedInv
    PROVE  /\ IsTopology(Seen) /\ DOMAIN Seen = DOMAIN hw /\ DOMAIN Seen \subseteq Connectors
           /\ IsCache(st.known) /\ st.last \in Opt(AppliedNames)
<1>1. /\ DOMAIN st.known \subseteq Connectors /\ st.known \in [DOMAIN st.known -> OutputIdentity]
      /\ st.last \in Opt(AppliedNames)
  BY DEF SharedInv, IsState
<1>2. IsTopology(hw)
  BY DEF SharedInv
<1>3. IsTopology(Seen) /\ DOMAIN Seen = DOMAIN hw
  BY <1>1, <1>2, NormalizeKeepsLayout DEF Seen
<1> QED
  BY <1>1, <1>3 DEF IsTopology, IsCache

(* A store read for its settings. *)
LEMMA SettingsType ==
    ASSUME NEW s, IsStore(s)
    PROVE  IsStore([s EXCEPT !.profiles = {}])
<1> DEFINE m == [s EXCEPT !.profiles = {}]
<1>1. /\ m.profiles = {} /\ m.defaults = s.defaults /\ m.layouts = s.layouts
      /\ m.builtin = s.builtin
      /\ m \in [profiles : {{}}, defaults : {s.defaults}, layouts : {s.layouts},
                builtin : {s.builtin}]
  BY DEF IsStore
<1> HIDE DEF m
<1> QED
  BY <1>1 DEF IsStore, m

(* A step need not put others in front. *)
LEMMA NoContinuation == \A p : <<>> \in Continuations(Head(run[p].todo))
BY DEF Continuations

(* The name a profile is saved under. *)
LEMMA SavedName ==
    ASSUME NEW c \in CommandLines, c.kind = "save", NEW t, NEW name \in SavedNames(c, t)
    PROVE  name \in ProfileNames
<1>1. /\ c.name \in Opt(ProfileNames)
      /\ {"default", "custom", "horizontal", "vertical", "mirror"} \subseteq ProfileNames
  BY CommandsAssumption
<1>2. ASSUME NEW preset \in DetectedPresets(t)
      PROVE  preset \in {"horizontal", "vertical", "mirror", NoValue}
  BY DEF DetectedPresets, DetectedPreset
<1> QED
  BY <1>1, <1>2 DEF SavedNames, Opt

(* Looking and reading are steps of this kind. *)
LEMMA ReadMoves ==
    ASSUME TypeInv, NEW p \in Procs
    PROVE  /\ Look(p) => \E name :
                Moves(p, <<>>, [run[p] EXCEPT !.topo = Seen, !.key = SetupFingerprint(Seen),
                                              !.name = name])
           /\ ReadContext(p) =>
                Moves(p, <<>>, [run[p] EXCEPT !.known = st.known, !.last = st.last])
           /\ ReadSettings(p) =>
                Moves(p, <<>>, [run[p] EXCEPT !.settings = [ps EXCEPT !.profiles = {}]])
           /\ ReadLayouts(p) =>
                Moves(p, When(run[p].key \notin DOMAIN ps.layouts, <<"context", "others">>),
                      run[p])
           /\ ReadOthers(p) => \E order \in IterationOrders :
                LET all == ProfilesForSetup(ps, run[p].key, run[p].known, order)
                IN  Moves(p, <<>>, [run[p] EXCEPT !.assign = \A q \in all : q.name = run[p].name])
           /\ ReadKey(p) =>
                Moves(p, <<>>, [run[p] EXCEPT !.key =
                    SetupFingerprint(NormalizeTopology(run[p].topo, st.known))])
           /\ ProfileExists(p) \/ LayoutDefaulted(p) => \E steps : Moves(p, steps, run[p])
<1> DEFINE now == run[p]
<1>1. SharedInv /\ RunInv
  BY DEF TypeInv
<1>2. ASSUME now.todo # <<>>
      PROVE  /\ Held(now) /\ now \in HeldFields(now) /\ now.cmd \in CommandLines
             /\ now.name \in Opt(AppliedNames)
    <2>1. Held(now) /\ now \in HeldFields(now) /\ now.cmd \in CommandLines
      BY <1>1, <1>2, NowHeld
    <2> QED
      BY <2>1 DEF HeldFields
<1>3. \A s : At(p, s) => now.todo # <<>> /\ Head(now.todo) = s
  BY DEF At
<1>4. ASSUME Look(p)
      PROVE  \E name : Moves(p, <<>>, [now EXCEPT !.topo = Seen, !.key = SetupFingerprint(Seen),
                                                  !.name = name])
  <2>1. At(p, "look") /\ now.todo # <<>>
    BY <1>3, <1>4 DEF Look
  <2>2. PICK name \in IF now.cmd.kind = "save" THEN SavedNames(now.cmd, Seen) ELSE {now.name} :
          Go(p, [now EXCEPT !.topo = Seen, !.key = SetupFingerprint(Seen), !.name = name])
    BY <1>4 DEF Look
  <2> DEFINE r == [now EXCEPT !.topo = Seen, !.key = SetupFingerprint(Seen), !.name = name]
  <2>3. Held(now) /\ now \in HeldFields(now) /\ now.cmd \in CommandLines
    BY <1>2, <2>1
  <2>4. now.cmd.kind = "save" => name \in ProfileNames
    BY <2>2, <2>3, SavedName
  <2>5. now.cmd.kind # "save" => name = now.name
    BY <2>2
  <2>6. name \in Opt(AppliedNames)
    BY <1>2, <2>1, <2>4, <2>5 DEF Opt, AppliedNames
  <2> HIDE DEF Seen
  <2>7. /\ r.cmd = now.cmd /\ r.todo = now.todo /\ r.topo = Seen
        /\ r.known = now.known /\ r.settings = now.settings /\ r.listed = now.listed
        /\ r.name = name /\ r.target = now.target /\ r.plan = now.plan /\ r.quiet = now.quiet
        /\ r \in HeldFields(r)
    BY <2>3, <2>6 DEF HeldFields
  <2> HIDE DEF r
  <2>8. Held(r)
    BY <1>1, <2>3, <2>7, SeenType DEF Held
  <2>9. Moves(p, <<>>, r)
    BY <2>1, <2>2, <2>4, <2>5, <2>7, <2>8, NoContinuation DEF Moves, Go, r
  <2> QED
    BY <2>9 DEF r
<1>5. ASSUME ReadContext(p)
      PROVE  Moves(p, <<>>, [now EXCEPT !.known = st.known, !.last = st.last])
  <2> DEFINE r == [now EXCEPT !.known = st.known, !.last = st.last]
  <2>1. now.todo # <<>> /\ Head(now.todo) = "context" /\ Go(p, r)
    BY <1>3, <1>5 DEF ReadContext
  <2>2. Held(now) /\ now \in HeldFields(now)
    BY <1>2, <2>1
  <2>3. IsCache(st.known) /\ st.last \in Opt(AppliedNames)
    BY <1>1, SeenType
  <2>4. /\ r.cmd = now.cmd /\ r.todo = now.todo /\ r.topo = now.topo
        /\ r.known = st.known /\ r.settings = now.settings /\ r.listed = now.listed
        /\ r.name = now.name /\ r.target = now.target /\ r.plan = now.plan /\ r.quiet = now.quiet
        /\ r \in HeldFields(r)
    BY <2>2, <2>3 DEF HeldFields
  <2> HIDE DEF r
  <2>5. Held(r)
    BY <2>2, <2>3, <2>4 DEF Held
  <2>6. Moves(p, <<>>, r)
    BY <2>1, <2>4, <2>5, NoContinuation DEF Moves, Go, At
  <2> QED
    BY <2>6 DEF r
<1>6. ASSUME ReadSettings(p)
      PROVE  Moves(p, <<>>, [now EXCEPT !.settings = [ps EXCEPT !.profiles = {}]])
  <2> DEFINE s == [ps EXCEPT !.profiles = {}]
             r == [now EXCEPT !.settings = s]
  <2>1. now.todo # <<>> /\ Head(now.todo) = "settings" /\ Go(p, r)
    BY <1>3, <1>6 DEF ReadSettings
  <2>2. Held(now) /\ now \in HeldFields(now)
    BY <1>2, <2>1
  <2>3. IsStore(s)
    BY <1>1, SettingsType DEF SharedInv, StoreInv
  <2> HIDE DEF s
  <2>4. /\ r.cmd = now.cmd /\ r.todo = now.todo /\ r.topo = now.topo
        /\ r.known = now.known /\ r.settings = s /\ r.listed = now.listed
        /\ r.name = now.name /\ r.target = now.target /\ r.plan = now.plan /\ r.quiet = now.quiet
        /\ r \in HeldFields(r)
    BY <2>2 DEF HeldFields
  <2> HIDE DEF r
  <2>5. Held(r)
    BY <2>2, <2>3, <2>4 DEF Held
  <2>6. Moves(p, <<>>, r)
    BY <2>1, <2>4, <2>5, NoContinuation DEF Moves, Go, At
  <2> QED
    BY <2>6 DEF r, s
<1>7. ASSUME ReadLayouts(p)
      PROVE  Moves(p, When(now.key \notin DOMAIN ps.layouts, <<"context", "others">>), now)
  <2> DEFINE steps == When(now.key \notin DOMAIN ps.layouts, <<"context", "others">>)
  <2>1. now.todo # <<>> /\ Head(now.todo) = "layouts" /\ GoVia(p, steps, now)
    BY <1>3, <1>7 DEF ReadLayouts
  <2>2. steps \in Continuations("layouts")
    BY DEF When, Continuations
  <2>3. Held(now)
    BY <1>2, <2>1
  <2> HIDE DEF steps
  <2>4. Moves(p, steps, now)
    BY <2>1, <2>2, <2>3 DEF Moves, At
  <2> QED
    BY <2>4 DEF steps
<1>8. ASSUME ReadOthers(p)
      PROVE  \E order \in IterationOrders :
                LET all == ProfilesForSetup(ps, now.key, now.known, order)
                IN  Moves(p, <<>>, [now EXCEPT !.assign = \A q \in all : q.name = now.name])
  <2>1. PICK order \in IterationOrders :
            LET all == ProfilesForSetup(ps, now.key, now.known, order)
            IN  Go(p, [now EXCEPT !.assign = \A q \in all : q.name = now.name])
    BY <1>8 DEF ReadOthers
  <2> DEFINE all == ProfilesForSetup(ps, now.key, now.known, order)
             only == \A q \in all : q.name = now.name
             r == [now EXCEPT !.assign = only]
  <2>2. now.todo # <<>> /\ Head(now.todo) = "others" /\ Go(p, r)
    BY <1>3, <1>8, <2>1 DEF ReadOthers
  <2>3. Held(now) /\ now \in HeldFields(now)
    BY <1>2, <2>2
  <2>4. only \in BOOLEAN
    OBVIOUS
  <2> HIDE DEF only
  <2>5. /\ r.cmd = now.cmd /\ r.todo = now.todo /\ r.topo = now.topo
        /\ r.known = now.known /\ r.settings = now.settings /\ r.listed = now.listed
        /\ r.name = now.name /\ r.target = now.target /\ r.plan = now.plan /\ r.quiet = now.quiet
        /\ r \in HeldFields(r)
    BY <2>3, <2>4 DEF HeldFields
  <2> HIDE DEF r
  <2>6. Held(r)
    BY <2>3, <2>5 DEF Held
  <2>7. Moves(p, <<>>, r)
    BY <2>2, <2>5, <2>6, NoContinuation DEF Moves, Go, At
  <2> QED
    BY <2>7 DEF r, only
<1>9. ASSUME ReadKey(p)
      PROVE  Moves(p, <<>>, [now EXCEPT !.key =
                    SetupFingerprint(NormalizeTopology(now.topo, st.known))])
  <2> DEFINE key == SetupFingerprint(NormalizeTopology(now.topo, st.known))
             r == [now EXCEPT !.key = key]
  <2>1. now.todo # <<>> /\ Head(now.todo) = "key" /\ Go(p, r)
    BY <1>3, <1>9 DEF ReadKey
  <2>2. Held(now) /\ now \in HeldFields(now)
    BY <1>2, <2>1
  <2> HIDE DEF key
  <2>3. /\ r.cmd = now.cmd /\ r.todo = now.todo /\ r.topo = now.topo
        /\ r.known = now.known /\ r.settings = now.settings /\ r.listed = now.listed
        /\ r.name = now.name /\ r.target = now.target /\ r.plan = now.plan /\ r.quiet = now.quiet
        /\ r \in HeldFields(r)
    BY <2>2 DEF HeldFields
  <2> HIDE DEF r
  <2>4. Held(r)
    BY <2>2, <2>3 DEF Held
  <2>5. Moves(p, <<>>, r)
    BY <2>1, <2>3, <2>4, NoContinuation DEF Moves, Go, At
  <2> QED
    BY <2>5 DEF r, key
<1>10. ASSUME ProfileExists(p) \/ LayoutDefaulted(p)
       PROVE  \E steps : Moves(p, steps, now)
  <2>1. \E steps \in Continuations(Head(now.todo)) :
          now.todo # <<>> /\ Head(now.todo) # "look" /\ GoVia(p, steps, now)
    <3>1. CASE ProfileExists(p)
      BY <1>3, <3>1 DEF ProfileExists, Continuations
    <3>2. CASE LayoutDefaulted(p)
      BY <1>3, <3>2 DEF LayoutDefaulted, Continuations
    <3> QED
      BY <1>10, <3>1, <3>2
  <2>2. Held(now)
    BY <1>2, <2>1
  <2> QED
    BY <2>1, <2>2 DEF Moves, At
<1> QED
  BY <1>4, <1>5, <1>6, <1>7, <1>8, <1>9, <1>10
----------------------------------------------------------------------------
(* Choosing what to apply. *)

(* A set that is not empty has a first place. *)
LEMMA FirstPlace ==
    ASSUME NEW n \in Nat, NEW S \in SUBSET (1..n), S # {}
    PROVE  FirstOf(S) \in S
BY FirstOfPlaces, Zenon DEF FirstOf

(* The place after the last target is one of the targets. *)
LEMMA NextIndexType ==
    ASSUME NEW targets, NEW n \in Nat, n > 0, DOMAIN targets = 1..n, Len(targets) = n, NEW last
    PROVE  NextIndex(targets, last) \in DOMAIN targets
<1> DEFINE at == Positions(targets, last)
<1>1. at \in SUBSET (1..n)
  BY DEF Positions
<1>2. CASE at = {}
  BY <1>2 DEF NextIndex
<1>3. CASE at # {}
  <2> HIDE DEF at
  <2>1. FirstOf(at) \in 1..n
    BY <1>1, <1>3, FirstPlace
  <2>2. (FirstOf(at) % n) + 1 \in 1..n
    BY <2>1
  <2> QED
    BY <1>3, <2>2 DEF NextIndex, at
<1> QED
  BY <1>2, <1>3

(* There is always something to cycle to. *)
LEMMA CycleTargetsType ==
    ASSUME NEW profiles, IsFiniteSet(profiles), \A q \in profiles : IsProfile(q),
           NEW listing \in Listings(profiles), NEW last
    PROVE  LET targets == CycleTargets(listing, profiles)
               target == targets[NextIndex(targets, last)]
           IN  /\ IsTarget(target)
               /\ target.kind \in {"explicit", "layout"}
<1> DEFINE n == Cardinality(profiles)
           presets == CyclePresets(profiles)
           a == [i \in DOMAIN listing |-> ProfileTarget("explicit", listing[i])]
           b == [i \in DOMAIN presets |-> LayoutTarget(presets[i])]
           S == {ProfileTarget("explicit", q) : q \in profiles}
                    \cup {LayoutTarget(x) : x \in VirtualPresets}
<1>1. n \in Nat /\ listing \in [1..n -> profiles]
  BY FS_CardinalityType DEF Listings
<1>2. a \in Seq(S) /\ Len(a) = n
  <2>1. a \in [1..n -> S]
    BY <1>1
  <2> HIDE DEF a, S
  <2> QED
    BY <1>1, <2>1
<1>3. /\ presets \in Seq(VirtualPresets) /\ Len(presets) \in Nat
      /\ profiles = {} => Len(presets) > 0
  <2> DEFINE free(preset) == When(\A q \in profiles : q.name # preset, <<preset>>)
  <2>1. free("horizontal") \in Seq(VirtualPresets) /\ free("vertical") \in Seq(VirtualPresets)
    <3>1. \A x \in VirtualPresets : <<x>> \in Seq(VirtualPresets) /\ <<>> \in Seq(VirtualPresets)
      OBVIOUS
    <3>2. "horizontal" \in VirtualPresets /\ "vertical" \in VirtualPresets
      BY DEF VirtualPresets
    <3> QED
      BY <3>1, <3>2 DEF When
  <2>2. profiles = {} => Len(free("horizontal")) = 1
    BY DEF When
  <2>3. presets = free("horizontal") \o free("vertical")
    BY DEF CyclePresets
  <2> HIDE DEF free, presets
  <2> QED
    BY <2>1, <2>2, <2>3
<1>4. b \in Seq(S) /\ Len(b) = Len(presets)
  <2>1. presets \in [1..Len(presets) -> VirtualPresets]
    BY <1>3
  <2>2. b \in [1..Len(presets) -> S]
    BY <2>1
  <2> HIDE DEF b, S, presets
  <2> QED
    BY <1>3, <2>2
<1>5. n > 0 \/ Len(presets) > 0
  BY <1>1, <1>3, FS_EmptySet
<1> DEFINE targets == a \o b
<1>6. CycleTargets(listing, profiles) = targets
  BY DEF CycleTargets
<1> HIDE DEF a, b, presets, n, S
<1>7. targets \in Seq(S) /\ Len(targets) = n + Len(presets) /\ DOMAIN targets = 1..Len(targets)
  BY <1>2, <1>4
<1>8. Len(targets) \in Nat /\ Len(targets) > 0
  BY <1>1, <1>3, <1>5, <1>7
<1> HIDE DEF targets
<1>9. targets[NextIndex(targets, last)] \in S
  <2>1. NextIndex(targets, last) \in DOMAIN targets
    BY <1>7, <1>8, NextIndexType
  <2> QED
    BY <1>7, <2>1
<1>10. \A x \in S : IsTarget(x) /\ x.kind \in {"explicit", "layout"}
  BY DEF S, IsTarget, ProfileTarget, LayoutTarget
<1> QED
  BY <1>6, <1>9, <1>10

(* Canonical profiles are finitely many. *)
LEMMA FiniteCanonical ==
    ASSUME NEW S, IsFiniteSet(S), NEW known, NEW order
    PROVE  IsFiniteSet({CanonicalizeProfile(q, known, order) : q \in S})
<1> DEFINE T == {CanonicalizeProfile(q, known, order) : q \in S}
           f == [q \in S |-> CanonicalizeProfile(q, known, order)]
<1>1. f \in Surjection(S, T)
  BY DEF Surjection
<1> HIDE DEF f, T
<1>2. IsFiniteSet(T)
  BY <1>1, FS_Surjection
<1> QED
  BY <1>2 DEF T

(* A process may hold any target. *)
LEMMA TargetHeld ==
    ASSUME NEW now, Held(now), NEW target, IsTarget(target)
    PROVE  LET r == [now EXCEPT !.target = target] IN
           /\ Held(r) /\ r.cmd = now.cmd /\ r.todo = now.todo /\ r.name = now.name
           /\ r.quiet = now.quiet
<1> DEFINE r == [now EXCEPT !.target = target]
<1>1. now \in HeldFields(now)
  BY DEF Held
<1>2. /\ r.cmd = now.cmd /\ r.todo = now.todo /\ r.topo = now.topo
      /\ r.known = now.known /\ r.settings = now.settings /\ r.listed = now.listed
      /\ r.name = now.name /\ r.target = target /\ r.plan = now.plan /\ r.quiet = now.quiet
      /\ r \in HeldFields(r)
  BY <1>1 DEF HeldFields
<1> HIDE DEF r
<1>3. Held(r)
  BY <1>2 DEF Held
<1> QED
  BY <1>2, <1>3 DEF r

(* Choosing a target is a step of this kind. *)
LEMMA ChooseMoves ==
    ASSUME TypeInv, NEW p \in Procs, ChooseStep(p)
    PROVE  \E steps, target, listed, settings :
               Moves(p, steps, [run[p] EXCEPT !.target = target, !.listed = listed,
                                              !.settings = settings])
<1> DEFINE now == run[p]
<1>1. SharedInv /\ RunInv
  BY DEF TypeInv
<1>2. /\ now.todo # <<>> /\ Head(now.todo) # "look"
      /\ ListProfiles(p) => Head(now.todo) = "list"
      /\ NextTarget(p) => Head(now.todo) = "next"
  BY DEF ChooseStep, FindProfile, ListProfiles, Select, NextTarget, At
<1>3. Held(now) /\ now \in HeldFields(now)
  BY <1>1, <1>2, NowHeld
<1>4. IsStore(ps) /\ IsFiniteSet(ps.profiles)
  BY <1>1 DEF SharedInv, StoreInv

(* It is enough to give the new fields. *)
<1>5. ASSUME NEW steps \in Continuations(Head(now.todo)), NEW r, Held(r), GoVia(p, steps, r),
             NEW target, NEW listed, NEW settings,
             r = [now EXCEPT !.target = target, !.listed = listed, !.settings = settings]
      PROVE  Moves(p, steps, r)
  <2>1. r.cmd = now.cmd /\ r.todo = now.todo /\ r.quiet = now.quiet /\ r.name = now.name
    BY <1>3, <1>5 DEF HeldFields
  <2> QED
    BY <1>2, <1>5, <2>1 DEF Moves, At
<1>6. /\ \A target : [now EXCEPT !.target = target]
            = [now EXCEPT !.target = target, !.listed = now.listed, !.settings = now.settings]
      /\ \A listed : [now EXCEPT !.listed = listed]
            = [now EXCEPT !.target = now.target, !.listed = listed, !.settings = now.settings]
      /\ \A target, settings : [now EXCEPT !.target = target, !.settings = settings]
            = [now EXCEPT !.target = target, !.listed = now.listed, !.settings = settings]
  BY <1>3 DEF HeldFields
<1>7. CASE FindProfile(p)
  <2>1. PICK order \in IterationOrders : \E q \in FirstListed(Found(p, order)) :
            Go(p, [now EXCEPT !.target = ProfileTarget("explicit", q)])
    BY <1>7 DEF FindProfile
  <2>2. PICK q \in FirstListed(Found(p, order)) :
            Go(p, [now EXCEPT !.target = ProfileTarget("explicit", q)])
    BY <2>1
  <2>3. q \in ProfilesForSetup(ps, now.key, now.known, order)
    BY DEF FirstListed, Found
  <2>4. IsProfile(q)
    BY <1>4, <2>3, SetupProfilesType
  <2>5. IsTarget(ProfileTarget("explicit", q))
    BY <2>4 DEF IsTarget, ProfileTarget
  <2> DEFINE target == ProfileTarget("explicit", q)
             r == [now EXCEPT !.target = target]
  <2> HIDE DEF target
  <2>6. Held(r) /\ GoVia(p, <<>>, r)
    BY <1>3, <2>2, <2>5, TargetHeld DEF Go, target
  <2>7. r = [now EXCEPT !.target = target, !.listed = now.listed, !.settings = now.settings]
    BY <1>6
  <2> HIDE DEF r
  <2>8. Moves(p, <<>>, r)
    BY <1>5, <2>6, <2>7, NoContinuation
  <2> QED
    BY <2>7, <2>8
<1>8. CASE ListProfiles(p)
  <2>1. PICK order \in IterationOrders :
            LET all == {CanonicalizeProfile(q, now.known, order) : q \in ps.profiles}
            IN  Go(p, [now EXCEPT !.listed =
                {q \in all : now.cmd.kind = "cycle" => ProfileSetupFingerprint(q) = now.key}])
    BY <1>8 DEF ListProfiles
  <2> DEFINE all == {CanonicalizeProfile(q, now.known, order) : q \in ps.profiles}
             listed == {q \in all : now.cmd.kind = "cycle" => ProfileSetupFingerprint(q) = now.key}
             r == [now EXCEPT !.listed = listed]
  <2>2. IsFiniteSet(all)
    BY <1>4, FiniteCanonical
  <2>3. \A q \in all : IsProfile(q)
    BY <1>4, CanonicalProfile DEF IsStore
  <2>4. IsFiniteSet(listed) /\ \A q \in listed : IsProfile(q)
    <3>1. listed \in SUBSET all
      OBVIOUS
    <3> HIDE DEF all, listed
    <3> QED
      BY <2>2, <2>3, <3>1, FS_Subset
  <2>5. GoVia(p, <<>>, r)
    BY <2>1 DEF Go
  <2> HIDE DEF listed
  <2>6. /\ r.topo = now.topo
        /\ r.known = now.known /\ r.settings = now.settings /\ r.listed = listed
        /\ r.target = now.target /\ r.plan = now.plan /\ r \in HeldFields(r)
    BY <1>3 DEF HeldFields
  <2>7. r = [now EXCEPT !.target = now.target, !.listed = listed, !.settings = now.settings]
    BY <1>6
  <2> HIDE DEF r
  <2>8. Held(r)
    BY <1>3, <2>4, <2>6 DEF Held
  <2>9. Moves(p, <<>>, r)
    BY <1>5, <2>5, <2>7, <2>8, NoContinuation
  <2> QED
    BY <2>7, <2>9
<1>9. CASE Select(p)
  <2>1. PICK order \in IterationOrders :
            \E target \in SelectTargets(now.topo, now.listed, ps, <<>>, order) :
                Go(p, [now EXCEPT !.target = target, !.settings = [ps EXCEPT !.profiles = {}]])
    BY <1>9 DEF Select
  <2>2. PICK target \in SelectTargets(now.topo, now.listed, ps, <<>>, order) :
            Go(p, [now EXCEPT !.target = target, !.settings = [ps EXCEPT !.profiles = {}]])
    BY <2>1
  <2> DEFINE s == [ps EXCEPT !.profiles = {}]
             r == [now EXCEPT !.target = target, !.settings = s]
  <2>3. \A q \in now.listed : IsProfile(q)
    BY <1>3 DEF Held
  <2>4. IsTarget(target)
    BY <1>4, <2>3, SelectedTarget, NoTargetType DEF IsTarget
  <2>5. IsStore(s)
    BY <1>4, SettingsType
  <2>6. GoVia(p, <<>>, r)
    BY <2>2 DEF Go
  <2> HIDE DEF s
  <2>7. /\ r.topo = now.topo
        /\ r.known = now.known /\ r.settings = s /\ r.listed = now.listed
        /\ r.target = target /\ r.plan = now.plan /\ r \in HeldFields(r)
    BY <1>3 DEF HeldFields
  <2>8. r = [now EXCEPT !.target = target, !.listed = now.listed, !.settings = s]
    BY <1>6
  <2> HIDE DEF r
  <2>9. Held(r)
    BY <1>3, <2>4, <2>5, <2>7 DEF Held
  <2>10. Moves(p, <<>>, r)
    BY <1>5, <2>6, <2>8, <2>9, NoContinuation
  <2> QED
    BY <2>8, <2>10
<1>10. CASE NextTarget(p)
  <2>1. PICK listing \in Listings(now.listed) :
        LET targets == CycleTargets(listing, now.listed)
            target  == targets[NextIndex(targets, now.last)]
        IN  GoVia(p, When(target.kind = "layout", <<"settings">>), [now EXCEPT !.target = target])
    BY <1>10 DEF NextTarget
  <2> DEFINE targets == CycleTargets(listing, now.listed)
             target == targets[NextIndex(targets, now.last)]
             steps == When(target.kind = "layout", <<"settings">>)
             r == [now EXCEPT !.target = target]
  <2>2. IsTarget(target)
    <3>1. IsFiniteSet(now.listed) /\ \A q \in now.listed : IsProfile(q)
      BY <1>3 DEF Held
    <3> QED
      BY <3>1, CycleTargetsType
  <2>3. steps \in Continuations(Head(now.todo))
    BY <1>2, <1>10 DEF When, Continuations
  <2>4. GoVia(p, steps, r)
    BY <2>1
  <2> HIDE DEF target, steps
  <2>5. Held(r)
    BY <1>3, <2>2, TargetHeld
  <2>6. r = [now EXCEPT !.target = target, !.listed = now.listed, !.settings = now.settings]
    BY <1>6
  <2> HIDE DEF r
  <2>7. Moves(p, steps, r)
    BY <1>5, <2>3, <2>4, <2>5, <2>6
  <2> QED
    BY <2>6, <2>7
<1> QED
  BY <1>7, <1>8, <1>9, <1>10 DEF ChooseStep
----------------------------------------------------------------------------
(* What the updates do to a store, field by field. *)

(* A profile is saved in place of its namesakes of the setup. *)
LEMMA SaveProfileFields ==
    ASSUME NEW s, IsStore(s), NEW p, NEW known, NEW order
    PROVE  LET profile == CanonicalizeProfile(p, known, order)
               fp == ProfileSetupFingerprint(profile)
               u == SaveProfile(s, p, known, order)
           IN  /\ u.profiles = (s.profiles \ ProfilesNamed(s, profile.name, fp, known, order))
                                    \cup {profile}
               /\ u.defaults = s.defaults /\ u.layouts = s.layouts /\ u.builtin = s.builtin
<1> DEFINE profile == CanonicalizeProfile(p, known, order)
           gone == ProfilesNamed(s, profile.name, ProfileSetupFingerprint(profile), known, order)
<1>1. SaveProfile(s, p, known, order) = [s EXCEPT !.profiles = (s.profiles \ gone) \cup {profile}]
  BY DEF SaveProfile
<1> HIDE DEF profile, gone
<1>2. LET u == [s EXCEPT !.profiles = (s.profiles \ gone) \cup {profile}]
      IN  /\ u.profiles = (s.profiles \ gone) \cup {profile}
          /\ u.defaults = s.defaults /\ u.layouts = s.layouts /\ u.builtin = s.builtin
  BY DEF IsStore
<1> QED
  BY <1>1, <1>2 DEF profile, gone

(* Profiles are removed, with the default of their setup. *)
LEMMA RemoveFields ==
    ASSUME NEW s, IsStore(s), NEW name, NEW fp, NEW known, NEW order
    PROVE  LET u == RemoveForSetup(s, name, fp, known, order)
           IN  /\ u.profiles = s.profiles \ ProfilesNamed(s, name, fp, known, order)
               /\ u.defaults \in {s.defaults, Drop(s.defaults, fp)} /\ u.layouts = s.layouts
<1> DEFINE gone == ProfilesNamed(s, name, fp, known, order)
           wasDefault == fp \in DOMAIN s.defaults /\ s.defaults[fp] = name
           left == IF wasDefault THEN Drop(s.defaults, fp) ELSE s.defaults
           u == [s EXCEPT !.profiles = s.profiles \ gone, !.defaults = left]
<1>1. /\ RemoveForSetup(s, name, fp, known, order) = IF gone = {} THEN s ELSE u
      /\ left \in {s.defaults, Drop(s.defaults, fp)}
  BY DEF RemoveForSetup
<1> HIDE DEF gone, left
<1>2. u.profiles = s.profiles \ gone /\ u.defaults = left /\ u.layouts = s.layouts
  BY DEF IsStore
<1> HIDE DEF u
<1> QED
  BY <1>1, <1>2 DEF gone

(* The default of a setup is set or cleared. *)
LEMMA DefaultFields ==
    ASSUME NEW s, IsStore(s), NEW fp, NEW name
    PROVE  /\ LET u == SetSetupDefaultProfile(s, fp, name)
              IN  /\ u.profiles = s.profiles /\ u.layouts = Drop(s.layouts, fp)
                  /\ u.defaults = Put(s.defaults, fp, name) /\ u.builtin = s.builtin
           /\ LET u == SetSetupDefaultLayout(s, fp, name)
              IN  /\ u.profiles = s.profiles /\ u.defaults = Drop(s.defaults, fp)
                  /\ u.layouts = Put(s.layouts, fp, name) /\ u.builtin = s.builtin
           /\ LET u == ClearSetupDefaultLayout(s, fp)
              IN  /\ u.profiles = s.profiles /\ u.defaults = s.defaults
                  /\ u.layouts = Drop(s.layouts, fp)
<1>1. LET u == SetSetupDefaultProfile(s, fp, name)
      IN  /\ u.profiles = s.profiles /\ u.layouts = Drop(s.layouts, fp)
          /\ u.defaults = Put(s.defaults, fp, name) /\ u.builtin = s.builtin
  BY DEF IsStore, SetSetupDefaultProfile
<1>2. LET u == SetSetupDefaultLayout(s, fp, name)
      IN  /\ u.profiles = s.profiles /\ u.defaults = Drop(s.defaults, fp)
          /\ u.layouts = Put(s.layouts, fp, name) /\ u.builtin = s.builtin
  BY DEF IsStore, SetSetupDefaultLayout
<1>3. LET u == ClearSetupDefaultLayout(s, fp)
      IN  /\ u.profiles = s.profiles /\ u.defaults = s.defaults
          /\ u.layouts = Drop(s.layouts, fp)
  BY DEF IsStore, ClearSetupDefaultLayout
<1> QED
  BY <1>1, <1>2, <1>3

(* A profile of a good layout is saved as one of a good layout. *)
LEMMA SavedStore ==
    ASSUME StoreInv, NEW p, IsProfile(p), IsTopology(p.layout), p.rules \in Seq(MatchRule),
           NEW known, IsCache(known), NEW order \in IterationOrders,
           ps' = SaveProfile(ps, p, known, order)
    PROVE  StoreInv'
<1> DEFINE profile == CanonicalizeProfile(p, known, order)
           gone == ProfilesNamed(ps, profile.name, ProfileSetupFingerprint(profile), known, order)
<1>1. /\ IsStore(ps) /\ IsFiniteSet(ps.profiles)
      /\ \A q \in ps.profiles : IsTopology(q.layout) /\ q.rules \in Seq(MatchRule)
  BY DEF StoreInv
<1>2. IsStore(ps')
  BY <1>1, SaveProfileType
<1>3. ps'.profiles = (ps.profiles \ gone) \cup {profile}
  BY <1>1, SaveProfileFields
<1>4. IsTopology(profile.layout) /\ profile.rules \in Seq(MatchRule)
  BY CanonicalLayout, CanonicalRulesType, EnvironmentAssumption
<1> HIDE DEF profile, gone
<1>5. IsFiniteSet(ps.profiles \ gone)
  BY <1>1, FS_Subset
<1>6. IsFiniteSet((ps.profiles \ gone) \cup {profile})
  BY <1>5, FS_AddElement
<1> QED
  BY <1>1, <1>2, <1>3, <1>4, <1>6 DEF StoreInv

(* Other updates add no profile. *)
LEMMA ShrunkStore ==
    ASSUME StoreInv, IsStore(ps'), ps'.profiles \subseteq ps.profiles
    PROVE  StoreInv'
<1>1. /\ IsFiniteSet(ps.profiles)
      /\ \A q \in ps.profiles : IsTopology(q.layout) /\ q.rules \in Seq(MatchRule)
  BY DEF StoreInv
<1>2. IsFiniteSet(ps'.profiles)
  BY <1>1, FS_Subset
<1> QED
  BY <1>1, <1>2 DEF StoreInv

----------------------------------------------------------------------------
(* Applying and recording. *)

(* What is stored or made the default is the name of a profile. *)
LEMMA NameAtWrite ==
    ASSUME RunInv, NEW p \in Procs, At(p, "store") \/ At(p, "default")
    PROVE  run[p].name \in ProfileNames
<1> DEFINE c == run[p].cmd
           todo == run[p].todo
<1>1. todo # <<>> /\ Head(todo) \in {"store", "default"}
  BY DEF At
<1>2. c \in CommandLines /\ Control(c, todo) /\ Head(todo) \in Uses(c) /\ Controlled(run[p])
  BY <1>1, NowHeld
<1>3. Saves(c) \/ c.kind = "profile"
  BY <1>1, <1>2 DEF Uses
<1>4. CASE c.kind = "save"
  <2>1. "look" \notin Left(todo)
    <3>1. /\ Left(todo) = {Head(todo)} \cup Left(Tail(todo))
          /\ \A x \in Left(Tail(todo)) \ Anytime : Turn(c, Head(todo)) < Turn(c, x)
      BY <1>1, <1>2, ControlOfTail DEF Anytime
    <3>2. "look" \notin Anytime /\ "look" # Head(todo)
      BY <1>1 DEF Anytime
    <3>3. ~(Turn(c, Head(todo)) < Turn(c, "look"))
      BY <1>1 DEF Turn
    <3> QED
      BY <3>1, <3>2, <3>3
  <2> QED
    BY <1>1, <1>2, <1>4, <2>1 DEF Controlled
<1>5. CASE c.kind # "save"
  <2>1. run[p].name = c.name
    BY <1>1, <1>2, <1>5 DEF Controlled
  <2> QED
    BY <1>2, <1>3, <1>5, <2>1, CommandsAssumption DEF Saves
<1> QED
  BY <1>4, <1>5

(* Applying a layout takes steps of this kind. *)
LEMMA ApplyMoves ==
    ASSUME TypeInv, NEW p \in Procs
    PROVE  /\ Plan(p) => \E plan \in PlansFor(run[p].target, Seen, run[p].settings.builtin) :
                Moves(p, <<>>, [run[p] EXCEPT !.plan = plan])
           /\ Validate(p) => \E steps : Moves(p, steps, run[p])
           /\ RunHooks(p) \/ Apply(p) => Moves(p, <<>>, run[p])
           /\ Snapshot(p) => Moves(p, <<>>, [run[p] EXCEPT !.topo = hw])
<1> DEFINE now == run[p]
<1>1. SharedInv /\ RunInv
  BY DEF TypeInv
<1>2. ASSUME now.todo # <<>>
      PROVE  Held(now) /\ now \in HeldFields(now)
  BY <1>1, <1>2, NowHeld
<1>3. \A s : At(p, s) => now.todo # <<>> /\ Head(now.todo) = s
  BY DEF At
<1>4. ASSUME Plan(p)
      PROVE  \E plan \in PlansFor(now.target, Seen, now.settings.builtin) :
                Moves(p, <<>>, [now EXCEPT !.plan = plan])
  <2>1. now.todo # <<>> /\ Head(now.todo) = "plan"
    BY <1>3, <1>4 DEF Plan
  <2>2. PICK plan \in PlansFor(now.target, Seen, now.settings.builtin) :
            Go(p, [now EXCEPT !.plan = plan])
    BY <1>4 DEF Plan
  <2>3. Held(now) /\ now \in HeldFields(now)
    BY <1>2, <2>1
  <2>4. now.target.kind = "layout" => now.target.preset \in VirtualPresets
    BY <2>3 DEF Held, IsTarget
  <2>5. DOMAIN plan \subseteq Connectors
    <3>1. DOMAIN plan \subseteq DOMAIN Seen
      BY <2>2, <2>4, PlanKeys
    <3> QED
      BY <1>1, <3>1, SeenType
  <2> DEFINE r == [now EXCEPT !.plan = plan]
  <2>6. /\ r.cmd = now.cmd /\ r.todo = now.todo /\ r.topo = now.topo
        /\ r.known = now.known /\ r.settings = now.settings /\ r.listed = now.listed
        /\ r.name = now.name /\ r.target = now.target /\ r.plan = plan /\ r.quiet = now.quiet
        /\ r \in HeldFields(r)
    BY <2>3 DEF HeldFields
  <2> HIDE DEF r
  <2>7. Held(r)
    BY <2>3, <2>5, <2>6 DEF Held
  <2>8. Moves(p, <<>>, r)
    BY <2>1, <2>2, <2>6, <2>7, NoContinuation DEF Moves, Go, At, r
  <2> QED
    BY <2>8 DEF r
<1>5. ASSUME Validate(p) PROVE \E steps : Moves(p, steps, now)
  <2> DEFINE steps == When(HookBearing(now.target), <<"hooks">>)
  <2>1. now.todo # <<>> /\ Head(now.todo) = "validate" /\ GoVia(p, steps, now)
    BY <1>3, <1>5 DEF Validate
  <2>2. steps \in Continuations("validate")
    BY DEF When, Continuations
  <2>3. Held(now)
    BY <1>2, <2>1
  <2> HIDE DEF steps
  <2> QED
    BY <2>1, <2>2, <2>3 DEF Moves, At
<1>6. ASSUME RunHooks(p) \/ Apply(p) PROVE Moves(p, <<>>, now)
  <2>1. /\ now.todo # <<>> /\ Head(now.todo) \in {"hooks", "apply"}
        /\ GoVia(p, <<>>, now) \/ GoChanging(p, now)
    BY <1>3, <1>6 DEF RunHooks, Apply, Go
  <2>2. Held(now)
    BY <1>2, <2>1
  <2> QED
    BY <2>1, <2>2, NoContinuation DEF Moves, At
<1>7. ASSUME Snapshot(p) PROVE Moves(p, <<>>, [now EXCEPT !.topo = hw])
  <2> DEFINE r == [now EXCEPT !.topo = hw]
  <2>1. now.todo # <<>> /\ Head(now.todo) = "snapshot" /\ Go(p, r)
    BY <1>3, <1>7 DEF Snapshot
  <2>2. Held(now) /\ now \in HeldFields(now)
    BY <1>2, <2>1
  <2>3. /\ r.cmd = now.cmd /\ r.todo = now.todo /\ r.topo = hw
        /\ r.known = now.known /\ r.settings = now.settings /\ r.listed = now.listed
        /\ r.name = now.name /\ r.target = now.target /\ r.plan = now.plan /\ r.quiet = now.quiet
        /\ r \in HeldFields(r)
    BY <2>2 DEF HeldFields
  <2> HIDE DEF r
  <2>4. Held(r)
    BY <1>1, <2>2, <2>3 DEF Held, SharedInv
  <2>5. Moves(p, <<>>, r)
    BY <2>1, <2>3, <2>4, NoContinuation DEF Moves, Go, At
  <2> QED
    BY <2>5 DEF r
<1> QED
  BY <1>4, <1>5, <1>6, <1>7

(* Replacing a file is a step of this kind. *)
LEMMA WriteMoves ==
    ASSUME TypeInv, NEW p \in Procs, WriteStep(p)
    PROVE  Moves(p, <<>>, run[p])
<1>1. /\ run[p].todo # <<>> /\ Head(run[p].todo) # "look"
      /\ GoVia(p, <<>>, run[p]) \/ GoChanging(p, run[p])
  BY DEF WriteStep, StoreProfile, SetDefault, SetDefaultLayout, Record, RemoveProfile,
         ClearLayout, At, Go
<1>2. Held(run[p])
  BY <1>1, NowHeld DEF TypeInv
<1> QED
  BY <1>1, <1>2, NoContinuation DEF Moves, At

(* The displays and the files after such a step. *)
LEMMA ApplyShared ==
    ASSUME TypeInv, NEW p \in Procs, ApplyStep(p)
    PROVE  SharedInv' /\ UNCHANGED <<st, ps, ran, epoch>>
<1>1. UNCHANGED <<st, ps, ran, epoch>>
  BY DEF ApplyStep, Plan, Validate, RunHooks, Apply, ApplyUnanswered, Snapshot, Private,
         Writing, shared
<1>2. hw' = hw \/ (Submittable(run[p].plan, hw) /\ hw' = Configure(hw, run[p].plan))
  BY DEF ApplyStep, Plan, Validate, RunHooks, Apply, ApplyUnanswered, Snapshot, Private,
         Writing, shared
<1>3. SharedInv
  BY DEF TypeInv
<1>4. CASE hw' = hw
  BY <1>1, <1>3, <1>4 DEF SharedInv, StoreInv, Connected, Unmirrored
<1>5. CASE Submittable(run[p].plan, hw) /\ hw' = Configure(hw, run[p].plan)
  <2>1. IsTopology(hw) /\ Unmirrored(hw) /\ Connected(hw) /\ IsCache(st.known)
    BY <1>3, SeenType DEF SharedInv
  <2>2. IsTopology(hw') /\ DOMAIN hw' = DOMAIN hw
    BY <1>5, <2>1, ConfigureType
  <2>3. Unmirrored(hw')
    BY <1>5, <2>1, AppliedPlanHolds
  <2>4. \A c \in DOMAIN hw : hw'[c].id = hw[c].id
    BY <1>5, <2>1, ConfigureKeepsIdentities
  <2>5. Connected(hw)'
    BY <2>1, <2>2, <2>4 DEF Connected
  <2>6. Unmirrored(hw)'
    BY <2>3 DEF Unmirrored
  <2> QED
    BY <1>1, <1>3, <2>2, <2>5, <2>6 DEF SharedInv, StoreInv
<1> QED
  BY <1>1, <1>2, <1>4, <1>5

(* Replacing a file keeps the types of what is shared. *)
LEMMA WriteShared ==
    ASSUME TypeInv, NEW p \in Procs, WriteStep(p)
    PROVE  SharedInv' /\ UNCHANGED <<hw, ran, epoch>>
<1> DEFINE now == run[p]
<1>1. UNCHANGED <<hw, ran, epoch>>
  BY DEF WriteStep, StoreProfile, SetDefault, SetDefaultLayout, Record, RemoveProfile,
         ClearLayout, Writing
<1>2. SharedInv /\ RunInv
  BY DEF TypeInv
<1>3. Held(now) /\ now \in HeldFields(now) /\ now.cmd \in CommandLines
  <2>1. now.todo # <<>>
    BY DEF WriteStep, StoreProfile, SetDefault, SetDefaultLayout, Record, RemoveProfile,
           ClearLayout, At
  <2> QED
    BY <1>2, <2>1, NowHeld
<1>4. StoreInv /\ IsStore(ps) /\ IsState(st)
  BY <1>2 DEF SharedInv, StoreInv
<1>5. CASE StoreProfile(p)
  <2>1. PICK order \in IterationOrders :
          ps' = SaveProfile(ps, ProfileFromTopology(now.name, now.topo, order), now.known, order)
    BY <1>5 DEF StoreProfile
  <2>2. now.name \in ProfileNames
    BY <1>2, <1>5, NameAtWrite DEF StoreProfile
  <2> DEFINE q == ProfileFromTopology(now.name, now.topo, order)
  <2>3. IsProfile(q) /\ q.layout = now.topo
    BY <2>2, ProfileFromTopologyType DEF ProfileFromTopology
  <2>4. IsTopology(now.topo) /\ IsCache(now.known)
    BY <1>3 DEF Held
  <2> HIDE DEF q
  <2>5. IsTopology(q.layout) /\ ps' = SaveProfile(ps, q, now.known, order)
    BY <2>1, <2>3, <2>4 DEF q
  <2>6. q.rules \in Seq(MatchRule)
    BY <2>4, LayoutRulesType, EnvironmentAssumption DEF q, ProfileFromTopology
  <2>7. StoreInv'
    BY <1>4, <2>3, <2>4, <2>5, <2>6, SavedStore
  <2>8. st' = st
    BY <1>5 DEF StoreProfile
  <2> QED
    BY <1>1, <1>2, <2>7, <2>8 DEF SharedInv, Connected, Unmirrored
<1>6. CASE SetDefault(p) \/ SetDefaultLayout(p) \/ RemoveProfile(p) \/ ClearLayout(p)
  <2>1. IsStore(ps') /\ ps'.profiles \subseteq ps.profiles
    <3>1. CASE SetDefault(p)
      <4>1. ps' = ps \/ ps' = SetSetupDefaultProfile(ps, now.key, now.name)
        BY <3>1 DEF SetDefault
      <4>2. now.name \in ProfileNames
        BY <1>2, <3>1, NameAtWrite DEF SetDefault
      <4> QED
        BY <1>4, <4>1, <4>2, SetSetupDefaultProfileType, DefaultFields
    <3>2. CASE SetDefaultLayout(p)
      <4>1. ps' = SetSetupDefaultLayout(ps, now.key, now.cmd.name) /\ At(p, "layout")
        BY <3>2 DEF SetDefaultLayout
      <4>2. now.cmd.name \in VirtualPresets
        <5>1. "layout" \in Uses(now.cmd)
          BY <1>2, <4>1, NowHeld DEF At
        <5>2. now.cmd.kind = "set"
          BY <5>1 DEF Uses
        <5> QED
          BY <1>3, <5>2, CommandsAssumption
      <4> QED
        BY <1>4, <4>1, <4>2, SetSetupDefaultLayoutType, DefaultFields
    <3>3. CASE RemoveProfile(p)
      <4>1. \E order \in IterationOrders :
              ps' = RemoveForSetup(ps, now.cmd.name, now.key, now.known, order)
        BY <3>3 DEF RemoveProfile
      <4> QED
        BY <1>4, <4>1, RemoveForSetupType, RemoveFields
    <3>4. CASE ClearLayout(p)
      <4>1. ps' = ClearSetupDefaultLayout(ps, now.key)
        BY <3>4 DEF ClearLayout
      <4> QED
        BY <1>4, <4>1, ClearSetupDefaultLayoutType, DefaultFields
    <3> QED
      BY <1>6, <3>1, <3>2, <3>3, <3>4
  <2>2. StoreInv'
    BY <1>4, <2>1, ShrunkStore
  <2>3. st' = st
    BY <1>6 DEF SetDefault, SetDefaultLayout, RemoveProfile, ClearLayout
  <2> QED
    BY <1>1, <1>2, <2>2, <2>3 DEF SharedInv, Connected, Unmirrored
<1>7. CASE Record(p)
  <2>1. st' = UpdateObserved(st, now.topo, RecordedName(now.target)) /\ ps' = ps
    BY <1>7 DEF Record
  <2>2. IsTopology(now.topo) /\ RecordedName(now.target) \in Opt(AppliedNames)
    BY <1>3, TargetName DEF Held
  <2>3. IsState(st')
    BY <1>4, <2>1, <2>2, UpdateObservedType
  <2> QED
    BY <1>1, <1>2, <2>1, <2>3 DEF SharedInv, StoreInv, Connected, Unmirrored
<1> QED
  BY <1>1, <1>5, <1>6, <1>7 DEF WriteStep
----------------------------------------------------------------------------
(* The type invariant is kept by every step. *)

(* A process that takes another record for its own. *)
LEMMA Becomes ==
    ASSUME RunInv, NEW p \in Procs, NEW r, Held(r), Controlled(r),
           run' = [run EXCEPT ![p] = r] \/ Changing(p, r)
    PROVE  /\ RunInv' /\ run'[p] = r
           /\ \A q \in Procs \ {p} : (~Changing(p, r) /\ run'[q] = run[q]) \/ ~run'[q].quiet
<1>1. DOMAIN run = Procs /\ \A q \in Procs : Held(run[q]) /\ Controlled(run[q])
  BY DEF RunInv
<1>2. /\ DOMAIN run' = Procs /\ run'[p] = r
      /\ \A q \in Procs \ {p} : \/ ~Changing(p, r) /\ run'[q] = run[q]
                              \/ run'[q] = [run[q] EXCEPT !.quiet = FALSE]
  <2>1. CASE Changing(p, r)
    BY <2>1 DEF Changing
  <2>2. CASE ~Changing(p, r)
    BY <1>1, <2>2
  <2> QED
    BY <2>1, <2>2
<1>3. ASSUME NEW q \in Procs \ {p}
      PROVE  /\ Held(run'[q]) /\ Controlled(run'[q])
             /\ (~Changing(p, r) /\ run'[q] = run[q]) \/ ~run'[q].quiet
  BY <1>1, <1>2, DisturbedHeld, ZenonT(60)
<1>4. RunInv'
  <2>1. ASSUME NEW q \in Procs PROVE Held(run'[q]) /\ Controlled(run'[q])
    BY <1>2, <1>3
  <2> QED
    BY <1>2, <2>1 DEF RunInv
<1> QED
  BY <1>2, <1>3, <1>4

Started(c) ==
    [Idle EXCEPT !.cmd = c, !.todo = Program(c), !.name = c.name, !.assign = c.default,
                 !.target = IF c.kind = "set" THEN LayoutTarget(c.name) ELSE NoTarget,
                 !.quiet = TRUE]

(* A command that starts holds what it was told. *)
LEMMA StartedHeld ==
    ASSUME NEW c \in CommandLines
    PROVE  LET r == Started(c) IN
           /\ Held(r) /\ Controlled(r) /\ r.cmd = c /\ r.todo = Program(c) /\ r.name = c.name
           /\ r.assign = c.default /\ r.quiet
           /\ c.kind = "set" => r.target = LayoutTarget(c.name)
<1> DEFINE r == Started(c)
           target == IF c.kind = "set" THEN LayoutTarget(c.name) ELSE NoTarget
<1>1. /\ Held(Idle) /\ Idle \in HeldFields(Idle)
  BY IdleHeld DEF Held
<1>2. /\ c.kind \in {"save", "set", "profile", "auto", "remove", "cycle"}
      /\ c.name \in Opt(AppliedNames) /\ c.default \in BOOLEAN
      /\ c.kind = "set" => c.name \in VirtualPresets
  BY CommandsAssumption DEF CommandLine, Opt, AppliedNames
<1>3. /\ Control(c, Program(c)) /\ Complete(c, Program(c)) /\ Program(c) \in Seq(Steps)
      /\ c.kind = "save" => "look" \in Left(Program(c))
  <2>1. c.kind = "save" => "look" \in Uses(c)
    BY DEF Uses, Steps
  <2> QED
    BY <2>1, ProgramControl DEF Control
<1>4. IsTarget(target)
  BY <1>2, NoTargetType DEF IsTarget, LayoutTarget
<1>5. /\ r.cmd = c /\ r.todo = Program(c) /\ r.topo = Idle.topo /\ r.known = Idle.known
      /\ r.settings = Idle.settings /\ r.listed = Idle.listed /\ r.name = c.name
      /\ r.assign = c.default /\ r.target = target /\ r.plan = Idle.plan /\ r.quiet
      /\ r \in HeldFields(r)
  <2> HIDE DEF Idle, target
  <2>1. r = [Idle EXCEPT !.cmd = c, !.todo = Program(c), !.name = c.name,
                         !.assign = c.default, !.target = target, !.quiet = TRUE]
    BY DEF Started, target
  <2> HIDE DEF r
  <2> QED
    BY <1>1, <1>2, <1>3, <2>1 DEF HeldFields
<1> HIDE DEF r
<1>6. Held(r)
  BY <1>1, <1>4, <1>5 DEF Held
<1>7. Controlled(r)
  BY <1>3, <1>5 DEF Controlled
<1> QED
  BY <1>5, <1>6, <1>7 DEF r

(* The invariant holds at first. *)
LEMMA TypeInvInit == Init => TypeInv
<1> SUFFICES ASSUME Init PROVE TypeInv
  OBVIOUS
<1>1. hw \in Setups /\ st \in States /\ ps \in Stores /\ ran = 0 /\ epoch = 0
  BY DEF Init
<1>2. SharedInv
  BY <1>1, EnvironmentAssumption DEF SharedInv, StoreInv
<1>3. RunInv
  <2>1. DOMAIN run = Procs /\ \A p \in Procs : run[p] = Idle
    BY DEF Init
  <2> QED
    BY <2>1, IdleHeld DEF RunInv
<1> QED
  BY <1>1, <1>2, <1>3, CommandsAssumption DEF TypeInv

(* No step of a command breaks it ... *)
LEMMA TypeInvStep ==
    ASSUME TypeInv, NEW p \in Procs, Step(p)
    PROVE  TypeInv'
<1>1. SharedInv /\ RunInv /\ ran \in 0..MaxCommands /\ epoch \in 0..MaxChanges
  BY DEF TypeInv

(* Enough: what is shared keeps its type and the process moves on. *)
<1>2. ASSUME UNCHANGED shared PROVE SharedInv'
  BY <1>1, <1>2 DEF shared, SharedInv, StoreInv, Connected, Unmirrored
<1>3. ASSUME NEW c \in CommandLines, Start(p, c)
      PROVE  TypeInv'
  <2>1. run' = [run EXCEPT ![p] = Started(c)] /\ UNCHANGED <<shared, epoch>>
    BY <1>3 DEF Start, Started
  <2>2. Held(Started(c)) /\ Controlled(Started(c))
    BY StartedHeld
  <2>3. RunInv'
    <3> DEFINE r == Started(c)
    <3> HIDE DEF r
    <3>1. Held(r) /\ Controlled(r) /\ run' = [run EXCEPT ![p] = r]
      BY <2>1, <2>2 DEF r
    <3> QED
      BY <1>1, <3>1, Becomes
  <2>4. ran' \in 0..MaxCommands
    BY <1>1, <1>3, CommandsAssumption DEF Start
  <2> QED
    BY <1>1, <1>2, <2>1, <2>3, <2>4 DEF TypeInv
<1>4. ASSUME NEW steps, NEW r, Moves(p, steps, r) PROVE RunInv'
  BY <1>1, <1>4, MovesRun
<1>5. CASE ReadStep(p)
  <2>1. UNCHANGED <<shared, ran, epoch>>
    BY <1>5 DEF ReadStep, Look, ReadContext, ReadSettings, ReadLayouts, ReadOthers, ReadKey,
            ProfileExists, LayoutDefaulted, Private
  <2>2. \E steps, r : Moves(p, steps, r)
    <3> HIDE DEF Look, ReadContext, ReadSettings, ReadLayouts, ReadOthers, ReadKey,
            ProfileExists, LayoutDefaulted
    <3>1. \/ Look(p) \/ ReadContext(p) \/ ReadSettings(p) \/ ReadLayouts(p)
          \/ ReadOthers(p) \/ ReadKey(p) \/ ProfileExists(p) \/ LayoutDefaulted(p)
      BY <1>5 DEF ReadStep
    <3> QED
      BY <3>1, ReadMoves
  <2>3. RunInv'
    BY <1>4, <2>2
  <2> QED
    BY <1>1, <1>2, <2>1, <2>3 DEF TypeInv
<1>6. CASE ChooseStep(p)
  <2>1. UNCHANGED <<shared, ran, epoch>>
    BY <1>6 DEF ChooseStep, FindProfile, ListProfiles, Select, NextTarget, Private
  <2>2. \E steps, r : Moves(p, steps, r)
    BY <1>6, ChooseMoves
  <2>3. RunInv'
    BY <1>4, <2>2
  <2> QED
    BY <1>1, <1>2, <2>1, <2>3 DEF TypeInv
<1>7. CASE ApplyStep(p)
  <2>1. SharedInv' /\ UNCHANGED <<ran, epoch>>
    BY <1>7, ApplyShared
  <2>2. CASE ApplyUnanswered(p)
    <3>1. Changing(p, Idle)
      BY <2>2 DEF ApplyUnanswered
    <3>2. RunInv'
      BY <1>1, <3>1, IdleHeld, Becomes
    <3> QED
      BY <1>1, <2>1, <3>2 DEF TypeInv
  <2>3. CASE ~ApplyUnanswered(p)
    <3>1. \/ Plan(p) \/ Validate(p) \/ RunHooks(p) \/ Apply(p) \/ Snapshot(p)
      BY <1>7, <2>3 DEF ApplyStep
    <3>2. \E steps, r : Moves(p, steps, r)
      BY <3>1, ApplyMoves
    <3>3. RunInv'
      BY <1>4, <3>2
    <3> QED
      BY <1>1, <2>1, <3>3 DEF TypeInv
  <2> QED
    BY <2>2, <2>3
<1>8. CASE WriteStep(p)
  <2>1. SharedInv' /\ UNCHANGED <<ran, epoch>>
    BY <1>8, WriteShared
  <2>2. RunInv'
    BY <1>4, <1>8, WriteMoves
  <2> QED
    BY <1>1, <2>1, <2>2 DEF TypeInv
<1>9. CASE Report(p) \/ Fails(p)
  <2>1. run' = [run EXCEPT ![p] = Idle] /\ UNCHANGED <<shared, ran, epoch>>
    BY <1>9 DEF Report, Fails, Private
  <2>2. RunInv'
    BY <1>1, <2>1, IdleHeld, Becomes
  <2> QED
    BY <1>1, <1>2, <2>1, <2>2 DEF TypeInv
<1> QED
  BY <1>3, <1>5, <1>6, <1>7, <1>8, <1>9 DEF Step

(* ... nor does a change of the displays. *)
LEMMA TypeInvHotplug ==
    ASSUME TypeInv, Hotplug
    PROVE  TypeInv'
<1>1. SharedInv /\ RunInv /\ ran \in 0..MaxCommands /\ epoch \in 0..MaxChanges
  BY DEF TypeInv
<1>2. /\ epoch < MaxChanges /\ hw' \in Setups /\ epoch' = epoch + 1 /\ ran' = ran
      /\ UNCHANGED <<st, ps>>
      /\ DOMAIN run' = Procs
      /\ \A p \in Procs : run'[p] = [run[p] EXCEPT !.quiet = FALSE]
  BY DEF Hotplug
<1>3. RunInv'
  <2>1. ASSUME NEW p \in Procs PROVE Held(run'[p]) /\ Controlled(run'[p])
    <3>1. Held(run[p]) /\ Controlled(run[p])
      BY <1>1 DEF RunInv
    <3> QED
      BY <1>2, <3>1, DisturbedHeld
  <2> QED
    BY <1>2, <2>1 DEF RunInv
<1>4. SharedInv'
  <2>1. IsTopology(hw') /\ Unmirrored(hw') /\ Connected(hw')
    BY <1>2, EnvironmentAssumption
  <2>2. Unmirrored(hw)' /\ Connected(hw)'
    BY <2>1 DEF Unmirrored, Connected
  <2> QED
    BY <1>1, <1>2, <2>1, <2>2 DEF SharedInv, StoreInv
<1> QED
  BY <1>1, <1>2, <1>3, <1>4, CommandsAssumption DEF TypeInv

(* The invariant is inductive. *)
LEMMA TypeInvNext == TypeInv /\ [Next]_vars => TypeInv'
<1> SUFFICES ASSUME TypeInv, [Next]_vars PROVE TypeInv'
  OBVIOUS
<1>1. CASE \E p \in Procs : Step(p)
  BY <1>1, TypeInvStep
<1>2. CASE Hotplug
  BY <1>2, TypeInvHotplug
<1>3. CASE UNCHANGED vars
  BY <1>3 DEF vars, shared, TypeInv, SharedInv, StoreInv, RunInv, Connected, Unmirrored
<1> QED
  BY <1>1, <1>2, <1>3 DEF Next

(* It holds always. *)
LEMMA AlwaysTypeInv == Spec => []TypeInv
BY TypeInvInit, TypeInvNext, PTL DEF Spec

(* Every variable has its type, whatever is typed and whatever the         *)
(* displays do meanwhile.                                                  *)
THEOREM TypesHold == Spec => []TypeOK
BY AlwaysTypeInv, TypeInvTypeOK, PTL
----------------------------------------------------------------------------
(* What a command knows as long as nobody else has changed anything since  *)
(* it was started.                                                         *)

Alone(p) == run[p].todo # <<>> /\ run[p].quiet

Ahead(p, step) == step \in Left(run[p].todo)
Past(p, step)  == step \in Left(Program(run[p].cmd)) \ Left(run[p].todo)

Recorded(p) ==
    /\ st.last = RecordedName(run[p].target)
    /\ HasEnabledRealOutputs(hw) =>
        CurrentKey \in DOMAIN st.remembered /\ st.remembered[CurrentKey] = Seen

(* The layout it has applied is in place, what it saw of it is so, and     *)
(* what it has recorded is recorded.                                       *)
Effected(p) ==
    Applies(run[p].cmd) =>
        /\ ~Ahead(p, "apply") => LayoutHolds(run[p].plan, hw)
        /\ ~Ahead(p, "snapshot") => run[p].topo = hw
        /\ ~Ahead(p, "record") => Recorded(p)

(* What it has read is still so.  Its own changes, of the layout and of    *)
(* what is known of the displays, do not change the setup.                 *)
Current(p) ==
    /\ Past(p, "look") \/ Past(p, "key") => run[p].key = CurrentKey
    /\ run[p].cmd.kind = "save" /\ ~Ahead(p, "look") => run[p].topo = Seen
    /\ Head(run[p].todo) \in Informed => run[p].known = st.known

(* The profile is the only one of the setup, which has no default layout,  *)
(* in whichever order profiles are read.                                   *)
Only(p, order) ==
    /\ CurrentKey \notin DOMAIN ps.layouts
    /\ \A q \in CurrentProfiles(order) : q.name = run[p].name

(* A profile is to be the default if it is said to, or, from when that is  *)
(* decided, if it is the only one.                                         *)
Decided(p) ==
    Saves(run[p].cmd) /\ ~run[p].cmd.default =>
        /\ Ahead(p, "default") /\ Ahead(p, "layouts") => ~run[p].assign
        /\ Ahead(p, "others") => ~run[p].assign /\ CurrentKey \notin DOMAIN ps.layouts
        /\ Ahead(p, "default") /\ ~Ahead(p, "layouts") /\ ~Ahead(p, "others")
            => \A order \in IterationOrders : run[p].assign <=> Only(p, order)

(* What it has saved is stored, complete, with a rule for every display.    *)
Filed(p) ==
    Saves(run[p].cmd) /\ ~Ahead(p, "store") =>
        \E q \in ps.profiles :
            /\ q.name = run[p].name /\ q.layout = Seen
            /\ \E order \in IterationOrders : q.rules = RulesFromLayout(Seen, order)

(* What it has made the default is the default. *)
Settled(p) ==
    LET c == run[p].cmd IN
    /\ Saves(c) /\ run[p].assign /\ ~Ahead(p, "default") =>
        CurrentKey \in DOMAIN ps.defaults /\ ps.defaults[CurrentKey] = run[p].name
    /\ c.kind = "set" /\ ~c.save => run[p].assign = c.default
    /\ c.kind = "set" /\ c.default /\ ~c.save /\ ~Ahead(p, "layout") =>
        /\ CurrentKey \notin DOMAIN ps.defaults
        /\ CurrentKey \in DOMAIN ps.layouts /\ ps.layouts[CurrentKey] = c.name

Knows(p) == Effected(p) /\ Current(p) /\ Decided(p) /\ Filed(p) /\ Settled(p)

AloneInv == \A p \in Procs : Alone(p) => Knows(p)
----------------------------------------------------------------------------
(* What a step does, told by the step that is taken: what the process      *)
(* holds afterwards, and what becomes of the displays and the files.       *)

Advances(p) ==
    LET now  == run[p]
        next == run'[p]
        h    == Head(now.todo)
    IN  /\ now.todo # <<>> /\ next.cmd = now.cmd /\ next.quiet = now.quiet
        /\ \E steps \in Continuations(h) : next.todo = steps \o Tail(now.todo)
        /\ h = "layouts" =>
            next.todo = When(now.key \notin DOMAIN ps.layouts, <<"context", "others">>)
                            \o Tail(now.todo)
        /\ h = "look" => next.topo = Seen /\ next.key = CurrentKey
        /\ h = "snapshot" => next.topo = hw
        /\ h \notin {"look", "snapshot"} => next.topo = now.topo
        /\ h = "key" => next.key = SetupFingerprint(NormalizeTopology(now.topo, st.known))
        /\ h \notin {"look", "key"} => next.key = now.key
        /\ h = "context" => next.known = st.known
        /\ h # "context" => next.known = now.known
        /\ h \notin {"find", "select", "next"} => next.target = now.target
        /\ h # "plan" => next.plan = now.plan
        /\ h # "look" => next.name = now.name
        /\ h = "others" => \E order \in IterationOrders :
            next.assign = \A q \in ProfilesForSetup(ps, now.key, now.known, order) :
                                q.name = now.name
        /\ h # "others" => next.assign = now.assign

Writes(p) ==
    LET now == run[p]
        h   == Head(now.todo)
    IN  /\ now.todo # <<>>
        /\ h = "apply" => Submittable(now.plan, hw) /\ hw' = Configure(hw, now.plan)
        /\ h # "apply" => hw' = hw
        /\ h = "record" => st' = UpdateObserved(st, now.topo, RecordedName(now.target))
        /\ h # "record" => st' = st
        /\ h = "store" => \E order \in IterationOrders :
            ps' = SaveProfile(ps, ProfileFromTopology(now.name, now.topo, order), now.known, order)
        /\ h = "default" =>
            ps' = IF now.assign THEN SetSetupDefaultProfile(ps, now.key, now.name) ELSE ps
        /\ h = "layout" => ps' = SetSetupDefaultLayout(ps, now.key, now.cmd.name)
        /\ h = "remove" => \E order \in IterationOrders :
            ps' = RemoveForSetup(ps, now.cmd.name, now.key, now.known, order)
        /\ h = "clear" => ps' = ClearSetupDefaultLayout(ps, now.key)
        /\ h \notin {"store", "default", "layout", "remove", "clear"} => ps' = ps

(* What a process holds after a step is what the step gave it. *)
LEMMA MovesOn ==
    ASSUME RunInv, NEW p \in Procs, NEW steps, NEW r, Moves(p, steps, r)
    PROVE  LET now == run[p]
               next == run'[p]
           IN  /\ now.todo # <<>> /\ next.cmd = now.cmd /\ next.quiet = now.quiet
               /\ steps \in Continuations(Head(now.todo)) /\ next.todo = steps \o Tail(now.todo)
               /\ now \in HeldFields(now) /\ SameHeld(next, r)
<1>1. /\ run'[p].todo = steps \o Tail(run[p].todo) /\ SameHeld(run'[p], r)
      /\ run'[p].quiet = run[p].quiet
  BY MovesRun
<1>2. /\ run[p].todo # <<>> /\ r.cmd = run[p].cmd
      /\ steps \in Continuations(Head(run[p].todo))
  BY DEF Moves
<1>3. run[p] \in HeldFields(run[p])
  BY <1>2, NowHeld
<1>4. run'[p].cmd = run[p].cmd
  BY <1>1, <1>2 DEF SameHeld
<1> QED
  BY <1>1, <1>2, <1>3, <1>4

(* Nothing that is held changes but the steps left. *)
LEMMA AdvancesPlainly ==
    ASSUME RunInv, NEW p \in Procs, NEW steps, Moves(p, steps, run[p]),
           Head(run[p].todo) \notin {"layouts", "look", "snapshot", "key", "context", "others"}
    PROVE  Advances(p)
<1>1. LET now == run[p]
          next == run'[p]
      IN  /\ now.todo # <<>> /\ next.cmd = now.cmd /\ next.quiet = now.quiet
          /\ steps \in Continuations(Head(now.todo)) /\ next.todo = steps \o Tail(now.todo)
          /\ now \in HeldFields(now) /\ SameHeld(next, now)
  BY MovesOn
<1> QED
  BY <1>1 DEF Advances, SameHeld

(* Looking and reading. *)
LEMMA ReadAdvances ==
    ASSUME TypeInv, NEW p \in Procs, ReadStep(p)
    PROVE  Advances(p) /\ Writes(p)
<1> DEFINE now == run[p]
           next == run'[p]
<1>1. RunInv
  BY DEF TypeInv
<1>2. ASSUME NEW steps, NEW r, Moves(p, steps, r)
      PROVE  /\ now.todo # <<>> /\ next.cmd = now.cmd /\ next.quiet = now.quiet
             /\ steps \in Continuations(Head(now.todo)) /\ next.todo = steps \o Tail(now.todo)
             /\ now \in HeldFields(now) /\ SameHeld(next, r)
  BY <1>1, <1>2, MovesOn
<1>3. ASSUME Look(p) PROVE Advances(p)
  <2>1. PICK name : Moves(p, <<>>, [now EXCEPT !.topo = Seen, !.key = SetupFingerprint(Seen),
                                               !.name = name])
    BY <1>3, ReadMoves
  <2> DEFINE r == [now EXCEPT !.topo = Seen, !.key = CurrentKey, !.name = name]
  <2>2. Moves(p, <<>>, r) /\ Head(now.todo) = "look"
    BY <1>3, <2>1 DEF CurrentKey, Look, At
  <2> HIDE DEF r
  <2>3. /\ now.todo # <<>> /\ next.cmd = now.cmd /\ next.quiet = now.quiet
        /\ <<>> \in Continuations(Head(now.todo)) /\ next.todo = <<>> \o Tail(now.todo)
        /\ now \in HeldFields(now) /\ SameHeld(next, r)
    BY <1>2, <2>2
  <2>4. /\ r.topo = Seen /\ r.key = CurrentKey /\ r.known = now.known /\ r.target = now.target
        /\ r.plan = now.plan /\ r.assign = now.assign
    BY <2>3 DEF r, HeldFields
  <2> QED
    BY <2>2, <2>3, <2>4 DEF Advances, SameHeld
<1>4. ASSUME ReadContext(p) PROVE Advances(p)
  <2> DEFINE r == [now EXCEPT !.known = st.known, !.last = st.last]
  <2>2. Moves(p, <<>>, r) /\ Head(now.todo) = "context"
    BY <1>4, ReadMoves DEF ReadContext, At
  <2> HIDE DEF r
  <2>3. /\ now.todo # <<>> /\ next.cmd = now.cmd /\ next.quiet = now.quiet
        /\ <<>> \in Continuations(Head(now.todo)) /\ next.todo = <<>> \o Tail(now.todo)
        /\ now \in HeldFields(now) /\ SameHeld(next, r)
    BY <1>2, <2>2
  <2>4. /\ r.topo = now.topo /\ r.key = now.key /\ r.known = st.known /\ r.target = now.target
        /\ r.plan = now.plan /\ r.assign = now.assign /\ r.name = now.name
    BY <2>3 DEF r, HeldFields
  <2> QED
    BY <2>2, <2>3, <2>4 DEF Advances, SameHeld
<1>5. ASSUME ReadSettings(p) PROVE Advances(p)
  <2> DEFINE s == [ps EXCEPT !.profiles = {}]
             r == [now EXCEPT !.settings = s]
  <2>2. Moves(p, <<>>, r) /\ Head(now.todo) = "settings"
    BY <1>5, ReadMoves DEF ReadSettings, At
  <2> HIDE DEF s, r
  <2>3. /\ now.todo # <<>> /\ next.cmd = now.cmd /\ next.quiet = now.quiet
        /\ <<>> \in Continuations(Head(now.todo)) /\ next.todo = <<>> \o Tail(now.todo)
        /\ now \in HeldFields(now) /\ SameHeld(next, r)
    BY <1>2, <2>2
  <2>4. /\ r.topo = now.topo /\ r.key = now.key /\ r.known = now.known /\ r.target = now.target
        /\ r.plan = now.plan /\ r.assign = now.assign /\ r.name = now.name
    BY <2>3 DEF r, HeldFields
  <2> QED
    BY <2>2, <2>3, <2>4 DEF Advances, SameHeld
<1>6. ASSUME ReadLayouts(p) PROVE Advances(p)
  <2> DEFINE steps == When(now.key \notin DOMAIN ps.layouts, <<"context", "others">>)
  <2>1. Moves(p, steps, now) /\ Head(now.todo) = "layouts"
    BY <1>6, ReadMoves DEF ReadLayouts, At
  <2>2. steps = When(now.key \notin DOMAIN ps.layouts, <<"context", "others">>)
    OBVIOUS
  <2> HIDE DEF steps
  <2>3. /\ now.todo # <<>> /\ next.cmd = now.cmd /\ next.quiet = now.quiet
        /\ steps \in Continuations(Head(now.todo)) /\ next.todo = steps \o Tail(now.todo)
        /\ SameHeld(next, now)
    BY <1>2, <2>1
  <2> QED
    BY <2>1, <2>2, <2>3 DEF Advances, SameHeld
<1>7. ASSUME ReadOthers(p) PROVE Advances(p)
  <2>1. PICK order \in IterationOrders :
            LET all == ProfilesForSetup(ps, now.key, now.known, order)
            IN  Moves(p, <<>>, [now EXCEPT !.assign = \A q \in all : q.name = now.name])
    BY <1>7, ReadMoves
  <2> DEFINE only == \A q \in ProfilesForSetup(ps, now.key, now.known, order) : q.name = now.name
             r == [now EXCEPT !.assign = only]
  <2>2. Moves(p, <<>>, r) /\ Head(now.todo) = "others"
    BY <1>7, <2>1 DEF ReadOthers, At
  <2>3. only = \A q \in ProfilesForSetup(ps, now.key, now.known, order) : q.name = now.name
    OBVIOUS
  <2> HIDE DEF only, r
  <2>4. /\ now.todo # <<>> /\ next.cmd = now.cmd /\ next.quiet = now.quiet
        /\ <<>> \in Continuations(Head(now.todo)) /\ next.todo = <<>> \o Tail(now.todo)
        /\ now \in HeldFields(now) /\ SameHeld(next, r)
    BY <1>2, <2>2
  <2>5. /\ r.topo = now.topo /\ r.key = now.key /\ r.known = now.known /\ r.target = now.target
        /\ r.plan = now.plan /\ r.assign = only /\ r.name = now.name
    BY <2>4 DEF r, HeldFields
  <2>6. \E o \in IterationOrders :
            next.assign = \A q \in ProfilesForSetup(ps, now.key, now.known, o) : q.name = now.name
    BY <2>3, <2>4, <2>5 DEF SameHeld
  <2> QED
    BY <2>2, <2>4, <2>5, <2>6 DEF Advances, SameHeld
<1>8. ASSUME ReadKey(p) PROVE Advances(p)
  <2> DEFINE key == SetupFingerprint(NormalizeTopology(now.topo, st.known))
             r == [now EXCEPT !.key = key]
  <2>2. Moves(p, <<>>, r) /\ Head(now.todo) = "key"
    BY <1>8, ReadMoves DEF ReadKey, At
  <2>3. key = SetupFingerprint(NormalizeTopology(now.topo, st.known))
    OBVIOUS
  <2> HIDE DEF key, r
  <2>4. /\ now.todo # <<>> /\ next.cmd = now.cmd /\ next.quiet = now.quiet
        /\ <<>> \in Continuations(Head(now.todo)) /\ next.todo = <<>> \o Tail(now.todo)
        /\ now \in HeldFields(now) /\ SameHeld(next, r)
    BY <1>2, <2>2
  <2>5. /\ r.topo = now.topo /\ r.key = key /\ r.known = now.known /\ r.target = now.target
        /\ r.plan = now.plan /\ r.assign = now.assign /\ r.name = now.name
    BY <2>4 DEF r, HeldFields
  <2> QED
    BY <2>2, <2>3, <2>4, <2>5 DEF Advances, SameHeld
<1>9. ASSUME ProfileExists(p) \/ LayoutDefaulted(p) PROVE Advances(p)
  <2>1. PICK steps : Moves(p, steps, now)
    BY <1>9, ReadMoves
  <2>2. Head(now.todo) \in {"exists", "defaulted"}
    BY <1>9 DEF ProfileExists, LayoutDefaulted, At
  <2> QED
    BY <1>1, <2>1, <2>2, AdvancesPlainly
<1>10. Writes(p)
  BY DEF ReadStep, Look, ReadContext, ReadSettings, ReadLayouts, ReadOthers, ReadKey,
         ProfileExists, LayoutDefaulted, At, Private, shared, Writes
<1> QED
  BY <1>3, <1>4, <1>5, <1>6, <1>7, <1>8, <1>9, <1>10 DEF ReadStep

(* Choosing what to apply. *)
LEMMA ChooseAdvances ==
    ASSUME TypeInv, NEW p \in Procs, ChooseStep(p)
    PROVE  Advances(p) /\ Writes(p)
<1> DEFINE now == run[p]
           next == run'[p]
<1>1. PICK steps, target, listed, settings :
        Moves(p, steps, [now EXCEPT !.target = target, !.listed = listed, !.settings = settings])
  BY ChooseMoves
<1> DEFINE r == [now EXCEPT !.target = target, !.listed = listed, !.settings = settings]
<1>2. Moves(p, steps, r) /\ Head(now.todo) \in {"find", "list", "select", "next"}
  BY <1>1 DEF ChooseStep, FindProfile, ListProfiles, Select, NextTarget, At
<1> HIDE DEF r
<1>3. /\ now.todo # <<>> /\ next.cmd = now.cmd /\ next.quiet = now.quiet
      /\ steps \in Continuations(Head(now.todo)) /\ next.todo = steps \o Tail(now.todo)
      /\ now \in HeldFields(now) /\ SameHeld(next, r)
  BY <1>2, MovesOn DEF TypeInv
<1>4. ListProfiles(p) => next.target = now.target
  <2> SUFFICES ASSUME ListProfiles(p) PROVE next.target = now.target
    OBVIOUS
  <2>1. PICK listing : Go(p, [now EXCEPT !.listed = listing])
    BY DEF ListProfiles
  <2>2. next = [[now EXCEPT !.listed = listing] EXCEPT !.todo = <<>> \o Tail(@)]
    BY <2>1 DEF Go, GoVia, TypeInv, RunInv
  <2> QED
    BY <1>3, <2>2 DEF HeldFields
<1>5. /\ r.topo = now.topo /\ r.key = now.key /\ r.known = now.known
      /\ r.plan = now.plan /\ r.assign = now.assign /\ r.name = now.name
  BY <1>3 DEF r, HeldFields
<1>6. Head(now.todo) = "list" => next.target = now.target
  <2>1. Head(now.todo) = "list" => ListProfiles(p)
    BY DEF ChooseStep, FindProfile, Select, NextTarget, At
  <2> QED
    BY <1>4, <2>1
<1>7. Advances(p)
  BY <1>2, <1>3, <1>5, <1>6 DEF Advances, SameHeld
<1>8. Writes(p)
  BY DEF ChooseStep, FindProfile, ListProfiles, Select, NextTarget, At, Private, shared, Writes
<1> QED
  BY <1>7, <1>8

(* Applying it. *)
LEMMA ApplyAdvances ==
    ASSUME TypeInv, NEW p \in Procs, ApplyStep(p), ~ApplyUnanswered(p)
    PROVE  Advances(p) /\ Writes(p)
<1> DEFINE now == run[p]
           next == run'[p]
<1>1. RunInv
  BY DEF TypeInv
<1>2. ASSUME Plan(p) PROVE Advances(p)
  <2>1. PICK plan : Moves(p, <<>>, [now EXCEPT !.plan = plan])
    BY <1>2, ApplyMoves
  <2> DEFINE r == [now EXCEPT !.plan = plan]
  <2>2. Moves(p, <<>>, r) /\ Head(now.todo) = "plan"
    BY <1>2, <2>1 DEF Plan, At
  <2> HIDE DEF r
  <2>3. /\ now.todo # <<>> /\ next.cmd = now.cmd /\ next.quiet = now.quiet
        /\ <<>> \in Continuations(Head(now.todo)) /\ next.todo = <<>> \o Tail(now.todo)
        /\ now \in HeldFields(now) /\ SameHeld(next, r)
    BY <1>1, <2>2, MovesOn
  <2>4. /\ r.topo = now.topo /\ r.key = now.key /\ r.known = now.known /\ r.target = now.target
        /\ r.assign = now.assign /\ r.name = now.name
    BY <2>3 DEF r, HeldFields
  <2> QED
    BY <2>2, <2>3, <2>4 DEF Advances, SameHeld
<1>3. ASSUME Validate(p) \/ RunHooks(p) \/ Apply(p) PROVE Advances(p)
  <2>1. PICK steps : Moves(p, steps, now)
    BY <1>3, ApplyMoves
  <2>2. Head(now.todo) \in {"validate", "hooks", "apply"}
    BY <1>3 DEF Validate, RunHooks, Apply, At
  <2> QED
    BY <1>1, <2>1, <2>2, AdvancesPlainly
<1>4. ASSUME Snapshot(p) PROVE Advances(p)
  <2> DEFINE r == [now EXCEPT !.topo = hw]
  <2>2. Moves(p, <<>>, r) /\ Head(now.todo) = "snapshot"
    BY <1>4, ApplyMoves DEF Snapshot, At
  <2> HIDE DEF r
  <2>3. /\ now.todo # <<>> /\ next.cmd = now.cmd /\ next.quiet = now.quiet
        /\ <<>> \in Continuations(Head(now.todo)) /\ next.todo = <<>> \o Tail(now.todo)
        /\ now \in HeldFields(now) /\ SameHeld(next, r)
    BY <1>1, <2>2, MovesOn
  <2>4. /\ r.topo = hw /\ r.key = now.key /\ r.known = now.known /\ r.target = now.target
        /\ r.plan = now.plan /\ r.assign = now.assign /\ r.name = now.name
    BY <2>3 DEF r, HeldFields
  <2> QED
    BY <2>2, <2>3, <2>4 DEF Advances, SameHeld
<1>5. Writes(p)
  BY DEF ApplyStep, Plan, Validate, RunHooks, Apply, Snapshot, At, Private, Writing, shared, Writes
<1> QED
  BY <1>2, <1>3, <1>4, <1>5 DEF ApplyStep

(* Replacing a file. *)
LEMMA WriteAdvances ==
    ASSUME TypeInv, NEW p \in Procs, WriteStep(p)
    PROVE  Advances(p) /\ Writes(p)
<1>1. Head(run[p].todo) \in {"store", "default", "layout", "record", "remove", "clear"}
  BY DEF WriteStep, StoreProfile, SetDefault, SetDefaultLayout, Record, RemoveProfile,
         ClearLayout, At
<1>2. Moves(p, <<>>, run[p])
  BY WriteMoves
<1>3. Advances(p)
  BY <1>1, <1>2, AdvancesPlainly DEF TypeInv
<1>4. Writes(p)
  BY DEF WriteStep, StoreProfile, SetDefault, SetDefaultLayout, Record, RemoveProfile,
         ClearLayout, At, Writing, Writes
<1> QED
  BY <1>3, <1>4

(* A step of a process: it starts, it ends, or it takes its next step.     *)
LEMMA StepOf ==
    ASSUME TypeInv, NEW p \in Procs, Step(p)
    PROVE  \/ /\ \E c \in CommandLines : run'[p] = Started(c)
              /\ run[p].todo = <<>> /\ UNCHANGED shared
           \/ run'[p] = Idle /\ UNCHANGED ps
           \/ Advances(p) /\ Writes(p)
<1>1. DOMAIN run = Procs
  BY DEF TypeInv, RunInv
<1>2. CASE \E c \in CommandLines : Start(p, c)
  BY <1>1, <1>2 DEF Start, Started
<1>3. CASE Report(p) \/ Fails(p)
  BY <1>1, <1>3 DEF Report, Fails, Private, shared
<1>4. CASE ApplyUnanswered(p)
  BY <1>4 DEF ApplyUnanswered, Changing
<1>5. CASE ReadStep(p) \/ ChooseStep(p) \/ WriteStep(p)
  BY <1>5, ReadAdvances, ChooseAdvances, WriteAdvances
<1>6. CASE ApplyStep(p) /\ ~ApplyUnanswered(p)
  BY <1>6, ApplyAdvances
<1> QED
  BY <1>2, <1>3, <1>4, <1>5, <1>6 DEF Step

(* The others notice nothing, or are no longer alone.                      *)
LEMMA OthersOf ==
    ASSUME TypeInv, NEW p \in Procs, Step(p), NEW q \in Procs \ {p}
    PROVE  \/ run'[q] = run[q] /\ UNCHANGED shared
           \/ /\ ~run'[q].quiet
              /\ run'[q].todo = run[q].todo
<1>1. DOMAIN run = Procs /\ run[q] \in HeldFields(run[q])
  BY DEF TypeInv, RunInv, Held
<1>2. ASSUME NEW r, run' = [run EXCEPT ![p] = r], UNCHANGED shared
      PROVE  run'[q] = run[q] /\ UNCHANGED shared
  BY <1>1, <1>2
<1>3. ASSUME NEW r, NEW steps, GoVia(p, steps, r), UNCHANGED shared
      PROVE  run'[q] = run[q] /\ UNCHANGED shared
  BY <1>1, <1>3 DEF GoVia
<1>4. ASSUME NEW r, Changing(p, r)
      PROVE  ~run'[q].quiet /\ run'[q].todo = run[q].todo
  BY <1>1, <1>4 DEF Changing, HeldFields
<1>5. CASE \E c \in CommandLines : Start(p, c)
  <2>1. UNCHANGED shared /\ \E r : run' = [run EXCEPT ![p] = r]
    BY <1>5 DEF Start
  <2> QED
    BY <1>2, <2>1
<1>6. CASE Report(p) \/ Fails(p)
  <2>1. UNCHANGED shared /\ \E r : run' = [run EXCEPT ![p] = r]
    BY <1>6 DEF Report, Fails, Private
  <2> QED
    BY <1>2, <2>1
<1>7. CASE ReadStep(p)
  <2>1. UNCHANGED shared /\ \E steps, r : GoVia(p, steps, r)
    BY <1>7 DEF ReadStep, Look, ReadContext, ReadSettings, ReadLayouts, ReadOthers, ReadKey,
            ProfileExists, LayoutDefaulted, Private, Go
  <2> QED
    BY <1>3, <2>1
<1>8. CASE ChooseStep(p)
  <2>1. UNCHANGED shared /\ \E steps, r : GoVia(p, steps, r)
    BY <1>8 DEF ChooseStep, FindProfile, ListProfiles, Select, NextTarget, Private, Go
  <2> QED
    BY <1>3, <2>1
<1>9. CASE ApplyStep(p)
  <2>1. \/ UNCHANGED shared /\ \E steps, r : GoVia(p, steps, r)
        \/ \E r : Changing(p, r)
    BY <1>9 DEF ApplyStep, Plan, Validate, RunHooks, Apply, ApplyUnanswered, Snapshot, Private,
            Go, GoChanging
  <2> QED
    BY <1>3, <1>4, <2>1
<1>10. CASE WriteStep(p)
  <2>1. \/ UNCHANGED shared /\ \E steps, r : GoVia(p, steps, r)
        \/ \E r : Changing(p, r)
    BY <1>10 DEF WriteStep, StoreProfile, SetDefault, SetDefaultLayout, Record, RemoveProfile,
            ClearLayout, Go, GoChanging, shared
  <2> QED
    BY <1>3, <1>4, <2>1
<1> QED
  BY <1>5, <1>6, <1>7, <1>8, <1>9, <1>10 DEF Step

(* The steps that are left then. *)
LEMMA StepsLeft ==
    ASSUME RunInv, NEW p \in Procs, Advances(p)
    PROVE  LET c == run[p].cmd
               h == Head(run[p].todo)
               L == Left(run[p].todo)
               M == Left(run'[p].todo)
           IN  /\ c \in CommandLines /\ h \in Uses(c) /\ run[p].todo # <<>>
               /\ \A y \in Steps \ (Added \cup Anytime) : y \in M <=> y \in L /\ y # h
               /\ h \notin Anytime => \A y \in Steps \ Anytime :
                    Turn(c, y) < Turn(c, h) => y \notin L
               /\ h \notin Anytime => \A y \in Left(Program(c)) \ Anytime :
                    Turn(c, h) < Turn(c, y) => y \in M
               /\ \A y \in L : y # h => y \in M
               /\ "others" \in M => h = "layouts" \/ (h = "context" /\ "others" \in L)
               /\ h = "layouts" => ("others" \in M <=> run[p].key \notin DOMAIN ps.layouts)
               /\ run'[p].todo # <<>> /\ h # "context" => Head(run'[p].todo) \notin Informed
<1> DEFINE now == run[p]
           c == now.cmd
           todo == now.todo
           h == Head(todo)
           t == Tail(todo)
           L == Left(todo)
           M == Left(run'[p].todo)
<1>1. todo # <<>>
  BY DEF Advances
<1>2. /\ c \in CommandLines /\ Control(c, todo) /\ Complete(c, todo) /\ h \in Uses(c)
      /\ todo \in Seq(Steps)
  BY <1>1, NowHeld
<1>3. PICK steps \in Continuations(h) :
        /\ run'[p].todo = steps \o t
        /\ h = "layouts" => run'[p].todo =
            When(now.key \notin DOMAIN ps.layouts, <<"context", "others">>) \o t
  BY DEF Advances
<1>4. /\ Control(c, t) /\ L = {h} \cup Left(t)
      /\ h \notin Anytime => \A x \in Left(t) \ Anytime : Turn(c, h) < Turn(c, x)
      /\ h # "context" => Left(t) \cap Added = {}
  BY <1>1, <1>2, ControlOfTail
<1>5. /\ Control(c, run'[p].todo) /\ M = Left(steps) \cup Left(t)
      /\ run'[p].todo # <<>> /\ h # "context" => Head(run'[p].todo) \notin Informed
  BY <1>1, <1>2, <1>3, ControlOfStep
<1>6. Left(steps) \subseteq Added \cup Anytime
  BY <1>3, LeftOfTuples DEF Continuations, Added, Anytime
<1>7. \A s : Turn(c, s) \in Nat
  BY TurnType
<1>8. /\ "others" \in M => h = "layouts" \/ (h = "context" /\ "others" \in L)
      /\ h = "layouts" => ("others" \in M <=> now.key \notin DOMAIN ps.layouts)
  <2>1. "others" \in Left(steps) => h = "layouts"
    BY <1>3, LeftOfTuples DEF Continuations
  <2>2. "others" \in Added /\ t \in Seq(Steps)
    BY <1>4 DEF Added, Control
  <2>3. CASE h = "layouts"
    <3>1. now.key \in DOMAIN ps.layouts => M = Left(t)
      <4> SUFFICES ASSUME now.key \in DOMAIN ps.layouts PROVE M = Left(t)
        OBVIOUS
      <4>1. run'[p].todo = <<>> \o t
        BY <1>3, <2>3 DEF When
      <4> QED
        BY <2>2, <4>1
    <3>2. now.key \notin DOMAIN ps.layouts => "others" \in M
      <4> SUFFICES ASSUME now.key \notin DOMAIN ps.layouts PROVE "others" \in M
        OBVIOUS
      <4>1. run'[p].todo = <<"context", "others">> \o t
        BY <1>3, <2>3 DEF When
      <4>2. <<"context", "others">> \in Seq(Steps)
        BY DEF Steps
      <4>3. M = Left(<<"context", "others">>) \cup Left(t)
        BY <2>2, <4>1, <4>2, LeftOfConcat
      <4> QED
        BY <4>3, LeftOfTuples
    <3> QED
      BY <1>4, <2>2, <2>3, <3>1, <3>2
  <2> QED
    BY <1>4, <1>5, <2>1, <2>2, <2>3
<1> HIDE DEF h, t, L, M
<1>9. \A y \in Steps \ (Added \cup Anytime) : y \in M <=> y \in L /\ y # h
  <2>1. ASSUME NEW y \in Left(t), y \notin Anytime PROVE y # h
    BY <1>4, <1>7, <2>1
  <2> QED
    BY <1>4, <1>5, <1>6, <2>1
<1>10. ASSUME h \notin Anytime, NEW y \in Steps \ Anytime, Turn(c, y) < Turn(c, h)
       PROVE  y \notin L
  BY <1>4, <1>7, <1>10
<1>11. ASSUME h \notin Anytime, NEW y \in Left(Program(c)) \ Anytime, Turn(c, h) < Turn(c, y)
       PROVE  y \in M
  <2>1. h \in L
    BY <1>4
  <2>2. y \in L
    BY <1>2, <1>7, <1>11, <2>1 DEF Complete, L
  <2>3. y # h
    BY <1>7, <1>11
  <2> QED
    BY <1>4, <1>5, <2>2, <2>3
<1>12. \A y \in L : y # h => y \in M
  BY <1>4, <1>5
<1> QED
  BY <1>1, <1>2, <1>5, <1>8, <1>9, <1>10, <1>11, <1>12 DEF h, L, M

(* What a command changes itself does not change the setup. *)
LEMMA SeenAgain ==
    ASSUME TypeInv, NEW p \in Procs, run[p].quiet, Effected(p), Advances(p), Writes(p)
    PROVE  /\ CurrentKey' = CurrentKey
           /\ Head(run[p].todo) # "apply" => Seen' = Seen /\ hw' = hw
<1> DEFINE now == run[p]
           h == Head(now.todo)
<1>1. IsTopology(hw) /\ IsCache(st.known) /\ IsState(st) /\ RunInv
  BY SeenType DEF TypeInv, SharedInv
<1>2. CASE h = "apply"
  <2>1. Submittable(now.plan, hw) /\ hw' = Configure(hw, now.plan) /\ st' = st
    BY <1>2 DEF Writes
  <2>2. SetupFingerprint(NormalizeTopology(Configure(hw, now.plan), st.known)) =
            SetupFingerprint(NormalizeTopology(hw, st.known))
    BY <1>1, <2>1, ConfigureKeepsIdentities
  <2> QED
    BY <1>2, <2>1, <2>2 DEF CurrentKey, Seen
<1>3. CASE h = "record"
  <2>1. hw' = hw /\ st' = UpdateObserved(st, now.topo, RecordedName(now.target))
    BY <1>3 DEF Writes
  <2>2. now.topo = hw
    <3>1. Applies(now.cmd)
      BY <1>1, <1>3, StepsLeft DEF Uses
    <3>2. "snapshot" \in Steps \ Anytime /\ h \notin Anytime
          /\ Turn(now.cmd, "snapshot") < Turn(now.cmd, h)
      BY <1>3 DEF Steps, Anytime, Turn
    <3>3. "snapshot" \notin Left(now.todo)
      BY <1>1, <3>2, StepsLeft
    <3> QED
      BY <3>1, <3>3 DEF Effected, Ahead
  <2>3. st'.known = CacheIdentities(st.known, NormalizeTopology(hw, st.known))
    BY <1>1, <2>1, <2>2, UpdateObservedFields
  <2>4. NormalizeTopology(hw, CacheIdentities(st.known, NormalizeTopology(hw, st.known)))
            = NormalizeTopology(hw, st.known)
    BY <1>1, NormalizeAgain
  <2>5. Seen' = Seen
    BY <2>1, <2>3, <2>4 DEF Seen
  <2> QED
    BY <2>1, <2>5 DEF CurrentKey
<1>4. CASE h \notin {"apply", "record"}
  <2>1. hw' = hw /\ st' = st
    BY <1>4 DEF Writes
  <2> QED
    BY <2>1 DEF CurrentKey, Seen
<1> QED
  BY <1>2, <1>3, <1>4

(* A step keeps what has been applied and recorded in place. *)
LEMMA EffectedKept ==
    ASSUME TypeInv, NEW p \in Procs, run[p].quiet, Effected(p), Advances(p), Writes(p)
    PROVE  Effected(p)'
<1> DEFINE now == run[p]
           next == run'[p]
           c == now.cmd
           h == Head(now.todo)
           L == Left(now.todo)
           M == Left(next.todo)
<1>1. IsTopology(hw) /\ Unmirrored(hw) /\ IsCache(st.known) /\ IsState(st) /\ RunInv
  BY SeenType DEF TypeInv, SharedInv
<1>2. SUFFICES ASSUME Applies(c)
               PROVE  /\ "apply" \notin M => LayoutHolds(next.plan, hw')
                      /\ "snapshot" \notin M => next.topo = hw'
                      /\ "record" \notin M => Recorded(p)'
  BY DEF Effected, Ahead, Advances
<1>3. /\ c \in CommandLines /\ h \in Uses(c)
      /\ \A y \in Steps \ (Added \cup Anytime) : y \in M <=> y \in L /\ y # h
      /\ h \notin Anytime => \A y \in Steps \ Anytime : Turn(c, y) < Turn(c, h) => y \notin L
      /\ h \notin Anytime => \A y \in Left(Program(c)) \ Anytime :
            Turn(c, h) < Turn(c, y) => y \in M
  BY <1>1, StepsLeft
<1>4. /\ {"plan", "validate", "apply", "snapshot", "record"} \subseteq Left(Program(c))
      /\ {"apply", "snapshot", "record"} \subseteq Steps \ (Added \cup Anytime)
  BY <1>2, <1>3, ProgramControl DEF Steps, Added, Anytime
<1>5. /\ "apply" \notin L => LayoutHolds(now.plan, hw)
      /\ "snapshot" \notin L => now.topo = hw
      /\ "record" \notin L => Recorded(p)
  BY <1>2 DEF Effected, Ahead
<1> HIDE DEF L, M, h, c
<1>6. "apply" \notin M => LayoutHolds(next.plan, hw')
  <2> SUFFICES ASSUME "apply" \notin M PROVE LayoutHolds(next.plan, hw')
    OBVIOUS
  <2>1. CASE h = "apply"
    <3>1. Submittable(now.plan, hw) /\ hw' = Configure(hw, now.plan) /\ next.plan = now.plan
      BY <2>1 DEF Writes, Advances, h
    <3> QED
      BY <1>1, <3>1, AppliedPlanHolds
  <2>2. CASE h = "plan"
    <3>1. h \notin Anytime /\ Turn(c, h) < Turn(c, "apply") /\ "apply" \notin Anytime
      BY <2>2 DEF Turn, Anytime
    <3> QED
      BY <1>3, <1>4, <3>1
  <2>3. CASE h \notin {"apply", "plan"}
    <3>1. next.plan = now.plan /\ hw' = hw
      BY <2>3 DEF Writes, Advances, h
    <3>2. "apply" \notin L
      BY <1>3, <1>4, <2>3
    <3> QED
      BY <1>5, <3>1, <3>2
  <2> QED
    BY <2>1, <2>2, <2>3
<1>7. "snapshot" \notin M => next.topo = hw'
  <2> SUFFICES ASSUME "snapshot" \notin M PROVE next.topo = hw'
    OBVIOUS
  <2>1. CASE h = "snapshot"
    BY <2>1 DEF Writes, Advances, h
  <2>2. CASE h \in {"look", "apply"}
    <3>1. h \notin Anytime /\ Turn(c, h) < Turn(c, "snapshot") /\ "snapshot" \notin Anytime
      BY <2>2 DEF Turn, Anytime
    <3> QED
      BY <1>3, <1>4, <3>1
  <2>3. CASE h \notin {"snapshot", "look", "apply"}
    <3>1. next.topo = now.topo /\ hw' = hw
      BY <2>3 DEF Writes, Advances, h
    <3>2. "snapshot" \notin L
      BY <1>3, <1>4, <2>3
    <3> QED
      BY <1>5, <3>1, <3>2
  <2> QED
    BY <2>1, <2>2, <2>3
<1>8. "record" \notin M => Recorded(p)'
  <2> SUFFICES ASSUME "record" \notin M PROVE Recorded(p)'
    OBVIOUS
  <2>1. CASE h = "record"
    <3> DEFINE n == NormalizeTopology(hw, st.known)
    <3>1. /\ st' = UpdateObserved(st, now.topo, RecordedName(now.target))
          /\ next.target = now.target /\ hw' = hw
      BY <2>1 DEF Writes, Advances, h
    <3>2. now.topo = hw
      <4>1. h \notin Anytime /\ Turn(c, "snapshot") < Turn(c, h)
        BY <2>1 DEF Turn, Anytime
      <4> QED
        BY <1>3, <1>4, <1>5, <4>1
    <3>3. st'.last = RecordedName(next.target) /\ st'.remembered = Remember(st.remembered, n)
      BY <1>1, <3>1, <3>2, UpdateObservedFields
    <3>4. Seen' = n /\ CurrentKey' = SetupFingerprint(n)
      <4>1. h # "apply"
        BY <2>1
      <4>2. Seen' = Seen /\ CurrentKey' = CurrentKey
        BY <4>1, SeenAgain DEF h
      <4> QED
        BY <4>2 DEF Seen, CurrentKey
    <3>5. HasEnabledRealOutputs(hw) => HasEnabledRealOutputs(n)
      <4>1. /\ DOMAIN n = DOMAIN hw
            /\ \A d \in DOMAIN hw : n[d].id.real = hw[d].id.real /\ n[d].enabled = hw[d].enabled
        BY <1>1, NormalizeKeepsLayout DEF IsCache
      <4> HIDE DEF n
      <4> QED
        BY <4>1 DEF HasEnabledRealOutputs, RealOutputs
    <3> HIDE DEF n
    <3>6. HasEnabledRealOutputs(hw) =>
            /\ SetupFingerprint(n) \in DOMAIN st'.remembered
            /\ st'.remembered[SetupFingerprint(n)] = n
      BY <3>3, <3>5 DEF Remember, Put
    <3> QED
      BY <3>1, <3>3, <3>4, <3>6 DEF Recorded
  <2>2. CASE h \in {"find", "select", "next", "apply"}
    <3>1. h \notin Anytime /\ Turn(c, h) < Turn(c, "record") /\ "record" \notin Anytime
      BY <2>2 DEF Turn, Anytime
    <3> QED
      BY <1>3, <1>4, <3>1
  <2>3. CASE h \notin {"record", "find", "select", "next", "apply"}
    <3>1. next.target = now.target /\ hw' = hw /\ st' = st
      BY <2>3 DEF Writes, Advances, h
    <3>2. "record" \notin L
      BY <1>3, <1>4, <2>3
    <3> QED
      BY <1>5, <3>1, <3>2 DEF Recorded, CurrentKey, Seen
  <2> QED
    BY <2>1, <2>2, <2>3
<1> QED
  BY <1>6, <1>7, <1>8 DEF M

(* The setup is known before anything is filed under it.                   *)
LEMMA KeyNow ==
    ASSUME RunInv, NEW p \in Procs, Current(p), Advances(p),
           Head(run[p].todo) \in {"layouts", "others", "find", "store", "default", "layout",
                                  "remove", "clear"}
    PROVE  run[p].key = CurrentKey
<1> DEFINE c == run[p].cmd
           h == Head(run[p].todo)
           L == Left(run[p].todo)
<1>1. /\ c \in CommandLines /\ h \in Uses(c)
      /\ h \notin Anytime => \A y \in Steps \ Anytime : Turn(c, y) < Turn(c, h) => y \notin L
  BY StepsLeft
<1>2. h \notin Anytime /\ {"look", "key"} \subseteq Steps \ Anytime
  BY DEF Anytime, Steps
<1>3. /\ "look" \in Uses(c) => "look" \in Left(Program(c))
      /\ "key" \in Uses(c) => "key" \in Left(Program(c))
  BY <1>1, ProgramControl
<1>4. "look" \notin L
  <2>1. Turn(c, "look") < Turn(c, h)
    BY DEF Turn
  <2> QED
    BY <1>1, <1>2, <2>1
<1>5. h \notin {"layouts", "others", "find"} => "key" \notin L
  <2>1. h \notin {"layouts", "others", "find"} => Turn(c, "key") < Turn(c, h)
    BY DEF Turn
  <2> QED
    BY <1>1, <1>2, <2>1
<1>6. "look" \in Uses(c) \/ ("key" \in Uses(c) /\ h \notin {"layouts", "others", "find"})
  <2>1. CommandLines \subseteq CommandLine /\ (c.save => c.kind = "set")
    BY <1>1, CommandsAssumption
  <2>2. c.kind \in {"save", "set", "profile", "auto", "remove", "cycle"} /\ c.save \in BOOLEAN
        /\ c.default \in BOOLEAN
    BY <1>1, <2>1 DEF CommandLine
  <2> QED
    BY <1>1, <2>1, <2>2 DEF Uses, Steps, Saves
<1> QED
  BY <1>3, <1>4, <1>5, <1>6 DEF Current, Past

(* A step keeps what has been read up to date. *)
LEMMA CurrentKept ==
    ASSUME TypeInv, NEW p \in Procs, run[p].quiet, Effected(p), Current(p), Advances(p),
           Writes(p), run'[p].todo # <<>>
    PROVE  Current(p)'
<1> DEFINE now == run[p]
           next == run'[p]
           c == now.cmd
           h == Head(now.todo)
           L == Left(now.todo)
           M == Left(next.todo)
<1>1. RunInv /\ next.cmd = c
  BY DEF TypeInv, Advances
<1>2. /\ c \in CommandLines /\ h \in Uses(c)
      /\ \A y \in Steps \ (Added \cup Anytime) : y \in M <=> y \in L /\ y # h
      /\ h \notin Anytime => \A y \in Steps \ Anytime : Turn(c, y) < Turn(c, h) => y \notin L
      /\ h # "context" => Head(next.todo) \notin Informed
  BY <1>1, StepsLeft
<1>3. /\ CurrentKey' = CurrentKey
      /\ h # "apply" => Seen' = Seen /\ hw' = hw
  BY SeenAgain
<1>4. {"look", "key"} \subseteq Steps \ (Added \cup Anytime)
  BY DEF Steps, Added, Anytime
<1> HIDE DEF h, L, M
<1>5. ASSUME "look" \in Left(Program(c)) \ M \/ "key" \in Left(Program(c)) \ M
      PROVE  next.key = CurrentKey
  <2>1. CASE h = "look"
    BY <2>1 DEF Advances, h
  <2>2. CASE h = "key"
    <3>1. next.key = SetupFingerprint(NormalizeTopology(now.topo, st.known))
      BY <2>2 DEF Advances, h
    <3>2. "snapshot" \notin L
      <4>1. "snapshot" \in Steps \ Anytime /\ h \notin Anytime /\ Turn(c, "snapshot") < Turn(c, h)
        BY <2>2 DEF Steps, Anytime, Turn
      <4> QED
        BY <1>2, <4>1
    <3>3. Applies(c)
      BY <1>2, <2>2 DEF Uses, Applies
    <3>4. now.topo = hw
      BY <3>2, <3>3 DEF Effected, Ahead, L
    <3> QED
      BY <3>1, <3>4 DEF CurrentKey, Seen
  <2>3. CASE h \notin {"look", "key"}
    <3>1. next.key = now.key
      BY <2>3 DEF Advances, h
    <3>2. "look" \in Left(Program(c)) \ L \/ "key" \in Left(Program(c)) \ L
      BY <1>2, <1>4, <1>5, <2>3
    <3> QED
      BY <3>1, <3>2 DEF Current, Past, L
  <2> QED
    BY <2>1, <2>2, <2>3
<1>6. ASSUME c.kind = "save", "look" \notin M PROVE next.topo = Seen'
  <2>1. h \notin {"apply", "snapshot"}
    BY <1>2, <1>6 DEF Uses, Applies
  <2>2. CASE h = "look"
    BY <1>3, <2>2 DEF Advances, h
  <2>3. CASE h # "look"
    <3>1. next.topo = now.topo
      BY <2>1, <2>3 DEF Advances, h
    <3>2. "look" \notin L
      BY <1>2, <1>4, <1>6, <2>3
    <3> QED
      BY <1>3, <1>6, <2>1, <3>1, <3>2 DEF Current, Ahead, L
  <2> QED
    BY <2>2, <2>3
<1>7. ASSUME Head(next.todo) \in Informed PROVE next.known = st'.known
  <2>1. h = "context"
    BY <1>2, <1>7
  <2> QED
    BY <2>1 DEF Advances, Writes, h
<1>8. (Past(p, "look") \/ Past(p, "key"))' => next.key = CurrentKey'
  BY <1>1, <1>3, <1>5 DEF Past, M
<1>9. (run[p].cmd.kind = "save" /\ ~Ahead(p, "look"))' => next.topo = Seen'
  BY <1>1, <1>6 DEF Ahead, M
<1> QED
  BY <1>7, <1>8, <1>9 DEF Current

----------------------------------------------------------------------------
(* Whether a profile is the only one of its setup. *)

(* All profiles of a setup have one name: of those read, and of those      *)
(* stored.                                                                 *)
AllNamed(s, fp, known, order, name) ==
    \A q \in ProfilesForSetup(s, fp, known, order) : q.name = name

StoredNamed(s, fp, known, order, name) ==
    \A q \in s.profiles :
        ProfileSetupFingerprint(CanonicalizeProfile(q, known, order)) = fp => q.name = name

(* The two are the same, whichever order the profiles are read in.         *)
LEMMA OneName ==
    ASSUME NEW s, IsStore(s), \A q \in s.profiles : IsTopology(q.layout),
           NEW known, IsCache(known), NEW fp, NEW name,
           NEW order \in IterationOrders, NEW other \in IterationOrders
    PROVE  AllNamed(s, fp, known, order, name) <=> StoredNamed(s, fp, known, other, name)
<1>1. \A q \in s.profiles :
        /\ CanonicalizeProfile(q, known, order).name = q.name
        /\ ProfileSetupFingerprint(CanonicalizeProfile(q, known, order)) =
             ProfileSetupFingerprint(CanonicalizeProfile(q, known, other))
  <2> SUFFICES ASSUME NEW q \in s.profiles
               PROVE  /\ CanonicalizeProfile(q, known, order).name = q.name
                      /\ ProfileSetupFingerprint(CanonicalizeProfile(q, known, order)) =
                           ProfileSetupFingerprint(CanonicalizeProfile(q, known, other))
    OBVIOUS
  <2>1. IsProfile(q) /\ IsTopology(q.layout)
    BY DEF IsStore
  <2>2. CanonicalizeProfile(q, known, order).name = q.name
    BY <2>1, CanonicalProfile
  <2>3. ProfileSetupFingerprint(CanonicalizeProfile(q, known, order)) =
          ProfileSetupFingerprint(CanonicalizeProfile(q, known, other))
    BY <2>1, FingerprintIgnoresOrder, EnvironmentAssumption
  <2> QED
    BY <2>2, <2>3
<1>2. ProfilesForSetup(s, fp, known, order) =
        {p \in {CanonicalizeProfile(q, known, order) : q \in s.profiles} :
            ProfileSetupFingerprint(p) = fp}
  BY DEF ProfilesForSetup
<1> QED
  BY <1>1, <1>2 DEF AllNamed, StoredNamed

(* A step keeps the decision about the default right. *)
LEMMA DecidedKept ==
    ASSUME TypeInv, TypeInv', NEW p \in Procs, run[p].quiet, Effected(p), Current(p),
           Decided(p), Advances(p), Writes(p)
    PROVE  Decided(p)'
<1> DEFINE now == run[p]
           next == run'[p]
           c == now.cmd
           h == Head(now.todo)
           L == Left(now.todo)
           M == Left(next.todo)
<1>1. /\ RunInv /\ next.cmd = c /\ IsCache(st.known)
      /\ IsStore(ps) /\ \A q \in ps.profiles : IsTopology(q.layout)
      /\ IsStore(ps') /\ \A q \in ps'.profiles : IsTopology(q.layout)
  <2>1. SharedInv /\ RunInv
    BY DEF TypeInv
  <2>2. IsStore(ps') /\ \A q \in ps'.profiles : IsTopology(q.layout)
    BY DEF TypeInv, SharedInv, StoreInv
  <2> QED
    BY <2>1, <2>2, SeenType DEF Advances, SharedInv, StoreInv
<1>2. SUFFICES ASSUME Saves(c), ~c.default
               PROVE  /\ "default" \in M /\ "layouts" \in M => ~next.assign
                      /\ "others" \in M => ~next.assign /\ CurrentKey' \notin DOMAIN ps'.layouts
                      /\ "default" \in M /\ "layouts" \notin M /\ "others" \notin M
                            => \A order \in IterationOrders : next.assign <=> Only(p, order)'
  BY <1>1 DEF Decided, Ahead
<1>3. /\ "default" \in L /\ "layouts" \in L => ~now.assign
      /\ "others" \in L => ~now.assign /\ CurrentKey \notin DOMAIN ps.layouts
      /\ "default" \in L /\ "layouts" \notin L /\ "others" \notin L
            => \A order \in IterationOrders : now.assign <=> Only(p, order)
  BY <1>2 DEF Decided, Ahead
<1>4. /\ c \in CommandLines /\ h \in Uses(c)
      /\ \A y \in Steps \ (Added \cup Anytime) : y \in M <=> y \in L /\ y # h
      /\ h \notin Anytime => \A y \in Steps \ Anytime : Turn(c, y) < Turn(c, h) => y \notin L
      /\ h \notin Anytime => \A y \in Left(Program(c)) \ Anytime :
            Turn(c, h) < Turn(c, y) => y \in M
      /\ \A y \in L : y # h => y \in M
      /\ "others" \in M => h = "layouts" \/ (h = "context" /\ "others" \in L)
      /\ h = "layouts" => ("others" \in M <=> now.key \notin DOMAIN ps.layouts)
  BY <1>1, StepsLeft
<1>5. /\ {"default", "layouts"} \subseteq Left(Program(c)) \ Anytime
      /\ {"default", "layouts"} \subseteq Steps \ (Added \cup Anytime)
      /\ h \in L
  <2>1. h \in L
    BY <1>1, NowHeld, ControlOfTail DEF Advances
  <2> QED
    BY <1>2, <1>4, <2>1, ProgramControl DEF Steps, Added, Anytime
<1>6. CurrentKey' = CurrentKey
  BY SeenAgain
<1>7. h \in {"layouts", "others", "store", "default"} => now.key = CurrentKey
  BY <1>1, KeyNow DEF h

(* Where the default is still to be set, nothing is recorded yet. *)
<1>8. "default" \in M => h # "record" /\ st' = st
  <2>1. h = "record" => c.save
    BY <1>2, <1>4 DEF Uses, Saves, Applies
  <2>2. h = "record" => h \notin Anytime /\ Turn(c, "default") < Turn(c, h)
    BY <2>1 DEF Turn, Anytime
  <2>3. h = "record" => "default" \notin L
    BY <1>4, <1>5, <2>2
  <2> QED
    BY <1>4, <1>5, <2>3 DEF Writes
<1>9. h \notin {"layout", "remove", "clear"}
  BY <1>2, <1>4 DEF Uses, Saves
<1> HIDE DEF h, L, M, c
<1>10. h = "layouts" => "default" \in M /\ "default" \in L /\ ~now.assign
  <2> SUFFICES ASSUME h = "layouts" PROVE "default" \in M /\ "default" \in L /\ ~now.assign
    OBVIOUS
  <2>1. h \notin Anytime /\ Turn(c, h) < Turn(c, "default")
    BY DEF Turn, Anytime
  <2>2. "default" \in M
    BY <1>4, <1>5, <2>1
  <2> QED
    BY <1>3, <1>4, <1>5, <2>2
<1>11. ASSUME "default" \in M, "layouts" \in M PROVE ~next.assign
  <2>1. h # "others"
    <3>1. h = "others" => h \notin Anytime /\ Turn(c, "layouts") < Turn(c, h)
      BY DEF Turn, Anytime
    <3> QED
      BY <1>4, <1>5, <1>11, <3>1
  <2>2. next.assign = now.assign
    BY <2>1 DEF Advances, h
  <2> QED
    BY <1>3, <1>4, <1>5, <1>11, <2>2
<1>12. ASSUME "others" \in M PROVE ~next.assign /\ CurrentKey' \notin DOMAIN ps'.layouts
  <2>1. h \in {"layouts", "context"}
    BY <1>4, <1>12
  <2>2. next.assign = now.assign /\ ps' = ps
    BY <2>1 DEF Advances, Writes, h
  <2>3. CASE h = "layouts"
    BY <1>4, <1>6, <1>7, <1>10, <1>12, <2>2, <2>3
  <2>4. CASE h = "context"
    <3>1. "others" \in L
      BY <1>4, <1>12, <2>4
    <3> QED
      BY <1>3, <1>6, <2>2, <3>1
  <2> QED
    BY <2>1, <2>3, <2>4
<1>13. ASSUME "default" \in M, "layouts" \notin M, "others" \notin M, NEW order \in IterationOrders
       PROVE  next.assign <=> Only(p, order)'
  <2>1. "default" \in L /\ h # "default" /\ st' = st
    BY <1>4, <1>5, <1>8, <1>13
  <2>2. h # "look"
    <3>1. h = "look" => h \notin Anytime /\ Turn(c, h) < Turn(c, "layouts")
      BY DEF Turn, Anytime
    <3> QED
      BY <1>4, <1>5, <1>13, <3>1
  <2>3. next.name = now.name
    BY <2>2 DEF Advances, h
  <2>4. Only(p, order)' <=> /\ CurrentKey \notin DOMAIN ps'.layouts
                            /\ AllNamed(ps', CurrentKey, st.known, order, now.name)
    BY <1>6, <2>1, <2>3 DEF Only, CurrentProfiles, AllNamed
  <2>5. Only(p, order) <=> /\ CurrentKey \notin DOMAIN ps.layouts
                           /\ AllNamed(ps, CurrentKey, st.known, order, now.name)
    BY DEF Only, CurrentProfiles, AllNamed
  <2>6. CASE h = "layouts"
    <3>1. next.assign = now.assign /\ ps' = ps
      BY <2>6 DEF Advances, Writes, h
    <3> QED
      BY <1>4, <1>7, <1>10, <1>13, <2>4, <2>6, <3>1
  <2>7. CASE h = "others"
    <3>1. PICK o \in IterationOrders :
            next.assign <=> AllNamed(ps, now.key, now.known, o, now.name)
      BY <2>7 DEF Advances, h, AllNamed
    <3>2. now.key = CurrentKey /\ now.known = st.known /\ ps' = ps
      BY <1>7, <2>7 DEF Current, Informed, Writes, h
    <3>3. CurrentKey \notin DOMAIN ps.layouts
      BY <1>3, <1>5, <2>7
    <3>4. /\ next.assign <=> StoredNamed(ps, CurrentKey, st.known, order, now.name)
          /\ AllNamed(ps, CurrentKey, st.known, order, now.name)
               <=> StoredNamed(ps, CurrentKey, st.known, order, now.name)
      BY <1>1, <3>1, <3>2, OneName
    <3> QED
      BY <2>4, <3>2, <3>3, <3>4
  <2>8. CASE h \notin {"layouts", "others"}
    <3>1. next.assign = now.assign
      BY <2>8 DEF Advances, h
    <3>2. "layouts" \notin L /\ "others" \notin L
      BY <1>4, <1>5, <1>13, <2>8
    <3>3. now.assign <=> Only(p, order)
      BY <1>3, <2>1, <3>2
    <3>4. CASE h # "store"
      <4>1. ps' = ps
        BY <1>9, <2>1, <2>8, <3>4 DEF Writes, h
      <4> QED
        BY <2>4, <2>5, <3>1, <3>3, <4>1
    <3>5. CASE h = "store"
      <4>1. PICK o \in IterationOrders :
              ps' = SaveProfile(ps, ProfileFromTopology(now.name, now.topo, o), now.known, o)
        BY <3>5 DEF Writes, h
      <4> DEFINE new == ProfileFromTopology(now.name, now.topo, o)
                 profile == CanonicalizeProfile(new, now.known, o)
                 gone == ProfilesNamed(ps, profile.name, ProfileSetupFingerprint(profile),
                                       now.known, o)
      <4>2. profile.name = now.name
        <5>1. now.name \in ProfileNames
          BY <1>1, <3>5, NameAtWrite DEF h, At, Advances
        <5>2. IsProfile(new) /\ new.name = now.name
          BY <5>1, ProfileFromTopologyType DEF ProfileFromTopology
        <5> HIDE DEF new
        <5> QED
          BY <5>2, CanonicalProfile
      <4>3. ps'.profiles = (ps.profiles \ gone) \cup {profile} /\ ps'.layouts = ps.layouts
        BY <1>1, <4>1, SaveProfileFields
      <4>4. \A q \in gone : q.name = now.name
        BY <4>2 DEF ProfilesNamed
      <4> HIDE DEF new, profile, gone
      <4>5. /\ AllNamed(ps, CurrentKey, st.known, order, now.name)
                 <=> StoredNamed(ps, CurrentKey, st.known, order, now.name)
            /\ AllNamed(ps', CurrentKey, st.known, order, now.name)
                 <=> StoredNamed(ps', CurrentKey, st.known, order, now.name)
        BY <1>1, OneName
      <4>6. StoredNamed(ps', CurrentKey, st.known, order, now.name)
              <=> StoredNamed(ps, CurrentKey, st.known, order, now.name)
        BY <4>2, <4>3, <4>4 DEF StoredNamed
      <4> QED
        BY <2>4, <2>5, <3>1, <3>3, <4>3, <4>5, <4>6
    <3> QED
      BY <3>4, <3>5
  <2> QED
    BY <2>6, <2>7, <2>8
<1> QED
  BY <1>11, <1>12, <1>13 DEF M

----------------------------------------------------------------------------
(* What is saved, and what is made the default. *)

(* Seen again, the displays are the same. *)
LEMMA SeenComplete ==
    ASSUME SharedInv
    PROVE  Connected(Seen) /\ NormalizeTopology(Seen, st.known) = Seen
<1>1. /\ IsTopology(hw) /\ Connected(hw) /\ IsTopology(Seen) /\ DOMAIN Seen = DOMAIN hw
      /\ IsCache(st.known)
  BY SeenType DEF SharedInv
<1>2. Connected(Seen)
  <2>1. ASSUME NEW d \in DOMAIN hw PROVE Seen[d].id.connector = d
    <3>1. hw[d].id \in OutputIdentity /\ d \in Connectors /\ hw[d].id.connector = d
      BY <1>1 DEF IsTopology, OutputState, Connected
    <3>2. Seen[d].id =
            IF d \in DOMAIN st.known THEN WithFallback(hw[d].id, st.known[d]) ELSE hw[d].id
      BY <1>1, NormalizedIdentity DEF Seen
    <3>3. CASE d \in DOMAIN st.known
      <4>1. st.known[d] \in OutputIdentity
        BY <1>1, <3>3 DEF IsCache
      <4>2. Present(hw[d].id.connector)
        BY <3>1, NoValueAssumption DEF Present
      <4> QED
        BY <3>1, <3>2, <3>3, <4>1, <4>2, WithFallbackAgain
    <3> QED
      BY <3>1, <3>2, <3>3
  <2> QED
    BY <1>1, <2>1 DEF Connected
<1>3. ASSUME NEW d \in DOMAIN hw
      PROVE  NormalizeTopology(Seen, st.known)[d] = Seen[d]
  <2>1. NormalizeTopology(Seen, st.known)[d].id = Seen[d].id /\ Seen[d] \in OutputState
    BY <1>1, NormalizeAgain DEF Seen, IsTopology
  <2>2. CASE d \in DOMAIN st.known
    <3> DEFINE id == WithFallback(Seen[d].id, st.known[d])
    <3>1. NormalizeTopology(Seen, st.known)[d] = [Seen[d] EXCEPT !.id = id]
      BY <1>1, <2>2 DEF NormalizeTopology
    <3>2. id = Seen[d].id
      BY <1>1, <2>1, <2>2, NormalizedIdentity
    <3> HIDE DEF id
    <3>3. [Seen[d] EXCEPT !.id = Seen[d].id] = Seen[d]
      BY <2>1 DEF OutputState
    <3> QED
      BY <3>1, <3>2, <3>3
  <2>3. CASE d \notin DOMAIN st.known
    BY <1>1, <2>3 DEF NormalizeTopology
  <2> QED
    BY <2>2, <2>3
<1>4. NormalizeTopology(Seen, st.known) =
        [d \in DOMAIN Seen |-> NormalizeTopology(Seen, st.known)[d]]
  BY DEF NormalizeTopology
<1>5. Seen = [d \in DOMAIN Seen |-> Seen[d]]
  BY <1>1 DEF IsTopology
<1>6. NormalizeTopology(Seen, st.known) = Seen
  BY <1>1, <1>3, <1>4, <1>5
<1> QED
  BY <1>2, <1>6

(* What is saved is the displays as they are seen, filed under their setup. *)
LEMMA FiledHere ==
    ASSUME TypeInv, NEW p \in Procs, Effected(p), Current(p), Advances(p), At(p, "store"),
           NEW order \in IterationOrders
    PROVE  LET new == ProfileFromTopology(run[p].name, run[p].topo, order)
               profile == CanonicalizeProfile(new, run[p].known, order)
           IN  /\ run[p].known = st.known
               /\ profile.name = run[p].name /\ profile.layout = Seen
               /\ profile.rules = RulesFromLayout(Seen, order)
               /\ ProfileSetupFingerprint(profile) = CurrentKey
<1> DEFINE now == run[p]
           c == now.cmd
           t == now.topo
           L == Left(now.todo)
           new == ProfileFromTopology(now.name, t, order)
<1>1. /\ RunInv /\ SharedInv /\ Head(now.todo) = "store" /\ now.todo # <<>>
      /\ IsTopology(hw) /\ Connected(hw) /\ IsTopology(Seen) /\ DOMAIN Seen = DOMAIN hw
      /\ IsCache(st.known)
  BY SeenType DEF TypeInv, SharedInv, At
<1>2. /\ c \in CommandLines /\ "store" \in Uses(c) /\ "store" \notin Anytime
      /\ \A y \in Steps \ Anytime : Turn(c, y) < Turn(c, "store") => y \notin L
  BY <1>1, StepsLeft DEF Anytime
<1>3. now.known = st.known
  BY <1>1 DEF Current, Informed
<1>4. now.name \in ProfileNames
  BY <1>1, NameAtWrite
<1>5. Connected(Seen) /\ NormalizeTopology(Seen, st.known) = Seen
  BY <1>1, SeenComplete
<1>6. IsTopology(t) /\ Connected(t) /\ NormalizeTopology(t, st.known) = Seen
  <2>1. c.kind = "save" \/ Applies(c)
    BY <1>2 DEF Uses, Saves, Applies
  <2>2. CASE c.kind = "save"
    <3>1. "look" \in Steps \ Anytime /\ Turn(c, "look") < Turn(c, "store")
      BY DEF Steps, Anytime, Turn
    <3>2. t = Seen
      BY <1>2, <2>2, <3>1 DEF Current, Ahead
    <3> QED
      BY <1>1, <1>5, <3>2
  <2>3. CASE Applies(c)
    <3>1. "snapshot" \in Steps \ Anytime /\ Turn(c, "snapshot") < Turn(c, "store")
      BY DEF Steps, Anytime, Turn
    <3>2. t = hw
      BY <1>2, <2>3, <3>1 DEF Effected, Ahead
    <3> QED
      BY <1>1, <3>2 DEF Seen
  <2> QED
    BY <2>1, <2>2, <2>3
<1>7. \A d \in DOMAIN t : t[d].id.connector = d
  BY <1>6 DEF Connected
<1>8. ProfileSetupFingerprint(CanonicalizeProfile(new, st.known, order)) = CurrentKey
  BY <1>1, <1>4, <1>6, <1>7, SavedFingerprint, EnvironmentAssumption DEF CurrentKey
<1>9. LET q == CanonicalizeProfile(new, st.known, order)
      IN  q.name = now.name /\ q.layout = Seen /\ q.rules = RulesFromLayout(Seen, order)
  BY <1>1, <1>4, <1>6, <1>7, SavedProfile, EnvironmentAssumption
<1> QED
  BY <1>3, <1>8, <1>9

(* A step keeps what has been saved where it is found. *)
LEMMA FiledKept ==
    ASSUME TypeInv, NEW p \in Procs, run[p].quiet, Effected(p), Current(p), Filed(p),
           Advances(p), Writes(p)
    PROVE  Filed(p)'
<1> DEFINE now == run[p]
           next == run'[p]
           c == now.cmd
           h == Head(now.todo)
           L == Left(now.todo)
           M == Left(next.todo)
<1>1. RunInv /\ next.cmd = c /\ now.todo # <<>> /\ IsStore(ps)
  BY DEF TypeInv, SharedInv, StoreInv, Advances
<1>2. /\ c \in CommandLines /\ h \in Uses(c)
      /\ \A y \in Steps \ (Added \cup Anytime) : y \in M <=> y \in L /\ y # h
      /\ h \notin Anytime => \A y \in Left(Program(c)) \ Anytime :
            Turn(c, h) < Turn(c, y) => y \in M
  BY <1>1, StepsLeft
<1>3. SUFFICES ASSUME Saves(c), "store" \notin M
               PROVE  \E q \in ps'.profiles :
                        /\ q.name = next.name /\ q.layout = Seen'
                        /\ \E order \in IterationOrders : q.rules = RulesFromLayout(Seen', order)
  BY <1>1 DEF Filed, Ahead
<1>4. /\ "store" \in Left(Program(c)) \ Anytime
      /\ "store" \in Steps \ (Added \cup Anytime)
  BY <1>2, <1>3, ProgramControl DEF Steps, Added, Anytime
<1> HIDE DEF L, M, h
<1>5. h \notin {"look", "apply", "remove"}
  <2>1. h \in {"look", "apply"} => h \notin Anytime /\ Turn(c, h) < Turn(c, "store")
    BY DEF Turn, Anytime
  <2>2. "remove" \notin Uses(c)
    BY <1>3 DEF Uses, Saves
  <2> QED
    BY <1>2, <1>3, <1>4, <2>1, <2>2
<1>6. Seen' = Seen /\ next.name = now.name
  BY <1>5, SeenAgain DEF Advances, h
<1>7. CASE h = "store"
  <2>1. PICK o \in IterationOrders :
          ps' = SaveProfile(ps, ProfileFromTopology(now.name, now.topo, o), now.known, o)
    BY <1>7 DEF Writes, h
  <2> DEFINE new == ProfileFromTopology(now.name, now.topo, o)
             profile == CanonicalizeProfile(new, now.known, o)
  <2>2. /\ profile.name = now.name /\ profile.layout = Seen
        /\ profile.rules = RulesFromLayout(Seen, o)
    BY <1>1, <1>7, FiledHere DEF At, h
  <2>3. profile \in ps'.profiles
    BY <1>1, <2>1, SaveProfileFields
  <2> HIDE DEF profile, new
  <2> QED
    BY <1>6, <2>2, <2>3
<1>8. CASE h # "store"
  <2>1. ps'.profiles = ps.profiles
    BY <1>1, <1>5, <1>8, DefaultFields DEF Writes, h
  <2>2. "store" \notin L
    BY <1>2, <1>3, <1>4, <1>8
  <2> QED
    BY <1>3, <1>6, <2>1, <2>2 DEF Filed, Ahead, L
<1> QED
  BY <1>7, <1>8

(* A step keeps what has been made the default. *)
LEMMA SettledKept ==
    ASSUME TypeInv, NEW p \in Procs, run[p].quiet, Effected(p), Current(p), Settled(p),
           Advances(p), Writes(p)
    PROVE  Settled(p)'
<1> DEFINE now == run[p]
           next == run'[p]
           c == now.cmd
           h == Head(now.todo)
           L == Left(now.todo)
           M == Left(next.todo)
<1>1. RunInv /\ next.cmd = c /\ now.todo # <<>> /\ IsStore(ps)
  BY DEF TypeInv, SharedInv, StoreInv, Advances
<1>2. /\ c \in CommandLines /\ h \in Uses(c)
      /\ \A y \in Steps \ (Added \cup Anytime) : y \in M <=> y \in L /\ y # h
      /\ h \notin Anytime => \A y \in Left(Program(c)) \ Anytime :
            Turn(c, h) < Turn(c, y) => y \in M
  BY <1>1, StepsLeft
<1>3. CurrentKey' = CurrentKey
  BY SeenAgain
<1>4. h \in {"default", "layout"} => now.key = CurrentKey
  BY <1>1, KeyNow
<1>5. {"default", "layout"} \subseteq Steps \ (Added \cup Anytime)
  BY DEF Steps, Added, Anytime
<1> HIDE DEF L, M, h
<1>6. ASSUME Saves(c), next.assign, "default" \notin M
      PROVE  CurrentKey \in DOMAIN ps'.defaults /\ ps'.defaults[CurrentKey] = next.name
  <2>1. h \notin {"look", "others", "store", "layout", "remove", "clear"}
    <3>1. "default" \in Left(Program(c)) \ Anytime
      BY <1>2, <1>6, ProgramControl DEF Anytime
    <3>2. h \in {"look", "others", "store"} => h \notin Anytime /\ Turn(c, h) < Turn(c, "default")
      BY DEF Turn, Anytime
    <3>3. Uses(c) \cap {"layout", "remove", "clear"} = {}
      BY <1>6 DEF Uses, Saves
    <3> QED
      BY <1>2, <1>6, <3>1, <3>2, <3>3
  <2>2. next.name = now.name /\ next.assign = now.assign
    BY <2>1 DEF Advances, h
  <2>3. CASE h = "default"
    <3>1. ps' = SetSetupDefaultProfile(ps, CurrentKey, now.name)
      BY <1>4, <1>6, <2>2, <2>3 DEF Writes, h
    <3>2. ps'.defaults = Put(ps.defaults, CurrentKey, now.name)
      BY <1>1, <3>1, DefaultFields
    <3> QED
      BY <2>2, <3>2 DEF Put
  <2>4. CASE h # "default"
    <3>1. ps' = ps
      BY <2>1, <2>4 DEF Writes, h
    <3>2. "default" \notin L
      BY <1>2, <1>5, <1>6, <2>4
    <3> QED
      BY <1>6, <2>2, <3>1, <3>2 DEF Settled, Ahead, L
  <2> QED
    BY <2>3, <2>4
<1>7. ASSUME c.kind = "set", c.default, ~c.save, "layout" \notin M
      PROVE  /\ CurrentKey \notin DOMAIN ps'.defaults
             /\ CurrentKey \in DOMAIN ps'.layouts /\ ps'.layouts[CurrentKey] = c.name
  <2>1. h \notin {"store", "default", "remove", "clear"}
    BY <1>2, <1>7 DEF Uses, Saves
  <2>2. CASE h = "layout"
    <3>1. ps' = SetSetupDefaultLayout(ps, CurrentKey, c.name)
      BY <1>4, <2>2 DEF Writes, h
    <3>2. /\ ps'.defaults = Drop(ps.defaults, CurrentKey)
          /\ ps'.layouts = Put(ps.layouts, CurrentKey, c.name)
      BY <1>1, <3>1, DefaultFields
    <3> QED
      BY <3>2 DEF Put, Drop
  <2>3. CASE h # "layout"
    <3>1. ps' = ps
      BY <2>1, <2>3 DEF Writes, h
    <3>2. "layout" \notin L
      BY <1>2, <1>5, <1>7, <2>3
    <3> QED
      BY <1>7, <3>1, <3>2 DEF Settled, Ahead, L
  <2> QED
    BY <2>2, <2>3
<1>8. ASSUME c.kind = "set", ~c.save PROVE next.assign = c.default
  <2>1. h # "others"
    BY <1>2, <1>8 DEF Uses, Saves
  <2> QED
    BY <1>8, <2>1 DEF Advances, Settled, h
<1> QED
  BY <1>1, <1>3, <1>6, <1>7, <1>8 DEF Settled, Ahead, M

----------------------------------------------------------------------------
(* Every step keeps what the commands know. *)

(* A command that starts knows nothing that could be wrong. *)
LEMMA StartedAlone ==
    ASSUME TypeInv, NEW p \in Procs, NEW c \in CommandLines, run'[p] = Started(c)
    PROVE  Knows(p)'
<1> DEFINE L == Left(Program(c))
<1>1. /\ run'[p].cmd = c /\ run'[p].todo = Program(c) /\ run'[p].assign = c.default
  BY StartedHeld
<1>2. /\ L \cap Added = {} /\ "report" \in L
      /\ Program(c) # <<>> => Head(Program(c)) \notin Informed
      /\ c.kind = "save" => "look" \in L
      /\ Applies(c) => {"apply", "snapshot", "record"} \subseteq L
      /\ Saves(c) => {"store", "default"} \subseteq L
      /\ Saves(c) /\ ~c.default => "layouts" \in L
      /\ c.kind = "set" /\ c.default /\ ~c.save => "layout" \in L
  <2>1. /\ c.kind = "save" => "look" \in Uses(c)
        /\ c.kind = "set" /\ c.default /\ ~c.save => "layout" \in Uses(c)
    BY DEF Uses, Steps
  <2> QED
    BY <2>1, ProgramControl
<1>3. Program(c) # <<>>
  BY <1>2, LeftOfTuples
<1>4. Effected(p)'
  BY <1>1, <1>2 DEF Effected, Ahead
<1>5. Current(p)'
  BY <1>1, <1>2, <1>3 DEF Current, Past, Ahead
<1>6. Decided(p)'
  <2>1. "others" \notin L
    BY <1>2 DEF Added
  <2> QED
    BY <1>1, <1>2, <2>1 DEF Decided, Ahead
<1>7. Filed(p)' /\ Settled(p)'
  BY <1>1, <1>2 DEF Filed, Settled, Ahead
<1> QED
  BY <1>4, <1>5, <1>6, <1>7 DEF Knows

(* Who notices nothing knows what it knew. *)
LEMMA UnnoticedAlone ==
    ASSUME NEW q \in Procs, Knows(q), run'[q] = run[q], UNCHANGED shared
    PROVE  Knows(q)'
<1>1. hw' = hw /\ st' = st /\ ps' = ps
  BY DEF shared
<1>2. Seen' = Seen /\ CurrentKey' = CurrentKey
  BY <1>1 DEF Seen, CurrentKey
<1>3. Effected(q)'
  BY <1>1, <1>2 DEF Knows, Effected, Ahead, Recorded
<1>4. Current(q)'
  BY <1>1, <1>2 DEF Knows, Current, Ahead, Past
<1>5. \A order : Only(q, order)' <=> Only(q, order)
  BY <1>1, <1>2 DEF Only, CurrentProfiles
<1>6. Decided(q)'
  BY <1>1, <1>2, <1>5 DEF Knows, Decided, Ahead
<1>7. Filed(q)' /\ Settled(q)'
  BY <1>1, <1>2 DEF Knows, Filed, Settled, Ahead
<1> QED
  BY <1>3, <1>4, <1>6, <1>7 DEF Knows

(* At first nobody has started. *)
LEMMA AloneInvInit == Init => AloneInv
BY DEF Init, AloneInv, Alone, Idle

(* A step of a command keeps what every command knows. *)
LEMMA AloneInvStep ==
    ASSUME TypeInv, AloneInv, NEW p \in Procs, Step(p)
    PROVE  AloneInv'
<1>1. TypeInv'
  BY TypeInvStep
<1>2. SUFFICES ASSUME NEW q \in Procs, Alone(q)'
               PROVE  Knows(q)'
  BY DEF AloneInv
<1>3. run'[q].todo # <<>> /\ run'[q].quiet
  BY <1>2 DEF Alone
<1>4. CASE q = p
  <2>1. CASE \E c \in CommandLines : run'[p] = Started(c)
    BY <1>4, <2>1, StartedAlone
  <2>2. CASE run'[p] = Idle
    BY <1>3, <1>4, <2>2 DEF Idle
  <2>3. CASE Advances(p) /\ Writes(p)
    <3>1. Alone(p)
      BY <1>3, <1>4, <2>3 DEF Alone, Advances
    <3>2. /\ run[p].quiet /\ Effected(p) /\ Current(p) /\ Decided(p)
          /\ Filed(p) /\ Settled(p)
      BY <3>1 DEF AloneInv, Alone, Knows
    <3>3. Effected(p)'
      BY <2>3, <3>2, EffectedKept
    <3>4. Current(p)'
      BY <1>3, <1>4, <2>3, <3>2, CurrentKept
    <3>5. Decided(p)'
      BY <1>1, <2>3, <3>2, DecidedKept
    <3>6. Filed(p)' /\ Settled(p)'
      BY <2>3, <3>2, FiledKept, SettledKept
    <3> QED
      BY <1>4, <3>3, <3>4, <3>5, <3>6 DEF Knows
  <2> QED
    BY <2>1, <2>2, <2>3, StepOf
<1>5. CASE q # p
  <2>1. run'[q] = run[q] /\ UNCHANGED shared
    BY <1>3, <1>5, OthersOf
  <2>2. Alone(q)
    BY <1>3, <2>1 DEF Alone
  <2>3. Knows(q)
    BY <2>2 DEF AloneInv
  <2> QED
    BY <2>1, <2>3, UnnoticedAlone
<1> QED
  BY <1>4, <1>5

(* The invariant is inductive. *)
LEMMA AloneInvNext == TypeInv /\ AloneInv /\ [Next]_vars => AloneInv'
<1> SUFFICES ASSUME TypeInv, AloneInv, [Next]_vars PROVE AloneInv'
  OBVIOUS
<1>1. CASE \E p \in Procs : Step(p)
  BY <1>1, AloneInvStep
<1>2. CASE Hotplug
  <2>1. \A p \in Procs : Held(run[p]) /\ Controlled(run[p])
    BY DEF TypeInv, RunInv
  <2>2. \A p \in Procs : run'[p] = [run[p] EXCEPT !.quiet = FALSE]
    BY <1>2 DEF Hotplug
  <2>3. \A p \in Procs : ~run'[p].quiet
    BY <2>1, <2>2, DisturbedHeld
  <2> QED
    BY <2>3 DEF AloneInv, Alone
<1>3. CASE UNCHANGED vars
  <2>1. UNCHANGED shared /\ run' = run
    BY <1>3 DEF vars
  <2>2. SUFFICES ASSUME NEW q \in Procs, Alone(q)'
                 PROVE  Knows(q)'
    BY DEF AloneInv
  <2>3. Knows(q)
    BY <2>1, <2>2 DEF AloneInv, Alone
  <2> QED
    BY <2>1, <2>3, UnnoticedAlone
<1> QED
  BY <1>1, <1>2, <1>3 DEF Next

(* Both invariants hold always. *)
LEMMA AlwaysAlone == Spec => [](TypeInv /\ AloneInv)
BY TypeInvInit, TypeInvNext, AloneInvInit, AloneInvNext, PTL DEF Spec

----------------------------------------------------------------------------
(* What a command that succeeds has done. *)

(* With nothing left but the report, all of it has been done. *)
LEMMA AloneRecorded == AloneInv => AppliedIsRecorded
<1> SUFFICES ASSUME AloneInv, NEW p \in Procs, Succeeded(p), Applies(run[p].cmd)
             PROVE  LayoutHolds(run[p].plan, hw) /\ Recorded(p)
  BY DEF AppliedIsRecorded, Recorded
<1>1. run[p].todo = <<"report">> /\ run[p].quiet
  BY DEF Succeeded
<1>2. Alone(p)
  BY <1>1 DEF Alone
<1>3. Left(run[p].todo) = {"report"}
  BY <1>1, LeftOfTuples
<1> QED
  BY <1>2, <1>3 DEF AloneInv, Knows, Effected, Ahead

(* A command that applied a layout, and was alone, leaves that layout in   *)
(* place and remembered for the setup, whichever displays there are.       *)
THEOREM RecordedIsApplied == Spec => []AppliedIsRecorded
BY AlwaysAlone, AloneRecorded, PTL

(* What was saved is among the profiles of the setup. *)
LEMMA FoundAgain ==
    ASSUME TypeInv, NEW p \in Procs, Filed(p), Saves(run[p].cmd), ~Ahead(p, "store"),
           NEW order \in IterationOrders
    PROVE  \E q \in CurrentProfiles(order) :
                /\ q.name = run[p].name /\ q.layout = Seen /\ q \in AllProfiles(order)
                /\ \E o \in IterationOrders : q.rules = RulesFromLayout(Seen, o)
<1>1. SharedInv /\ StoreInv /\ IsCache(st.known) /\ IsTopology(Seen)
  BY SeenType DEF TypeInv, SharedInv
<1>2. PICK q \in ps.profiles :
        /\ q.name = run[p].name /\ q.layout = Seen
        /\ \E o \in IterationOrders : q.rules = RulesFromLayout(Seen, o)
  BY DEF Filed
<1>3. PICK o \in IterationOrders : q.rules = RulesFromLayout(q.layout, o)
  BY <1>2
<1>4. /\ IsProfile(q) /\ IsTopology(q.layout)
      /\ \A d \in DOMAIN q.layout : q.layout[d].id.connector = d
      /\ NormalizeTopology(q.layout, st.known) = Seen
  BY <1>1, <1>2, SeenComplete DEF StoreInv, IsStore, Connected
<1> DEFINE canonical == CanonicalizeProfile(q, st.known, order)
<1>5. ProfileSetupFingerprint(canonical) = CurrentKey
  BY <1>1, <1>3, <1>4, FiledAgain, EnvironmentAssumption DEF CurrentKey
<1>6. canonical.layout = Seen
  BY <1>4, CanonicalIsNormal
<1>7. canonical.name = q.name
  BY <1>4, CanonicalProfile
<1>8. canonical \in AllProfiles(order)
  BY DEF AllProfiles
<1>9. \E o2 \in IterationOrders : canonical.rules = RulesFromLayout(Seen, o2)
  BY <1>1, <1>2, <1>3, <1>4, RulesAgain, EnvironmentAssumption
<1> HIDE DEF canonical
<1>10. canonical \in CurrentProfiles(order)
  BY <1>5, <1>8 DEF CurrentProfiles, ProfilesForSetup, AllProfiles
<1> QED
  BY <1>2, <1>6, <1>7, <1>8, <1>9, <1>10

(* That of a command nobody disturbed is found when it has ended. *)
LEMMA AloneFound == TypeInv /\ AloneInv => SavedIsFound
<1> SUFFICES ASSUME TypeInv, AloneInv, NEW p \in Procs, NEW order \in IterationOrders,
                    Succeeded(p), Saves(run[p].cmd)
             PROVE  \E q \in CurrentProfiles(order) : q.name = run[p].name /\ q.layout = Seen
  BY DEF SavedIsFound
<1>1. Alone(p) /\ Left(run[p].todo) = {"report"}
  BY LeftOfTuples DEF Succeeded, Alone
<1>2. Filed(p) /\ ~Ahead(p, "store")
  BY <1>1 DEF AloneInv, Knows, Ahead
<1> QED
  BY <1>2, FoundAgain

(* What was saved is found under its name and holds the displays as they   *)
(* are now, whatever else is stored or known (write.rs, cmd_save).         *)
THEOREM SavedProfileIsFound == Spec => []SavedIsFound
BY AlwaysAlone, AloneFound, PTL

(* The displays are told apart by the rules and the entries of the         *)
(* profiles of the setup, and no two of these have one name.               *)
Unmistakable ==
    \A order \in IterationOrders : \A q \in CurrentProfiles(order) :
        /\ Distinguished(q, Seen)
        /\ \A r \in CurrentProfiles(order) : r.name = q.name => r = q

(* A plan of the displays as they are seen holds. *)
LEMMA OwnLayoutHolds ==
    ASSUME TypeInv, NEW q, q.layout = Seen, NEW o \in IterationOrders,
           q.rules = RulesFromLayout(Seen, o), Distinguished(q, Seen)
    PROVE  /\ MatchesExactly(q, Seen)
           /\ \E plan \in ProfilePlans(q, Seen) : LayoutHolds(plan, hw)
<1>1. /\ IsTopology(hw) /\ IsTopology(Seen) /\ DOMAIN Seen = DOMAIN hw /\ Connected(Seen)
      /\ IsFiniteSet(Connectors)
  BY SeenType, SeenComplete, EnvironmentAssumption DEF TypeInv, SharedInv
<1> DEFINE plan == PlanFromProfile(q, Seen)
<1>2. /\ MatchesExactly(q, Seen)
      /\ DOMAIN plan = RealOutputs(Seen)
      /\ \A c \in RealOutputs(Seen) : plan[c] = [Seen[c] EXCEPT !.id = Seen[c].id]
  BY <1>1, OwnMatch DEF Connected
<1> HIDE DEF plan
<1>3. ASSUME NEW c \in DOMAIN hw
      PROVE  /\ Seen[c] \in OutputState /\ Seen[c].id.real = hw[c].id.real
             /\ Seen[c].enabled = hw[c].enabled /\ Seen[c].mode = hw[c].mode
             /\ Seen[c].pos = hw[c].pos /\ Seen[c].xform = hw[c].xform
             /\ Seen[c].mirror = hw[c].mirror
  BY <1>1, SeenType, NormalizeKeepsLayout DEF TypeInv, SharedInv, IsTopology, Seen, IsCache
<1>4. RealOutputs(hw) = RealOutputs(Seen) /\ RealOutputs(hw) \subseteq DOMAIN hw
  BY <1>1, <1>3 DEF RealOutputs
<1>5. ASSUME NEW c \in RealOutputs(hw)
      PROVE  /\ c \in DOMAIN plan
             /\ hw[c].enabled = plan[c].enabled
             /\ hw[c].mode = plan[c].mode /\ hw[c].pos = plan[c].pos
             /\ hw[c].xform = plan[c].xform /\ hw[c].mirror = plan[c].mirror
  BY <1>2, <1>3, <1>4 DEF OutputState
<1>6. LayoutHolds(plan, hw)
  BY <1>5, Zenon DEF LayoutHolds, Arranged
<1> QED
  BY <1>2, <1>6 DEF ProfilePlans, plan

LEMMA AloneComesBack == TypeInv /\ AloneInv /\ Unmistakable => SavedComesBack
<1> SUFFICES ASSUME TypeInv, AloneInv, Unmistakable,
                    NEW p \in Procs, NEW order \in IterationOrders,
                    Succeeded(p), Saves(run[p].cmd),
                    NEW q \in CurrentProfiles(order), q.name = run[p].name
             PROVE  \E plan \in ProfilePlans(q, Seen) : LayoutHolds(plan, hw)
  BY AloneFound DEF SavedComesBack
<1>1. Alone(p) /\ Left(run[p].todo) = {"report"}
  BY LeftOfTuples DEF Succeeded, Alone
<1>2. Filed(p) /\ ~Ahead(p, "store")
  BY <1>1 DEF AloneInv, Knows, Ahead
<1>3. PICK r \in CurrentProfiles(order) :
        /\ r.name = run[p].name /\ r.layout = Seen
        /\ \E o \in IterationOrders : r.rules = RulesFromLayout(Seen, o)
  BY <1>2, FoundAgain
<1>4. r = q /\ Distinguished(q, Seen)
  BY <1>3 DEF Unmistakable
<1> QED
  BY <1>3, <1>4, OwnLayoutHolds

(* What was saved, planned again by its name, is a layout that is in       *)
(* place: it comes back as it was saved, if the displays can be told apart *)
(* and the setup has one profile of the name (write.rs, cmd_save, and      *)
(* matcher.rs, plan_from_profile).                                         *)
THEOREM SavedProfileComesBack == Spec => [](Unmistakable => SavedComesBack)
<1>1. TypeInv /\ AloneInv => (Unmistakable => SavedComesBack)
  BY AloneComesBack
<1> QED
  BY <1>1, AlwaysAlone, PTL

(* The default such a command wrote is the one selection looks up. *)
LEMMA AloneChosen == TypeInv /\ AloneInv => DefaultIsChosen
<1> SUFFICES ASSUME TypeInv, AloneInv, NEW p \in Procs, NEW order \in IterationOrders,
                    Succeeded(p), run[p].assign, run[p].cmd.kind \in {"save", "set"},
                    NEW target \in SelectTargets(Seen, AllProfiles(order), ps, <<>>, order)
             PROVE  RecordedName(target) = run[p].name
  BY DEF DefaultIsChosen
<1> DEFINE c == run[p].cmd
           named == SetupDefaults(CurrentKey, AllProfiles(order), ps)
<1>1. Alone(p) /\ Left(run[p].todo) = {"report"}
  BY LeftOfTuples DEF Succeeded, Alone
<1>2. /\ Filed(p) /\ Settled(p) /\ ~Ahead(p, "store") /\ ~Ahead(p, "default")
      /\ ~Ahead(p, "layout")
  BY <1>1 DEF AloneInv, Knows, Ahead
<1>3. CASE Saves(c)
  <2>1. CurrentKey \in DOMAIN ps.defaults /\ ps.defaults[CurrentKey] = run[p].name
    BY <1>2, <1>3 DEF Settled
  <2>2. \E q \in CurrentProfiles(order) : q.name = run[p].name /\ q \in AllProfiles(order)
    BY <1>2, <1>3, FoundAgain
  <2>3. \A q \in CurrentProfiles(order) : ProfileSetupFingerprint(q) = CurrentKey
    BY DEF CurrentProfiles, ProfilesForSetup
  <2>4. named # {}
    BY <2>1, <2>2, <2>3 DEF SetupDefaults
  <2>5. \A q \in named : q.name = run[p].name
    BY <2>1 DEF SetupDefaults
  <2> HIDE DEF named
  <2>6. \E q \in named : target = ProfileTarget("default", q)
    BY <2>4 DEF SelectTargets, FirstListed, CurrentKey, named
  <2> QED
    BY <2>5, <2>6 DEF ProfileTarget, RecordedName
<1>4. CASE ~Saves(c)
  <2>1. c.kind = "set" /\ ~c.save /\ c.default
    BY <1>2, <1>4 DEF Saves, Settled
  <2>2. /\ CurrentKey \notin DOMAIN ps.defaults
        /\ CurrentKey \in DOMAIN ps.layouts /\ ps.layouts[CurrentKey] = c.name
    BY <1>2, <2>1 DEF Settled
  <2>3. named = {}
    BY <2>2 DEF SetupDefaults
  <2> HIDE DEF named
  <2>4. target = LayoutTarget(c.name)
    BY <2>2, <2>3 DEF SelectTargets, CurrentKey, named
  <2>5. run[p].name = c.name
    <3>1. Controlled(run[p]) /\ run[p].todo # <<>>
      BY <1>1 DEF TypeInv, RunInv, Alone
    <3> QED
      BY <2>1, <3>1 DEF Controlled
  <2> QED
    BY <2>4, <2>5 DEF LayoutTarget, RecordedName
<1> QED
  BY <1>3, <1>4

(* What was saved or set as the default is what `set auto` chooses,        *)
(* whatever was the default before (store/write.rs, selection.rs).         *)
THEOREM ChosenDefault == Spec => []DefaultIsChosen
BY AlwaysAlone, AloneChosen, PTL

----------------------------------------------------------------------------
(* What was made the default is followed.  A third invariant tells what a  *)
(* command that is told what to apply has planned, and for which displays: *)
(* those there were before its layout was applied.                         *)

(* What the planning steps hold afterwards. *)
Chooses(p) ==
    LET now  == run[p]
        next == run'[p]
        h    == Head(now.todo)
    IN  /\ h = "settings" => next.settings.builtin = ps.builtin
        /\ h \notin {"settings", "list", "select", "next"} => next.settings = now.settings
        /\ h = "find" => \E order \in IterationOrders : \E q \in Found(p, order) :
                            next.target = ProfileTarget("explicit", q)
        /\ h = "plan" => /\ now.target.preset # "mirror"
                         /\ next.plan \in PlansFor(now.target, Seen, now.settings.builtin)

LEMMA ReadChooses ==
    ASSUME TypeInv, NEW p \in Procs, ReadStep(p)
    PROVE  Chooses(p)
<1> DEFINE now == run[p]
           next == run'[p]
<1>1. RunInv /\ IsStore(ps)
  BY DEF TypeInv, SharedInv, StoreInv
<1>2. ASSUME NEW steps, NEW r, Moves(p, steps, r)
      PROVE  now.todo # <<>> /\ now \in HeldFields(now) /\ next.settings = r.settings
  <2>1. now.todo # <<>> /\ now \in HeldFields(now) /\ SameHeld(next, r)
    BY <1>1, <1>2, MovesOn
  <2> QED
    BY <2>1 DEF SameHeld
<1>3. ASSUME NEW steps, Moves(p, steps, now) PROVE next.settings = now.settings
  BY <1>2, <1>3
<1>4. ASSUME Look(p) PROVE next.settings = now.settings
  <2>1. PICK name : Moves(p, <<>>, [now EXCEPT !.topo = Seen, !.key = SetupFingerprint(Seen),
                                               !.name = name])
    BY <1>4, ReadMoves
  <2> DEFINE topo == Seen
             key == SetupFingerprint(Seen)
             r == [now EXCEPT !.topo = topo, !.key = key, !.name = name]
  <2>2. Moves(p, <<>>, r)
    BY <2>1
  <2> HIDE DEF r, topo, key
  <2>3. now \in HeldFields(now) /\ next.settings = r.settings
    BY <1>2, <2>2
  <2> QED
    BY <2>3 DEF r, HeldFields
<1>5. ASSUME ReadContext(p) PROVE next.settings = now.settings
  <2> DEFINE r == [now EXCEPT !.known = st.known, !.last = st.last]
  <2>1. Moves(p, <<>>, r)
    BY <1>5, ReadMoves
  <2> HIDE DEF r
  <2>2. now \in HeldFields(now) /\ next.settings = r.settings
    BY <1>2, <2>1
  <2> QED
    BY <2>2 DEF r, HeldFields
<1>6. ASSUME ReadSettings(p) PROVE next.settings.builtin = ps.builtin /\ Head(now.todo) = "settings"
  <2> DEFINE settings == [ps EXCEPT !.profiles = {}]
             r == [now EXCEPT !.settings = settings]
  <2>1. Moves(p, <<>>, r)
    BY <1>6, ReadMoves
  <2>2. settings.builtin = ps.builtin
    BY <1>1 DEF IsStore
  <2> HIDE DEF r, settings
  <2>3. now \in HeldFields(now) /\ next.settings = r.settings
    BY <1>2, <2>1
  <2>4. next.settings = settings
    BY <2>3 DEF r, HeldFields
  <2> QED
    BY <1>6, <2>2, <2>4 DEF ReadSettings, At
<1>7. ASSUME ReadOthers(p) PROVE next.settings = now.settings
  <2>1. PICK order \in IterationOrders :
        LET all == ProfilesForSetup(ps, now.key, now.known, order)
        IN  Moves(p, <<>>, [now EXCEPT !.assign = \A q \in all : q.name = now.name])
    BY <1>7, ReadMoves
  <2> DEFINE only == \A q \in ProfilesForSetup(ps, now.key, now.known, order) : q.name = now.name
             r == [now EXCEPT !.assign = only]
  <2>2. Moves(p, <<>>, r)
    BY <2>1
  <2> HIDE DEF r, only
  <2>3. now \in HeldFields(now) /\ next.settings = r.settings
    BY <1>2, <2>2
  <2> QED
    BY <2>3 DEF r, HeldFields
<1>8. ASSUME ReadKey(p) PROVE next.settings = now.settings
  <2> DEFINE key == SetupFingerprint(NormalizeTopology(now.topo, st.known))
             r == [now EXCEPT !.key = key]
  <2>1. Moves(p, <<>>, r)
    BY <1>8, ReadMoves
  <2> HIDE DEF r, key
  <2>2. now \in HeldFields(now) /\ next.settings = r.settings
    BY <1>2, <2>1
  <2> QED
    BY <2>2 DEF r, HeldFields
<1>9. ASSUME ReadLayouts(p) \/ ProfileExists(p) \/ LayoutDefaulted(p)
      PROVE  next.settings = now.settings
  <2>1. \E steps : Moves(p, steps, now)
    BY <1>9, ReadMoves
  <2> QED
    BY <1>3, <2>1
<1>10. /\ Head(now.todo) \notin {"find", "plan", "list", "select", "next"}
       /\ ReadSettings(p) \/ Head(now.todo) # "settings"
  BY DEF ReadStep, Look, ReadContext, ReadSettings, ReadLayouts, ReadOthers, ReadKey,
         ProfileExists, LayoutDefaulted, At
<1> QED
  BY <1>4, <1>5, <1>6, <1>7, <1>8, <1>9, <1>10 DEF ReadStep, Chooses

(* What a process holds that has chosen or planned something. *)
LEMMA StepChooses ==
    ASSUME TypeInv, NEW p \in Procs, Step(p), run[p].todo # <<>>, run'[p].todo # <<>>
    PROVE  Chooses(p)
<1> DEFINE now == run[p]
           next == run'[p]
<1>1. RunInv /\ DOMAIN run = Procs /\ now \in HeldFields(now)
  BY NowHeld DEF TypeInv, RunInv
<1>2. ASSUME NEW steps, NEW r, Moves(p, steps, r)
      PROVE  next.settings = r.settings /\ next.plan = r.plan /\ next.target = r.target
  <2>1. SameHeld(next, r)
    BY <1>1, <1>2, MovesOn
  <2> QED
    BY <2>1 DEF SameHeld
<1>3. CASE ReadStep(p)
  BY <1>3, ReadChooses
<1>4. CASE FindProfile(p)
  <2>1. PICK order \in IterationOrders : \E q \in FirstListed(Found(p, order)) :
            Go(p, [now EXCEPT !.target = ProfileTarget("explicit", q)])
    BY <1>4 DEF FindProfile
  <2>2. PICK q \in Found(p, order) : Go(p, [now EXCEPT !.target = ProfileTarget("explicit", q)])
    BY <2>1 DEF FirstListed
  <2> DEFINE target == ProfileTarget("explicit", q)
             r == [now EXCEPT !.target = target]
             todo == <<>> \o Tail(now.todo)
  <2>3. next = [r EXCEPT !.todo = <<>> \o Tail(@)]
    BY <1>1, <2>2 DEF Go, GoVia
  <2>4. r \in [cmd : {now.cmd}, todo : {now.todo}, topo : {now.topo}, key : {now.key},
               known : {now.known}, last : {now.last}, settings : {now.settings},
               listed : {now.listed}, name : {now.name}, assign : {now.assign},
               target : {target}, plan : {now.plan}, quiet : {now.quiet}]
    <3> HIDE DEF target
    <3> QED
      BY <1>1 DEF HeldFields
  <2> HIDE DEF r, target
  <2>5. next.target = target /\ next.settings = now.settings
    BY <2>3, <2>4
  <2>6. Head(now.todo) = "find"
    BY <1>4 DEF FindProfile, At
  <2> QED
    BY <2>5, <2>6 DEF Chooses, target
<1>5. CASE ListProfiles(p) \/ Select(p) \/ NextTarget(p)
  BY <1>5 DEF ListProfiles, Select, NextTarget, At, Chooses
<1>6. CASE Plan(p)
  <2>1. PICK plan \in PlansFor(now.target, Seen, now.settings.builtin) :
            Moves(p, <<>>, [now EXCEPT !.plan = plan])
    BY <1>6, ApplyMoves
  <2> DEFINE r == [now EXCEPT !.plan = plan]
  <2>2. r.settings = now.settings /\ r.plan = plan
    BY <1>1 DEF HeldFields
  <2>3. Moves(p, <<>>, r)
    BY <2>1
  <2> HIDE DEF r
  <2>4. next.settings = now.settings /\ next.plan = plan
    BY <1>2, <2>2, <2>3
  <2>5. Head(now.todo) = "plan" /\ now.target.preset # "mirror"
    BY <1>6 DEF Plan, At
  <2> QED
    BY <2>1, <2>4, <2>5 DEF Chooses
<1>7. CASE Validate(p) \/ RunHooks(p) \/ Apply(p) \/ WriteStep(p)
  <2>1. \E steps : Moves(p, steps, now)
    BY <1>7, ApplyMoves, WriteMoves
  <2>2. next.settings = now.settings
    BY <1>2, <2>1
  <2>3. Head(now.todo) \notin {"settings", "find", "plan"}
    BY <1>7 DEF Validate, RunHooks, Apply, WriteStep, StoreProfile, SetDefault,
               SetDefaultLayout, Record, RemoveProfile, ClearLayout, At
  <2> QED
    BY <2>2, <2>3 DEF Chooses
<1>8. CASE Snapshot(p)
  <2> DEFINE r == [now EXCEPT !.topo = hw]
  <2>1. Moves(p, <<>>, r) /\ Head(now.todo) = "snapshot"
    BY <1>8, ApplyMoves DEF Snapshot, At
  <2>2. r.settings = now.settings
    BY <1>1 DEF HeldFields
  <2> HIDE DEF r
  <2>3. next.settings = now.settings
    BY <1>2, <2>1, <2>2
  <2> QED
    BY <2>1, <2>3 DEF Chooses
<1>9. CASE ApplyUnanswered(p) \/ Report(p) \/ Fails(p)
  <2>1. next = Idle
    BY <1>1, <1>9 DEF ApplyUnanswered, Changing, Report, Fails
  <2> QED
    BY <2>1, IdleHeld
<1>10. CASE \E c \in CommandLines : Start(p, c)
  BY <1>10 DEF Start
<1> QED
  BY <1>3, <1>4, <1>5, <1>6, <1>7, <1>8, <1>9, <1>10 DEF Step, ChooseStep, ApplyStep

(* What a step needs is read right before it. *)
RightBefore(todo, x, y) ==
    \A i \in DOMAIN todo : todo[i] = x => i + 1 \in DOMAIN todo /\ todo[i + 1] = y

(* It is so of both parts, and so of the whole. *)
LEMMA RightBeforeJoined ==
    ASSUME NEW s \in Seq(Steps), NEW t \in Seq(Steps), NEW x, NEW y,
           RightBefore(s, x, y), RightBefore(t, x, y)
    PROVE  RightBefore(s \o t, x, y) /\ s \o t \in Seq(Steps)
<1> DEFINE u == s \o t
<1>1. u \in Seq(Steps) /\ Len(s) \in Nat /\ Len(t) \in Nat /\ Len(u) = Len(s) + Len(t)
  OBVIOUS
<1>2. /\ \A i \in 1..Len(u) : u[i] = IF i <= Len(s) THEN s[i] ELSE t[i - Len(s)]
      /\ DOMAIN u = 1..Len(u) /\ DOMAIN s = 1..Len(s) /\ DOMAIN t = 1..Len(t)
  OBVIOUS
<1> HIDE DEF u
<1>3. ASSUME NEW i \in 1..Len(u), u[i] = x PROVE i + 1 \in 1..Len(u) /\ u[i + 1] = y
  <2>1. CASE i <= Len(s)
    <3>1. i \in DOMAIN s /\ s[i] = x
      BY <1>1, <1>2, <1>3, <2>1
    <3>2. i + 1 \in 1..Len(s) /\ s[i + 1] = y
      BY <1>2, <3>1 DEF RightBefore
    <3> QED
      BY <1>1, <1>2, <3>2
  <2>2. CASE ~(i <= Len(s))
    <3> DEFINE j == i - Len(s)
    <3>1. j \in DOMAIN t /\ t[j] = x
      BY <1>1, <1>2, <1>3, <2>2
    <3>2. j + 1 \in 1..Len(t) /\ t[j + 1] = y
      BY <1>2, <3>1 DEF RightBefore
    <3>3. i + 1 \in 1..Len(u) /\ ~(i + 1 <= Len(s)) /\ i + 1 - Len(s) = j + 1
      BY <1>1, <2>2, <3>2
    <3> QED
      BY <1>2, <3>2, <3>3
  <2> QED
    BY <2>1, <2>2
<1> QED
  BY <1>1, <1>2, <1>3 DEF RightBefore, u

(* It is so of what is left. *)
LEMMA RightBeforeTail ==
    ASSUME NEW todo \in Seq(Steps), todo # <<>>, NEW x, NEW y, RightBefore(todo, x, y)
    PROVE  RightBefore(Tail(todo), x, y) /\ Tail(todo) \in Seq(Steps)
<1> DEFINE t == Tail(todo)
<1>1. /\ t \in Seq(Steps) /\ Len(todo) \in Nat /\ Len(todo) > 0 /\ Len(t) = Len(todo) - 1
      /\ DOMAIN t = 1..Len(t) /\ DOMAIN todo = 1..Len(todo)
      /\ \A i \in 1..Len(t) : t[i] = todo[i + 1]
  OBVIOUS
<1> HIDE DEF t
<1>2. ASSUME NEW i \in 1..Len(t), t[i] = x PROVE i + 1 \in 1..Len(t) /\ t[i + 1] = y
  <2>1. i + 1 \in DOMAIN todo /\ todo[i + 1] = x
    BY <1>1, <1>2
  <2>2. i + 1 + 1 \in 1..Len(todo) /\ todo[i + 1 + 1] = y
    BY <1>1, <2>1 DEF RightBefore
  <2>3. i + 1 \in 1..Len(t)
    BY <1>1, <2>2
  <2> QED
    BY <1>1, <2>2, <2>3
<1> QED
  BY <1>1, <1>2 DEF RightBefore, t

(* Where none is left there is nothing to be so. *)
LEMMA RightBeforeNone ==
    ASSUME NEW s, NEW x, NEW y, x \notin Left(s)
    PROVE  RightBefore(s, x, y)
BY DEF RightBefore, Left

(* When the step is taken, or has been, all it needs has been read. *)
LEMMA RightBeforeRead ==
    ASSUME NEW c, NEW todo, Control(c, todo), NEW x, NEW y \in Steps \ Anytime, x # y,
           RightBefore(todo, x, y), (todo # <<>> /\ Head(todo) = y) \/ y \notin Left(todo)
    PROVE  x \notin Left(todo)
<1> SUFFICES ASSUME NEW i \in DOMAIN todo, todo[i] = x PROVE FALSE
  BY DEF Left
<1>1. i + 1 \in DOMAIN todo /\ todo[i + 1] = y
  BY DEF RightBefore
<1>2. todo # <<>> /\ Head(todo) = y
  BY <1>1 DEF Left
<1>3. todo \in Seq(Steps) /\ \A z \in Left(Tail(todo)) \ Anytime : Turn(c, y) < Turn(c, z)
  BY <1>2, ControlOfTail DEF Control
<1> DEFINE t == Tail(todo)
<1>4. i \in Nat /\ i >= 1 /\ i \in DOMAIN t /\ t[i] = todo[i + 1]
  BY <1>1, <1>3
<1>5. y \in Left(t)
  BY <1>1, <1>4 DEF Left
<1>6. Turn(c, y) < Turn(c, y) /\ Turn(c, y) \in Nat
  BY <1>3, <1>5, TurnType
<1> QED
  BY <1>6

(* So it is of the programs. *)
LEMMA ProgramReads ==
    ASSUME NEW c \in CommandLines
    PROVE  /\ c.kind = "set" /\ ~c.save => RightBefore(Program(c), "settings", "plan")
           /\ c.kind = "profile" => RightBefore(Program(c), "context", "find")
<1>1. ASSUME NEW b, NEW s, Left(s) \subseteq Steps \ Anytime, s \in Seq(Steps)
      PROVE  When(b, s) \in Seq(Steps) /\ Left(When(b, s)) \subseteq Steps \ Anytime
  BY <1>1, LeftOfTuples DEF When
<1>2. ASSUME NEW s \in Seq(Steps), NEW t \in Seq(Steps), NEW x \in Anytime, NEW y,
             RightBefore(s, x, y), Left(t) \subseteq Steps \ Anytime
      PROVE  RightBefore(s \o t, x, y) /\ s \o t \in Seq(Steps)
  <2>1. RightBefore(t, x, y)
    BY <1>2, RightBeforeNone
  <2> QED
    BY <1>2, <2>1, RightBeforeJoined
<1>3. /\ <<"record">> \in Seq(Steps) /\ Left(<<"record">>) \subseteq Steps \ Anytime
      /\ <<"report">> \in Seq(Steps) /\ Left(<<"report">>) \subseteq Steps \ Anytime
      /\ <<"key", "layout">> \in Seq(Steps) /\ Left(<<"key", "layout">>) \subseteq Steps \ Anytime
      /\ <<"key", "default">> \in Seq(Steps) /\ Left(<<"key", "default">>) \subseteq Steps \ Anytime
      /\ Applying \in Seq(Steps) /\ Left(Applying) \subseteq Steps \ Anytime
      /\ <<>> \in Seq(Steps) /\ Left(<<>>) \subseteq Steps \ Anytime
  <2>1. {"record", "report", "key", "layout", "default"} \subseteq Steps \ Anytime
    BY DEF Steps, Anytime
  <2>2. \A a, b \in Steps : <<a>> \in Seq(Steps) /\ <<a, b>> \in Seq(Steps) /\ <<>> \in Seq(Steps)
    OBVIOUS
  <2>3. Applying \in Seq(Steps)
    BY DEF Applying, Steps
  <2>4. Left(Applying) \subseteq Steps \ Anytime
    BY DEF Applying, Left, Steps, Anytime
  <2> QED
    BY <2>1, <2>2, <2>3, <2>4, LeftOfTuples
<1>4. ASSUME c.kind = "set", ~c.save
      PROVE  RightBefore(Program(c), "settings", "plan")
  <2> DEFINE s1 == <<"settings", "plan", "validate", "apply", "snapshot">>
             s2 == When(c.default /\ ~c.save, <<"key", "layout">>)
  <2>1. s1 \in Seq(Steps) /\ RightBefore(s1, "settings", "plan") /\ "settings" \in Anytime
    BY DEF Steps, RightBefore, Anytime
  <2>2. s2 \in Seq(Steps) /\ Left(s2) \subseteq Steps \ Anytime
    BY <1>1, <1>3
  <2>3. Program(c) = s1 \o <<>> \o <<"record">> \o s2 \o <<"report">>
    BY <1>4 DEF Program, When, Applying
  <2> HIDE DEF s1, s2
  <2>4. RightBefore(s1 \o <<>>, "settings", "plan") /\ s1 \o <<>> \in Seq(Steps)
    BY <1>2, <1>3, <2>1
  <2>5. /\ RightBefore(s1 \o <<>> \o <<"record">>, "settings", "plan")
        /\ s1 \o <<>> \o <<"record">> \in Seq(Steps)
    BY <1>2, <1>3, <2>1, <2>4
  <2>6. /\ RightBefore(s1 \o <<>> \o <<"record">> \o s2, "settings", "plan")
        /\ s1 \o <<>> \o <<"record">> \o s2 \in Seq(Steps)
    BY <1>2, <2>1, <2>2, <2>5
  <2>7. RightBefore(s1 \o <<>> \o <<"record">> \o s2 \o <<"report">>, "settings", "plan")
    BY <1>2, <1>3, <2>1, <2>6
  <2> QED
    BY <2>3, <2>7
<1>5. ASSUME c.kind = "profile"
      PROVE  RightBefore(Program(c), "context", "find")
  <2> DEFINE s1 == <<"look", "context", "find">>
             s2 == When(c.default, <<"key", "default">>)
  <2>1. s1 \in Seq(Steps) /\ RightBefore(s1, "context", "find") /\ "context" \in Anytime
    BY DEF Steps, RightBefore, Anytime
  <2>2. s2 \in Seq(Steps) /\ Left(s2) \subseteq Steps \ Anytime
    BY <1>1, <1>3
  <2>3. Program(c) = s1 \o Applying \o <<"record">> \o s2 \o <<"report">>
    BY <1>5 DEF Program
  <2> HIDE DEF s1, s2
  <2>4. RightBefore(s1 \o Applying, "context", "find") /\ s1 \o Applying \in Seq(Steps)
    BY <1>2, <1>3, <2>1
  <2>5. /\ RightBefore(s1 \o Applying \o <<"record">>, "context", "find")
        /\ s1 \o Applying \o <<"record">> \in Seq(Steps)
    BY <1>2, <1>3, <2>1, <2>4
  <2>6. /\ RightBefore(s1 \o Applying \o <<"record">> \o s2, "context", "find")
        /\ s1 \o Applying \o <<"record">> \o s2 \in Seq(Steps)
    BY <1>2, <2>1, <2>2, <2>5
  <2>7. RightBefore(s1 \o Applying \o <<"record">> \o s2 \o <<"report">>, "context", "find")
    BY <1>2, <1>3, <2>1, <2>6
  <2> QED
    BY <2>3, <2>7
<1> QED
  BY <1>4, <1>5

(* The plan is one for the displays as they were before it was applied.    *)
PlannedOn(p, t) ==
    /\ IsTopology(t) /\ run[p].plan \in PlansFor(run[p].target, t, ps.builtin)
    /\ IF Ahead(p, "apply") THEN t = Seen ELSE Outcome(t, run[p].plan, Seen)

(* Commands that are told what to apply, and save nothing. *)
Told(c) == c.kind = "profile" \/ (c.kind = "set" /\ ~c.save)

(* What such a command applies is what it has been told to apply, planned  *)
(* with the settings there are.                                            *)
Planned(p) ==
    LET now == run[p]
        c   == now.cmd
    IN  /\ ~Saves(c) => now.assign = c.default
        /\ c.kind = "set" /\ ~c.save =>
            /\ RightBefore(now.todo, "settings", "plan")
            /\ now.target = LayoutTarget(c.name)
            /\ ~Ahead(p, "settings") => now.settings.builtin = ps.builtin
        /\ c.kind = "profile" =>
            /\ RightBefore(now.todo, "context", "find")
            /\ ~Ahead(p, "find") => \E order \in IterationOrders :
                \E q \in ProfilesForSetup(ps, CurrentKey, now.known, order) :
                    q.name = c.name /\ now.target = ProfileTarget("explicit", q)
            /\ now.assign /\ ~Ahead(p, "default") =>
                CurrentKey \in DOMAIN ps.defaults /\ ps.defaults[CurrentKey] = c.name
        /\ Told(c) /\ ~Ahead(p, "plan") =>
            now.target.preset # "mirror" /\ \E t : PlannedOn(p, t)

(* A step of the command keeps this: the layout it submits, and the       *)
(* default it writes, are what it was told. *)
LEMMA PlannedKept ==
    ASSUME TypeInv, NEW p \in Procs, run[p].quiet, Effected(p), Current(p), Planned(p),
           Advances(p), Writes(p), Chooses(p)
    PROVE  Planned(p)'
<1> DEFINE now == run[p]
           next == run'[p]
           c == now.cmd
           h == Head(now.todo)
           L == Left(now.todo)
           M == Left(next.todo)
<1>1. /\ RunInv /\ next.cmd = c /\ now.todo # <<>> /\ IsStore(ps) /\ IsTopology(hw)
      /\ Unmirrored(hw) /\ IsCache(st.known) /\ IsTopology(Seen)
  BY SeenType DEF TypeInv, SharedInv, StoreInv, Advances
<1>2. /\ c \in CommandLines /\ h \in Uses(c)
      /\ \A y \in Steps \ (Added \cup Anytime) : y \in M <=> y \in L /\ y # h
      /\ h \notin Anytime => \A y \in Left(Program(c)) \ Anytime :
            Turn(c, h) < Turn(c, y) => y \in M
      /\ h \notin Anytime => \A y \in Steps \ Anytime : Turn(c, y) < Turn(c, h) => y \notin L
      /\ \A y \in L : y # h => y \in M
  BY <1>1, StepsLeft
<1>3. /\ CurrentKey' = CurrentKey
      /\ h # "apply" => Seen' = Seen /\ hw' = hw
  BY SeenAgain
<1>4. /\ Control(c, now.todo) /\ now.todo \in Seq(Steps) /\ Complete(c, now.todo)
  BY <1>1, NowHeld
<1>5. /\ {"find", "plan", "apply", "default"} \subseteq Steps \ (Added \cup Anytime)
      /\ {"find", "plan", "apply", "default"} \cap Anytime = {}
  BY DEF Steps, Added, Anytime
<1>6. h \in L
  BY <1>1, <1>4, ControlOfTail
<1> HIDE DEF L, M, h
<1>7. ~Saves(c) => next.assign = c.default
  <2>1. ~Saves(c) => h # "others"
    BY <1>2 DEF Uses
  <2> QED
    BY <2>1 DEF Planned, Advances, h
<1>8. ASSUME Told(c)
      PROVE  /\ h \notin {"list", "select", "next", "store", "remove", "clear", "others",
                          "layouts", "exists", "defaulted"}
             /\ ps'.profiles = ps.profiles /\ ps'.builtin = ps.builtin
             /\ \A x, y : RightBefore(now.todo, x, y) /\ x # "hooks" => RightBefore(next.todo, x, y)
  <2>1. h \notin {"list", "select", "next", "store", "remove", "clear", "others",
                  "layouts", "exists", "defaulted"}
    BY <1>2, <1>8 DEF Told, Uses, Saves
  <2>2. ps'.profiles = ps.profiles /\ ps'.builtin = ps.builtin
    BY <1>1, <2>1, DefaultFields DEF Writes, h
  <2>3. PICK steps \in Continuations(h) : next.todo = steps \o Tail(now.todo)
    BY DEF Advances, h
  <2>4. steps \in {<<>>, <<"hooks">>}
    BY <2>1, <2>3 DEF Continuations
  <2>5. steps \in Seq(Steps) /\ \A x, y : x # "hooks" => RightBefore(steps, x, y)
    <3>1. <<>> \in Seq(Steps) /\ <<"hooks">> \in Seq(Steps)
      BY DEF Steps
    <3>2. Left(steps) \subseteq {"hooks"}
      BY <2>4, LeftOfTuples
    <3> QED
      BY <2>4, <3>1, <3>2, RightBeforeNone
  <2>6. ASSUME NEW x, NEW y, RightBefore(now.todo, x, y), x # "hooks"
        PROVE  RightBefore(next.todo, x, y)
    <3>1. RightBefore(Tail(now.todo), x, y) /\ Tail(now.todo) \in Seq(Steps)
      BY <1>1, <1>4, <2>6, RightBeforeTail
    <3> DEFINE t == Tail(now.todo)
    <3> HIDE DEF t
    <3>2. RightBefore(steps \o t, x, y)
      BY <2>5, <2>6, <3>1, RightBeforeJoined DEF t
    <3> QED
      BY <2>3, <3>2 DEF t
  <2> QED
    BY <2>1, <2>2, <2>6
<1>9. ASSUME c.kind = "set", ~c.save
      PROVE  /\ RightBefore(next.todo, "settings", "plan")
             /\ next.target = LayoutTarget(c.name)
             /\ "settings" \notin M => next.settings.builtin = ps'.builtin
  <2>1. RightBefore(next.todo, "settings", "plan") /\ Told(c)
    BY <1>8, <1>9 DEF Planned, Told
  <2>2. next.target = LayoutTarget(c.name)
    <3>1. h # "find"
      BY <1>2, <1>9 DEF Uses
    <3> QED
      BY <1>8, <1>9, <2>1, <3>1 DEF Planned, Advances, h
  <2>3. ASSUME "settings" \notin M
        PROVE  next.settings.builtin = ps'.builtin
    <3>1. CASE h = "settings"
      BY <1>8, <2>1, <3>1 DEF Chooses, h
    <3>2. CASE h # "settings"
      <4>1. "settings" \notin L
        BY <1>2, <2>3, <3>2
      <4>2. next.settings = now.settings
        BY <1>8, <2>1, <3>2 DEF Chooses, h
      <4> QED
        BY <1>8, <1>9, <2>1, <4>1, <4>2 DEF Planned, Ahead, L
    <3> QED
      BY <3>1, <3>2
  <2> QED
    BY <2>1, <2>2, <2>3
<1>10. ASSUME c.kind = "profile", "find" \notin M
       PROVE  \E order \in IterationOrders :
                \E q \in ProfilesForSetup(ps', CurrentKey', next.known, order) :
                    q.name = c.name /\ next.target = ProfileTarget("explicit", q)
  <2>1. \A order : ProfilesForSetup(ps', CurrentKey', next.known, order)
                        = ProfilesForSetup(ps, CurrentKey, next.known, order)
    BY <1>3, <1>8, <1>10 DEF Told, ProfilesForSetup
  <2>2. CASE h = "find"
    <3>1. PICK order \in IterationOrders : \E q \in Found(p, order) :
                next.target = ProfileTarget("explicit", q)
      BY <2>2 DEF Chooses, h
    <3>2. now.key = CurrentKey
      BY <1>1, <2>2, KeyNow DEF h
    <3>3. next.known = now.known
      BY <2>2 DEF Advances, h
    <3> QED
      BY <2>1, <3>1, <3>2, <3>3 DEF Found
  <2>3. CASE h # "find"
    <3>1. "find" \notin L
      BY <1>2, <1>5, <1>10, <2>3
    <3>2. "context" \notin L
      BY <1>4, <1>5, <1>10, <3>1, RightBeforeRead DEF Planned, L
    <3>3. next.known = now.known /\ next.target = now.target
      BY <1>6, <1>8, <1>10, <2>3, <3>2 DEF Advances, h, Told
    <3> QED
      BY <1>10, <2>1, <3>1, <3>3 DEF Planned, Ahead, L
  <2> QED
    BY <2>2, <2>3
<1>11. ASSUME c.kind = "profile", next.assign, "default" \notin M
       PROVE  CurrentKey \in DOMAIN ps'.defaults /\ ps'.defaults[CurrentKey] = c.name
  <2>1. next.assign = now.assign
    BY <1>8, <1>11 DEF Advances, h, Told
  <2>2. CASE h = "default"
    <3>1. now.key = CurrentKey
      BY <1>1, <2>2, KeyNow DEF h
    <3>2. now.name = c.name
      BY <1>1, <1>11, NowHeld DEF Controlled
    <3>3. ps' = SetSetupDefaultProfile(ps, CurrentKey, c.name)
      BY <1>11, <2>1, <2>2, <3>1, <3>2 DEF Writes, h
    <3>4. ps'.defaults = Put(ps.defaults, CurrentKey, c.name)
      BY <1>1, <3>3, DefaultFields
    <3> QED
      BY <3>4 DEF Put
  <2>3. CASE h # "default"
    <3>1. "default" \notin L
      BY <1>2, <1>5, <1>11, <2>3
    <3>2. ps' = ps
      <4>1. h # "layout"
        BY <1>2, <1>11 DEF Uses
      <4> QED
        BY <1>8, <1>11, <2>3, <4>1 DEF Writes, h, Told
    <3> QED
      BY <1>11, <2>1, <3>1, <3>2 DEF Planned, Ahead, L
  <2> QED
    BY <2>2, <2>3
<1>12. ASSUME Told(c), "plan" \notin M
       PROVE  next.target.preset # "mirror" /\ (\E t : PlannedOn(p, t))'
  <2>1. /\ {"plan", "apply"} \subseteq Left(Program(c))
        /\ c.kind \in {"set", "profile"}
    BY <1>2, <1>12, ProgramControl DEF Told, Applies
  <2>2. h # "find"
    <3>1. h = "find" => h \notin Anytime /\ Turn(c, h) < Turn(c, "plan")
      BY DEF Anytime, Turn
    <3> QED
      BY <1>2, <1>5, <1>12, <2>1, <3>1
  <2>3. next.target = now.target
    BY <1>8, <1>12, <2>2 DEF Advances, h
  <2>4. ps'.builtin = ps.builtin
    BY <1>8, <1>12
  <2>5. CASE h = "plan"
    <3>1. /\ now.target.preset # "mirror"
          /\ next.plan \in PlansFor(now.target, Seen, now.settings.builtin)
      BY <2>5 DEF Chooses, h
    <3>2. "apply" \in M
      <4>1. h \notin Anytime /\ Turn(c, h) < Turn(c, "apply")
        BY <2>5 DEF Anytime, Turn
      <4> QED
        BY <1>2, <1>5, <2>1, <4>1
    <3>3. Seen' = Seen
      BY <1>3, <2>5
    <3>4. next.plan \in PlansFor(next.target, Seen, ps'.builtin)
      <4>1. CASE c.kind = "set"
        <5>1. ~c.save
          BY <1>12, <4>1 DEF Told
        <5>2. "settings" \notin L
          BY <1>1, <1>4, <1>5, <2>5, <4>1, <5>1, RightBeforeRead DEF Planned, L, h
        <5>3. now.settings.builtin = ps.builtin
          BY <4>1, <5>1, <5>2 DEF Planned, Ahead, L
        <5> QED
          BY <2>3, <2>4, <3>1, <5>3
      <4>2. CASE c.kind = "profile"
        <5>1. "find" \notin L
          <6>1. h \notin Anytime /\ Turn(c, "find") < Turn(c, h)
            BY <2>5 DEF Anytime, Turn
          <6> QED
            BY <1>2, <1>5, <6>1
        <5>2. now.target.kind = "explicit"
          <6>1. \E order \in IterationOrders :
                    \E q \in ProfilesForSetup(ps, CurrentKey, now.known, order) :
                        q.name = c.name /\ now.target = ProfileTarget("explicit", q)
            BY <4>2, <5>1 DEF Planned, Ahead, L
          <6>2. \E q : now.target = ProfileTarget("explicit", q)
            BY <6>1
          <6> QED
            BY <6>2 DEF ProfileTarget
        <5>3. \A b : PlansFor(now.target, Seen, b) = ProfilePlans(now.target.profile, Seen)
          BY <5>2 DEF PlansFor
        <5> QED
          BY <2>3, <3>1, <5>3
      <4> QED
        BY <2>1, <4>1, <4>2
    <3>5. PlannedOn(p, Seen)'
      BY <1>1, <3>2, <3>3, <3>4 DEF PlannedOn, Ahead, M
    <3> QED
      BY <2>3, <3>1, <3>5
  <2>6. CASE h # "plan"
    <3>1. "plan" \notin L
      BY <1>2, <1>5, <1>12, <2>6
    <3>2. PICK t : PlannedOn(p, t)
      BY <1>12, <3>1 DEF Planned, Ahead, L
    <3>3. next.plan = now.plan /\ now.target.preset # "mirror"
      BY <1>12, <2>6, <3>1 DEF Advances, h, Planned, Ahead, L
    <3>4. IF "apply" \in M THEN t = Seen' ELSE Outcome(t, next.plan, Seen')
      <4>1. CASE h = "apply"
        <5>1. "apply" \in L /\ "apply" \notin M
          BY <1>2, <1>5, <1>6, <4>1
        <5>2. t = Seen
          BY <3>2, <5>1 DEF PlannedOn, Ahead, L
        <5>3. Submittable(now.plan, hw) /\ hw' = Configure(hw, now.plan) /\ st' = st
          BY <4>1 DEF Writes, h
        <5>4. Outcome(NormalizeTopology(hw, st.known), now.plan,
                      NormalizeTopology(Configure(hw, now.plan), st.known))
          BY <1>1, <5>3, ConfiguredOutcome
        <5>5. Outcome(Seen, now.plan, Seen')
          BY <5>3, <5>4 DEF Seen
        <5> QED
          BY <3>3, <5>1, <5>2, <5>5
      <4>2. CASE h # "apply"
        BY <1>2, <1>3, <1>5, <3>2, <3>3, <4>2 DEF PlannedOn, Ahead, L
      <4> QED
        BY <4>1, <4>2
    <3>5. next.plan \in PlansFor(next.target, t, ps'.builtin) /\ IsTopology(t)
      BY <2>3, <2>4, <3>2, <3>3 DEF PlannedOn
    <3>6. \E u : PlannedOn(p, u)'
      <4> WITNESS t
      <4> QED
        BY <3>4, <3>5 DEF PlannedOn, Ahead, M
    <3> QED
      BY <2>3, <3>3, <3>6
  <2> QED
    BY <2>5, <2>6
<1>13. c.kind = "profile" => RightBefore(next.todo, "context", "find")
  BY <1>8 DEF Planned, Told
<1> QED
  BY <1>1, <1>3, <1>7, <1>9, <1>10, <1>11, <1>12, <1>13 DEF Planned, Ahead, M

(* Of every command that nobody has disturbed. *)
PlannedInv == \A p \in Procs : Alone(p) => Planned(p)

(* A command that is told what to apply has everything before it. *)
LEMMA ProgramPlans ==
    ASSUME NEW c \in CommandLines
    PROVE  LET L == Left(Program(c)) IN
           /\ c.kind = "set" /\ ~c.save => "settings" \in L
           /\ c.kind = "profile" => "find" \in L /\ (c.default => "default" \in L)
           /\ Told(c) => "plan" \in L
<1>1. Program(c) \in Seq(Steps)
  BY ProgramControl DEF Control
<1>2. Told(c) => "plan" \in Left(Program(c))
  BY ProgramControl DEF Told, Applies
<1>3. /\ \A b : \A s \in Seq(Steps) : When(b, s) \in Seq(Steps)
      /\ \A a, b \in Steps : <<a>> \in Seq(Steps) /\ <<a, b>> \in Seq(Steps)
      /\ <<>> \in Seq(Steps) /\ Applying \in Seq(Steps)
      /\ {"record", "report", "key", "layout", "default"} \subseteq Steps
  <2>1. <<>> \in Seq(Steps) /\ \A a, b \in Steps : <<a>> \in Seq(Steps) /\ <<a, b>> \in Seq(Steps)
    OBVIOUS
  <2>2. Applying \in Seq(Steps)
    BY DEF Applying, Steps
  <2>3. {"record", "report", "key", "layout", "default"} \subseteq Steps
    BY DEF Steps
  <2> QED
    BY <2>1, <2>2, <2>3 DEF When
<1>4. ASSUME NEW s \in Seq(Steps), NEW t \in Seq(Steps)
      PROVE  s \o t \in Seq(Steps) /\ \A x : x \in Left(s) \/ x \in Left(t) => x \in Left(s \o t)
  BY LeftOfConcat
<1>5. ASSUME c.kind = "set", ~c.save PROVE "settings" \in Left(Program(c))
  <2> DEFINE s1 == <<"settings", "plan", "validate", "apply", "snapshot">>
             s2 == When(c.default /\ ~c.save, <<"key", "layout">>)
  <2>1. Program(c) = s1 \o <<>> \o <<"record">> \o s2 \o <<"report">>
    BY <1>5 DEF Program, When, Applying
  <2>2. s1 \in Seq(Steps) /\ "settings" \in Left(s1)
    <3>1. 1 \in DOMAIN s1 /\ s1[1] = "settings"
      OBVIOUS
    <3>2. s1 \in Seq(Steps)
      BY DEF Steps
    <3> HIDE DEF s1
    <3> QED
      BY <3>1, <3>2 DEF Left
  <2>3. s2 \in Seq(Steps) /\ <<>> \in Seq(Steps) /\ <<"record">> \in Seq(Steps)
        /\ <<"report">> \in Seq(Steps)
    BY <1>3
  <2> HIDE DEF s1, s2
  <2>4. s1 \o <<>> \in Seq(Steps) /\ "settings" \in Left(s1 \o <<>>)
    BY <1>4, <2>2, <2>3
  <2>5. /\ s1 \o <<>> \o <<"record">> \in Seq(Steps)
        /\ "settings" \in Left(s1 \o <<>> \o <<"record">>)
    BY <1>4, <2>3, <2>4
  <2>6. /\ s1 \o <<>> \o <<"record">> \o s2 \in Seq(Steps)
        /\ "settings" \in Left(s1 \o <<>> \o <<"record">> \o s2)
    BY <1>4, <2>3, <2>5
  <2>7. "settings" \in Left(s1 \o <<>> \o <<"record">> \o s2 \o <<"report">>)
    BY <1>4, <2>3, <2>6
  <2> QED
    BY <2>1, <2>7, Zenon
<1>6. ASSUME c.kind = "profile"
      PROVE  LET L == Left(Program(c)) IN "find" \in L /\ (c.default => "default" \in L)
  <2> DEFINE s1 == <<"look", "context", "find">>
             s2 == When(c.default, <<"key", "default">>)
  <2>1. Program(c) = s1 \o Applying \o <<"record">> \o s2 \o <<"report">>
    BY <1>6 DEF Program
  <2>2. s1 \in Seq(Steps) /\ "find" \in Left(s1)
    <3>1. 3 \in DOMAIN s1 /\ s1[3] = "find"
      OBVIOUS
    <3>2. s1 \in Seq(Steps)
      BY DEF Steps
    <3> HIDE DEF s1
    <3> QED
      BY <3>1, <3>2 DEF Left
  <2>3. s2 \in Seq(Steps) /\ Applying \in Seq(Steps) /\ <<"record">> \in Seq(Steps)
        /\ <<"report">> \in Seq(Steps)
    BY <1>3
  <2>4. c.default => "default" \in Left(s2)
    BY LeftOfTuples DEF When
  <2> HIDE DEF s1, s2
  <2>5. s1 \o Applying \in Seq(Steps) /\ "find" \in Left(s1 \o Applying)
    BY <1>4, <2>2, <2>3
  <2>6. /\ s1 \o Applying \o <<"record">> \in Seq(Steps)
        /\ "find" \in Left(s1 \o Applying \o <<"record">>)
    BY <1>4, <2>3, <2>5
  <2>7. /\ s1 \o Applying \o <<"record">> \o s2 \in Seq(Steps)
        /\ LET L == Left(s1 \o Applying \o <<"record">> \o s2)
           IN  "find" \in L /\ (c.default => "default" \in L)
    BY <1>4, <2>3, <2>4, <2>6
  <2>8. LET L == Left(s1 \o Applying \o <<"record">> \o s2 \o <<"report">>)
        IN  "find" \in L /\ (c.default => "default" \in L)
    BY <1>4, <2>3, <2>7
  <2> QED
    BY <2>1, <2>8, Zenon
<1> QED
  BY <1>2, <1>5, <1>6

(* A command that starts holds what it was told to apply. *)
LEMMA StartedPlanned ==
    ASSUME NEW p \in Procs, NEW c \in CommandLines, run'[p] = Started(c)
    PROVE  Planned(p)'
<1>1. /\ run'[p].cmd = c /\ run'[p].todo = Program(c) /\ run'[p].assign = c.default
      /\ c.kind = "set" => run'[p].target = LayoutTarget(c.name)
  BY StartedHeld
<1>2. c.kind = "profile" /\ c.default => "default" \in Left(Program(c))
  BY ProgramPlans
<1> QED
  BY <1>1, <1>2, ProgramPlans, ProgramReads DEF Planned, Ahead

(* Whose displays and files are left alone holds what it held. *)
LEMMA UnnoticedPlanned ==
    ASSUME NEW q \in Procs, Planned(q), run'[q] = run[q], UNCHANGED shared
    PROVE  Planned(q)'
<1>1. hw' = hw /\ st' = st /\ ps' = ps
  BY DEF shared
<1>2. Seen' = Seen /\ CurrentKey' = CurrentKey
  BY <1>1 DEF Seen, CurrentKey
<1>3. \A t : PlannedOn(q, t)' <=> PlannedOn(q, t)
  BY <1>1, <1>2 DEF PlannedOn, Ahead
<1> QED
  BY <1>1, <1>2, <1>3 DEF Planned, Ahead

(* At first there is no command. *)
LEMMA PlannedInvInit == Init => PlannedInv
BY DEF Init, PlannedInv, Alone, Idle

(* A step of a command keeps what every command has planned. *)
LEMMA PlannedInvStep ==
    ASSUME TypeInv, AloneInv, PlannedInv, NEW p \in Procs, Step(p)
    PROVE  PlannedInv'
<1>1. SUFFICES ASSUME NEW q \in Procs, Alone(q)'
               PROVE  Planned(q)'
  BY DEF PlannedInv
<1>2. run'[q].todo # <<>> /\ run'[q].quiet
  BY <1>1 DEF Alone
<1>3. CASE q = p
  <2>1. CASE \E c \in CommandLines : run'[p] = Started(c)
    BY <1>3, <2>1, StartedPlanned
  <2>2. CASE run'[p] = Idle
    BY <1>2, <1>3, <2>2 DEF Idle
  <2>3. CASE Advances(p) /\ Writes(p)
    <3>1. Alone(p) /\ run[p].todo # <<>>
      BY <1>2, <1>3, <2>3 DEF Alone, Advances
    <3>2. run[p].quiet /\ Effected(p) /\ Current(p) /\ Planned(p)
      BY <3>1 DEF AloneInv, PlannedInv, Alone, Knows
    <3>3. Chooses(p)
      BY <1>2, <1>3, <3>1, StepChooses
    <3> QED
      BY <1>3, <2>3, <3>2, <3>3, PlannedKept
  <2> QED
    BY <2>1, <2>2, <2>3, StepOf
<1>4. CASE q # p
  <2>1. run'[q] = run[q] /\ UNCHANGED shared
    BY <1>2, <1>4, OthersOf
  <2>2. Planned(q)
    BY <1>2, <2>1 DEF PlannedInv, Alone
  <2> QED
    BY <2>1, <2>2, UnnoticedPlanned
<1> QED
  BY <1>3, <1>4

(* The invariant is inductive. *)
LEMMA PlannedInvNext == TypeInv /\ AloneInv /\ PlannedInv /\ [Next]_vars => PlannedInv'
<1> SUFFICES ASSUME TypeInv, AloneInv, PlannedInv, [Next]_vars PROVE PlannedInv'
  OBVIOUS
<1>1. CASE \E p \in Procs : Step(p)
  BY <1>1, PlannedInvStep
<1>2. CASE Hotplug
  <2>1. \A p \in Procs : Held(run[p]) /\ Controlled(run[p])
    BY DEF TypeInv, RunInv
  <2>2. \A p \in Procs : run'[p] = [run[p] EXCEPT !.quiet = FALSE]
    BY <1>2 DEF Hotplug
  <2>3. \A p \in Procs : ~run'[p].quiet
    BY <2>1, <2>2, DisturbedHeld
  <2> QED
    BY <2>3 DEF PlannedInv, Alone
<1>3. CASE UNCHANGED vars
  <2>1. UNCHANGED shared /\ run' = run
    BY <1>3 DEF vars
  <2>2. SUFFICES ASSUME NEW q \in Procs, Alone(q)'
                 PROVE  Planned(q)'
    BY DEF PlannedInv
  <2>3. Planned(q)
    BY <2>1, <2>2 DEF PlannedInv, Alone
  <2> QED
    BY <2>1, <2>3, UnnoticedPlanned
<1> QED
  BY <1>1, <1>2, <1>3 DEF Next

(* It holds always, with those it rests on. *)
LEMMA AlwaysPlanned == Spec => [](TypeInv /\ AloneInv /\ PlannedInv)
BY TypeInvInit, TypeInvNext, AloneInvInit, AloneInvNext, PlannedInvInit, PlannedInvNext, PTL
   DEF Spec

----------------------------------------------------------------------------
(* The default, read, selected and planned again. *)

(* A layout that holds of the displays as they are seen holds of them as   *)
(* they are reported. *)
LEMMA SeenHolds ==
    ASSUME SharedInv, NEW plan, LayoutHolds(plan, Seen)
    PROVE  LayoutHolds(plan, hw)
<1>1. IsTopology(hw) /\ IsTopology(Seen) /\ DOMAIN Seen = DOMAIN hw /\ IsCache(st.known)
  BY SeenType DEF SharedInv
<1>2. ASSUME NEW c \in DOMAIN hw
      PROVE  /\ Seen[c].id.real = hw[c].id.real
             /\ Seen[c].enabled = hw[c].enabled /\ Seen[c].mode = hw[c].mode
             /\ Seen[c].pos = hw[c].pos /\ Seen[c].xform = hw[c].xform
             /\ Seen[c].mirror = hw[c].mirror
  BY <1>1, NormalizeKeepsLayout DEF Seen, IsCache
<1>3. RealOutputs(hw) = RealOutputs(Seen) /\ RealOutputs(hw) \subseteq DOMAIN hw
  BY <1>1, <1>2 DEF RealOutputs
<1>4. ASSUME NEW c \in RealOutputs(hw)
      PROVE  /\ hw[c].enabled <=> (c \in DOMAIN plan /\ plan[c].enabled)
             /\ hw[c].enabled => Arranged(plan[c], hw[c])
  <2>1. /\ Seen[c].enabled <=> (c \in DOMAIN plan /\ plan[c].enabled)
        /\ Seen[c].enabled => Arranged(plan[c], Seen[c])
    BY <1>3 DEF LayoutHolds
  <2>2. Seen[c].enabled = hw[c].enabled
    BY <1>2, <1>3
  <2>3. Arranged(plan[c], Seen[c]) => Arranged(plan[c], hw[c])
    BY <1>2, <1>3 DEF Arranged
  <2> QED
    BY <2>1, <2>2, <2>3
<1> QED
  BY <1>4 DEF LayoutHolds

(* Where the setup's default is the name of a profile of the setup, it is  *)
(* that profile, read once more, that is selected. *)
LEMMA NamedSelected ==
    ASSUME NEW name, CurrentKey \in DOMAIN ps.defaults, ps.defaults[CurrentKey] = name,
           NEW order \in IterationOrders,
           \E q \in CurrentProfiles(order) : q.name = name,
           NEW target \in SelectTargets(Seen, AllProfiles(order), ps, <<>>, order)
    PROVE  \E q \in CurrentProfiles(order) : q.name = name /\ target = ProfileTarget("default", q)
<1> DEFINE named == SetupDefaults(CurrentKey, AllProfiles(order), ps)
<1>1. \A q : q \in CurrentProfiles(order)
                <=> q \in AllProfiles(order) /\ ProfileSetupFingerprint(q) = CurrentKey
  BY DEF CurrentProfiles, AllProfiles, ProfilesForSetup
<1>2. \A q : q \in named <=> q \in CurrentProfiles(order) /\ q.name = name
  BY <1>1 DEF SetupDefaults
<1>3. named # {}
  BY <1>2
<1> HIDE DEF named
<1>4. \E q \in named : target = ProfileTarget("default", q)
  BY <1>3 DEF SelectTargets, FirstListed, CurrentKey, named
<1> QED
  BY <1>2, <1>4

(* A profile of the setup, read in another order. *)
LEMMA ReadAgain ==
    ASSUME TypeInv, NEW o \in IterationOrders, NEW q \in CurrentProfiles(o),
           NEW order \in IterationOrders
    PROVE  \E r \in CurrentProfiles(order) :
                /\ r.name = q.name /\ r.layout = q.layout /\ SameRules(q, r)
                /\ \A t : IsTopology(t) => Matchable(q, t) /\ Matchable(r, t)
<1>1. StoreInv /\ IsCache(st.known) /\ IsFiniteSet(Connectors)
  BY SeenType, EnvironmentAssumption DEF TypeInv, SharedInv
<1>2. PICK s \in ps.profiles :
        /\ q = CanonicalizeProfile(s, st.known, o)
        /\ ProfileSetupFingerprint(q) = CurrentKey
  BY DEF CurrentProfiles, ProfilesForSetup
<1>3. IsProfile(s) /\ IsTopology(s.layout) /\ s.rules \in Seq(MatchRule)
  BY <1>1 DEF StoreInv, IsStore
<1> DEFINE r == CanonicalizeProfile(s, st.known, order)
<1>4. r \in CurrentProfiles(order)
  <2>1. ProfileSetupFingerprint(r) = CurrentKey
    BY <1>1, <1>2, <1>3, FingerprintIgnoresOrder
  <2> QED
    BY <2>1 DEF CurrentProfiles, ProfilesForSetup
<1>5. r.name = q.name
  BY <1>2, <1>3, CanonicalProfile
<1>6. q.layout = r.layout /\ SameRules(q, r)
  BY <1>1, <1>2, <1>3, CanonicalSame
<1>7. ASSUME NEW x \in IterationOrders, NEW t, IsTopology(t)
      PROVE  Matchable(CanonicalizeProfile(s, st.known, x), t)
  <2> DEFINE v == CanonicalizeProfile(s, st.known, x)
  <2>1. IsTopology(v.layout)
    BY <1>1, <1>3, CanonicalLayout
  <2>2. v.rules \in Seq(MatchRule)
    BY <1>1, <1>3, CanonicalRulesType
  <2> HIDE DEF v
  <2>3. Matchable(v, t)
    BY <1>1, <1>7, <2>1, <2>2, RulesMatchable
  <2> QED
    BY <2>3 DEF v
<1>8. \A t : IsTopology(t) => Matchable(q, t) /\ Matchable(r, t)
  BY <1>2, <1>7
<1> HIDE DEF r
<1> QED
  BY <1>4, <1>5, <1>6, <1>8

(* Nothing has been learned of a display while a profile was being set:    *)
(* the profile would be read with it the next time, and perhaps match less.*)
NothingLearned ==
    \A p \in Procs : Succeeded(p) /\ run[p].cmd.kind = "profile" => run[p].known = st.known

(* What DefaultIsFollowed says of one command. *)
Followed(p, order) ==
    \A target \in SelectTargets(Seen, AllProfiles(order), ps, <<>>, order) :
        /\ RecordedName(target) = run[p].name
        /\ \E plan \in PlansFor(target, Seen, ps.builtin) : LayoutHolds(plan, hw)

(* A profile that was saved is its own rules and its own layout. *)
LEMMA SavedFollowed ==
    ASSUME TypeInv, AloneInv, Unmistakable, NEW p \in Procs, NEW order \in IterationOrders,
           Succeeded(p), run[p].assign, Saves(run[p].cmd)
    PROVE  Followed(p, order)
<1> SUFFICES ASSUME NEW target \in SelectTargets(Seen, AllProfiles(order), ps, <<>>, order)
             PROVE  /\ RecordedName(target) = run[p].name
                    /\ \E plan \in PlansFor(target, Seen, ps.builtin) : LayoutHolds(plan, hw)
  BY DEF Followed
<1>1. Alone(p) /\ Left(run[p].todo) = {"report"}
  BY LeftOfTuples DEF Succeeded, Alone
<1>2. Filed(p) /\ Settled(p) /\ ~Ahead(p, "store") /\ ~Ahead(p, "default")
  BY <1>1 DEF AloneInv, Knows, Ahead
<1>3. CurrentKey \in DOMAIN ps.defaults /\ ps.defaults[CurrentKey] = run[p].name
  BY <1>2 DEF Settled
<1>4. \E q \in CurrentProfiles(order) : q.name = run[p].name
  BY <1>2, FoundAgain
<1>5. PICK q \in CurrentProfiles(order) :
        q.name = run[p].name /\ target = ProfileTarget("default", q)
  BY <1>3, <1>4, NamedSelected
<1>6. \E plan \in ProfilePlans(q, Seen) : LayoutHolds(plan, hw)
  BY <1>5, AloneComesBack DEF SavedComesBack
<1> QED
  BY <1>5, <1>6 DEF ProfileTarget, RecordedName, PlansFor

(* A built-in layout, planned again for the displays it has arranged, is   *)
(* the layout they have. *)
LEMMA PresetFollowed ==
    ASSUME TypeInv, AloneInv, PlannedInv, NEW p \in Procs, NEW order \in IterationOrders,
           Succeeded(p), run[p].assign, run[p].cmd.kind = "set", ~run[p].cmd.save
    PROVE  Followed(p, order)
<1> DEFINE c == run[p].cmd
<1> SUFFICES ASSUME NEW target \in SelectTargets(Seen, AllProfiles(order), ps, <<>>, order)
             PROVE  /\ RecordedName(target) = run[p].name
                    /\ \E plan \in PlansFor(target, Seen, ps.builtin) : LayoutHolds(plan, hw)
  BY DEF Followed
<1>1. Alone(p) /\ Left(run[p].todo) = {"report"}
  BY LeftOfTuples DEF Succeeded, Alone
<1>2. /\ Settled(p) /\ Planned(p) /\ ~Ahead(p, "layout") /\ ~Ahead(p, "plan")
      /\ ~Ahead(p, "apply")
  BY <1>1 DEF AloneInv, PlannedInv, Knows, Ahead
<1>3. c.default
  BY <1>2 DEF Settled
<1>4. /\ CurrentKey \notin DOMAIN ps.defaults
      /\ CurrentKey \in DOMAIN ps.layouts /\ ps.layouts[CurrentKey] = c.name
  BY <1>2, <1>3 DEF Settled
<1>5. target = LayoutTarget(c.name)
  <2> DEFINE named == SetupDefaults(CurrentKey, AllProfiles(order), ps)
  <2>1. named = {}
    BY <1>4 DEF SetupDefaults
  <2> HIDE DEF named
  <2> QED
    BY <1>4, <2>1 DEF SelectTargets, CurrentKey, named
<1>6. RecordedName(target) = run[p].name
  BY <1>5, AloneChosen DEF DefaultIsChosen
<1>7. run[p].target = target /\ target.kind = "layout" /\ target.preset = c.name
  BY <1>2, <1>5 DEF Planned, LayoutTarget
<1>8. PICK t : PlannedOn(p, t)
  BY <1>2 DEF Planned, Told
<1>9. c.name \in VirtualPresets \ {"mirror"}
  <2>1. c \in CommandLines
    BY <1>1 DEF TypeInv, RunInv, Controlled, Alone
  <2> QED
    BY <1>2, <1>7, <2>1, CommandsAssumption DEF Planned, Told
<1>10. /\ IsTopology(t) /\ run[p].plan \in PresetPlans(c.name, t, ps.builtin)
       /\ Outcome(t, run[p].plan, Seen)
  BY <1>2, <1>7, <1>8 DEF PlannedOn, PlansFor
<1>11. IsTopology(Seen) /\ SharedInv
  BY SeenType DEF TypeInv
<1>12. \E again \in PresetPlans(c.name, Seen, ps.builtin) : LayoutHolds(again, Seen)
  BY <1>9, <1>10, <1>11, PresetAgain, EnvironmentAssumption
<1> QED
  BY <1>6, <1>7, <1>11, <1>12, SeenHolds DEF PlansFor

(* A profile that was set, matched again, goes to the same displays. *)
LEMMA ProfileFollowed ==
    ASSUME TypeInv, AloneInv, PlannedInv, Unmistakable, NothingLearned,
           NEW p \in Procs, NEW order \in IterationOrders,
           Succeeded(p), run[p].assign, run[p].cmd.kind = "profile"
    PROVE  Followed(p, order)
<1> DEFINE c == run[p].cmd
<1> SUFFICES ASSUME NEW target \in SelectTargets(Seen, AllProfiles(order), ps, <<>>, order)
             PROVE  /\ RecordedName(target) = run[p].name
                    /\ \E plan \in PlansFor(target, Seen, ps.builtin) : LayoutHolds(plan, hw)
  BY DEF Followed
<1>1. Alone(p) /\ Left(run[p].todo) = {"report"}
  BY LeftOfTuples DEF Succeeded, Alone
<1>2. /\ Planned(p) /\ Effected(p) /\ ~Ahead(p, "find") /\ ~Ahead(p, "default")
      /\ ~Ahead(p, "plan") /\ ~Ahead(p, "apply")
  BY <1>1 DEF AloneInv, PlannedInv, Knows, Ahead
<1>3. run[p].name = c.name
  BY <1>1 DEF TypeInv, RunInv, Controlled, Alone
<1>4. CurrentKey \in DOMAIN ps.defaults /\ ps.defaults[CurrentKey] = c.name
  BY <1>2 DEF Planned
<1>5. PICK o \in IterationOrders : \E q \in CurrentProfiles(o) :
        q.name = c.name /\ run[p].target = ProfileTarget("explicit", q)
  <2>1. run[p].known = st.known
    BY DEF NothingLearned
  <2>2. \E o \in IterationOrders : \E q \in ProfilesForSetup(ps, CurrentKey, run[p].known, o) :
            q.name = c.name /\ run[p].target = ProfileTarget("explicit", q)
    BY <1>2 DEF Planned
  <2> QED
    BY <2>1, <2>2 DEF CurrentProfiles
<1>6. PICK q \in CurrentProfiles(o) :
        q.name = c.name /\ run[p].target = ProfileTarget("explicit", q)
  BY <1>5
<1>7. PICK r \in CurrentProfiles(order) :
        /\ r.name = c.name /\ r.layout = q.layout /\ SameRules(q, r)
        /\ \A t : IsTopology(t) => Matchable(q, t) /\ Matchable(r, t)
  BY <1>6, ReadAgain
<1>8. target = ProfileTarget("default", r)
  <2>1. PICK s \in CurrentProfiles(order) : s.name = c.name /\ target = ProfileTarget("default", s)
    BY <1>4, <1>7, NamedSelected
  <2>2. s = r
    BY <1>7, <2>1 DEF Unmistakable
  <2> QED
    BY <2>1, <2>2
<1>9. PICK t : PlannedOn(p, t)
  BY <1>2 DEF Planned, Told
<1>10. /\ IsTopology(t) /\ run[p].plan \in ProfilePlans(q, t) /\ Outcome(t, run[p].plan, Seen)
  BY <1>2, <1>6, <1>9 DEF PlannedOn, PlansFor, ProfileTarget
<1>11. IsTopology(Seen) /\ SameOutputs(t, Seen)
  BY <1>10, SeenType DEF TypeInv, Outcome, SameOutputs
<1>12. Distinguished(q, Seen) /\ Distinguished(r, Seen)
  BY DEF Unmistakable
<1>13. MatchesExactly(q, t) /\ run[p].plan = PlanFromProfile(q, t)
  BY <1>10 DEF ProfilePlans
<1>14. MatchesExactly(r, Seen) /\ PlanFromProfile(r, Seen) = run[p].plan
  BY <1>7, <1>10, <1>11, <1>12, <1>13, SameMatch
<1>15. run[p].plan \in ProfilePlans(r, Seen)
  BY <1>14 DEF ProfilePlans
<1>16. LayoutHolds(run[p].plan, hw)
  BY <1>2 DEF Effected, Applies
<1>17. /\ RecordedName(target) = c.name
       /\ PlansFor(target, Seen, ps.builtin) = ProfilePlans(r, Seen)
  BY <1>7, <1>8 DEF ProfileTarget, RecordedName, PlansFor
<1> QED
  BY <1>3, <1>15, <1>16, <1>17

(* With nothing left but the report, one of these has been done. *)
LEMMA AloneFollowed ==
    TypeInv /\ AloneInv /\ PlannedInv => (Unmistakable /\ NothingLearned => DefaultIsFollowed)
<1> SUFFICES ASSUME TypeInv, AloneInv, PlannedInv, Unmistakable, NothingLearned,
                    NEW p \in Procs, NEW order \in IterationOrders,
                    Succeeded(p), run[p].assign, run[p].cmd.kind # "remove"
             PROVE  Followed(p, order)
  BY DEF DefaultIsFollowed, Followed
<1> DEFINE c == run[p].cmd
<1>1. Alone(p) /\ c \in CommandLines
  BY LeftOfTuples DEF Succeeded, Alone, TypeInv, RunInv, Controlled
<1>2. CASE Saves(c)
  BY <1>2, SavedFollowed
<1>3. CASE ~Saves(c)
  <2>1. c.default
    BY <1>1, <1>3 DEF PlannedInv, Planned
  <2>2. c.kind \in {"save", "set", "profile"}
    BY <1>1, <2>1, CommandsAssumption
  <2> QED
    BY <1>3, <2>2, PresetFollowed, ProfileFollowed DEF Saves
<1> QED
  BY <1>2, <1>3

(* What was made the default is what `set auto` chooses now, and its       *)
(* layout is in place, whether a profile was saved, one was set or a       *)
(* built-in layout was: what selection and planning make of the stored     *)
(* default is what was applied (action.rs, store/write.rs, selection.rs,   *)
(* matcher.rs, presets.rs).  The displays are told apart and the setup has *)
(* one profile of a name, and no display became known in between.          *)
THEOREM DefaultIsInPlace == Spec => [](Unmistakable /\ NothingLearned => DefaultIsFollowed)
BY AlwaysPlanned, AloneFollowed, PTL

----------------------------------------------------------------------------
(* What a command may write. *)

(* A step that changes what a process has left is its own. *)
LEMMA OwnStep ==
    ASSUME TypeInv, [Next]_vars, NEW p \in Procs, run[p].quiet, run'[p].todo # run[p].todo
    PROVE  \/ UNCHANGED ps
           \/ Advances(p) /\ Writes(p)
<1>1. CASE Step(p)
  BY <1>1, StepOf DEF shared
<1>2. CASE \E q \in Procs \ {p} : Step(q)
  <2>1. run'[p] = run[p] \/ run'[p].todo = run[p].todo
    BY <1>2, OthersOf
  <2> QED
    BY <2>1
<1>3. CASE Hotplug \/ UNCHANGED vars
  BY <1>3 DEF Hotplug, vars, shared
<1> QED
  BY <1>1, <1>2, <1>3 DEF Next

(* The step that sets the default sets that of the only profile. *)
LEMMA ImplicitDefaultStep ==
    ASSUME TypeInv, AloneInv, [Next]_vars, NEW p \in Procs, NEW order \in IterationOrders,
           Takes(p, "default"), run[p].quiet, ~run[p].cmd.default
    PROVE  LET only == \A q \in CurrentProfiles(order) : q.name = run[p].name
           IN  ps' = IF only /\ CurrentKey \notin DOMAIN ps.layouts
                     THEN SetSetupDefaultProfile(ps, CurrentKey, run[p].name) ELSE ps
<1> DEFINE now == run[p]
           c == now.cmd
           L == Left(now.todo)
<1>1. /\ now.todo # <<>> /\ Head(now.todo) = "default" /\ run'[p].todo = Tail(now.todo)
      /\ RunInv
  BY DEF Takes, At, TypeInv
<1>2. /\ c \in CommandLines /\ Control(c, now.todo) /\ "default" \in Uses(c)
      /\ now.todo \in Seq(Steps) /\ Complete(c, now.todo)
  BY <1>1, NowHeld
<1>3. Saves(c) /\ ~c.default
  BY <1>2 DEF Uses
<1>4. "default" \in L /\ "layouts" \notin L /\ "others" \notin L
  <2>1. /\ L = {"default"} \cup Left(Tail(now.todo))
        /\ \A x \in Left(Tail(now.todo)) \ Anytime : Turn(c, "default") < Turn(c, x)
    BY <1>1, <1>2, ControlOfTail DEF Anytime
  <2>2. \A x \in {"layouts", "others"} : ~(Turn(c, "default") < Turn(c, x)) /\ x \notin Anytime
    BY DEF Turn, Anytime
  <2> QED
    BY <2>1, <2>2
<1>5. Effected(p) /\ Current(p) /\ Decided(p)
  BY <1>1 DEF AloneInv, Alone, Knows
<1>6. now.assign <=> Only(p, order)
  BY <1>3, <1>4, <1>5 DEF Decided, Ahead
<1>7. Advances(p) /\ Writes(p)
  <2>1. CASE Step(p)
    <3>1. run'[p] # Idle
      (* The report is still to come. *)
      <4>1. "report" \in L
        <5>1. "report" \in Left(Program(c)) \ Anytime /\ "default" \in L \ Anytime
          BY <1>2, <1>4, ProgramControl DEF Anytime
        <5>2. Turn(c, "default") <= Turn(c, "report")
          BY DEF Turn
        <5> QED
          BY <1>2, <5>1, <5>2 DEF Complete
      <4>2. "report" \in Left(Tail(now.todo))
        BY <1>1, <1>2, <4>1, ControlOfTail
      <4>3. Tail(now.todo) # <<>>
        BY <4>2, LeftOfTuples
      <4> QED
        BY <1>1, <4>3, IdleHeld
    <3> QED
      BY <1>1, <2>1, <3>1, StepOf
  <2>2. CASE ~Step(p)
    <3>1. run'[p].todo = now.todo
      <4>1. CASE \E q \in Procs \ {p} : Step(q)
        BY <4>1, OthersOf
      <4>2. CASE Hotplug
        <5>1. Held(now) /\ Controlled(now) /\ run'[p] = [now EXCEPT !.quiet = FALSE]
          BY <1>1, <4>2 DEF RunInv, Hotplug
        <5> QED
          BY <5>1, DisturbedHeld
      <4>3. CASE UNCHANGED vars
        BY <4>3 DEF vars
      <4> QED
        BY <2>2, <4>1, <4>2, <4>3 DEF Next
    <3>2. Tail(now.todo) # now.todo
      <4> DEFINE todo == now.todo
                 tail == Tail(now.todo)
      <4>1. Len(tail) = Len(todo) - 1 /\ Len(todo) \in Nat
        BY <1>1, <1>2
      <4> HIDE DEF todo, tail
      <4>2. tail # todo
        BY <4>1
      <4> QED
        BY <4>2 DEF todo, tail
    <3> QED
      BY <1>1, <3>1, <3>2
  <2> QED
    BY <2>1, <2>2
<1>8. now.key = CurrentKey
  BY <1>1, <1>5, <1>7, KeyNow
<1>9. ps' = IF now.assign THEN SetSetupDefaultProfile(ps, now.key, now.name) ELSE ps
  BY <1>1, <1>7 DEF Writes
<1> QED
  BY <1>6, <1>8, <1>9 DEF Only

(* A profile saved without --default becomes the default of its setup      *)
(* exactly when it is the only one there and the setup has no default      *)
(* layout, whichever profiles are stored (README.md:128-140).              *)
THEOREM OnlyProfileIsDefault == Spec => ImplicitDefaultIsOnly
<1> DEFINE A == \A p \in Procs : \A order \in IterationOrders :
        Takes(p, "default") /\ run[p].quiet /\ ~run[p].cmd.default =>
            LET only == \A q \in CurrentProfiles(order) : q.name = run[p].name
            IN  ps' = IF only /\ CurrentKey \notin DOMAIN ps.layouts
                      THEN SetSetupDefaultProfile(ps, CurrentKey, run[p].name) ELSE ps
<1>1. TypeInv /\ AloneInv /\ [Next]_vars => A
  BY ImplicitDefaultStep
<1> QED
  BY <1>1, AlwaysAlone, PTL DEF Spec, ImplicitDefaultIsOnly

(* What is left alone of a function when one of its places is filled or    *)
(* emptied.                                                                *)
LEMMA Elsewhere ==
    ASSUME NEW f, NEW k, NEW v
    PROVE  Drop(Put(f, k, v), k) = Drop(f, k) /\ Drop(Drop(f, k), k) = Drop(f, k)
<1>1. /\ DOMAIN Put(f, k, v) \ {k} = DOMAIN f \ {k}
      /\ \A x \in DOMAIN f \ {k} : Put(f, k, v)[x] = f[x]
  BY DEF Put
<1>2. /\ DOMAIN Drop(f, k) \ {k} = DOMAIN f \ {k}
      /\ \A x \in DOMAIN f \ {k} : Drop(f, k)[x] = f[x]
  BY DEF Drop
<1>3. Drop(Put(f, k, v), k) = Drop(f, k)
  <2> DEFINE g == Put(f, k, v)
  <2> HIDE DEF g
  <2> QED
    BY <1>1 DEF Drop, g
<1>4. Drop(Drop(f, k), k) = Drop(f, k)
  <2> DEFINE g == Drop(f, k)
  <2>1. DOMAIN g \ {k} = DOMAIN f \ {k} /\ \A x \in DOMAIN f \ {k} : g[x] = f[x]
    BY <1>2
  <2> HIDE DEF g
  <2>2. Drop(g, k) = Drop(f, k)
    BY <2>1 DEF Drop
  <2> QED
    BY <2>2 DEF g
<1> QED
  BY <1>3, <1>4

(* The profiles of one name and setup, whichever order they are read in.   *)
LEMMA NamedHere ==
    ASSUME TypeInv, NEW name, NEW other \in IterationOrders, NEW order \in IterationOrders,
           NEW q \in ProfilesNamed(ps, name, CurrentKey, st.known, other)
    PROVE  /\ q.name = name
           /\ ProfileSetupFingerprint(CanonicalizeProfile(q, st.known, order)) = CurrentKey
<1>1. /\ q \in ps.profiles /\ q.name = name
      /\ ProfileSetupFingerprint(CanonicalizeProfile(q, st.known, other)) = CurrentKey
  BY DEF ProfilesNamed
<1>2. IsProfile(q) /\ IsTopology(q.layout) /\ IsCache(st.known)
  BY <1>1, SeenType DEF TypeInv, SharedInv, StoreInv, IsStore
<1> QED
  BY <1>1, <1>2, FingerprintIgnoresOrder, EnvironmentAssumption

(* No step writes anything of another setup or name. *)
LEMMA OthersUntouchedStep ==
    ASSUME TypeInv, AloneInv, [Next]_vars, NEW p \in Procs, NEW order \in IterationOrders,
           run[p].quiet, run'[p].todo # run[p].todo
    PROVE  /\ \A q \in ps.profiles \ ps'.profiles :
                /\ q.name = run[p].name
                /\ ProfileSetupFingerprint(CanonicalizeProfile(q, st.known, order)) = CurrentKey
           /\ Drop(ps'.defaults, CurrentKey) = Drop(ps.defaults, CurrentKey)
           /\ Drop(ps'.layouts, CurrentKey) = Drop(ps.layouts, CurrentKey)
<1> DEFINE now == run[p]
           c == now.cmd
           h == Head(now.todo)
<1>1. CASE UNCHANGED ps
  BY <1>1
<1>2. CASE Advances(p) /\ Writes(p)
  <2>1. now.todo # <<>> /\ IsStore(ps) /\ RunInv
    BY <1>2 DEF Advances, TypeInv, SharedInv, StoreInv
  <2>2. Effected(p) /\ Current(p)
    BY <2>1 DEF AloneInv, Alone, Knows
  <2>3. h \in {"store", "default", "layout", "remove", "clear"} => now.key = CurrentKey
    BY <1>2, <2>1, <2>2, KeyNow
  <2>4. CASE h = "store"
    <3>1. PICK o \in IterationOrders :
            ps' = SaveProfile(ps, ProfileFromTopology(now.name, now.topo, o), now.known, o)
      BY <1>2, <2>4 DEF Writes
    <3> DEFINE new == ProfileFromTopology(now.name, now.topo, o)
               profile == CanonicalizeProfile(new, now.known, o)
    <3>2. now.known = st.known /\ profile.name = now.name
          /\ ProfileSetupFingerprint(profile) = CurrentKey
      BY <1>2, <2>1, <2>2, <2>4, FiledHere DEF At
    <3>3. /\ ps'.profiles = (ps.profiles \ ProfilesNamed(ps, profile.name,
                                ProfileSetupFingerprint(profile), now.known, o)) \cup {profile}
          /\ ps'.defaults = ps.defaults /\ ps'.layouts = ps.layouts
      BY <2>1, <3>1, SaveProfileFields
    <3> HIDE DEF new, profile
    <3>4. \A q \in ps.profiles \ ps'.profiles :
            q \in ProfilesNamed(ps, now.name, CurrentKey, st.known, o)
      BY <3>2, <3>3
    <3> QED
      BY <3>3, <3>4, NamedHere
  <2>5. CASE h = "remove"
    <3>1. PICK o \in IterationOrders :
            ps' = RemoveForSetup(ps, c.name, now.key, now.known, o)
      BY <1>2, <2>5 DEF Writes
    <3>2. now.known = st.known /\ now.key = CurrentKey
      BY <2>2, <2>3, <2>5 DEF Current, Informed
    <3>3. c.name = now.name
      <4>1. Controlled(now) /\ h \in Uses(c)
        BY <2>1, NowHeld
      <4>2. c.kind = "remove"
        BY <2>5, <4>1 DEF Uses
      <4> QED
        BY <2>1, <4>1, <4>2 DEF Controlled
    <3>4. /\ ps'.profiles = ps.profiles \ ProfilesNamed(ps, now.name, CurrentKey, st.known, o)
          /\ ps'.defaults \in {ps.defaults, Drop(ps.defaults, CurrentKey)}
          /\ ps'.layouts = ps.layouts
      BY <2>1, <3>1, <3>2, <3>3, RemoveFields
    <3>5. Drop(ps'.defaults, CurrentKey) = Drop(ps.defaults, CurrentKey)
      BY <3>4, Elsewhere
    <3> QED
      BY <3>4, <3>5, NamedHere
  <2>6. CASE h \in {"default", "layout", "clear"}
    <3>1. /\ ps'.profiles = ps.profiles
          /\ \/ ps'.defaults = ps.defaults
             \/ ps'.defaults = Drop(ps.defaults, CurrentKey)
             \/ ps'.defaults = Put(ps.defaults, CurrentKey, now.name)
          /\ \/ ps'.layouts = ps.layouts
             \/ ps'.layouts = Drop(ps.layouts, CurrentKey)
             \/ ps'.layouts = Put(ps.layouts, CurrentKey, c.name)
      BY <1>2, <2>1, <2>3, <2>6, DefaultFields DEF Writes
    <3> QED
      BY <3>1, Elsewhere
  <2>7. CASE h \notin {"store", "default", "layout", "remove", "clear"}
    BY <1>2, <2>7 DEF Writes
  <2> QED
    BY <2>4, <2>5, <2>6, <2>7
<1> QED
  BY <1>1, <1>2, OwnStep

(* A command about one setup and one name leaves the profiles of other     *)
(* setups and names, and the defaults of other setups, as they are,        *)
(* whatever is stored and however profiles are read (store/write.rs).      *)
THEOREM OthersStayUntouched == Spec => OthersUntouched
<1> DEFINE A == \A p \in Procs : \A order \in IterationOrders :
        run[p].quiet /\ run'[p].todo # run[p].todo =>
            /\ \A q \in ps.profiles \ ps'.profiles :
                /\ q.name = run[p].name
                /\ ProfileSetupFingerprint(CanonicalizeProfile(q, st.known, order)) = CurrentKey
            /\ Drop(ps'.defaults, CurrentKey) = Drop(ps.defaults, CurrentKey)
            /\ Drop(ps'.layouts, CurrentKey) = Drop(ps.layouts, CurrentKey)
<1>1. TypeInv /\ AloneInv /\ [Next]_vars => A
  BY OthersUntouchedStep
<1> QED
  BY <1>1, AlwaysAlone, PTL DEF Spec, OthersUntouched
=============================================================================
