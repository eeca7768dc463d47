-------------------------- MODULE SubmissionProofs --------------------------
(***************************************************************************)
(* Submission keeps its types, and a call that submits when nothing is     *)
(* outstanding is reported as it went: for any number of attempts,         *)
(* roundtrips, calls and changes.                                          *)
(***************************************************************************)
EXTENDS Submission, TLAPS

Config == [id : 1..MaxCalls, attempt : 1..Attempts, serial : Nat, test : BOOLEAN]

LEMMA SequenceFacts ==
    ASSUME NEW S, NEW q \in Seq(S)
    PROVE  /\ \A c \in S : Append(q, c) \in Seq(S)
           /\ q # <<>> => Head(q) \in S /\ Tail(q) \in Seq(S)
OBVIOUS

LEMMA TypeStep == TypeOK /\ [Next]_vars => TypeOK'
<1> SUFFICES ASSUME TypeOK, [Next]_vars PROVE TypeOK'
  OBVIOUS
<1> USE SubmissionAssumption
<1>0. ASSUME Return("error"), UNCHANGED call
      PROVE  /\ pc' = "idle" /\ attempt' \in 0..Attempts /\ trips' \in 0..Roundtrips - 1
             /\ last' \in [call : Calls \cup {NoCall}, status : Answers \cup {None, "error"}]
  <2>1. call \in Calls \cup {NoCall}
    BY DEF TypeOK
  <2> QED
    BY <1>0, <2>1 DEF Return
<1>1. CASE \E test \in BOOLEAN : Begin(test)
  BY <1>1 DEF Begin, TypeOK, Calls, NoCall
<1>2. CASE Refresh
  BY <1>2 DEF Refresh, TypeOK
<1>3. CASE Submit
  <2>1. [id |-> call.id, attempt |-> attempt, serial |-> serial, test |-> call.test]
          \in Config
    BY <1>3 DEF Submit, TypeOK, Calls, Config
  <2>2. queue' \in Seq(Config)
    BY <1>3, <2>1, SequenceFacts DEF Submit, TypeOK, Config
  <2>3. call.id \in 1..MaxCalls /\ late' \subseteq 1..MaxCalls
    BY <1>3 DEF Submit, TypeOK, Calls
  <2> QED
    BY <1>3, <2>2, <2>3 DEF Submit, TypeOK, Config
<1>4. CASE SubmitRejected
  BY <1>4 DEF SubmitRejected, Return, TypeOK, Answers
<1>5. CASE Answered
  BY <1>5 DEF Answered, Return, TypeOK, Answers
<1>6. CASE NotAnswered
  BY <1>6 DEF NotAnswered, TypeOK
<1>7. CASE GiveUp
  BY <1>7, <1>0 DEF GiveUp, TypeOK
<1>8. CASE Disconnect
  BY <1>8, <1>0 DEF Disconnect, TypeOK
<1>9. CASE CompositorStep
  <2>1. Head(queue) \in Config /\ queue' \in Seq(Config)
    <3>1. queue \in Seq(Config)
      BY DEF TypeOK, Config
    <3>2. queue # <<>> /\ queue' = Tail(queue)
      BY <1>9 DEF CompositorStep, Succeed, Refuse, Cancel, Settle
    <3> QED
      BY <3>1, <3>2, SequenceFacts
  <2>2. CASE Succeed
    BY <2>1, <2>2, SMTT(30) DEF Succeed, Settle, TypeOK, Config, client, Answers
  <2>3. CASE Refuse
    BY <2>1, <2>3 DEF Refuse, Settle, TypeOK, Config, client, Answers
  <2>4. CASE Cancel
    BY <2>1, <2>4 DEF Cancel, Settle, TypeOK, Config, client, Answers
  <2> QED
    BY <1>9, <2>2, <2>3, <2>4 DEF CompositorStep
<1>10. CASE Change
  BY <1>10 DEF Change, TypeOK, client
<1>11. CASE UNCHANGED vars
  BY <1>11 DEF vars, client, TypeOK
<1> QED
  BY <1>1, <1>2, <1>3, <1>4, <1>5, <1>6, <1>7, <1>8, <1>9, <1>10, <1>11
  DEF Next, ClientStep

(* Every variable has its type, whatever answers are late. *)
THEOREM SubmissionTypeCorrect == SafetySpec => []TypeOK
<1>1. Init => TypeOK
  BY SubmissionAssumption DEF Init, TypeOK, NoCall, Answers
<1> QED
  BY <1>1, TypeStep, PTL DEF SafetySpec

----------------------------------------------------------------------------
(* A call that is not late owns what it waits for: the one configuration   *)
(* that is outstanding is its own, or the answer under way is.             *)

Took == {t[1] : t \in took}   \* the calls that took effect

Queued(id) == \E i \in 1..Len(queue) : queue[i].id = id

OwnConfig ==
    /\ inbox = None /\ call.id \notin Took
    /\ Len(queue) = 1
    /\ queue[1].id = call.id /\ queue[1].attempt = attempt /\ queue[1].test = call.test

OwnAnswer ==
    /\ queue = <<>> /\ inbox \in Answers
    /\ call.id \in Took <=> inbox = "succeeded" /\ ~call.test

Own ==
    call.id \notin late =>
        /\ pc \in {"refresh", "submit"} => ~Queued(call.id) /\ call.id \notin Took
        /\ pc = "wait" => OwnConfig \/ OwnAnswer

(* Of such a call, the compositor has at most one configuration left to    *)
(* answer, also after it gave up, and then it has not taken effect.        *)
Once ==
    \A i \in 1..Len(queue) :
        /\ queue[i].id <= call.id
        /\ queue[i].id \notin late =>
            /\ queue[i].id \notin Took
            /\ \A j \in 1..Len(queue) : queue[j].id = queue[i].id => j = i

(* How calls end. *)
Ends ==
    /\ ~alive => pc = "idle" /\ last.status = "error"
    /\ pc = "idle" => last.call = call
    /\ pc # "idle" => last.call.id < call.id
    /\ Took \subseteq 1..call.id /\ late \subseteq 1..call.id

Reports ==
    last.call.id \notin late =>
        /\ last.status = "succeeded" /\ ~last.call.test => last.call.id \in Took
        /\ last.status \in {"failed", "cancelled"} =>
            last.call.id \notin Took /\ ~Queued(last.call.id)

Inv == TypeOK /\ Own /\ Once /\ Ends /\ Reports /\ AtMostOnce

LEMMA TookIs == ASSUME TypeOK, NEW c PROVE c.id \in Took <=> TookEffect(c)
<1>1. ASSUME NEW t \in took PROVE t = <<t[1], t[2]>> /\ t[2] \in 1..Attempts
  BY <1>1 DEF TypeOK
<1>2. ASSUME TookEffect(c) PROVE c.id \in Took
  <2>1. PICK a : <<c.id, a>> \in took
    BY <1>2 DEF TookEffect
  <2>2. <<c.id, a>>[1] = c.id
    OBVIOUS
  <2> QED
    BY <2>1, <2>2 DEF Took
<1> QED
  BY <1>1, <1>2 DEF Took, TookEffect

LEMMA InitInv == Init => Inv
BY SubmissionAssumption
DEF Init, Inv, TypeOK, Own, Once, Ends, Reports, AtMostOnce, Took, NoCall, Answers

LEMMA QueueType ==
    ASSUME TypeOK
    PROVE  /\ queue \in Seq(Config) /\ Len(queue) \in Nat
           /\ \A i \in 1..Len(queue) : queue[i] \in Config /\ queue[i].id \in Nat
<1>1. queue \in Seq(Config)
  BY DEF TypeOK, Config
<1>2. Len(queue) \in Nat /\ \A i \in 1..Len(queue) : queue[i] \in Config
  BY <1>1
<1>3. \A c \in Config : c.id \in Nat
  BY SubmissionAssumption DEF Config
<1> QED
  BY <1>1, <1>2, <1>3

(* A step of the client other than Submit: what is outstanding stays.      *)
LEMMA ClientInv ==
    ASSUME Inv, (ClientStep /\ ~Submit) \/ Disconnect, TypeOK'
    PROVE  Inv'
<1>1. /\ took' = took /\ Took' = Took /\ late' = late /\ queue' = queue /\ call' = call
      /\ AtMostOnce' /\ Once' /\ \A id : Queued(id)' <=> Queued(id)
  BY DEF ClientStep, Disconnect, Refresh, SubmitRejected, Answered, NotAnswered, GiveUp,
     Inv, AtMostOnce, Once, Took, Queued
<1>2. CASE Refresh
  BY <1>1, <1>2 DEF Refresh, Inv, Own, Ends, Reports
<1>3. CASE SubmitRejected
  BY <1>1, <1>3 DEF SubmitRejected, Return, Inv, Own, Ends, Reports
<1>4. CASE Answered
  <2>1. call.id \notin late => OwnAnswer /\ ~Queued(call.id)
    BY <1>4 DEF Answered, Inv, Own, OwnConfig, OwnAnswer, Queued
  <2> QED
    BY <1>1, <1>4, <2>1 DEF Answered, Return, Inv, Own, OwnAnswer, Ends, Reports
<1>5. CASE NotAnswered
  BY <1>1, <1>5 DEF NotAnswered, Inv, Own, OwnConfig, OwnAnswer, Ends, Reports
<1>6. CASE GiveUp
  BY <1>1, <1>6 DEF GiveUp, Return, Inv, Own, Ends, Reports
<1>7. CASE Disconnect
  BY <1>1, <1>7 DEF Disconnect, Return, Inv, Own, Ends, Reports
<1> QED
  BY <1>2, <1>3, <1>4, <1>5, <1>6, <1>7 DEF ClientStep

(* Submitting while something is outstanding makes the call late;          *)
(* otherwise its configuration is the only one.                            *)
LEMMA SubmitInv == ASSUME Inv, Submit, TypeOK' PROVE Inv'
<1> DEFINE config == [id |-> call.id, attempt |-> attempt, serial |-> serial,
                      test |-> call.test]
<1>1. /\ took' = took /\ Took' = Took /\ call' = call /\ last' = last
      /\ queue' = Append(queue, config) /\ late \subseteq late' /\ late' \subseteq late \cup {call.id}
  BY DEF Submit, Took
<1>2. /\ Len(queue') = Len(queue) + 1 /\ queue'[Len(queue) + 1] = config
      /\ \A i \in 1..Len(queue) : queue'[i] = queue[i]
  BY <1>1, QueueType DEF Inv
<1>3. call.id \in 1..MaxCalls /\ call.id \in Nat /\ Len(queue) \in Nat
  BY QueueType, SubmissionAssumption DEF Submit, Inv, TypeOK, Calls
<1>4. AtMostOnce'
  BY <1>1 DEF Inv, AtMostOnce
<1>5. CASE Outstanding
  <2>1. late' = late \cup {call.id}
    BY <1>5 DEF Submit
  <2>2. Once'
    <3> SUFFICES ASSUME NEW i \in 1..Len(queue')
                 PROVE  /\ queue'[i].id <= call.id
                        /\ queue'[i].id \notin late' =>
                            /\ queue'[i].id \notin Took
                            /\ \A j \in 1..Len(queue') : queue'[j].id = queue'[i].id => j = i
      BY <1>1 DEF Once
    <3>1. CASE i = Len(queue) + 1
      BY <1>2, <1>3, <2>1, <3>1
    <3>2. CASE i \in 1..Len(queue)
      BY <1>2, <1>3, <2>1, <3>2 DEF Inv, Once
    <3> QED
      BY <1>2, <1>3, <3>1, <3>2
  <2>3. Ends'
    <3>1. call.id \in 1..call.id /\ late' \subseteq 1..call.id
      <4>1. call.id >= 1 /\ call.id <= call.id
        BY <1>3, SubmissionAssumption
      <4>2. late \subseteq 1..call.id
        BY DEF Inv, Ends
      <4>3. call.id \in 1..call.id
        BY <1>3, <4>1
      <4> QED
        BY <2>1, <4>2, <4>3
    <3> QED
      BY <1>1, <3>1 DEF Submit, Inv, Ends
  <2>4. Reports'
    <3>1. last.call.id # call.id
      BY <1>3 DEF Submit, Inv, Ends, TypeOK, Calls, NoCall
    <3>2. Queued(last.call.id)' => Queued(last.call.id)
      BY <1>1, <1>2, <1>3, <3>1 DEF Queued
    <3> QED
      BY <1>1, <2>1, <3>1, <3>2 DEF Inv, Reports
  <2> QED
    BY <1>1, <1>4, <2>1, <2>2, <2>3, <2>4 DEF Inv, Own
<1>6. CASE ~Outstanding
  <2>1. queue = <<>> /\ inbox = None /\ late' = late
    BY <1>6 DEF Submit, Outstanding
  <2>2. Len(queue') = 1 /\ queue'[1] = config
    BY <1>2, <2>1
  <2>3. call.id \notin late => call.id \notin Took
    BY DEF Submit, Inv, Own
  <2>4. Own'
    BY <1>1, <2>1, <2>2, <2>3 DEF Submit, Own, OwnConfig
  <2>5. Once'
    BY <1>1, <1>3, <2>1, <2>2, <2>3 DEF Once
  <2>6. Ends'
    BY <1>1, <1>3, <2>1 DEF Submit, Inv, Ends
  <2>7. Reports'
    <3>1. last.call.id # call.id
      BY <1>3 DEF Submit, Inv, Ends, TypeOK, Calls, NoCall
    <3>2. ~Queued(last.call.id)'
      BY <1>1, <2>2, <3>1 DEF Queued
    <3> QED
      BY <1>1, <2>1, <3>2 DEF Inv, Reports
  <2> QED
    BY <1>4, <2>4, <2>5, <2>6, <2>7 DEF Inv
<1> QED
  BY <1>5, <1>6

LEMMA BeginInv == ASSUME Inv, NEW test \in BOOLEAN, Begin(test), TypeOK' PROVE Inv'
<1>1. /\ took' = took /\ Took' = Took /\ late' = late /\ queue' = queue /\ AtMostOnce'
      /\ \A id : Queued(id)' <=> Queued(id)
  BY DEF Begin, Inv, AtMostOnce, Took, Queued
<1>2. call'.id = call.id + 1 /\ call.id \in Nat
  BY SubmissionAssumption DEF Begin, Inv, TypeOK, Calls, NoCall
<1>3. Once' /\ ~Queued(call'.id)
  <2>1. \A i \in 1..Len(queue) : queue[i].id \in Nat /\ queue[i].id <= call.id
    BY QueueType DEF Inv, Once
  <2> QED
    BY <1>1, <1>2, <2>1 DEF Inv, Once, Queued
<1>4. call'.id \notin Took /\ Ends'
  BY <1>1, <1>2 DEF Begin, Inv, Ends
<1>5. Reports' /\ Own'
  BY <1>1, <1>3, <1>4 DEF Begin, Inv, Own, Reports
<1> QED
  BY <1>1, <1>3, <1>4, <1>5 DEF Inv

(* What the compositor answers is the head of the queue.                   *)
LEMMA Answering ==
    ASSUME Inv, CompositorStep
    PROVE  /\ Len(queue) \in Nat /\ Len(queue) > 0 /\ Head(queue) = queue[1]
           /\ Len(queue') = Len(queue) - 1
           /\ \A i \in 1..Len(queue') : queue'[i] = queue[i + 1]
           /\ queue[1] \in Config /\ inbox' \in Answers /\ UNCHANGED client
           /\ Took' \in {Took, Took \cup {queue[1].id}}
           /\ Took' = Took \/ (inbox' = "succeeded" /\ ~queue[1].test)
           /\ inbox' = "succeeded" /\ ~queue[1].test => queue[1].id \in Took'
<1>1. queue # <<>> /\ queue' = Tail(queue) /\ inbox' \in Answers /\ UNCHANGED client
  BY DEF CompositorStep, Succeed, Refuse, Cancel, Settle, Answers
<1>2. queue \in Seq(Config) /\ Len(queue) \in Nat /\ Len(queue) > 0
  BY <1>1, QueueType DEF Inv
<1>3. Head(queue) = queue[1] /\ queue[1] \in Config
  BY <1>1, <1>2
<1>4. Len(queue') = Len(queue) - 1 /\ \A i \in 1..Len(queue') : queue'[i] = queue[i + 1]
  BY <1>1, <1>2
<1>5. CASE Succeed /\ ~queue[1].test
  <2>1. took' = took \cup {<<queue[1].id, queue[1].attempt>>} /\ inbox' = "succeeded"
    BY <1>3, <1>5 DEF Succeed, Settle
  <2>2. <<queue[1].id, queue[1].attempt>>[1] = queue[1].id
    OBVIOUS
  <2>3. Took' = Took \cup {queue[1].id}
    BY <2>1, <2>2 DEF Took
  <2> QED
    BY <1>1, <1>2, <1>3, <1>4, <1>5, <2>1, <2>3
<1>6. CASE ~(Succeed /\ ~queue[1].test)
  <2>1. took' = took /\ (inbox' = "succeeded" => queue[1].test)
    BY <1>3, <1>6 DEF CompositorStep, Succeed, Refuse, Cancel, Settle
  <2> QED
    BY <1>1, <1>2, <1>3, <1>4, <2>1 DEF Took
<1> QED
  BY <1>5, <1>6

LEMMA CompositorAtMostOnce == ASSUME Inv, CompositorStep PROVE AtMostOnce'
<1>1. CASE took' = took
  BY <1>1, Answering DEF client, Inv, AtMostOnce
<1>2. CASE took' # took
  <2>1. took' = took \cup {<<queue[1].id, queue[1].attempt>>} /\ late' = late
    BY <1>2, Answering DEF CompositorStep, Succeed, Refuse, Cancel, client
  <2>2. queue[1].id \notin late => \A b : <<queue[1].id, b>> \notin took
    <3> SUFFICES ASSUME queue[1].id \notin late, NEW b, <<queue[1].id, b>> \in took PROVE FALSE
      OBVIOUS
    <3>1. <<queue[1].id, b>>[1] = queue[1].id
      OBVIOUS
    <3>2. queue[1].id \in Took
      BY <3>1 DEF Took
    <3> QED
      BY <3>2, Answering DEF Inv, Once
  <2> QED
    BY <2>1, <2>2 DEF Inv, AtMostOnce
<1> QED
  BY <1>1, <1>2

LEMMA CompositorInv == ASSUME Inv, CompositorStep, TypeOK' PROVE Inv'
<1> DEFINE head == queue[1]
<1>1. /\ Len(queue) \in Nat /\ Len(queue) > 0 /\ Len(queue') = Len(queue) - 1
      /\ \A i \in 1..Len(queue') : queue'[i] = queue[i + 1]
      /\ call' = call /\ late' = late /\ last' = last /\ pc' = pc /\ alive' = alive
      /\ attempt' = attempt
  BY Answering DEF client
<1>2. Took \subseteq Took' /\ Took' \subseteq Took \cup {head.id}
  BY Answering
<1>3. \A i \in 1..Len(queue') :
        /\ i + 1 \in 1..Len(queue) /\ i + 1 # 1 /\ 1 \in 1..Len(queue)
        /\ queue'[i] = queue[i + 1]
        /\ queue'[i].id = head.id => head.id \in late
  BY <1>1 DEF Inv, Once
<1>4. Queued(head.id) /\ \A id : Queued(id)' => Queued(id) /\ (id = head.id => id \in late)
  BY <1>1, <1>3 DEF Queued
<1>5. Own'
  <2> SUFFICES ASSUME call.id \notin late
               PROVE  /\ pc \in {"refresh", "submit"} => ~Queued(call.id)' /\ call.id \notin Took'
                      /\ pc = "wait" => OwnAnswer'
    BY <1>1 DEF Own
  <2>1. CASE pc \in {"refresh", "submit"}
    <3>1. ~Queued(call.id) /\ call.id \notin Took
      BY <2>1 DEF Inv, Own
    <3>2. ~Queued(call.id)' /\ call.id # head.id
      BY <1>1, <1>4, <3>1 DEF Queued
    <3> QED
      BY <1>2, <2>1, <3>1, <3>2
  <2>2. CASE pc = "wait"
    <3>1. OwnConfig
      BY <1>1, <2>2 DEF Inv, Own, OwnAnswer
    <3>2. queue' = <<>>
      BY <1>1, <3>1, QueueType DEF OwnConfig, TypeOK
    <3>3. inbox' \in Answers /\ (call.id \in Took' <=> inbox' = "succeeded" /\ ~call.test)
      BY <3>1, Answering DEF OwnConfig
    <3> QED
      BY <1>1, <3>2, <3>3, <2>2 DEF OwnAnswer
  <2> QED
    BY <2>1, <2>2
<1>6. Once'
  <2> SUFFICES ASSUME NEW i \in 1..Len(queue')
               PROVE  /\ queue'[i].id <= call.id
                      /\ queue'[i].id \notin late =>
                          /\ queue'[i].id \notin Took'
                          /\ \A j \in 1..Len(queue') : queue'[j].id = queue'[i].id => j = i
    BY <1>1 DEF Once
  <2>1. i + 1 \in 1..Len(queue) /\ queue'[i] = queue[i + 1]
    BY <1>3
  <2>2. queue'[i].id <= call.id
    BY <2>1 DEF Inv, Once
  <2>3. ASSUME queue'[i].id \notin late PROVE queue'[i].id \notin Took'
    <3>1. queue'[i].id # head.id /\ queue'[i].id \notin Took
      BY <1>3, <2>1, <2>3 DEF Inv, Once
    <3> QED
      BY <1>2, <3>1
  <2>4. ASSUME queue'[i].id \notin late, NEW j \in 1..Len(queue'), queue'[j].id = queue'[i].id
        PROVE  j = i
    <3>1. j + 1 \in 1..Len(queue) /\ queue'[j] = queue[j + 1]
      BY <1>3
    <3>2. j + 1 = i + 1
      BY <2>1, <2>4, <3>1 DEF Inv, Once
    <3> QED
      BY <3>2
  <2> QED
    BY <2>2, <2>3, <2>4
<1>7. Ends'
  <2>1. head.id \in Nat \ {0} /\ head.id <= call.id /\ call.id \in Nat
    <3>1. head.id \in 1..MaxCalls /\ call.id \in Nat
      <4>1. head \in Config
        BY Answering
      <4>2. call.id \in Nat
        BY SubmissionAssumption DEF Inv, TypeOK, Calls, NoCall
      <4> QED
        BY <4>1, <4>2 DEF Config
    <3>2. head.id <= call.id
      BY <1>1 DEF Inv, Once
    <3> QED
      BY <3>1, <3>2, SubmissionAssumption
  <2>2. Took' \subseteq 1..call.id
    BY <1>2, <2>1 DEF Inv, Ends
  <2> QED
    BY <1>1, <2>2 DEF Inv, Ends
<1>8. Reports'
  <2> SUFFICES ASSUME last.call.id \notin late
               PROVE  /\ last.status = "succeeded" /\ ~last.call.test => last.call.id \in Took'
                      /\ last.status \in {"failed", "cancelled"} =>
                          last.call.id \notin Took' /\ ~Queued(last.call.id)'
    BY <1>1 DEF Reports
  <2>1. last.status = "succeeded" /\ ~last.call.test => last.call.id \in Took'
    BY <1>2 DEF Inv, Reports
  <2>2. ASSUME last.status \in {"failed", "cancelled"}
        PROVE  last.call.id \notin Took' /\ ~Queued(last.call.id)'
    <3>1. last.call.id \notin Took /\ ~Queued(last.call.id)
      BY <2>2 DEF Inv, Reports
    <3>2. ~Queued(last.call.id)' /\ last.call.id # head.id
      BY <1>1, <1>4, <3>1 DEF Queued
    <3> QED
      BY <1>2, <3>1, <3>2
  <2> QED
    BY <2>1, <2>2
<1> QED
  BY <1>5, <1>6, <1>7, <1>8, CompositorAtMostOnce DEF Inv

LEMMA NextInv == Inv /\ [Next]_vars => Inv'
<1> SUFFICES ASSUME Inv, [Next]_vars PROVE Inv'
  OBVIOUS
<1>1. TypeOK'
  BY TypeStep DEF Inv
<1>2. CASE \E test \in BOOLEAN : Begin(test)
  BY <1>1, <1>2, BeginInv
<1>3. CASE ClientStep \/ Disconnect
  BY <1>1, <1>3, ClientInv, SubmitInv DEF ClientStep
<1>4. CASE CompositorStep
  BY <1>1, <1>4, CompositorInv
<1>5. CASE Change \/ UNCHANGED vars
  <2>1. UNCHANGED <<queue, took, inbox, client>> /\ Took' = Took /\ \A id : Queued(id)' <=> Queued(id)
    BY <1>5 DEF Change, vars, Took, Queued
  <2> QED
    BY <1>1, <2>1 DEF client, Inv, Own, OwnConfig, OwnAnswer, Once, Ends, Reports, AtMostOnce
<1> QED
  BY <1>2, <1>3, <1>4, <1>5 DEF Next

LEMMA ReportsHold == Inv => SuccessIsReal /\ FailureIsReal /\ AtMostOnce
BY TookIs DEF Inv, Reports, SuccessIsReal, FailureIsReal

(* An apply reported as successful took effect, unless an earlier answer   *)
(* was outstanding when it was submitted (submit, apply).                  *)
THEOREM SuccessesAreReal == SafetySpec => []SuccessIsReal
<1>1. Inv => SuccessIsReal
  BY ReportsHold
<1> QED
  BY InitInv, NextInv, <1>1, PTL DEF SafetySpec

(* What is reported as refused or cancelled has no effect, now or later    *)
(* (submit_with_retry).                                                    *)
THEOREM FailuresAreReal == SafetySpec => []FailureIsReal
<1>1. Inv => FailureIsReal
  BY ReportsHold
<1> QED
  BY InitInv, NextInv, <1>1, PTL DEF SafetySpec

(* No call takes effect twice, however often it is tried (submit_with_retry). *)
THEOREM EffectsAreSingle == SafetySpec => []AtMostOnce
<1>1. Inv => AtMostOnce
  BY ReportsHold
<1> QED
  BY InitInv, NextInv, <1>1, PTL DEF SafetySpec
=============================================================================
