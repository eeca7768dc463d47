----------------------------- MODULE Submission -----------------------------
(***************************************************************************)
(* How a plan reaches a wlroots compositor: submit_with_retry and submit   *)
(* of crates/wlroots/src/backend.rs on one Wayland connection.             *)
(*                                                                         *)
(* A call sends a configuration made for the newest serial it has seen and *)
(* makes a bounded number of roundtrips for the answer.  The compositor    *)
(* answers in order but when it likes, cancels a configuration made for an *)
(* outdated serial and may refuse any other.  The client keeps one answer, *)
(* config_status, and does not know which configuration it belongs to.     *)
(* It is right about it as long as nothing is outstanding when it submits: *)
(* the ghost `late` holds the calls that submitted while an answer to an   *)
(* earlier configuration was still to come.                                *)
(*                                                                         *)
(* A roundtrip delivers everything the compositor has sent, so of what is  *)
(* on its way to the client only the last answer matters: `inbox`.         *)
(***************************************************************************)
EXTENDS Naturals, Sequences

CONSTANTS
    Attempts,      \* configurations per call (3)
    Roundtrips,    \* roundtrips per configuration (5)
    None,          \* no answer
    MaxCalls,      \* bound: calls of validate and apply
    MaxChanges     \* bound: changes of the displays

ASSUME SubmissionAssumption ==
    /\ Attempts \in Nat \ {0} /\ Roundtrips \in Nat \ {0}
    /\ None \notin {"succeeded", "failed", "cancelled"}
    /\ MaxCalls \in Nat /\ MaxChanges \in Nat

VARIABLES
    \* the compositor
    now,       \* its serial: the number of changes so far
    queue,     \* configurations it has not answered
    took,      \* ghost: the configurations that took effect
    inbox,     \* the last answer it sent that the client has not seen
    changes,   \* changes of the displays from outside
    \* the client
    alive,     \* its connection works
    pc, call,  \* what it does next, and for which call
    attempt, serial, trips,
    last,      \* how the last call ended
    late       \* ghost, see above

client == <<alive, pc, call, attempt, serial, trips, last, late>>
vars   == <<now, queue, took, inbox, changes, client>>

Answers == {"succeeded", "failed", "cancelled"}
Calls   == [id : 1..MaxCalls, test : BOOLEAN]
NoCall  == [id |-> 0, test |-> TRUE]

Init ==
    /\ now = 0 /\ queue = <<>> /\ took = {} /\ inbox = None /\ changes = 0
    /\ alive = TRUE /\ pc = "idle" /\ call = NoCall
    /\ attempt = 0 /\ serial = 0 /\ trips = 0
    /\ last = [call |-> NoCall, status |-> None] /\ late = {}

Return(status) ==
    /\ pc' = "idle"
    /\ last' = [call |-> call, status |-> status]
    /\ attempt' = 0 /\ trips' = 0
----------------------------------------------------------------------------
(* The client. *)

(* validate (a test) or apply. *)
Begin(test) ==
    /\ alive /\ pc = "idle" /\ call.id < MaxCalls
    /\ call' = [id |-> call.id + 1, test |-> test]
    /\ pc' = "refresh" /\ attempt' = 1
    /\ UNCHANGED <<now, queue, took, inbox, changes, alive, serial, trips, last, late>>

(* The roundtrip before every submission.  It brings the newest serial;    *)
(* submit forgets an answer it brings.                                     *)
Refresh ==
    /\ pc = "refresh"
    /\ serial' = now /\ inbox' = None
    /\ pc' = "submit"
    /\ UNCHANGED <<now, queue, took, changes, alive, call, attempt, trips, last, late>>

Outstanding == queue # <<>> \/ inbox # None

(* Mutant: only the first attempt is more than a test. *)
SubmitRetryAsTest ==
    /\ pc = "submit"
    /\ queue' = Append(queue, [id |-> call.id, attempt |-> attempt, serial |-> serial,
                               test |-> call.test \/ attempt > 1])
    /\ pc' = "wait" /\ trips' = 0
    /\ late' = IF Outstanding THEN late \cup {call.id} ELSE late
    /\ UNCHANGED <<now, took, inbox, changes, alive, call, attempt, serial, last>>

Submit ==
    /\ pc = "submit"
    /\ queue' = Append(queue, [id |-> call.id, attempt |-> attempt, serial |-> serial,
                               test |-> call.test])
    /\ pc' = "wait" /\ trips' = 0
    /\ late' = IF Outstanding THEN late \cup {call.id} ELSE late
    /\ UNCHANGED <<now, took, inbox, changes, alive, call, attempt, serial, last>>

(* The plan asks for what cannot be sent (a mirror, a huge mode): the      *)
(* configuration is dropped half made.                                     *)
SubmitRejected ==
    /\ pc = "submit"
    /\ Return("failed")
    /\ UNCHANGED <<now, queue, took, inbox, changes, alive, call, serial, late>>

(* Mutant: whatever was not cancelled is tried again. *)
AnsweredRetryingOthers ==
    /\ pc = "wait" /\ inbox # None
    /\ inbox' = None
    /\ IF inbox # "cancelled" /\ attempt < Attempts
       THEN pc' = "refresh" /\ attempt' = attempt + 1 /\ trips' = 0 /\ UNCHANGED last
       ELSE Return(inbox)
    /\ UNCHANGED <<now, queue, took, changes, alive, call, serial, late>>

(* A roundtrip brings an answer.  What was cancelled is tried again.       *)
Answered ==
    /\ pc = "wait" /\ inbox # None
    /\ inbox' = None
    /\ IF inbox = "cancelled" /\ attempt < Attempts
       THEN pc' = "refresh" /\ attempt' = attempt + 1 /\ trips' = 0 /\ UNCHANGED last
       ELSE Return(inbox)
    /\ UNCHANGED <<now, queue, took, changes, alive, call, serial, late>>

(* Mutant: one roundtrip too many. *)
NotAnsweredOnceMore ==
    /\ pc = "wait" /\ inbox = None
    /\ trips < Roundtrips
    /\ trips' = trips + 1
    /\ UNCHANGED <<now, queue, took, inbox, changes, alive, pc, call, attempt, serial, last, late>>

(* Mutant: the roundtrips are not counted. *)
NotAnsweredUncounted ==
    /\ pc = "wait" /\ inbox = None
    /\ trips + 1 < Roundtrips
    /\ UNCHANGED vars

(* It does not. *)
NotAnswered ==
    /\ pc = "wait" /\ inbox = None
    /\ trips + 1 < Roundtrips
    /\ trips' = trips + 1
    /\ UNCHANGED <<now, queue, took, inbox, changes, alive, pc, call, attempt, serial, last, late>>

GiveUp ==
    /\ pc = "wait" /\ inbox = None
    /\ trips + 1 = Roundtrips
    /\ Return("error")
    /\ UNCHANGED <<now, queue, took, inbox, changes, alive, call, serial, late>>

ClientStep ==
    \/ Refresh \/ Submit \/ SubmitRejected
    \/ Answered \/ NotAnswered \/ GiveUp
----------------------------------------------------------------------------
(* The compositor. *)

Settle(status) == inbox' = status /\ queue' = Tail(queue)

Succeed ==
    /\ queue # <<>> /\ Head(queue).serial = now
    /\ Settle("succeeded")
    /\ IF Head(queue).test
       THEN UNCHANGED <<now, took>>
       ELSE now' = now + 1 /\ took' = took \cup {<<Head(queue).id, Head(queue).attempt>>}
    /\ UNCHANGED <<changes, client>>

Refuse ==
    /\ queue # <<>> /\ Head(queue).serial = now
    /\ Settle("failed")
    /\ UNCHANGED <<now, took, changes, client>>

Cancel ==
    /\ queue # <<>> /\ Head(queue).serial # now
    /\ Settle("cancelled")
    /\ UNCHANGED <<now, took, changes, client>>

Change ==
    /\ changes < MaxChanges
    /\ changes' = changes + 1 /\ now' = now + 1
    /\ UNCHANGED <<queue, took, inbox, client>>

(* The connection breaks, or the output manager is gone. *)
Disconnect ==
    /\ alive /\ pc # "idle"
    /\ alive' = FALSE
    /\ Return("error")
    /\ UNCHANGED <<now, queue, took, inbox, changes, call, serial, late>>

CompositorStep == Succeed \/ Refuse \/ Cancel

Next ==
    \/ \E test \in BOOLEAN : Begin(test)
    \/ ClientStep
    \/ CompositorStep
    \/ Change \/ Disconnect

(* The client is a sequential program whose roundtrips the compositor      *)
(* answers.  That it answers configurations is not assumed.                *)
SafetySpec == Init /\ [][Next]_vars
Spec == SafetySpec /\ WF_vars(ClientStep)
----------------------------------------------------------------------------
(* Properties. *)

TypeOK ==
    /\ now \in Nat /\ changes \in 0..MaxChanges
    /\ queue \in Seq([id : 1..MaxCalls, attempt : 1..Attempts, serial : Nat, test : BOOLEAN])
    /\ took \subseteq (1..MaxCalls) \X (1..Attempts)
    /\ inbox \in Answers \cup {None}
    /\ alive \in BOOLEAN /\ pc \in {"idle", "refresh", "submit", "wait"}
    /\ call \in Calls \cup {NoCall} /\ (pc # "idle" => call \in Calls /\ attempt > 0)
    /\ attempt \in 0..Attempts /\ serial \in Nat /\ trips \in 0..Roundtrips - 1
    /\ last \in [call : Calls \cup {NoCall}, status : Answers \cup {None, "error"}]
    /\ late \subseteq 1..MaxCalls

TookEffect(c) == \E a \in 1..Attempts : <<c.id, a>> \in took

(* An apply that is reported as successful took effect, although the       *)
(* client cannot tell its answers apart, and although earlier calls may    *)
(* have given up on theirs (submit, apply).                                *)
SuccessIsReal ==
    last.status = "succeeded" /\ ~last.call.test /\ last.call.id \notin late =>
        TookEffect(last.call)

(* What is reported as refused or cancelled changed nothing and never      *)
(* will: the daemon may run its failure hooks or plan again                *)
(* (submit_with_retry).                                                    *)
FailureIsReal ==
    last.status \in {"failed", "cancelled"} /\ last.call.id \notin late =>
        ~TookEffect(last.call)

(* However often a call is tried again, it takes effect at most once       *)
(* (submit_with_retry).                                                    *)
AtMostOnce ==
    \A c \in 1..MaxCalls \ late : \A a, b \in 1..Attempts :
        <<c, a>> \in took /\ <<c, b>> \in took => a = b

(* Every call returns, whether or not the compositor ever answers it       *)
(* (submit, submit_with_retry).                                            *)
CallsReturn == pc # "idle" ~> pc = "idle"

----------------------------------------------------------------------------
(* What the code says of itself and does not do.                           *)

(* backend.rs:246: what is reported as applied was applied, whatever was   *)
(* outstanding before.                                                     *)
SuccessAlwaysReal == last.status = "succeeded" /\ ~last.call.test => TookEffect(last.call)
=============================================================================
