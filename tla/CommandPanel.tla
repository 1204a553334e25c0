---------------------------- MODULE CommandPanel ----------------------------
(***************************************************************************)
(* The control card of one device page: dialogs, the one request that is   *)
(* being sent, the one whose receipt is missing, and the requests under way*)
(* to the server (frontend/src/features/command-controls.tsx), with the    *)
(* part of CommandService.create that answers them.                        *)
(*                                                                         *)
(* Requests are numbered in the order the operator confirms them.  A Stop  *)
(* may interrupt the sending of another command: an interrupted or lost    *)
(* POST may still reach the server, at any time after it was given up.     *)
(***************************************************************************)
EXTENDS Naturals, FiniteSets

CONSTANTS MaxRequests,   \* bound: commands confirmed
          MaxAttempts,   \* bound: sendings, the repetitions included
          MaxChanges,    \* bound: changes of the equipment behind the device
          MaxAways,      \* bound: times the page is hidden, offline or closed
          Bounds         \* combinations of these bounds, one of which holds in a behaviour

\* What a theorem about this module assumes.
BoundsAssumption ==
    /\ MaxRequests \in Nat \ {0}
    /\ MaxAttempts \in Nat \ {0}
    /\ MaxChanges \in Nat
    /\ MaxAways \in Nat
    /\ Bounds \subseteq [requests : 0 .. MaxRequests, attempts : 0 .. MaxAttempts,
                         changes : 0 .. MaxChanges, aways : 0 .. MaxAways]

Requests == 1 .. MaxRequests
Attempts == 1 .. MaxAttempts
None == 0                      \* no request

VARIABLES
    \* the server
    row,        \* request -> its command: absent, queued, cancelled, taken by the device
    number,     \* request -> its control_sequence
    target,     \* request -> the equipment its command is bound to
    equipment,  \* revision of the equipment binding of the device
    \* the network
    posts,      \* POSTs that the server has yet to handle
    \* the page
    intents,    \* the confirmed commands, in order (the input of each)
    shown,      \* the equipment revision of the overview on the page
    dialog,     \* the open dialog and the equipment it was opened for
    pending,    \* the request that is being sent
    uncertain,  \* the request whose receipt is missing
    sendings,   \* attempts so far
    available,  \* online and visible
    late,       \* requests whose deadline has passed
    aways,      \* times the page was hidden, offline or closed so far
    bound,      \* the bounds that hold in this behaviour
    \* history
    seen,       \* request -> the equipment on the page when its dialog was opened
    receipts,   \* requests whose receipt the page has shown
    given       \* requests the operator gave up, or lost with the page

vars == <<row, number, target, equipment, posts, intents, shown, dialog, pending, uncertain,
          sendings, available, late, aways, bound, seen, receipts, given>>
server == <<row, number, target>>
history == <<bound, seen, receipts, given>>

Kinds == {"start", "stop"}
NoDialog == [kind |-> "none", for |-> None]
Idle == [req |-> None, stage |-> "none", again |-> FALSE, attempt |-> None, answer |-> "none"]
Certain == [req |-> None, wait |-> FALSE]
NoIntent == [kind |-> "none", names |-> None, for |-> None]

TypeOK ==
    /\ row \in [Requests -> {"absent", "queued", "cancelled", "taken"}]
    /\ number \in [Requests -> 0 .. MaxRequests]
    /\ target \in [Requests -> 0 .. MaxChanges + 1]
    /\ equipment \in 1 .. MaxChanges + 1 /\ shown \in 1 .. MaxChanges + 1
    /\ posts \subseteq [req : Requests, attempt : Attempts]
    /\ intents \in [Requests -> [kind : Kinds \cup {"none"}, names : Requests \cup {None},
                                 for : 0 .. MaxChanges + 1]]
    /\ dialog \in [kind : Kinds \cup {"none", "retry", "discard"}, for : 0 .. MaxChanges + 1]
    /\ pending \in [req : Requests \cup {None}, stage : {"none", "check", "post"}, again : BOOLEAN,
                    attempt : Attempts \cup {None}, answer : {"none", "receipt", "refused", "later"}]
    /\ uncertain \in [req : Requests \cup {None}, wait : BOOLEAN]
    /\ sendings \in 0 .. MaxAttempts
    /\ available \in BOOLEAN
    /\ late \subseteq Requests
    /\ aways \in 0 .. MaxAways
    /\ bound \in Bounds
    /\ seen \in [Requests -> 0 .. MaxChanges + 1]
    /\ receipts \subseteq Requests
    /\ given \subseteq Requests

Init ==
    /\ row = [r \in Requests |-> "absent"]
    /\ number = [r \in Requests |-> 0]
    /\ target = [r \in Requests |-> None]
    /\ equipment = 1
    /\ posts = {}
    /\ intents = [r \in Requests |-> NoIntent]
    /\ shown = 1
    /\ dialog = NoDialog
    /\ pending = Idle
    /\ uncertain = Certain
    /\ sendings = 0
    /\ available = TRUE
    /\ late = {}
    /\ aways = 0
    /\ bound \in Bounds
    /\ seen = [r \in Requests |-> None]
    /\ receipts = {}
    /\ given = {}

-----------------------------------------------------------------------------
(* What the buttons allow.                                                 *)

Confirmed == {r \in Requests : intents[r].kind # "none"}
Kind(r) == intents[r].kind
Busy == pending # Idle

\* The request the next one is confirmed after.
Prior == IF Busy THEN pending.req ELSE uncertain.req

\* Whether the overview permits a command is the device's affair: a button may
\* be disabled at any time, so only what the card itself knows is asked here.
Enabled(kind) ==
    IF kind = "stop" THEN ~(Busy /\ Kind(pending.req) = "stop")
    ELSE ~Busy /\ uncertain = Certain

RetryEnabled ==
    /\ uncertain # Certain /\ ~Busy
    /\ uncertain.req \notin late /\ ~uncertain.wait

\* A click opens a dialog for the equipment that is on the page.
OpenDialog(kind) ==
    /\ dialog = NoDialog
    /\ \/ kind \in Kinds /\ Enabled(kind)
       \/ kind = "retry" /\ RetryEnabled
       \/ kind = "discard" /\ uncertain # Certain /\ ~Busy
    /\ dialog' = [kind |-> kind, for |-> IF kind \in Kinds THEN shown ELSE None]
    /\ UNCHANGED <<server, equipment, posts, intents, shown, pending, uncertain, sendings,
                   available, late, aways, history>>

CloseDialog ==
    /\ dialog # NoDialog
    /\ dialog' = NoDialog
    /\ UNCHANGED <<server, equipment, posts, intents, shown, pending, uncertain, sendings,
                   available, late, aways, history>>

-----------------------------------------------------------------------------
(* handleSend: the overview is read again, then the command is posted.     *)

\* Mutant: the command a Stop interrupts is forgotten.
InterruptedForgotten(kind) == uncertain

\* The command that a Stop interrupts is left without a receipt.
Interrupted(kind) ==
    IF kind = "stop" /\ Busy THEN [req |-> pending.req, wait |-> FALSE] ELSE uncertain

Send(r, kind, again) ==
    /\ available /\ r \notin late
    /\ Busy => kind = "stop" /\ Kind(pending.req) # "stop"
    /\ sendings < bound.attempts
    /\ sendings' = sendings + 1
    /\ pending' = [req |-> r, stage |-> "check", again |-> again,
                   attempt |-> sendings + 1, answer |-> "none"]
    /\ uncertain' = Interrupted(kind)

\* Mutant: a Stop names the request before it, be that a Stop itself.
NamedBefore(kind) == IF kind = "stop" THEN Prior ELSE None

\* A Stop names the command it follows; one that follows a Stop takes over the
\* name that Stop carried.
Named(kind) ==
    IF kind = "stop" /\ Prior # None
    THEN IF intents[Prior].names # None THEN intents[Prior].names ELSE Prior
    ELSE None

\* Mutant: the command is bound to the equipment on the page by now.
BoundNow == shown

\* The equipment the dialog was opened for.
Bound == dialog.for

\* handleConfirm of a new command.
Confirm(kind) ==
    /\ dialog.kind = kind /\ kind \in Kinds
    /\ Enabled(kind)
    /\ Cardinality(Confirmed) < bound.requests
    /\ LET r == Cardinality(Confirmed) + 1
       IN /\ intents' = [intents EXCEPT ![r] = [kind |-> kind, names |-> Named(kind), for |-> Bound]]
          /\ seen' = [seen EXCEPT ![r] = dialog.for]
          /\ Send(r, kind, FALSE)
    /\ dialog' = NoDialog
    /\ UNCHANGED <<server, equipment, posts, shown, available, late, aways, bound, receipts, given>>

\* The same request once more.
Retry ==
    /\ dialog.kind = "retry" /\ RetryEnabled
    /\ Send(uncertain.req, Kind(uncertain.req), TRUE)
    /\ dialog' = NoDialog
    /\ UNCHANGED <<server, equipment, posts, intents, shown, available, late, aways, history>>

\* A request and the one it took over.
With(r) == IF r = None THEN {} ELSE {r, intents[r].names} \ {None}

Discard ==
    /\ dialog.kind = "discard" /\ ~Busy
    /\ uncertain' = Certain
    /\ given' = given \cup With(uncertain.req)
    /\ dialog' = NoDialog
    /\ UNCHANGED <<server, equipment, posts, intents, shown, pending, sendings, available, late,
                   aways, bound, seen, receipts>>

\* Any error.  Only a POST that the server has refused, or that was never begun,
\* is known not to have been accepted; what an earlier sending did stays open.
Failed(definite) ==
    /\ uncertain' = IF pending.again \/ (pending.stage = "post" /\ ~definite)
                    THEN [req |-> pending.req, wait |-> pending.answer = "later"]
                    ELSE uncertain
    /\ pending' = Idle

\* The new overview is for the equipment the command was confirmed for, and
\* still permits it.
CheckPasses ==
    /\ pending.stage = "check"
    /\ intents[pending.req].for = equipment
    /\ pending' = [pending EXCEPT !.stage = "post"]
    /\ posts' = posts \cup {[req |-> pending.req, attempt |-> pending.attempt]}
    /\ UNCHANGED <<server, equipment, intents, shown, dialog, uncertain, sendings, available,
                   late, aways, history>>

\* It does not, or it could not be read.
CheckFails ==
    /\ pending.stage = "check"
    /\ Failed(FALSE)
    /\ UNCHANGED <<server, equipment, posts, intents, shown, dialog, sendings, available, late,
                   aways, history>>

Receipt ==
    /\ pending.answer = "receipt"
    /\ receipts' = receipts \cup {pending.req}
    /\ uncertain' = Certain
    /\ pending' = Idle
    /\ UNCHANGED <<server, equipment, posts, intents, shown, dialog, sendings, available, late,
                   aways, bound, seen, given>>

Refusal ==
    /\ pending.answer \in {"refused", "later"}
    /\ Failed(pending.answer = "refused")
    /\ UNCHANGED <<server, equipment, posts, intents, shown, dialog, sendings, available, late,
                   aways, history>>

\* No answer in ten seconds, an answer of no use, an error of the server.
PostFails ==
    /\ pending.stage = "post"
    /\ Failed(FALSE)
    /\ UNCHANGED <<server, equipment, posts, intents, shown, dialog, sendings, available, late,
                   aways, history>>

\* Hidden or offline: the request is aborted.
GoAway ==
    /\ available /\ aways < bound.aways
    /\ aways' = aways + 1
    /\ available' = FALSE
    /\ IF Busy THEN Failed(FALSE) ELSE UNCHANGED <<pending, uncertain>>
    /\ UNCHANGED <<server, equipment, posts, intents, shown, dialog, sendings, late, history>>

ComeBack ==
    /\ ~available
    /\ available' = TRUE
    /\ UNCHANGED <<server, equipment, posts, intents, shown, dialog, pending, uncertain, sendings,
                   late, aways, history>>

\* The card is unmounted (and mounted again): its state is gone.
Leave ==
    /\ aways < bound.aways /\ (Busy \/ uncertain # Certain \/ dialog # NoDialog)
    /\ aways' = aways + 1
    /\ given' = given \cup With(pending.req) \cup With(uncertain.req)
    /\ pending' = Idle
    /\ uncertain' = Certain
    /\ dialog' = NoDialog
    /\ UNCHANGED <<server, equipment, posts, intents, shown, sendings, available, late, bound,
                   seen, receipts>>

\* The time to take the command is over: no sending, no repetition.
DeadlinePasses(r) ==
    /\ r \in Confirmed \ late
    /\ late' = late \cup {r}
    /\ IF pending.req = r THEN Failed(FALSE) ELSE UNCHANGED <<pending, uncertain>>
    /\ UNCHANGED <<server, equipment, posts, intents, shown, dialog, sendings, available, aways, history>>

RetryAtPasses ==
    /\ uncertain.wait
    /\ uncertain' = [uncertain EXCEPT !.wait = FALSE]
    /\ UNCHANGED <<server, equipment, posts, intents, shown, dialog, pending, sendings, available,
                   late, aways, history>>

\* The overview is polled.
Poll ==
    /\ shown # equipment
    /\ shown' = equipment
    /\ UNCHANGED <<server, equipment, posts, intents, dialog, pending, uncertain, sendings,
                   available, late, aways, history>>

-----------------------------------------------------------------------------
(* The network and the server.                                             *)

PostLost(p) ==
    /\ p \in posts
    /\ posts' = posts \ {p}
    /\ UNCHANGED <<server, equipment, intents, shown, dialog, pending, uncertain, sendings,
                   available, late, aways, history>>

\* Only the sending that is still awaited hears the answer.
Answered(p, answer) ==
    pending' = IF pending.stage = "post" /\ pending.attempt = p.attempt
               THEN [pending EXCEPT !.answer = answer] ELSE pending

NewestNumber == Cardinality({r \in Requests : number[r] # 0})

\* A Stop of this operator that names r was accepted before it.
Superseded(r) == \E s \in Requests : row[s] # "absent" /\ Kind(s) = "stop" /\ intents[s].names = r

\* CommandService.create: a repeated request finds its row; a new one is bound
\* to the equipment of the moment, which must be the one that was confirmed; a
\* Stop takes every older command out of delivery.
ServerCreates(p) ==
    LET r == p.req
    IN /\ p \in posts
       /\ posts' = posts \ {p}
       /\ IF row[r] # "absent"
          THEN Answered(p, "receipt") /\ UNCHANGED server
          ELSE IF intents[r].for # equipment
          THEN Answered(p, "refused") /\ UNCHANGED server
          ELSE /\ number' = [number EXCEPT ![r] = NewestNumber + 1]
               /\ target' = [target EXCEPT ![r] = equipment]
               /\ row' = [q \in Requests |->
                             IF q = r THEN IF Superseded(r) THEN "cancelled" ELSE "queued"
                             ELSE IF Kind(r) = "stop" /\ ~Superseded(r) /\ row[q] = "queued"
                                  THEN "cancelled" ELSE row[q]]
               /\ Answered(p, "receipt")
       /\ UNCHANGED <<equipment, intents, shown, dialog, uncertain, sendings, available, late,
                      aways, history>>

\* Refused for the rights of the operator or the state of the device, or put off
\* by the rate limit.
ServerRefuses(p) ==
    /\ p \in posts
    /\ posts' = posts \ {p}
    /\ \E answer \in {"refused", "later"} : Answered(p, answer)
    /\ UNCHANGED <<server, equipment, intents, shown, dialog, uncertain, sendings, available,
                   late, aways, history>>

Deliver(r) ==
    /\ row[r] = "queued"
    /\ row' = [row EXCEPT ![r] = "taken"]
    /\ UNCHANGED <<number, target, equipment, posts, intents, shown, dialog, pending, uncertain,
                   sendings, available, late, aways, history>>

ChangeEquipment ==
    /\ equipment <= bound.changes
    /\ equipment' = equipment + 1
    /\ UNCHANGED <<server, posts, intents, shown, dialog, pending, uncertain, sendings, available,
                   late, aways, history>>

-----------------------------------------------------------------------------
Operator ==
    \/ \E kind \in Kinds \cup {"retry", "discard"} : OpenDialog(kind)
    \/ \E kind \in Kinds : Confirm(kind)
    \/ CloseDialog \/ Retry \/ Discard \/ GoAway \/ ComeBack \/ Leave

OnThePage ==
    \/ CheckPasses \/ CheckFails \/ Receipt \/ Refusal \/ PostFails \/ RetryAtPasses \/ Poll
    \/ \E r \in Requests : DeadlinePasses(r)

Backend ==
    \/ \E p \in posts : PostLost(p) \/ ServerCreates(p) \/ ServerRefuses(p)
    \/ \E r \in Requests : Deliver(r)
    \/ ChangeEquipment

Next == Operator \/ OnThePage \/ Backend

Spec == Init /\ [][Next]_vars

-----------------------------------------------------------------------------
(* Properties.                                                             *)

Accepted(r) == row[r] # "absent"

\* Once the server has accepted a Stop, no command that the operator had given
\* before it can still be delivered, however late its POST arrives - unless the
\* operator gave up its trace (discarded it or left the page).
StopIsLast ==
    \A s, r \in Requests :
        Kind(s) = "stop" /\ Accepted(s) /\ Kind(r) = "start" /\ r < s /\ r \notin given
            => row[r] # "queued"

\* Taken over: by the request that is being sent or uncertain, or by a Stop the
\* server is known to have.
TakenOver(r) ==
    \E s \in Requests : intents[s].names = r /\ s \in {pending.req, uncertain.req} \cup receipts

\* A Start that the server has, or may still get, without a receipt on the page
\* is one the operator is told about, or one that a Stop has taken over.  (A Stop
\* repeated by a new Stop may be left out: what arrives late then only stops.)
Accounted ==
    \A r \in Confirmed :
        Kind(r) = "start" /\ (Accepted(r) \/ (\E p \in posts : p.req = r)) =>
            \/ r \in receipts \cup given \cup {pending.req, uncertain.req}
            \/ TakenOver(r)

\* A command acts on the equipment the operator saw when the dialog was opened,
\* whatever was changed and polled since.
ActsOnWhatWasSeen == \A r \in Requests : Accepted(r) => target[r] = seen[r]
=============================================================================
