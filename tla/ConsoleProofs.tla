--------------------------- MODULE ConsoleProofs ---------------------------
(***************************************************************************)
(* Proofs about the screens of MCConsole, for any values of its constants. *)
(* The screens share no variable, so each has an invariant of its own that *)
(* the steps of the others leave alone.                                    *)
(*                                                                         *)
(* The command card.  The requests are confirmed in order, and a Stop is   *)
(* confirmed while at most one request before it is without a receipt.     *)
(* That one may still arrive, however late: its POST is under way or the   *)
(* operator may send it again.  So the Stop has to name it, or whatever it *)
(* named (Tied), and the server, which keeps what a Stop names, refuses    *)
(* the latecomer.  StopIsLast speaks of the rows alone and is not          *)
(* inductive: Covered says the same of the requests that are still to      *)
(* arrive.                                                                 *)
(*                                                                         *)
(* The arguments of the other screens stand before their invariants.       *)
(***************************************************************************)
EXTENDS MCConsole, FiniteSetTheorems, SequenceTheorems, TLAPS

\* The confirmed commands are numbered in order; whatever is under way or remembered is
\* one of them.
InOrder == \E n \in 0 .. MaxRequests : Card!Confirmed = 1 .. n
Underway ==
    /\ \A p \in cardPosts : p.req \in Card!Confirmed /\ p.attempt <= sendings
    /\ \A r \in Card!Requests : row[r] = "absent" \/ r \in Card!Confirmed
    /\ {pending.req, uncertain.req} \subseteq Card!Confirmed \cup {Card!None}
    /\ \A r \in receipts : Card!Accepted(r)

\* A Stop names a command before it.
NamesAreOlder ==
    \A r \in Card!Requests : intents[r].names # Card!None =>
        intents[r].names < r /\ Card!Kind(r) = "stop"

\* What the page, the request and the row say of the equipment is the same.
BoundAsSeen ==
    \A r \in Card!Requests : /\ intents[r].for = seen[r]
                             /\ Card!Accepted(r) => target[r] = seen[r]

NumberedRows == \A r \in Card!Requests : row[r] = "absent" => number[r] = 0

\* The request that is being sent.
SendingSound ==
    /\ pending.req = Card!None => pending = Card!Idle
    /\ uncertain.req = Card!None => uncertain = Card!Certain
    /\ pending.req # Card!None => pending.stage # "none" /\ pending.attempt \in 1 .. sendings
    /\ pending.stage # "post" => pending.answer = "none"
    /\ pending.answer = "receipt" => Card!Accepted(pending.req)
    /\ \A p \in cardPosts : p.attempt = pending.attempt =>
          p.req = pending.req /\ pending.stage = "post"

\* A first sending has at most its one POST under way; nothing came of it before that
\* arrived, or when it was refused.
FirstSending ==
    pending.req # Card!None /\ ~pending.again =>
        /\ \A p \in cardPosts : p.req = pending.req =>
              /\ p.attempt = pending.attempt /\ pending.stage = "post" /\ pending.answer = "none"
              /\ ~Card!Accepted(pending.req)
        /\ pending.stage = "check" \/ pending.answer = "refused" => ~Card!Accepted(pending.req)

\* What a Stop names when it follows u.
Carried(u) ==
    IF u = Card!None THEN Card!None
    ELSE IF intents[u].names # Card!None THEN intents[u].names ELSE u

\* The request that is being sent knows the one without a receipt.
Tied ==
    pending.req # Card!None =>
        \/ uncertain.req = pending.req
        \/ ~pending.again /\ Card!Kind(pending.req) = "start" /\ uncertain.req = Card!None
        \/ ~pending.again /\ Card!Kind(pending.req) = "stop"
             /\ intents[pending.req].names = Carried(uncertain.req)

\* What may still reach the server of r, or be sent again.
Unsettled(r) == r \in {pending.req, uncertain.req} \/ \E p \in cardPosts : p.req = r

\* A Start before a Stop that the server does not have yet is named by it, or by a Stop
\* that the server has.
Covered ==
    \A s, r \in Card!Requests :
        /\ Card!Kind(s) = "stop" /\ Card!Kind(r) = "start" /\ r < s /\ r \notin given
        /\ row[r] = "absent" /\ Unsettled(r)
        => intents[s].names = r \/ Card!Superseded(r)

CardInv ==
    /\ Card!TypeOK /\ InOrder /\ Underway /\ NamesAreOlder /\ BoundAsSeen /\ NumberedRows
    /\ SendingSound /\ FirstSending /\ Tied /\ Covered
    /\ Card!Accounted /\ Card!StopIsLast

-----------------------------------------------------------------------------
(* The types of the card.                                                  *)

LEMMA CardCounts ==
  /\ \A S : Card!Cardinality(S) = Cardinality(S)
  /\ \A n \in Nat : Cardinality(1 .. n) = n
<1>1. \A S : Card!Cardinality(S) = Cardinality(S)
  BY DEF Card!Cardinality, Cardinality
<1>2. ASSUME NEW n \in Nat PROVE Cardinality(1 .. n) = n
  BY FS_Interval
<1> QED
  BY <1>1, <1>2

LEMMA CardBounds ==
  ASSUME bound \in Bounds
  PROVE  /\ MaxRequests \in Nat \ {0} /\ MaxAttempts \in Nat \ {0} /\ MaxChanges \in Nat
         /\ MaxAways \in Nat
         /\ bound.requests \in 0 .. MaxRequests /\ bound.attempts \in 0 .. MaxAttempts
         /\ bound.changes \in 0 .. MaxChanges /\ bound.aways \in 0 .. MaxAways
<1>1. Card!BoundsAssumption
  BY CardAssumption
<1>2. bound \in [requests : 0 .. MaxRequests, attempts : 0 .. MaxAttempts,
                 changes : 0 .. MaxChanges, aways : 0 .. MaxAways]
  BY <1>1 DEF Card!BoundsAssumption
<1> QED
  BY <1>1, <1>2 DEF Card!BoundsAssumption

\* There is a number left for a row that has none.
LEMMA RowsLeft ==
  ASSUME Card!TypeOK, NumberedRows, NEW r \in Card!Requests, row[r] = "absent"
  PROVE  Card!NewestNumber + 1 \in 1 .. MaxRequests
<1> DEFINE Used == {q \in Card!Requests : number[q] # 0}
<1>1. MaxRequests \in Nat
  BY CardBounds DEF Card!TypeOK
<1>2. IsFiniteSet(Card!Requests) /\ Cardinality(Card!Requests) = MaxRequests
  BY <1>1, FS_Interval, CardCounts DEF Card!Requests
<1>3. Used \subseteq Card!Requests /\ r \notin Used
  BY DEF NumberedRows
<1> HIDE DEF Used
<1>4. IsFiniteSet(Used) /\ Cardinality(Used) <= Cardinality(Card!Requests)
  BY <1>2, <1>3, FS_Subset
<1>5. Cardinality(Used) # Cardinality(Card!Requests)
  BY <1>2, <1>3, FS_Subset
<1>6. Cardinality(Used) \in Nat
  BY <1>4, FS_CardinalityType
<1>7. Card!NewestNumber = Cardinality(Used)
  BY CardCounts DEF Card!NewestNumber, Used
<1> QED
  BY <1>1, <1>2, <1>4, <1>5, <1>6, <1>7

LEMMA IdleCard ==
  /\ Card!Idle.req = 0 /\ Card!Idle.stage = "none" /\ Card!Idle.again = FALSE
  /\ Card!Idle.attempt = 0 /\ Card!Idle.answer = "none"
  /\ Card!Certain.req = 0 /\ Card!Certain.wait = FALSE
  /\ Card!Idle \in [req : Card!Requests \cup {Card!None}, stage : {"none", "check", "post"},
                    again : BOOLEAN, attempt : Card!Attempts \cup {Card!None},
                    answer : {"none", "receipt", "refused", "later"}]
  /\ Card!Certain \in [req : Card!Requests \cup {Card!None}, wait : BOOLEAN]
  /\ Card!NoDialog \in [kind : Card!Kinds \cup {"none", "retry", "discard"}, for : 0 .. MaxChanges + 1]
<1>1. 0 \in 0 .. MaxChanges + 1
  BY CardAssumption DEF Card!BoundsAssumption
<1> QED
  BY <1>1 DEF Card!Idle, Card!Certain, Card!NoDialog, Card!None

\* What a failed request leaves.
LEMMA FailedTypes ==
  ASSUME Card!TypeOK, NEW definite \in BOOLEAN, Card!Failed(definite), pending.req # Card!None
  PROVE  /\ uncertain' \in [req : Card!Requests \cup {Card!None}, wait : BOOLEAN]
         /\ pending' = Card!Idle
         /\ \/ uncertain'.req = pending.req
            \/ uncertain' = uncertain /\ ~pending.again /\ (pending.stage # "post" \/ definite)
<1> DEFINE unknown == pending.again \/ (pending.stage = "post" /\ ~definite)
<1>1. pending' = Card!Idle /\ pending.req \in Card!Requests
  BY DEF Card!Failed, Card!TypeOK, Card!None
<1>2. CASE unknown
  <2> DEFINE wait == pending.answer = "later"
  <2>1. uncertain' = [req |-> pending.req, wait |-> wait]
    BY <1>2 DEF Card!Failed
  <2>2. wait \in BOOLEAN
    OBVIOUS
  <2> HIDE DEF wait
  <2> QED
    BY <1>1, <2>1, <2>2
<1>3. CASE ~unknown
  <2>1. uncertain' = uncertain
    BY <1>3 DEF Card!Failed
  <2> QED
    BY <1>1, <1>3, <2>1 DEF Card!TypeOK
<1> QED
  BY <1>2, <1>3

\* What the page knows of its requests.
SendingTyped ==
    /\ pending \in [req : Card!Requests \cup {Card!None}, stage : {"none", "check", "post"},
                    again : BOOLEAN, attempt : Card!Attempts \cup {Card!None},
                    answer : {"none", "receipt", "refused", "later"}]
    /\ uncertain \in [req : Card!Requests \cup {Card!None}, wait : BOOLEAN]
    /\ sendings \in 0 .. MaxAttempts
    /\ cardDialog \in [kind : Card!Kinds \cup {"none", "retry", "discard"}, for : 0 .. MaxChanges + 1]
    /\ available \in BOOLEAN /\ late \subseteq Card!Requests /\ aways \in 0 .. MaxAways

\* What was confirmed, and what the page and the operator remember of it.
IntentsTyped ==
    /\ intents \in [Card!Requests -> [kind : Card!Kinds \cup {"none"},
                                      names : Card!Requests \cup {Card!None}, for : 0 .. MaxChanges + 1]]
    /\ seen \in [Card!Requests -> 0 .. MaxChanges + 1]
    /\ receipts \subseteq Card!Requests /\ given \subseteq Card!Requests
    /\ cardShown \in 1 .. MaxChanges + 1 /\ bound \in Bounds

ServerTyped ==
    /\ row \in [Card!Requests -> {"absent", "queued", "cancelled", "taken"}]
    /\ number \in [Card!Requests -> 0 .. MaxRequests]
    /\ target \in [Card!Requests -> 0 .. MaxChanges + 1]
    /\ equipment \in 1 .. MaxChanges + 1
    /\ cardPosts \subseteq [req : Card!Requests, attempt : Card!Attempts]

LEMMA CardTyped ==
  /\ Card!TypeOK <=> SendingTyped /\ IntentsTyped /\ ServerTyped
  /\ Card!TypeOK' <=> SendingTyped' /\ IntentsTyped' /\ ServerTyped'
BY DEF Card!TypeOK, SendingTyped, IntentsTyped, ServerTyped

LEMMA SendTypes ==
  ASSUME SendingTyped, bound \in Bounds, NEW r \in Card!Requests, NEW kind, NEW again \in BOOLEAN,
         Card!Send(r, kind, again), cardDialog' = Card!NoDialog, UNCHANGED <<available, late, aways>>
  PROVE  /\ SendingTyped'
         /\ pending' = [req |-> r, stage |-> "check", again |-> again,
                        attempt |-> sendings + 1, answer |-> "none"]
         /\ sendings' = sendings + 1
         /\ uncertain'.req = IF kind = "stop" /\ Card!Busy THEN pending.req ELSE uncertain.req
<1> USE DEF SendingTyped
<1>1. sendings + 1 \in Card!Attempts /\ sendings + 1 \in 0 .. MaxAttempts
  BY CardBounds DEF Card!Send, Card!Attempts
<1>2. /\ pending' = [req |-> r, stage |-> "check", again |-> again,
                     attempt |-> sendings + 1, answer |-> "none"]
      /\ sendings' = sendings + 1
  BY DEF Card!Send
<1>3. /\ uncertain' \in [req : Card!Requests \cup {Card!None}, wait : BOOLEAN]
      /\ uncertain'.req = IF kind = "stop" /\ Card!Busy THEN pending.req ELSE uncertain.req
  <2>1. CASE kind = "stop" /\ Card!Busy
    <3>1. uncertain' = [req |-> pending.req, wait |-> FALSE]
      BY <2>1 DEF Card!Send, Card!Interrupted
    <3> QED
      BY <2>1, <3>1
  <2>2. CASE ~(kind = "stop" /\ Card!Busy)
    <3>1. uncertain' = uncertain
      BY <2>2 DEF Card!Send, Card!Interrupted
    <3> QED
      BY <2>2, <3>1
  <2> QED
    BY <2>1, <2>2
<1>4. pending' \in [req : Card!Requests \cup {Card!None}, stage : {"none", "check", "post"},
                    again : BOOLEAN, attempt : Card!Attempts \cup {Card!None},
                    answer : {"none", "receipt", "refused", "later"}]
  BY <1>1, <1>2
<1> QED
  BY <1>1, <1>2, <1>3, <1>4, IdleCard

\* The command that is confirmed: the next number, what it names and for what it is meant.
LEMMA ConfirmedNext ==
  ASSUME Card!TypeOK, InOrder, NEW kind \in Card!Kinds, Card!Confirm(kind)
  PROVE  \E n \in 0 .. MaxRequests :
            /\ n + 1 \in Card!Requests /\ Card!Confirmed = 1 .. n
            /\ Card!Named(kind) \in Card!Requests \cup {Card!None}
            /\ intents' = [intents EXCEPT ![n + 1] = [kind |-> kind, names |-> Card!Named(kind),
                                                      for |-> cardDialog.for]]
            /\ seen' = [seen EXCEPT ![n + 1] = cardDialog.for]
            /\ Card!Send(n + 1, kind, FALSE)
<1>1. PICK n \in 0 .. MaxRequests : Card!Confirmed = 1 .. n
  BY DEF InOrder
<1>2. bound \in Bounds
  BY DEF Card!TypeOK
<1>3. Card!Cardinality(Card!Confirmed) = n
  BY <1>1, CardCounts
<1>4. n < bound.requests
  BY <1>3 DEF Card!Confirm
<1>5. n + 1 \in Card!Requests
  BY <1>2, <1>4, CardBounds DEF Card!Requests
<1>6. Card!Named(kind) \in Card!Requests \cup {Card!None}
  <2>1. Card!Prior \in Card!Requests \cup {Card!None}
    BY DEF Card!Prior, Card!TypeOK
  <2>2. Card!Prior # Card!None => intents[Card!Prior].names \in Card!Requests \cup {Card!None}
    BY <2>1 DEF Card!TypeOK
  <2> QED
    BY <2>1, <2>2 DEF Card!Named
<1> QED
  BY <1>1, <1>3, <1>5, <1>6 DEF Card!Confirm, Card!Bound

LEMMA WithTyped ==
  ASSUME IntentsTyped, NEW r \in Card!Requests \cup {Card!None}
  PROVE  Card!With(r) \subseteq Card!Requests
<1>1. CASE r = Card!None
  BY <1>1 DEF Card!With
<1>2. CASE r # Card!None
  <2>1. intents[r].names \in Card!Requests \cup {Card!None}
    BY <1>2 DEF IntentsTyped
  <2> QED
    BY <1>2, <2>1 DEF Card!With
<1> QED
  BY <1>1, <1>2

LEMMA OperatorTypes == ASSUME Card!TypeOK, InOrder, SendingSound, Card!Operator PROVE Card!TypeOK'
<1>0. SendingTyped /\ IntentsTyped /\ ServerTyped
  BY CardTyped
<1>1. CASE \E kind \in Card!Kinds \cup {"retry", "discard"} : Card!OpenDialog(kind)
  <2>1. PICK kind \in Card!Kinds \cup {"retry", "discard"} : Card!OpenDialog(kind)
    BY <1>1
  <2>2. 0 \in 0 .. MaxChanges + 1 /\ cardShown \in 0 .. MaxChanges + 1
    BY <1>0, CardBounds DEF IntentsTyped
  <2>3. SendingTyped'
    BY <1>0, <2>1, <2>2 DEF Card!OpenDialog, Card!None, SendingTyped
  <2>4. IntentsTyped' /\ ServerTyped'
    BY <1>0, <2>1 DEF Card!OpenDialog, Card!server, Card!history, IntentsTyped, ServerTyped
  <2> QED
    BY <2>3, <2>4, CardTyped
<1>2. CASE Card!CloseDialog
  <2>1. SendingTyped'
    BY <1>0, <1>2, IdleCard DEF Card!CloseDialog, SendingTyped
  <2>2. IntentsTyped' /\ ServerTyped'
    BY <1>0, <1>2 DEF Card!CloseDialog, Card!server, Card!history, IntentsTyped, ServerTyped
  <2> QED
    BY <2>1, <2>2, CardTyped
<1>3. CASE \E kind \in Card!Kinds : Card!Confirm(kind)
  <2>1. PICK kind \in Card!Kinds : Card!Confirm(kind)
    BY <1>3
  <2>2. PICK n \in 0 .. MaxRequests :
            /\ n + 1 \in Card!Requests /\ Card!Confirmed = 1 .. n
            /\ Card!Named(kind) \in Card!Requests \cup {Card!None}
            /\ intents' = [intents EXCEPT ![n + 1] = [kind |-> kind, names |-> Card!Named(kind),
                                                      for |-> cardDialog.for]]
            /\ seen' = [seen EXCEPT ![n + 1] = cardDialog.for]
            /\ Card!Send(n + 1, kind, FALSE)
    BY <2>1, ConfirmedNext
  <2>3. SendingTyped'
    BY <1>0, <2>1, <2>2, SendTypes DEF Card!Confirm, IntentsTyped
  <2>4. IntentsTyped'
    <3>1. cardDialog.for \in 0 .. MaxChanges + 1
      BY <1>0 DEF SendingTyped
    <3>2. UNCHANGED <<receipts, given, cardShown, bound>>
      BY <2>1 DEF Card!Confirm
    <3> QED
      BY <1>0, <2>2, <3>1, <3>2 DEF IntentsTyped
  <2>5. ServerTyped'
    BY <1>0, <2>1 DEF Card!Confirm, Card!server, ServerTyped
  <2> QED
    BY <2>3, <2>4, <2>5, CardTyped
<1>4. CASE Card!Retry
  <2>1. uncertain.req \in Card!Requests /\ Card!Send(uncertain.req, Card!Kind(uncertain.req), TRUE)
    BY <1>0, <1>4 DEF Card!Retry, Card!RetryEnabled, SendingTyped, SendingSound
  <2>2. SendingTyped'
    BY <1>0, <1>4, <2>1, SendTypes DEF Card!Retry, IntentsTyped
  <2>3. IntentsTyped' /\ ServerTyped'
    BY <1>0, <1>4 DEF Card!Retry, Card!server, Card!history, IntentsTyped, ServerTyped
  <2> QED
    BY <2>2, <2>3, CardTyped
<1>5. CASE Card!Discard
  <2>1. SendingTyped'
    BY <1>0, <1>5, IdleCard DEF Card!Discard, SendingTyped
  <2>2. Card!With(uncertain.req) \subseteq Card!Requests
    BY <1>0, WithTyped DEF SendingTyped
  <2>3. IntentsTyped' /\ ServerTyped'
    BY <1>0, <1>5, <2>2 DEF Card!Discard, Card!server, IntentsTyped, ServerTyped
  <2> QED
    BY <2>1, <2>3, CardTyped
<1>6. CASE Card!GoAway
  <2>1. SendingTyped'
    <3>1. aways' \in 0 .. MaxAways /\ available' \in BOOLEAN
      <4>1. aways' = aways + 1 /\ available' = FALSE /\ aways < bound.aways
        BY <1>6 DEF Card!GoAway
      <4>2. aways \in 0 .. MaxAways /\ bound \in Bounds
        BY <1>0 DEF SendingTyped, IntentsTyped
      <4>3. MaxAways \in Nat /\ bound.aways \in 0 .. MaxAways
        BY <4>2, CardBounds
      <4> QED
        <5>1. aways' \in 0 .. MaxAways
          BY <4>1, <4>2, <4>3
        <5>2. available' \in BOOLEAN
          BY <4>1
        <5> QED
          BY <5>1, <5>2
    <3>2. UNCHANGED <<sendings, cardDialog, late>>
      BY <1>6 DEF Card!GoAway
    <3>3. CASE Card!Busy
      <4>1. Card!Failed(FALSE) /\ pending.req # Card!None
        BY <1>6, <3>3 DEF Card!GoAway, Card!Busy, SendingSound
      <4> QED
        BY <1>0, <3>1, <3>2, <4>1, FailedTypes, IdleCard DEF SendingTyped
    <3>4. CASE ~Card!Busy
      BY <1>0, <1>6, <3>1, <3>2, <3>4 DEF Card!GoAway, SendingTyped
    <3> QED
      BY <3>3, <3>4
  <2>2. IntentsTyped' /\ ServerTyped'
    BY <1>0, <1>6 DEF Card!GoAway, Card!server, Card!history, IntentsTyped, ServerTyped
  <2> QED
    BY <2>1, <2>2, CardTyped
<1>7. CASE Card!ComeBack
  <2>1. SendingTyped'
    BY <1>0, <1>7 DEF Card!ComeBack, SendingTyped
  <2>2. IntentsTyped' /\ ServerTyped'
    BY <1>0, <1>7 DEF Card!ComeBack, Card!server, Card!history, IntentsTyped, ServerTyped
  <2> QED
    BY <2>1, <2>2, CardTyped
<1>8. CASE Card!Leave
  <2>1. aways' \in 0 .. MaxAways
    BY <1>0, <1>8, CardBounds DEF Card!Leave, SendingTyped, IntentsTyped
  <2>2. SendingTyped'
    BY <1>0, <1>8, <2>1, IdleCard DEF Card!Leave, SendingTyped
  <2>3. Card!With(uncertain.req) \subseteq Card!Requests /\ Card!With(pending.req) \subseteq Card!Requests
    BY <1>0, WithTyped DEF SendingTyped
  <2>4. IntentsTyped' /\ ServerTyped'
    BY <1>0, <1>8, <2>3 DEF Card!Leave, Card!server, IntentsTyped, ServerTyped
  <2> QED
    BY <2>2, <2>4, CardTyped
<1> QED
  BY <1>1, <1>2, <1>3, <1>4, <1>5, <1>6, <1>7, <1>8 DEF Card!Operator

LEMMA OnThePageTypes == ASSUME Card!TypeOK, SendingSound, Card!OnThePage PROVE Card!TypeOK'
<1>0. SendingTyped /\ IntentsTyped /\ ServerTyped
  BY CardTyped
<1>1. CASE Card!CheckPasses
  <2>1. pending.req \in Card!Requests /\ pending.attempt \in Card!Attempts
    <3>1. pending.req # Card!None
      BY <1>1, IdleCard DEF Card!CheckPasses, SendingSound
    <3>2. pending.attempt # 0
      BY <1>0, <3>1 DEF SendingSound, SendingTyped
    <3> QED
      BY <1>0, <3>1, <3>2 DEF SendingTyped, Card!None
  <2>2. SendingTyped'
    BY <1>0, <1>1 DEF Card!CheckPasses, SendingTyped
  <2>3. ServerTyped'
    BY <1>0, <1>1, <2>1 DEF Card!CheckPasses, Card!server, ServerTyped
  <2>4. IntentsTyped'
    BY <1>0, <1>1 DEF Card!CheckPasses, Card!history, IntentsTyped
  <2> QED
    BY <2>2, <2>3, <2>4, CardTyped
<1>2. CASE Card!CheckFails \/ Card!PostFails \/ Card!Refusal
  <2>1. PICK definite \in BOOLEAN : Card!Failed(definite)
    BY <1>2 DEF Card!CheckFails, Card!PostFails, Card!Refusal
  <2>2. pending.req # Card!None
    BY <1>2, IdleCard DEF Card!CheckFails, Card!PostFails, Card!Refusal, SendingSound
  <2>3. UNCHANGED <<row, number, target, equipment, cardPosts, intents, cardShown, cardDialog,
                    sendings, available, late, aways, bound, seen, receipts, given>>
    BY <1>2 DEF Card!CheckFails, Card!PostFails, Card!Refusal, Card!server, Card!history
  <2>4. SendingTyped'
    BY <1>0, <2>1, <2>2, <2>3, FailedTypes, IdleCard DEF SendingTyped
  <2>5. IntentsTyped' /\ ServerTyped'
    BY <1>0, <2>3 DEF IntentsTyped, ServerTyped
  <2> QED
    BY <2>4, <2>5, CardTyped
<1>3. CASE Card!Receipt
  <2>1. pending.req \in Card!Requests
    BY <1>0, <1>3, IdleCard DEF Card!Receipt, SendingSound, SendingTyped
  <2>2. SendingTyped'
    BY <1>0, <1>3, IdleCard DEF Card!Receipt, SendingTyped
  <2>3. IntentsTyped' /\ ServerTyped'
    BY <1>0, <1>3, <2>1 DEF Card!Receipt, Card!server, IntentsTyped, ServerTyped
  <2> QED
    BY <2>2, <2>3, CardTyped
<1>4. CASE Card!RetryAtPasses
  <2>1. SendingTyped'
    BY <1>0, <1>4 DEF Card!RetryAtPasses, SendingTyped
  <2>2. IntentsTyped' /\ ServerTyped'
    BY <1>0, <1>4 DEF Card!RetryAtPasses, Card!server, Card!history, IntentsTyped, ServerTyped
  <2> QED
    BY <2>1, <2>2, CardTyped
<1>5. CASE Card!Poll
  <2>1. SendingTyped'
    BY <1>0, <1>5 DEF Card!Poll, SendingTyped
  <2>2. IntentsTyped' /\ ServerTyped'
    BY <1>0, <1>5 DEF Card!Poll, Card!server, Card!history, IntentsTyped, ServerTyped
  <2> QED
    BY <2>1, <2>2, CardTyped
<1>6. CASE \E r \in Card!Requests : Card!DeadlinePasses(r)
  <2>1. PICK r \in Card!Requests : Card!DeadlinePasses(r)
    BY <1>6
  <2>2. IntentsTyped' /\ ServerTyped'
    BY <1>0, <2>1 DEF Card!DeadlinePasses, Card!server, Card!history, IntentsTyped, ServerTyped
  <2>3. UNCHANGED <<sendings, cardDialog, available, aways>> /\ late' \subseteq Card!Requests
    BY <1>0, <2>1 DEF Card!DeadlinePasses, SendingTyped
  <2>4. SendingTyped'
    <3>1. CASE pending.req = r
      <4>1. Card!Failed(FALSE) /\ pending.req # Card!None
        <5>1. Card!Failed(FALSE)
          BY <2>1, <3>1 DEF Card!DeadlinePasses
        <5>2. r # 0
          BY <1>0, CardBounds DEF Card!Requests, IntentsTyped
        <5> QED
          BY <3>1, <5>1, <5>2 DEF Card!None
      <4> QED
        BY <1>0, <2>3, <4>1, FailedTypes, IdleCard DEF SendingTyped
    <3>2. CASE pending.req # r
      BY <1>0, <2>1, <2>3, <3>2 DEF Card!DeadlinePasses, SendingTyped
    <3> QED
      BY <3>1, <3>2
  <2> QED
    BY <2>2, <2>4, CardTyped
<1> QED
  BY <1>1, <1>2, <1>3, <1>4, <1>5, <1>6 DEF Card!OnThePage

\* Who hears the answer of a POST.
LEMMA AnsweredTyped ==
  ASSUME SendingTyped, NEW p \in cardPosts, NEW answer \in {"receipt", "refused", "later"},
         Card!Answered(p, answer), UNCHANGED <<uncertain, sendings, cardDialog, available, late, aways>>
  PROVE  /\ SendingTyped'
         /\ pending'.req = pending.req /\ pending'.again = pending.again
         /\ pending'.stage = pending.stage /\ pending'.attempt = pending.attempt
         /\ \/ pending' = pending
            \/ pending.stage = "post" /\ pending.attempt = p.attempt /\ pending'.answer = answer
<1>1. CASE pending.stage = "post" /\ pending.attempt = p.attempt
  <2>1. pending' = [pending EXCEPT !.answer = answer]
    BY <1>1 DEF Card!Answered
  <2> QED
    BY <1>1, <2>1 DEF SendingTyped
<1>2. CASE ~(pending.stage = "post" /\ pending.attempt = p.attempt)
  <2>1. pending' = pending
    BY <1>2 DEF Card!Answered
  <2> QED
    BY <2>1 DEF SendingTyped
<1> QED
  BY <1>1, <1>2

LEMMA BackendTypes == ASSUME Card!TypeOK, NumberedRows, Card!Backend PROVE Card!TypeOK'
<1>0. SendingTyped /\ IntentsTyped /\ ServerTyped
  BY CardTyped
<1>1. CASE \E p \in cardPosts : Card!PostLost(p)
  <2>1. SendingTyped'
    BY <1>0, <1>1 DEF Card!PostLost, SendingTyped
  <2>2. IntentsTyped' /\ ServerTyped'
    BY <1>0, <1>1 DEF Card!PostLost, Card!server, Card!history, IntentsTyped, ServerTyped
  <2> QED
    BY <2>1, <2>2, CardTyped
<1>2. CASE \E p \in cardPosts : Card!ServerCreates(p) \/ Card!ServerRefuses(p)
  <2>1. PICK p \in cardPosts : Card!ServerCreates(p) \/ Card!ServerRefuses(p)
    BY <1>2
  <2>2. PICK answer \in {"receipt", "refused", "later"} : Card!Answered(p, answer)
    BY <2>1 DEF Card!ServerCreates, Card!ServerRefuses
  <2>3. UNCHANGED <<equipment, intents, cardShown, cardDialog, uncertain, sendings, available, late,
                    aways, bound, seen, receipts, given>>
    BY <2>1 DEF Card!ServerCreates, Card!ServerRefuses, Card!history
  <2>4. SendingTyped'
    BY <1>0, <2>2, <2>3, AnsweredTyped
  <2>5. IntentsTyped'
    BY <1>0, <2>3 DEF IntentsTyped
  <2>6. ServerTyped'
    <3>1. cardPosts' \subseteq cardPosts
      BY <2>1 DEF Card!ServerCreates, Card!ServerRefuses
    <3>2. CASE UNCHANGED <<row, number, target>>
      BY <1>0, <2>3, <3>1, <3>2 DEF ServerTyped
    <3>3. CASE ~UNCHANGED <<row, number, target>>
      <4>1. Card!ServerCreates(p) /\ row[p.req] = "absent"
        BY <2>1, <3>3 DEF Card!ServerCreates, Card!ServerRefuses, Card!server
      <4>2. p.req \in Card!Requests
        BY <1>0 DEF ServerTyped
      <4>3. Card!NewestNumber + 1 \in 0 .. MaxRequests
        <5>1. Card!NewestNumber + 1 \in 1 .. MaxRequests
          BY <4>1, <4>2, RowsLeft
        <5> QED
          BY <5>1
      <4>4. equipment \in 0 .. MaxChanges + 1
        BY <1>0, CardBounds DEF ServerTyped, IntentsTyped
      <4>5. /\ number' = [number EXCEPT ![p.req] = Card!NewestNumber + 1]
            /\ target' = [target EXCEPT ![p.req] = equipment]
            /\ row' = [q \in Card!Requests |->
                           IF q = p.req THEN IF Card!Superseded(p.req) THEN "cancelled" ELSE "queued"
                           ELSE IF Card!Kind(p.req) = "stop" /\ ~Card!Superseded(p.req) /\ row[q] = "queued"
                                THEN "cancelled" ELSE row[q]]
        BY <3>3, <4>1 DEF Card!ServerCreates, Card!server
      <4>6. number' \in [Card!Requests -> 0 .. MaxRequests]
        BY <1>0, <4>2, <4>3, <4>5 DEF ServerTyped
      <4>7. target' \in [Card!Requests -> 0 .. MaxChanges + 1]
        BY <1>0, <4>2, <4>4, <4>5 DEF ServerTyped
      <4>8. row' \in [Card!Requests -> {"absent", "queued", "cancelled", "taken"}]
        BY <1>0, <4>2, <4>5 DEF ServerTyped
      <4> QED
        BY <1>0, <2>3, <3>1, <4>6, <4>7, <4>8 DEF ServerTyped
    <3> QED
      BY <3>2, <3>3
  <2> QED
    BY <2>4, <2>5, <2>6, CardTyped
<1>3. CASE \E r \in Card!Requests : Card!Deliver(r)
  <2>1. SendingTyped'
    BY <1>0, <1>3 DEF Card!Deliver, SendingTyped
  <2>2. IntentsTyped' /\ ServerTyped'
    BY <1>0, <1>3 DEF Card!Deliver, Card!history, IntentsTyped, ServerTyped
  <2> QED
    BY <2>1, <2>2, CardTyped
<1>4. CASE Card!ChangeEquipment
  <2>1. SendingTyped'
    BY <1>0, <1>4 DEF Card!ChangeEquipment, SendingTyped
  <2>2. equipment' \in 1 .. MaxChanges + 1
    BY <1>0, <1>4, CardBounds DEF Card!ChangeEquipment, ServerTyped, IntentsTyped
  <2>3. IntentsTyped' /\ ServerTyped'
    BY <1>0, <1>4, <2>2 DEF Card!ChangeEquipment, Card!server, Card!history, IntentsTyped, ServerTyped
  <2> QED
    BY <2>1, <2>3, CardTyped
<1> QED
  BY <1>1, <1>2, <1>3, <1>4 DEF Card!Backend

-----------------------------------------------------------------------------
(* The requests of the card.                                               *)

\* The request that is being sent stands for the one without a receipt ...
LEMMA PendingTakesOver ==
  ASSUME CardInv, pending.req # Card!None, NEW r \in Card!Requests, Card!Kind(r) = "start",
         \/ r = uncertain.req
         \/ uncertain.req \in Card!Requests /\ intents[uncertain.req].names = r
  PROVE  r = pending.req \/ intents[pending.req].names = r
<1>1. r # Card!None
  BY DEF Card!Requests, Card!None
<1>2. CASE uncertain.req = pending.req
  BY <1>2
<1>3. CASE uncertain.req = Card!None
  BY <1>1, <1>3 DEF Card!Requests, Card!None
<1>4. CASE uncertain.req # Card!None /\ intents[pending.req].names = Carried(uncertain.req)
  BY <1>1, <1>4 DEF CardInv, NamesAreOlder, Carried
<1> QED
  BY <1>2, <1>3, <1>4 DEF CardInv, Tied

\* ... and the other way round.
LEMMA UncertainTakesOver ==
  ASSUME CardInv, pending.req # Card!None, NEW r \in Card!Requests,
         intents[pending.req].names = r
  PROVE  \/ r = uncertain.req
         \/ uncertain.req \in Card!Requests /\ intents[uncertain.req].names = r
<1>1. r # Card!None /\ pending.req \in Card!Requests /\ uncertain.req \in Card!Requests \cup {Card!None}
  BY DEF Card!Requests, Card!None, CardInv, Card!TypeOK
<1>2. CASE uncertain.req = pending.req
  BY <1>1, <1>2
<1>3. CASE Card!Kind(pending.req) = "start"
  BY <1>1, <1>3 DEF CardInv, NamesAreOlder
<1>4. CASE intents[pending.req].names = Carried(uncertain.req)
  BY <1>1, <1>4 DEF Carried
<1> QED
  BY <1>2, <1>3, <1>4 DEF CardInv, Tied

\* A request that was never accepted and has no POST under way leaves nothing to account for.
LEMMA NothingCame ==
  ASSUME CardInv, pending.req # Card!None, ~pending.again,
         pending.stage = "check" \/ pending.answer = "refused"
  PROVE  ~Card!Accepted(pending.req) /\ \A p \in cardPosts : p.req # pending.req
BY DEF CardInv, FirstSending, SendingSound

LEMMA FailedAccounted ==
  ASSUME CardInv, pending.req # Card!None, UNCHANGED <<row, cardPosts, intents, receipts, given>>,
         pending' = Card!Idle,
         \/ uncertain'.req = pending.req
         \/ /\ uncertain' = uncertain /\ ~pending.again
            /\ pending.stage = "check" \/ pending.answer = "refused"
  PROVE  Card!Accounted'
<1> SUFFICES ASSUME NEW r \in Card!Confirmed, Card!Kind(r) = "start",
                    Card!Accepted(r) \/ (\E p \in cardPosts : p.req = r)
             PROVE  r \in receipts \cup given \cup {uncertain'.req} \/ Card!TakenOver(r)'
  BY DEF Card!Accounted, Card!Confirmed, Card!Kind, Card!Accepted
<1>1. r \in Card!Requests
  BY DEF Card!Confirmed
<1>2. \/ r \in receipts \cup given \cup {pending.req, uncertain.req}
      \/ \E s \in Card!Requests : intents[s].names = r /\ s \in {pending.req, uncertain.req} \cup receipts
  BY DEF CardInv, Card!Accounted, Card!TakenOver
<1>3. Card!TakenOver(r)' <=>
        \E s \in Card!Requests : intents[s].names = r /\ s \in {Card!Idle.req, uncertain'.req} \cup receipts
  BY DEF Card!TakenOver
<1>4. CASE uncertain'.req = pending.req
  BY <1>1, <1>2, <1>3, <1>4, PendingTakesOver DEF CardInv, Card!TypeOK
<1>5. CASE /\ uncertain' = uncertain /\ ~pending.again
           /\ pending.stage = "check" \/ pending.answer = "refused"
  <2>1. r # pending.req
    BY <1>5, NothingCame
  <2> QED
    BY <1>1, <1>2, <1>3, <1>5, <2>1, UncertainTakesOver
<1> QED
  BY <1>4, <1>5

\* A step that ends the request that is being sent, and leaves at most one without a receipt.
LEMMA RequestEnds ==
  ASSUME CardInv, Card!TypeOK', Card!Accounted', pending' = Card!Idle,
         UNCHANGED <<row, number, target, cardPosts, intents, seen, sendings>>,
         uncertain'.req \in {Card!None, uncertain.req, pending.req},
         uncertain'.req = Card!None => uncertain' = Card!Certain,
         \A r \in receipts' : Card!Accepted(r), given \subseteq given'
  PROVE  CardInv'
<1>1. InOrder'
  BY DEF CardInv, InOrder, Card!Confirmed
<1>2. Underway'
  <2>1. \A p \in cardPosts' : p.req \in Card!Confirmed' /\ p.attempt <= sendings'
    BY DEF CardInv, Underway, Card!Confirmed
  <2>2. \A r \in Card!Requests : row'[r] = "absent" \/ r \in Card!Confirmed'
    BY DEF CardInv, Underway, Card!Confirmed
  <2>3. {pending.req, uncertain.req}' \subseteq Card!Confirmed' \cup {Card!None}
    BY IdleCard DEF CardInv, Underway, Card!Confirmed, Card!None
  <2> QED
    BY <2>1, <2>2, <2>3 DEF Underway, Card!Accepted, Card!None
<1>3. NamesAreOlder' /\ BoundAsSeen' /\ NumberedRows'
  BY DEF CardInv, NamesAreOlder, BoundAsSeen, NumberedRows, Card!Accepted, Card!Kind
<1>4. pending'.req = 0 /\ pending'.stage = "none" /\ pending'.attempt = 0 /\ pending'.answer = "none"
  BY IdleCard
<1>5. SendingSound'
  <2>1. \A p \in cardPosts' : p.attempt # pending'.attempt
    BY <1>4, CardBounds DEF CardInv, Card!TypeOK, Card!Attempts
  <2> QED
    BY <1>4, <2>1 DEF SendingSound, Card!None
<1>6. FirstSending' /\ Tied'
  BY <1>4 DEF FirstSending, Tied, Card!None
<1>7. Covered'
  BY <1>4 DEF CardInv, Covered, Unsettled, Card!Superseded, Card!Kind, Card!None, Card!Requests
<1>8. Card!StopIsLast'
  BY DEF CardInv, Card!StopIsLast, Card!Accepted, Card!Kind
<1> QED
  BY <1>1, <1>2, <1>3, <1>5, <1>6, <1>7, <1>8 DEF CardInv

\* A step that none of the requests notices.
LEMMA CardRests ==
  ASSUME CardInv, Card!TypeOK',
         UNCHANGED <<row, number, target, cardPosts, intents, seen, sendings, pending, receipts, given>>,
         uncertain'.req = uncertain.req, uncertain'.req = Card!None => uncertain' = Card!Certain
  PROVE  CardInv'
<1>1. InOrder' /\ Underway'
  BY DEF CardInv, InOrder, Underway, Card!Confirmed, Card!Accepted
<1>2. NamesAreOlder' /\ BoundAsSeen' /\ NumberedRows'
  BY DEF CardInv, NamesAreOlder, BoundAsSeen, NumberedRows, Card!Accepted, Card!Kind
<1>3. SendingSound' /\ FirstSending'
  BY DEF CardInv, SendingSound, FirstSending, Card!Accepted
<1>4. Tied'
  BY DEF CardInv, Tied, Carried, Card!Kind
<1>5. Covered'
  BY DEF CardInv, Covered, Unsettled, Card!Superseded, Card!Kind
<1>6. Card!StopIsLast'
  BY DEF CardInv, Card!StopIsLast, Card!Accepted, Card!Kind
<1>7. Card!Accounted'
  BY DEF CardInv, Card!Accounted, Card!TakenOver, Card!Accepted, Card!Kind, Card!Confirmed
<1> QED
  BY <1>1, <1>2, <1>3, <1>4, <1>5, <1>6, <1>7 DEF CardInv

LEMMA FailedSafe ==
  ASSUME CardInv, Card!TypeOK', NEW definite \in BOOLEAN, Card!Failed(definite),
         pending.req # Card!None, definite => pending.answer = "refused",
         UNCHANGED <<row, number, target, cardPosts, intents, seen, sendings, receipts, given>>
  PROVE  CardInv'
<1>1. /\ pending' = Card!Idle
      /\ \/ uncertain'.req = pending.req
         \/ uncertain' = uncertain /\ ~pending.again /\ (pending.stage # "post" \/ definite)
  BY FailedTypes DEF CardInv
<1>2. pending.stage # "post" => pending.stage = "check"
  BY DEF CardInv, SendingSound, Card!TypeOK
<1>3. \/ uncertain'.req = pending.req
      \/ /\ uncertain' = uncertain /\ ~pending.again
         /\ pending.stage = "check" \/ pending.answer = "refused"
  BY <1>1, <1>2
<1>4. Card!Accounted'
  BY <1>1, <1>3, FailedAccounted
<1>5. uncertain'.req \in {uncertain.req, pending.req}
  BY <1>3
<1>6. uncertain'.req = Card!None => uncertain' = Card!Certain
  BY <1>3 DEF CardInv, SendingSound
<1>7. \A r \in receipts' : Card!Accepted(r)
  BY DEF CardInv, Underway
<1> QED
  BY <1>1, <1>4, <1>5, <1>6, <1>7, RequestEnds

\* The receipt settles the request and those it stands for.
LEMMA ReceiptSafe == ASSUME CardInv, Card!TypeOK', Card!Receipt PROVE CardInv'
<1>1. pending.req # Card!None /\ Card!Accepted(pending.req)
  BY IdleCard DEF Card!Receipt, CardInv, SendingSound
<1>2. /\ UNCHANGED <<row, number, target, cardPosts, intents, seen, sendings, given>>
      /\ receipts' = receipts \cup {pending.req} /\ uncertain' = Card!Certain /\ pending' = Card!Idle
  BY DEF Card!Receipt, Card!server
<1>3. Card!Accounted'
  <2> SUFFICES ASSUME NEW r \in Card!Confirmed, Card!Kind(r) = "start",
                      Card!Accepted(r) \/ (\E p \in cardPosts : p.req = r)
               PROVE  r \in receipts' \cup given \/ Card!TakenOver(r)'
    BY <1>2 DEF Card!Accounted, Card!Confirmed, Card!Kind, Card!Accepted
  <2>1. r \in Card!Requests /\ pending.req \in Card!Requests
    BY <1>1 DEF Card!Confirmed, CardInv, Card!TypeOK
  <2>2. \/ r \in receipts \cup given \cup {pending.req, uncertain.req}
        \/ \E s \in Card!Requests : intents[s].names = r /\ s \in {pending.req, uncertain.req} \cup receipts
    BY DEF CardInv, Card!Accounted, Card!TakenOver
  <2>3. (\E s \in Card!Requests : intents[s].names = r /\ s \in receipts') => Card!TakenOver(r)'
    BY <1>2 DEF Card!TakenOver
  <2>4. CASE r = uncertain.req \/ (uncertain.req \in Card!Requests /\ intents[uncertain.req].names = r)
    <3>1. r = pending.req \/ intents[pending.req].names = r
      BY <1>1, <2>1, <2>4, PendingTakesOver
    <3> QED
      BY <1>2, <2>1, <2>3, <3>1
  <2> QED
    BY <1>2, <2>1, <2>2, <2>3, <2>4
<1>4. \A r \in receipts' : Card!Accepted(r)
  BY <1>1, <1>2 DEF CardInv, Underway
<1>5. uncertain'.req = Card!None
  BY <1>2, IdleCard DEF Card!None
<1> QED
  BY <1>2, <1>3, <1>4, <1>5, RequestEnds

\* What the operator gives up goes with the requests it stands for.
LEMMA GivenUpSafe ==
  ASSUME CardInv, Card!TypeOK', pending' = Card!Idle, uncertain' = Card!Certain,
         given' = given \cup Card!With(pending.req) \cup Card!With(uncertain.req),
         UNCHANGED <<row, number, target, cardPosts, intents, seen, sendings, receipts>>
  PROVE  CardInv'
<1>1. Card!Accounted'
  <2> SUFFICES ASSUME NEW r \in Card!Confirmed, Card!Kind(r) = "start",
                      Card!Accepted(r) \/ (\E p \in cardPosts : p.req = r)
               PROVE  r \in receipts \cup given' \/ Card!TakenOver(r)'
    BY DEF Card!Accounted, Card!Confirmed, Card!Kind, Card!Accepted
  <2>1. r \in Card!Requests /\ r # Card!None
    BY DEF Card!Confirmed, Card!Requests, Card!None
  <2>2. \/ r \in receipts \cup given \cup {pending.req, uncertain.req}
        \/ \E s \in Card!Requests : intents[s].names = r /\ s \in {pending.req, uncertain.req} \cup receipts
    BY DEF CardInv, Card!Accounted, Card!TakenOver
  <2>3. (\E s \in Card!Requests : intents[s].names = r /\ s \in receipts) => Card!TakenOver(r)'
    BY DEF Card!TakenOver
  <2>4. ASSUME NEW s \in Card!Requests, r \in {s, intents[s].names} PROVE r \in Card!With(s)
    BY <2>1, <2>4 DEF Card!With, Card!Requests, Card!None
  <2> QED
    BY <2>1, <2>2, <2>3, <2>4
<1>2. uncertain'.req = Card!None
  BY IdleCard DEF Card!None
<1>3. \A r \in receipts' : Card!Accepted(r)
  BY DEF CardInv, Underway
<1> QED
  BY <1>1, <1>2, <1>3, RequestEnds

LEMMA DiscardSafe == ASSUME CardInv, Card!TypeOK', Card!Discard PROVE CardInv'
<1>1. pending = Card!Idle /\ Card!With(pending.req) = {}
  BY IdleCard DEF Card!Discard, Card!Busy, Card!With, Card!None
<1>2. /\ UNCHANGED <<row, number, target, cardPosts, intents, seen, sendings, receipts, pending>>
      /\ uncertain' = Card!Certain /\ given' = given \cup Card!With(uncertain.req)
  BY DEF Card!Discard, Card!server
<1> QED
  BY <1>1, <1>2, GivenUpSafe

LEMMA LeaveSafe == ASSUME CardInv, Card!TypeOK', Card!Leave PROVE CardInv'
BY GivenUpSafe DEF Card!Leave, Card!server

\* The operator confirms a new command.
LEMMA ConfirmSafe ==
  ASSUME CardInv, Card!TypeOK', NEW kind \in Card!Kinds, Card!Confirm(kind)
  PROVE  CardInv'
<1>1. PICK n \in 0 .. MaxRequests :
            /\ n + 1 \in Card!Requests /\ Card!Confirmed = 1 .. n
            /\ Card!Named(kind) \in Card!Requests \cup {Card!None}
            /\ intents' = [intents EXCEPT ![n + 1] = [kind |-> kind, names |-> Card!Named(kind),
                                                      for |-> cardDialog.for]]
            /\ seen' = [seen EXCEPT ![n + 1] = cardDialog.for]
            /\ Card!Send(n + 1, kind, FALSE)
  BY ConfirmedNext DEF CardInv
<1> DEFINE new == n + 1
<1>2. /\ UNCHANGED <<row, number, target, cardPosts, receipts, given>>
      /\ Card!Enabled(kind)
  BY DEF Card!Confirm, Card!server
<1>3. /\ pending' = [req |-> new, stage |-> "check", again |-> FALSE,
                     attempt |-> sendings + 1, answer |-> "none"]
      /\ sendings' = sendings + 1
      /\ uncertain'.req = IF kind = "stop" /\ Card!Busy THEN pending.req ELSE uncertain.req
  <2>1. SendingTyped /\ bound \in Bounds
    BY CardTyped DEF IntentsTyped, CardInv
  <2>2. cardDialog' = Card!NoDialog /\ UNCHANGED <<available, late, aways>>
    BY DEF Card!Confirm
  <2> QED
    BY <1>1, <2>1, <2>2, SendTypes
<1>4. /\ \A r \in Card!Requests \ {new} : intents'[r] = intents[r] /\ seen'[r] = seen[r]
      /\ intents'[new].kind = kind /\ intents'[new].names = Card!Named(kind)
      /\ intents'[new].for = cardDialog.for /\ seen'[new] = cardDialog.for
  BY <1>1 DEF CardInv, Card!TypeOK
<1>5. /\ new \notin Card!Confirmed /\ new \in Card!Requests
      /\ Card!Confirmed' = Card!Confirmed \cup {new} /\ Card!Confirmed' = 1 .. new
  <2>1. kind # "none"
    BY DEF Card!Kinds
  <2>2. new \in Card!Requests /\ new \notin Card!Confirmed /\ 1 .. new = (1 .. n) \cup {new}
    BY <1>1
  <2>3. Card!Confirmed' = Card!Confirmed \cup {new}
    BY <1>4, <2>1, <2>2 DEF Card!Confirmed
  <2> QED
    BY <1>1, <2>2, <2>3
<1>6. new \in Nat /\ \A r \in Card!Confirmed : r < new
  BY <1>1
<1> HIDE DEF new
\* Nothing of the new request is known to anybody yet.
<1>7. row[new] = "absent" /\ ~(\E p \in cardPosts : p.req = new) /\ new \notin {pending.req, uncertain.req}
      /\ new \notin receipts
  <2>1. new # Card!None
    BY <1>5 DEF Card!Requests, Card!None
  <2> QED
    BY <1>5, <2>1 DEF CardInv, Underway, Card!Accepted
\* What the requests of the card were, and what the new one follows.
<1>8. /\ kind = "start" => pending = Card!Idle /\ uncertain = Card!Certain
      /\ kind = "stop" /\ Card!Busy => Card!Kind(pending.req) # "stop"
      /\ kind \in {"start", "stop"}
  BY <1>2 DEF Card!Enabled, Card!Busy, Card!Kinds
<1>9. /\ pending.req \in Card!Confirmed \cup {Card!None} /\ uncertain.req \in Card!Confirmed \cup {Card!None}
      /\ Card!Busy <=> pending.req # Card!None
  BY IdleCard DEF CardInv, Underway, SendingSound, Card!Busy, Card!None
<1>10. Card!Prior = uncertain'.req \/ kind = "start"
  BY <1>3, <1>8, <1>9 DEF Card!Prior
<1>11. /\ uncertain'.req \in Card!Confirmed \cup {Card!None}
       /\ kind = "start" => uncertain'.req = Card!None
  BY <1>3, <1>8, <1>9, IdleCard DEF Card!None
<1>12. Card!Named(kind) = IF kind = "stop" THEN Carried(uncertain'.req) ELSE Card!None
  BY <1>8, <1>10 DEF Card!Named, Carried
<1>13. InOrder'
  <2>1. new \in 0 .. MaxRequests
    BY <1>5, CardBounds DEF Card!Requests, CardInv, Card!TypeOK
  <2> QED
    BY <1>5, <2>1 DEF InOrder
<1>14. Underway'
  <2>1. \A p \in cardPosts' : p.req \in Card!Confirmed' /\ p.attempt <= sendings'
    <3>1. \A p \in cardPosts : p.attempt \in Nat /\ sendings \in Nat
      BY CardBounds DEF CardInv, Card!TypeOK, Card!Attempts
    <3> QED
      BY <1>2, <1>3, <1>5, <3>1 DEF CardInv, Underway
  <2>2. \A r \in Card!Requests : row'[r] = "absent" \/ r \in Card!Confirmed'
    BY <1>2, <1>5 DEF CardInv, Underway
  <2>3. {pending'.req, uncertain'.req} \subseteq Card!Confirmed' \cup {Card!None}
    BY <1>3, <1>5, <1>11
  <2>4. \A r \in receipts' : Card!Accepted(r)'
    BY <1>2 DEF CardInv, Underway, Card!Accepted
  <2> QED
    BY <2>1, <2>2, <2>3, <2>4 DEF Underway
<1>15. NamesAreOlder'
  <2>1. ASSUME intents'[new].names # Card!None
        PROVE  intents'[new].names < new /\ intents'[new].kind = "stop"
    <3>1. kind = "stop" /\ intents'[new].names = Carried(uncertain'.req)
      BY <1>4, <1>12, <2>1
    <3>2. Carried(uncertain'.req) # Card!None
      BY <2>1, <3>1
    <3>3. uncertain'.req \in Card!Requests /\ uncertain'.req < new
      BY <1>5, <1>6, <1>11, <3>2 DEF Carried, Card!Confirmed
    <3>4. intents[uncertain'.req].names # Card!None =>
             intents[uncertain'.req].names < uncertain'.req /\ intents[uncertain'.req].names \in Nat
      <4>1. intents[uncertain'.req].names \in Card!Requests \cup {Card!None}
        BY <3>3 DEF CardInv, Card!TypeOK
      <4> QED
        BY <3>3, <4>1 DEF CardInv, NamesAreOlder, Card!Requests, Card!None
    <3> QED
      BY <1>4, <1>6, <3>1, <3>3, <3>4 DEF Carried, Card!Requests
  <2> QED
    BY <1>4, <1>5, <2>1 DEF CardInv, NamesAreOlder, Card!Kind
<1>16. BoundAsSeen' /\ NumberedRows'
  <2>1. BoundAsSeen'
    BY <1>2, <1>4, <1>5, <1>7 DEF CardInv, BoundAsSeen, Card!Accepted
  <2>2. NumberedRows'
    BY <1>2 DEF CardInv, NumberedRows
  <2> QED
    BY <2>1, <2>2
<1>17. pending'.req = new /\ pending'.stage = "check" /\ pending'.again = FALSE
       /\ pending'.attempt = sendings + 1 /\ pending'.answer = "none" /\ new # Card!None
  BY <1>3, <1>5 DEF Card!Requests, Card!None
<1>18. SendingSound'
  <2>1. sendings \in Nat /\ \A p \in cardPosts : p.attempt \in Nat /\ p.attempt <= sendings
    BY CardBounds DEF CardInv, Card!TypeOK, Card!Attempts, Underway
  <2>2. uncertain'.req = Card!None => uncertain' = Card!Certain
    <3>1. CASE kind = "stop" /\ Card!Busy
      BY <1>3, <1>9, <3>1
    <3>2. CASE ~(kind = "stop" /\ Card!Busy)
      <4>1. uncertain' = uncertain
        BY <1>1, <3>2 DEF Card!Send, Card!Interrupted
      <4> QED
        BY <4>1 DEF CardInv, SendingSound
    <3> QED
      BY <3>1, <3>2
  <2>3. \A p \in cardPosts' : p.attempt # pending'.attempt
    BY <1>2, <1>17, <2>1
  <2> QED
    BY <1>3, <1>17, <2>1, <2>2, <2>3 DEF SendingSound
<1>19. FirstSending'
  BY <1>2, <1>7, <1>17 DEF FirstSending, Card!Accepted
<1>20. Tied'
  <2>1. CASE kind = "start"
    BY <1>4, <1>11, <1>17, <2>1 DEF Tied, Card!Kind
  <2>2. CASE kind = "stop"
    <3>1. intents'[new].names = Carried(uncertain'.req)
      BY <1>4, <1>12, <2>2
    <3>2. Carried(uncertain.req)' = Carried(uncertain'.req)
      BY <1>4, <1>5, <1>11 DEF Carried, Card!Confirmed
    <3> QED
      BY <1>4, <1>17, <2>2, <3>1, <3>2 DEF Tied, Card!Kind
  <2> QED
    BY <1>8, <2>1, <2>2
<1>21. \A r \in Card!Requests : Card!Superseded(r) => Card!Superseded(r)'
  BY <1>2, <1>4, <1>7 DEF Card!Superseded, Card!Kind
<1>22. Covered'
  <2> SUFFICES ASSUME NEW s \in Card!Requests, NEW r \in Card!Requests,
                      Card!Kind(s)' = "stop", Card!Kind(r)' = "start", r < s, r \notin given,
                      row[r] = "absent", Unsettled(r)'
               PROVE  intents'[s].names = r \/ Card!Superseded(r)'
    BY <1>2 DEF Covered
  <2>1. s \in Card!Confirmed' /\ r \in Card!Confirmed'
    BY DEF Card!Confirmed, Card!Kind
  <2>2. r # new
    BY <1>5, <1>6, <2>1 DEF Card!Requests
  <2>3. Unsettled(r)
    BY <1>2, <1>3, <1>17, <2>2 DEF Unsettled
  <2>4. Card!Kind(r) = "start" /\ r \in Card!Confirmed
    BY <1>4, <1>5, <2>1, <2>2 DEF Card!Kind
  <2>5. CASE s # new
    BY <1>4, <1>21, <2>3, <2>4, <2>5 DEF CardInv, Covered, Card!Kind
  <2>6. CASE s = new
    <3>1. kind = "stop" /\ intents'[new].names = Carried(uncertain'.req)
      BY <1>4, <1>12, <2>6 DEF Card!Kind
    <3>2. CASE r \in {pending.req, uncertain.req}
          \/ \E x \in Card!Requests : intents[x].names = r /\ x \in {pending.req, uncertain.req}
      <4>1. r # Card!None
        BY DEF Card!Requests, Card!None
      <4>2. intents[r].names = Card!None
        BY <2>4 DEF CardInv, NamesAreOlder, Card!Kind
      <4>3. CASE Card!Busy
        <5>1. uncertain'.req = pending.req /\ Card!Kind(pending.req) # "stop"
          BY <1>3, <1>8, <3>1, <4>3
        <5>2. uncertain.req \in {Card!None, pending.req}
          BY <1>9, <4>3, <5>1 DEF CardInv, Tied
        <5>3. pending.req \in Card!Requests /\ intents[pending.req].names = Card!None
          BY <1>9, <4>3, <5>1 DEF CardInv, NamesAreOlder, Card!Kind, Card!Confirmed
        <5>4. r = pending.req
          BY <3>2, <4>1, <5>2, <5>3 DEF Card!Requests, Card!None
        <5> QED
          BY <2>6, <3>1, <4>1, <4>2, <5>1, <5>4 DEF Carried
      <4>4. CASE ~Card!Busy
        <5>1. uncertain'.req = uncertain.req /\ pending.req = Card!None
          BY <1>3, <1>9, <4>4
        <5> QED
          BY <2>6, <3>1, <3>2, <4>1, <4>2, <5>1 DEF Carried, Card!Requests, Card!None
      <4> QED
        BY <4>3, <4>4
    <3>3. CASE ~(r \in {pending.req, uncertain.req}
                 \/ \E x \in Card!Requests : intents[x].names = r /\ x \in {pending.req, uncertain.req})
      <4>1. \E p \in cardPosts : p.req = r
        BY <2>3, <3>3 DEF Unsettled
      <4>2. r \notin receipts
        BY DEF CardInv, Underway, Card!Accepted
      <4>3. Card!TakenOver(r)
        BY <2>4, <3>3, <4>1, <4>2 DEF CardInv, Card!Accounted
      <4>4. PICK x \in Card!Requests : intents[x].names = r /\ x \in receipts
        BY <3>3, <4>3 DEF Card!TakenOver
      <4>5. Card!Kind(x) = "stop" /\ row[x] # "absent"
        BY <4>4 DEF CardInv, NamesAreOlder, Underway, Card!Accepted, Card!Requests, Card!None
      <4>6. Card!Superseded(r)
        BY <4>4, <4>5 DEF Card!Superseded
      <4> QED
        BY <1>21, <4>6
    <3> QED
      BY <3>2, <3>3
  <2> QED
    BY <2>5, <2>6
<1>23. Card!StopIsLast'
  <2>1. ASSUME NEW s \in Card!Requests, NEW r \in Card!Requests,
               intents'[s].kind = "stop", row[s] # "absent", intents'[r].kind = "start", r < s, r \notin given
        PROVE  row[r] # "queued"
    BY <1>4, <1>7, <2>1 DEF CardInv, Card!StopIsLast, Card!Accepted, Card!Kind
  <2> QED
    BY <1>2, <2>1 DEF Card!StopIsLast, Card!Accepted, Card!Kind
<1>24. Card!Accounted'
  <2> SUFFICES ASSUME NEW r \in Card!Confirmed', Card!Kind(r)' = "start",
                      row[r] # "absent" \/ (\E p \in cardPosts : p.req = r)
               PROVE  r \in receipts \cup given \cup {pending'.req, uncertain'.req} \/ Card!TakenOver(r)'
    BY <1>2 DEF Card!Accounted, Card!Accepted
  <2>1. r # new /\ r \in Card!Confirmed /\ Card!Kind(r) = "start"
    BY <1>4, <1>5, <1>7 DEF Card!Kind, Card!Confirmed
  <2>2. r \in receipts \cup given \cup {pending.req, uncertain.req} \/ Card!TakenOver(r)
    BY <2>1 DEF CardInv, Card!Accounted, Card!Accepted
  <2>3. CASE ~Card!Busy
    <3>1. uncertain'.req = uncertain.req /\ pending.req = Card!None
      BY <1>3, <1>9, <2>3
    <3>2. Card!TakenOver(r) => Card!TakenOver(r)'
      BY <1>2, <1>4, <1>7, <3>1 DEF Card!TakenOver, Card!Requests, Card!None
    <3> QED
      BY <2>1, <2>2, <3>1, <3>2 DEF Card!Confirmed, Card!Requests, Card!None
  <2>4. CASE Card!Busy
    <3>1. kind = "stop" /\ uncertain'.req = pending.req /\ Card!Kind(pending.req) # "stop"
      BY <1>3, <1>8, <2>4 DEF Card!Busy
    <3>2. uncertain.req \in {Card!None, pending.req}
      BY <1>9, <2>4, <3>1 DEF CardInv, Tied
    <3>3. Card!TakenOver(r) => Card!TakenOver(r)'
      BY <1>2, <1>4, <1>7, <3>1, <3>2 DEF Card!TakenOver, Card!Requests, Card!None
    <3> QED
      BY <2>1, <2>2, <3>1, <3>2, <3>3 DEF Card!Confirmed, Card!Requests, Card!None
  <2> QED
    BY <2>3, <2>4
<1> QED
  BY <1>13, <1>14, <1>15, <1>16, <1>18, <1>19, <1>20, <1>22, <1>23, <1>24 DEF CardInv

\* The request without a receipt is sent once more.
LEMMA RetrySafe == ASSUME CardInv, Card!TypeOK', Card!Retry PROVE CardInv'
<1>1. /\ UNCHANGED <<row, number, target, cardPosts, intents, seen, receipts, given>>
      /\ pending = Card!Idle /\ uncertain # Card!Certain
      /\ Card!Send(uncertain.req, Card!Kind(uncertain.req), TRUE)
  BY DEF Card!Retry, Card!RetryEnabled, Card!Busy, Card!server, Card!history
<1>2. uncertain.req \in Card!Requests /\ uncertain.req # Card!None
  BY <1>1 DEF CardInv, SendingSound, Card!TypeOK
<1>3. /\ pending'.req = uncertain.req /\ pending'.stage = "check" /\ pending'.again = TRUE
      /\ pending'.attempt = sendings + 1 /\ pending'.answer = "none"
      /\ sendings' = sendings + 1 /\ uncertain' = uncertain
  BY <1>1 DEF Card!Send, Card!Interrupted, Card!Busy
<1>4. pending.req = Card!None
  BY <1>1, IdleCard DEF Card!None
<1>5. InOrder'
  BY <1>1 DEF CardInv, InOrder, Card!Confirmed
<1>6. sendings \in Nat /\ \A p \in cardPosts : p.attempt \in Nat /\ p.attempt <= sendings
  BY CardBounds DEF CardInv, Card!TypeOK, Card!Attempts, Underway
<1>7. Underway'
  <2>1. Card!Confirmed' = Card!Confirmed
    BY <1>1 DEF Card!Confirmed
  <2> QED
    BY <1>1, <1>3, <1>6, <2>1 DEF CardInv, Underway, Card!Accepted
<1>8. NamesAreOlder' /\ BoundAsSeen' /\ NumberedRows'
  BY <1>1 DEF CardInv, NamesAreOlder, BoundAsSeen, NumberedRows, Card!Accepted, Card!Kind
<1>9. SendingSound'
  BY <1>1, <1>2, <1>3, <1>6 DEF CardInv, SendingSound
<1>10. FirstSending' /\ Tied'
  BY <1>3 DEF FirstSending, Tied
<1>11. Covered'
  BY <1>1, <1>3, <1>4 DEF CardInv, Covered, Unsettled, Card!Superseded, Card!Kind
<1>12. Card!StopIsLast' 
  BY <1>1 DEF CardInv, Card!StopIsLast, Card!Accepted, Card!Kind
<1>13. Card!Accounted'
  <2>1. \A r \in Card!Requests : Card!TakenOver(r) => Card!TakenOver(r)'
    BY <1>1, <1>3, <1>4 DEF Card!TakenOver, Card!Requests, Card!None
  <2>2. \A r \in Card!Confirmed : r \in Card!Requests /\ r # Card!None
    BY DEF Card!Confirmed, Card!Requests, Card!None
  <2>3. Card!Confirmed' = Card!Confirmed
    BY <1>1 DEF Card!Confirmed
  <2> QED
    BY <1>1, <1>3, <1>4, <2>1, <2>2, <2>3 DEF CardInv, Card!Accounted, Card!Accepted, Card!Kind
<1> QED
  BY <1>5, <1>7, <1>8, <1>9, <1>10, <1>11, <1>12, <1>13 DEF CardInv

\* The check has passed and the command is posted.
LEMMA CheckPassesSafe == ASSUME CardInv, Card!TypeOK', Card!CheckPasses PROVE CardInv'
<1> DEFINE post == [req |-> pending.req, attempt |-> pending.attempt]
<1>1. /\ UNCHANGED <<row, number, target, intents, seen, receipts, given, uncertain, sendings>>
      /\ cardPosts' = cardPosts \cup {post} /\ pending.stage = "check"
      /\ pending' = [pending EXCEPT !.stage = "post"]
  BY DEF Card!CheckPasses, Card!server, Card!history
<1>2. /\ pending'.req = pending.req /\ pending'.stage = "post" /\ pending'.again = pending.again
      /\ pending'.attempt = pending.attempt /\ pending'.answer = pending.answer
  BY <1>1 DEF CardInv, Card!TypeOK
<1>3. /\ pending.req # Card!None /\ pending.answer = "none"
      /\ pending.attempt \in 1 .. sendings
  BY <1>1, IdleCard DEF CardInv, SendingSound
<1>4. post.req = pending.req /\ post.attempt = pending.attempt
  OBVIOUS
<1> HIDE DEF post
<1>5. pending.req \in Card!Confirmed /\ Card!Confirmed' = Card!Confirmed
  BY <1>1, <1>3 DEF CardInv, Underway, Card!Confirmed
<1>6. InOrder' /\ Underway'
  <2>1. InOrder'
    BY <1>5 DEF CardInv, InOrder
  <2>2. \A p \in cardPosts' : p.req \in Card!Confirmed' /\ p.attempt <= sendings'
    BY <1>1, <1>3, <1>4, <1>5 DEF CardInv, Underway
  <2> QED
    BY <1>1, <1>2, <1>5, <2>1, <2>2 DEF CardInv, Underway, Card!Accepted
<1>7. NamesAreOlder' /\ BoundAsSeen' /\ NumberedRows'
  BY <1>1 DEF CardInv, NamesAreOlder, BoundAsSeen, NumberedRows, Card!Accepted, Card!Kind
<1>8. SendingSound'
  <2>1. \A p \in cardPosts : p.attempt # pending.attempt
    BY <1>1 DEF CardInv, SendingSound
  <2> QED
    BY <1>1, <1>2, <1>3, <1>4, <2>1 DEF CardInv, SendingSound, Card!Accepted
<1>9. FirstSending'
  BY <1>1, <1>2, <1>3, <1>4 DEF CardInv, FirstSending, Card!Accepted
<1>10. Tied'
  BY <1>1, <1>2 DEF CardInv, Tied, Carried, Card!Kind
<1>11. Covered'
  <2>1. \A r \in Card!Requests : Unsettled(r)' => Unsettled(r)
    BY <1>1, <1>2, <1>4 DEF Unsettled
  <2> QED
    BY <1>1, <2>1 DEF CardInv, Covered, Card!Superseded, Card!Kind
<1>12. Card!StopIsLast'
  BY <1>1 DEF CardInv, Card!StopIsLast, Card!Accepted, Card!Kind
<1>13. Card!Accounted'
  <2>1. \A r \in Card!Requests : Card!TakenOver(r) => Card!TakenOver(r)'
    BY <1>1, <1>2 DEF Card!TakenOver
  <2> QED
    BY <1>1, <1>2, <1>4, <1>5, <2>1 DEF CardInv, Card!Accounted, Card!Accepted, Card!Kind, Card!Confirmed
<1> QED
  BY <1>6, <1>7, <1>8, <1>9, <1>10, <1>11, <1>12, <1>13 DEF CardInv

\* A POST is gone, and the page may have heard of it.
Heard(p, answer) ==
    /\ pending.stage = "post" /\ pending.attempt = p.attempt
    /\ pending'.req = pending.req /\ pending'.again = pending.again /\ pending'.stage = "post"
    /\ pending'.attempt = pending.attempt /\ pending'.answer = answer

\* The sending that is awaited is that of its request, and a first one has no other.
LEMMA HeardSound ==
  ASSUME CardInv, Card!TypeOK', NEW p \in cardPosts, cardPosts' = cardPosts \ {p}, UNCHANGED <<uncertain, sendings>>,
         \A r \in Card!Requests : Card!Accepted(r) => Card!Accepted(r)',
         \A r \in Card!Requests \ {p.req} : Card!Accepted(r)' => Card!Accepted(r),
         NEW answer,
         \/ pending' = pending /\ (Card!Accepted(p.req)' => Card!Accepted(p.req) \/ pending.req # p.req
                                                              \/ pending.again)
         \/ /\ Heard(p, answer)
            /\ answer = "receipt" => Card!Accepted(p.req)'
            /\ answer = "refused" => (Card!Accepted(p.req)' => Card!Accepted(p.req))
  PROVE  SendingSound' /\ FirstSending'
<1>1. \A q \in cardPosts : q.req = p.req /\ q.attempt = p.attempt => q = p
  BY DEF CardInv, Card!TypeOK
<1>2. p.req \in Card!Requests /\ pending.req \in Card!Requests \cup {Card!None}
  BY DEF CardInv, Card!TypeOK
<1>3. CASE /\ pending' = pending
           /\ Card!Accepted(p.req)' => Card!Accepted(p.req) \/ pending.req # p.req \/ pending.again
  <2>1. pending.req # Card!None => (Card!Accepted(pending.req) => Card!Accepted(pending.req)')
    BY <1>2, <1>3 DEF Card!Accepted
  <2>2. pending.req # Card!None /\ ~pending.again =>
           (Card!Accepted(pending.req)' => Card!Accepted(pending.req))
    BY <1>2, <1>3 DEF Card!Accepted
  <2>3. SendingSound'
    <3>1. pending.answer = "receipt" => Card!Accepted(pending.req)'
      <4>1. pending.answer = "receipt" => pending.req # Card!None
        BY IdleCard DEF CardInv, SendingSound
      <4> QED
        BY <2>1, <4>1 DEF CardInv, SendingSound
    <3> QED
      BY <1>3, <3>1 DEF CardInv, SendingSound, Card!Accepted
  <2>4. FirstSending'
    BY <1>3, <2>2 DEF CardInv, FirstSending, Card!Accepted
  <2> QED
    BY <2>3, <2>4
<1>4. CASE /\ Heard(p, answer)
           /\ answer = "receipt" => Card!Accepted(p.req)'
           /\ answer = "refused" => (Card!Accepted(p.req)' => Card!Accepted(p.req))
  <2>1. pending.req # Card!None /\ p.req = pending.req
    BY <1>4, IdleCard DEF Heard, CardInv, SendingSound
  <2>2. SendingSound'
    BY <1>4, <2>1 DEF Heard, CardInv, SendingSound, Card!Accepted
  <2>3. FirstSending'
    <3>1. ~pending.again => \A q \in cardPosts' : q.req # pending.req
      <4>1. ~pending.again => \A q \in cardPosts : q.req = pending.req => q.attempt = pending.attempt
        BY <2>1 DEF CardInv, FirstSending
      <4> QED
        BY <1>1, <1>4, <2>1, <4>1 DEF Heard
    <3>2. ~pending.again => ~Card!Accepted(p.req)
      BY <2>1 DEF CardInv, FirstSending
    <3> QED
      BY <1>4, <2>1, <3>1, <3>2 DEF Heard, FirstSending, Card!Accepted
  <2> QED
    BY <2>2, <2>3
<1> QED
  BY <1>3, <1>4

\* A POST that is lost, refused, or found to be a repetition.
LEMMA PostGoneSafe ==
  ASSUME CardInv, Card!TypeOK', NEW p \in cardPosts, cardPosts' = cardPosts \ {p}, NEW answer,
         UNCHANGED <<row, number, target, intents, seen, receipts, given, uncertain, sendings>>,
         pending' = pending \/ (Heard(p, answer) /\ (answer = "receipt" => Card!Accepted(p.req)))
  PROVE  CardInv'
<1>1. \A r \in Card!Requests : Card!Accepted(r)' <=> Card!Accepted(r)
  BY DEF Card!Accepted
<1>2. SendingSound' /\ FirstSending'
  <2>1. p.req \in Card!Requests
    BY DEF CardInv, Card!TypeOK
  <2> QED
    BY <1>1, <2>1, HeardSound
<1>3. pending'.req = pending.req /\ pending'.again = pending.again
  BY DEF Heard
<1>4. InOrder' /\ Underway'
  BY <1>1, <1>3 DEF CardInv, InOrder, Underway, Card!Confirmed, Card!Accepted
<1>5. NamesAreOlder' /\ BoundAsSeen' /\ NumberedRows'
  BY DEF CardInv, NamesAreOlder, BoundAsSeen, NumberedRows, Card!Accepted, Card!Kind
<1>6. Tied'
  BY <1>3 DEF CardInv, Tied, Carried, Card!Kind
<1>7. Covered'
  <2>1. \A r \in Card!Requests : Unsettled(r)' => Unsettled(r)
    BY <1>3 DEF Unsettled
  <2> QED
    BY <2>1 DEF CardInv, Covered, Card!Superseded, Card!Kind
<1>8. Card!StopIsLast'
  BY DEF CardInv, Card!StopIsLast, Card!Accepted, Card!Kind
<1>9. Card!Accounted'
  <2>1. \A r \in Card!Requests : Card!TakenOver(r) => Card!TakenOver(r)'
    BY <1>3 DEF Card!TakenOver
  <2> QED
    BY <1>3, <2>1 DEF CardInv, Card!Accounted, Card!Accepted, Card!Kind, Card!Confirmed
<1> QED
  BY <1>2, <1>4, <1>5, <1>6, <1>7, <1>8, <1>9 DEF CardInv

\* The server takes a command; a Stop takes the older ones out of delivery.
LEMMA AcceptSafe ==
  ASSUME CardInv, Card!TypeOK', NEW p \in cardPosts, cardPosts' = cardPosts \ {p},
         row[p.req] = "absent", intents[p.req].for = equipment,
         number' = [number EXCEPT ![p.req] = Card!NewestNumber + 1],
         target' = [target EXCEPT ![p.req] = equipment],
         row' = [q \in Card!Requests |->
                    IF q = p.req THEN IF Card!Superseded(p.req) THEN "cancelled" ELSE "queued"
                    ELSE IF Card!Kind(p.req) = "stop" /\ ~Card!Superseded(p.req) /\ row[q] = "queued"
                         THEN "cancelled" ELSE row[q]],
         UNCHANGED <<intents, seen, receipts, given, uncertain, sendings>>,
         \/ pending' = pending /\ (pending.stage # "post" \/ pending.attempt # p.attempt)
         \/ Heard(p, "receipt")
  PROVE  CardInv'
<1> DEFINE new == p.req
<1>1. new \in Card!Requests /\ new \in Card!Confirmed /\ row[new] = "absent"
  BY DEF CardInv, Card!TypeOK, Underway
<1>2. /\ row'[new] = IF Card!Superseded(new) THEN "cancelled" ELSE "queued"
      /\ \A q \in Card!Requests \ {new} :
            row'[q] = IF Card!Kind(new) = "stop" /\ ~Card!Superseded(new) /\ row[q] = "queued"
                      THEN "cancelled" ELSE row[q]
  BY <1>1
<1>3. /\ \A q \in Card!Requests \ {new} : number'[q] = number[q] /\ target'[q] = target[q]
      /\ target'[new] = equipment
  BY <1>1 DEF CardInv, Card!TypeOK
<1>4. intents[new].for = equipment
  OBVIOUS
<1> HIDE DEF new
<1>5. \A r \in Card!Requests : Card!Accepted(r)' <=> Card!Accepted(r) \/ r = new
  BY <1>1, <1>2 DEF Card!Accepted
<1>6. pending'.req = pending.req /\ pending'.again = pending.again
  BY DEF Heard
<1>7. SendingSound' /\ FirstSending'
  <2>1. CASE pending' = pending /\ (pending.stage # "post" \/ pending.attempt # p.attempt)
    <3>0. p.req # Card!None
      <4>1. p.req \in Card!Requests
        BY <1>1 DEF new
      <4> QED
        BY <4>1, CardBounds DEF Card!Requests, Card!None
    <3>1. pending.req # p.req \/ pending.again
      BY <1>1, <2>1, <3>0 DEF CardInv, FirstSending
    <3> QED
      BY <1>1, <1>5, <2>1, <3>1, HeardSound DEF new
  <2>2. CASE Heard(p, "receipt")
    BY <1>1, <1>5, <2>2, HeardSound DEF new
  <2> QED
    BY <2>1, <2>2
<1>8. InOrder' /\ Underway'
  <2>1. receipts \subseteq Card!Requests /\ Card!Confirmed' = Card!Confirmed
    BY DEF CardInv, Card!TypeOK, Card!Confirmed
  <2>2. \A r \in Card!Requests : row'[r] = "absent" \/ r \in Card!Confirmed
    BY <1>1, <1>5 DEF CardInv, Underway, Card!Accepted
  <2>3. \A r \in receipts' : Card!Accepted(r)'
    BY <1>5, <2>1 DEF CardInv, Underway
  <2> QED
    BY <1>6, <2>1, <2>2, <2>3 DEF CardInv, InOrder, Underway
<1>9. NamesAreOlder'
  BY DEF CardInv, NamesAreOlder, Card!Kind
<1>10. BoundAsSeen'
  <2>1. ASSUME NEW r \in Card!Requests, Card!Accepted(r)' PROVE target'[r] = seen[r]
    BY <1>1, <1>3, <1>4, <1>5, <2>1 DEF CardInv, BoundAsSeen
  <2> QED
    BY <2>1 DEF CardInv, BoundAsSeen
<1>11. NumberedRows'
  <2>1. ASSUME NEW r \in Card!Requests, row'[r] = "absent" PROVE number'[r] = 0
    BY <1>1, <1>2, <1>3, <2>1 DEF CardInv, NumberedRows
  <2> QED
    BY <2>1 DEF NumberedRows
<1>12. Tied'
  BY <1>6 DEF CardInv, Tied, Carried, Card!Kind
<1>13. \A r \in Card!Requests : Card!Superseded(r) => Card!Superseded(r)'
  <2>1. ASSUME NEW s \in Card!Requests, row[s] # "absent" PROVE row'[s] # "absent"
    BY <1>5, <2>1 DEF Card!Accepted
  <2> QED
    BY <2>1 DEF Card!Superseded, Card!Kind
<1>14. Covered'
  <2>1. \A r \in Card!Requests : /\ Unsettled(r)' => Unsettled(r)
                                 /\ row'[r] = "absent" => row[r] = "absent"
    BY <1>2, <1>5, <1>6 DEF Unsettled, Card!Accepted
  <2> QED
    BY <1>13, <2>1 DEF CardInv, Covered, Card!Kind
<1>15. Card!StopIsLast'
  <2> SUFFICES ASSUME NEW s \in Card!Requests, NEW r \in Card!Requests,
                      Card!Kind(s) = "stop", row'[s] # "absent", Card!Kind(r) = "start", r < s, r \notin given
               PROVE  row'[r] # "queued"
    BY DEF Card!StopIsLast, Card!Accepted, Card!Kind
  <2>1. CASE r = new
    <3>1. s # new /\ row[s] # "absent"
      BY <1>2, <1>5, <2>1 DEF Card!Accepted
    <3>2. Unsettled(new)
      BY DEF Unsettled, new
    <3>3. intents[s].names = new \/ Card!Superseded(new)
      BY <1>1, <2>1, <3>2 DEF CardInv, Covered
    <3>4. Card!Superseded(new)
      BY <3>1, <3>3 DEF Card!Superseded
    <3> QED
      BY <1>2, <2>1, <3>4
  <2>2. CASE r # new /\ s # new
    <3>1. row[s] # "absent"
      BY <1>5, <2>2 DEF Card!Accepted
    <3>2. row[r] # "queued"
      BY <3>1 DEF CardInv, Card!StopIsLast, Card!Accepted
    <3> QED
      BY <1>2, <2>2, <3>2
  <2>3. CASE r # new /\ s = new /\ ~Card!Superseded(new)
    BY <1>2, <2>3
  <2>4. CASE r # new /\ s = new /\ Card!Superseded(new)
    <3>1. PICK x \in Card!Requests : row[x] # "absent" /\ Card!Kind(x) = "stop" /\ intents[x].names = new
      BY <2>4 DEF Card!Superseded
    <3>2. new < x
      BY <1>1, <3>1 DEF CardInv, NamesAreOlder, Card!Requests, Card!None
    <3>3. r < x
      BY <1>1, <2>4, <3>2, CardBounds DEF Card!Requests, CardInv, Card!TypeOK
    <3>4. row[r] # "queued"
      BY <3>1, <3>3 DEF CardInv, Card!StopIsLast, Card!Accepted
    <3> QED
      BY <1>2, <2>4, <3>4
  <2> QED
    BY <2>1, <2>2, <2>3, <2>4
<1>16. Card!Accounted'
  <2>1. \A r \in Card!Requests : Card!TakenOver(r) => Card!TakenOver(r)'
    BY <1>6 DEF Card!TakenOver
  <2> SUFFICES ASSUME NEW r \in Card!Confirmed, Card!Kind(r) = "start",
                      Card!Accepted(r)' \/ (\E q \in cardPosts' : q.req = r)
               PROVE  r \in receipts \cup given \cup {pending.req, uncertain.req} \/ Card!TakenOver(r)
    BY <1>6, <2>1 DEF Card!Accounted, Card!Confirmed, Card!Kind, Card!Accepted
  <2>2. Card!Accepted(r) \/ (\E q \in cardPosts : q.req = r)
    <3>1. r \in Card!Requests
      BY DEF Card!Confirmed
    <3> QED
      BY <1>5, <3>1 DEF new
  <2> QED
    BY <2>2 DEF CardInv, Card!Accounted
<1> QED
  BY <1>7, <1>8, <1>9, <1>10, <1>11, <1>12, <1>14, <1>15, <1>16 DEF CardInv

\* The device takes a command.
LEMMA RowsTakenSafe ==
  ASSUME CardInv, Card!TypeOK',
         UNCHANGED <<number, target, cardPosts, intents, seen, receipts, given, uncertain, sendings, pending>>,
         \A q \in Card!Requests : /\ row'[q] = "absent" <=> row[q] = "absent"
                                  /\ row'[q] = "queued" => row[q] = "queued"
  PROVE  CardInv'
<1>1. \A q \in Card!Requests : Card!Accepted(q)' <=> Card!Accepted(q)
  BY DEF Card!Accepted
<1>2. InOrder' /\ Underway'
  <2>1. receipts \subseteq Card!Requests
    BY DEF CardInv, Card!TypeOK
  <2> QED
    BY <1>1, <2>1 DEF CardInv, InOrder, Underway, Card!Confirmed, Card!Accepted
<1>3. NamesAreOlder' /\ BoundAsSeen' /\ NumberedRows'
  BY <1>1 DEF CardInv, NamesAreOlder, BoundAsSeen, NumberedRows, Card!Accepted, Card!Kind
<1>4. SendingSound' /\ FirstSending'
  <2>1. pending.req # Card!None => pending.req \in Card!Requests
    BY DEF CardInv, Card!TypeOK
  <2>2. pending.answer = "receipt" => pending.req # Card!None
    BY IdleCard DEF CardInv, SendingSound
  <2> QED
    BY <1>1, <2>1, <2>2 DEF CardInv, SendingSound, FirstSending, Card!Accepted
<1>5. Tied'
  BY DEF CardInv, Tied, Carried, Card!Kind
<1>6. Covered'
  BY DEF CardInv, Covered, Unsettled, Card!Superseded, Card!Kind
<1>7. Card!StopIsLast'
  BY DEF CardInv, Card!StopIsLast, Card!Accepted, Card!Kind
<1>8. Card!Accounted'
  BY DEF CardInv, Card!Accounted, Card!TakenOver, Card!Accepted, Card!Kind, Card!Confirmed
<1> QED
  BY <1>2, <1>3, <1>4, <1>5, <1>6, <1>7, <1>8 DEF CardInv

LEMMA BackendSafe == ASSUME CardInv, Card!TypeOK', Card!Backend PROVE CardInv'
<1>0. SendingTyped
  BY CardTyped DEF CardInv
<1>1. CASE \E p \in cardPosts : Card!PostLost(p)
  <2>1. PICK p \in cardPosts : Card!PostLost(p)
    BY <1>1
  <2>2. /\ UNCHANGED <<row, number, target, intents, seen, receipts, given, uncertain, sendings, pending>>
        /\ cardPosts' = cardPosts \ {p}
    BY <2>1 DEF Card!PostLost, Card!server, Card!history
  <2> QED
    BY <2>2, PostGoneSafe
<1>2. CASE \E p \in cardPosts : Card!ServerRefuses(p)
  <2>1. PICK p \in cardPosts : Card!ServerRefuses(p)
    BY <1>2
  <2>2. PICK answer \in {"refused", "later"} : Card!Answered(p, answer)
    BY <2>1 DEF Card!ServerRefuses
  <2>3. /\ UNCHANGED <<row, number, target, intents, seen, receipts, given, uncertain, sendings>>
        /\ UNCHANGED <<cardDialog, available, late, aways>>
        /\ cardPosts' = cardPosts \ {p}
    BY <2>1 DEF Card!ServerRefuses, Card!server, Card!history
  <2>4. pending' = pending \/ Heard(p, answer)
    BY <1>0, <2>2, <2>3, AnsweredTyped DEF Heard
  <2> QED
    BY <2>3, <2>4, PostGoneSafe
<1>3. CASE \E p \in cardPosts : Card!ServerCreates(p)
  <2>1. PICK p \in cardPosts : Card!ServerCreates(p)
    BY <1>3
  <2>2. /\ UNCHANGED <<intents, seen, receipts, given, uncertain, sendings>>
        /\ UNCHANGED <<cardDialog, available, late, aways>>
        /\ cardPosts' = cardPosts \ {p}
    BY <2>1 DEF Card!ServerCreates, Card!history
  <2>3. CASE row[p.req] # "absent"
    <3>1. Card!Answered(p, "receipt") /\ UNCHANGED <<row, number, target>>
      BY <2>1, <2>3 DEF Card!ServerCreates, Card!server
    <3>2. pending' = pending \/ Heard(p, "receipt")
      BY <1>0, <2>2, <3>1, AnsweredTyped DEF Heard
    <3>3. Card!Accepted(p.req)
      BY <2>3 DEF Card!Accepted
    <3> QED
      BY <2>2, <3>1, <3>2, <3>3, PostGoneSafe
  <2>4. CASE row[p.req] = "absent" /\ intents[p.req].for # equipment
    <3>1. Card!Answered(p, "refused") /\ UNCHANGED <<row, number, target>>
      BY <2>1, <2>4 DEF Card!ServerCreates, Card!server
    <3>2. pending' = pending \/ Heard(p, "refused")
      BY <1>0, <2>2, <3>1, AnsweredTyped DEF Heard
    <3> QED
      BY <2>2, <3>1, <3>2, PostGoneSafe
  <2>5. CASE row[p.req] = "absent" /\ intents[p.req].for = equipment
    <3>1. /\ Card!Answered(p, "receipt")
          /\ number' = [number EXCEPT ![p.req] = Card!NewestNumber + 1]
          /\ target' = [target EXCEPT ![p.req] = equipment]
          /\ row' = [q \in Card!Requests |->
                        IF q = p.req THEN IF Card!Superseded(p.req) THEN "cancelled" ELSE "queued"
                        ELSE IF Card!Kind(p.req) = "stop" /\ ~Card!Superseded(p.req) /\ row[q] = "queued"
                             THEN "cancelled" ELSE row[q]]
      BY <2>1, <2>5 DEF Card!ServerCreates
    <3>2. \/ pending' = pending /\ (pending.stage # "post" \/ pending.attempt # p.attempt)
          \/ Heard(p, "receipt")
      <4>1. CASE pending.stage = "post" /\ pending.attempt = p.attempt
        <5>1. pending' = [pending EXCEPT !.answer = "receipt"]
          BY <3>1, <4>1 DEF Card!Answered
        <5> QED
          BY <1>0, <4>1, <5>1 DEF Heard, SendingTyped
      <4>2. CASE ~(pending.stage = "post" /\ pending.attempt = p.attempt)
        BY <3>1, <4>2 DEF Card!Answered
      <4> QED
        BY <4>1, <4>2
    <3> QED
      BY <2>2, <2>5, <3>1, <3>2, AcceptSafe
  <2> QED
    BY <2>3, <2>4, <2>5
<1>4. CASE \E r \in Card!Requests : Card!Deliver(r)
  <2>1. PICK r \in Card!Requests : Card!Deliver(r)
    BY <1>4
  <2>2. /\ UNCHANGED <<number, target, cardPosts, intents, seen, receipts, given, uncertain, sendings, pending>>
        /\ row[r] = "queued" /\ row' = [row EXCEPT ![r] = "taken"]
    BY <2>1 DEF Card!Deliver, Card!history
  <2>3. \A q \in Card!Requests : /\ row'[q] = "absent" <=> row[q] = "absent"
                                 /\ row'[q] = "queued" => row[q] = "queued"
    BY <2>2 DEF CardInv, Card!TypeOK
  <2> QED
    BY <2>2, <2>3, RowsTakenSafe
<1>5. CASE Card!ChangeEquipment
  <2>1. /\ UNCHANGED <<row, number, target, cardPosts, intents, seen, sendings, pending>>
        /\ UNCHANGED <<receipts, given, uncertain>>
    BY <1>5 DEF Card!ChangeEquipment, Card!server, Card!history
  <2>2. uncertain'.req = Card!None => uncertain' = Card!Certain
    BY <2>1 DEF CardInv, SendingSound
  <2> QED
    BY <2>1, <2>2, CardRests
<1> QED
  BY <1>1, <1>2, <1>3, <1>4, <1>5 DEF Card!Backend

LEMMA OnThePageSafe == ASSUME CardInv, Card!TypeOK', Card!OnThePage PROVE CardInv'
<1>0. (uncertain' = uncertain => (uncertain'.req = Card!None => uncertain' = Card!Certain))
  BY DEF CardInv, SendingSound
<1>1. CASE Card!CheckPasses
  BY <1>1, CheckPassesSafe
<1>2. CASE Card!CheckFails \/ Card!PostFails \/ Card!Refusal
  <2>1. PICK definite \in BOOLEAN :
           Card!Failed(definite) /\ (definite => pending.answer = "refused")
    BY <1>2 DEF Card!CheckFails, Card!PostFails, Card!Refusal
  <2>2. pending.req # Card!None
    BY <1>2, IdleCard DEF Card!CheckFails, Card!PostFails, Card!Refusal, CardInv, SendingSound
  <2>3. UNCHANGED <<row, number, target, cardPosts, intents, seen, sendings, receipts, given>>
    BY <1>2 DEF Card!CheckFails, Card!PostFails, Card!Refusal, Card!server, Card!history
  <2> QED
    BY <2>1, <2>2, <2>3, FailedSafe
<1>3. CASE Card!Receipt
  BY <1>3, ReceiptSafe
<1>4. CASE Card!RetryAtPasses
  <2>1. UNCHANGED <<row, number, target, cardPosts, intents, seen, sendings, pending, receipts, given>>
    BY <1>4 DEF Card!RetryAtPasses, Card!server, Card!history
  <2>2. uncertain'.req = uncertain.req /\ uncertain.wait
    BY <1>4 DEF Card!RetryAtPasses, CardInv, Card!TypeOK
  <2>3. uncertain.req # Card!None
    BY <2>2, IdleCard DEF CardInv, SendingSound
  <2> QED
    BY <2>1, <2>2, <2>3, CardRests
<1>5. CASE Card!Poll
  <2>1. UNCHANGED <<row, number, target, cardPosts, intents, seen, sendings, pending, receipts, given, uncertain>>
    BY <1>5 DEF Card!Poll, Card!server, Card!history
  <2> QED
    BY <1>0, <2>1, CardRests
<1>6. CASE \E r \in Card!Requests : Card!DeadlinePasses(r)
  <2>1. PICK r \in Card!Requests : Card!DeadlinePasses(r)
    BY <1>6
  <2>2. UNCHANGED <<row, number, target, cardPosts, intents, seen, sendings, receipts, given>>
    BY <2>1 DEF Card!DeadlinePasses, Card!server, Card!history
  <2>3. CASE pending.req = r
    <3>1. pending.req # Card!None
      BY <2>3 DEF Card!Requests, Card!None
    <3>2. Card!Failed(FALSE)
      BY <2>1, <2>3 DEF Card!DeadlinePasses
    <3> QED
      BY <2>2, <3>1, <3>2, FailedSafe
  <2>4. CASE pending.req # r
    <3>1. UNCHANGED <<pending, uncertain>>
      BY <2>1, <2>4 DEF Card!DeadlinePasses
    <3> QED
      BY <1>0, <2>2, <3>1, CardRests
  <2> QED
    BY <2>3, <2>4
<1> QED
  BY <1>1, <1>2, <1>3, <1>4, <1>5, <1>6 DEF Card!OnThePage

LEMMA OperatorSafe == ASSUME CardInv, Card!TypeOK', Card!Operator PROVE CardInv'
<1>0. (uncertain' = uncertain => (uncertain'.req = Card!None => uncertain' = Card!Certain))
  BY DEF CardInv, SendingSound
<1>1. CASE Card!CloseDialog \/ Card!ComeBack
           \/ \E kind \in Card!Kinds \cup {"retry", "discard"} : Card!OpenDialog(kind)
  <2>1. UNCHANGED <<row, number, target, cardPosts, intents, seen, sendings, pending, receipts, given, uncertain>>
    BY <1>1 DEF Card!CloseDialog, Card!ComeBack, Card!OpenDialog, Card!server, Card!history
  <2> QED
    BY <1>0, <2>1, CardRests
<1>2. CASE \E kind \in Card!Kinds : Card!Confirm(kind)
  BY <1>2, ConfirmSafe
<1>3. CASE Card!Retry
  BY <1>3, RetrySafe
<1>4. CASE Card!Discard
  BY <1>4, DiscardSafe
<1>5. CASE Card!Leave
  BY <1>5, LeaveSafe
<1>6. CASE Card!GoAway
  <2>1. UNCHANGED <<row, number, target, cardPosts, intents, seen, sendings, receipts, given>>
    BY <1>6 DEF Card!GoAway, Card!server, Card!history
  <2>2. CASE Card!Busy
    <3>1. pending.req # Card!None
      BY <2>2 DEF Card!Busy, CardInv, SendingSound
    <3>2. Card!Failed(FALSE)
      BY <1>6, <2>2 DEF Card!GoAway
    <3> QED
      BY <2>1, <3>1, <3>2, FailedSafe
  <2>3. CASE ~Card!Busy
    <3>1. UNCHANGED <<pending, uncertain>>
      BY <1>6, <2>3 DEF Card!GoAway
    <3> QED
      BY <1>0, <2>1, <3>1, CardRests
  <2> QED
    BY <2>2, <2>3
<1> QED
  BY <1>1, <1>2, <1>3, <1>4, <1>5, <1>6 DEF Card!Operator

LEMMA CardStepSafe == ASSUME CardInv, Card!Next PROVE CardInv'
<1>1. Card!TypeOK /\ InOrder /\ SendingSound /\ NumberedRows
  BY DEF CardInv
<1>2. Card!TypeOK'
  BY <1>1, OperatorTypes, OnThePageTypes, BackendTypes DEF Card!Next
<1> QED
  BY <1>2, OperatorSafe, OnThePageSafe, BackendSafe DEF Card!Next

LEMMA CardInit == ASSUME Card!Init PROVE CardInv
<1>1. \A r \in Card!Requests : /\ intents[r] = Card!NoIntent /\ row[r] = "absent" /\ number[r] = 0
                               /\ seen[r] = Card!None
  BY DEF Card!Init
<1>2. Card!NoIntent.kind = "none" /\ Card!NoIntent.names = Card!None /\ Card!NoIntent.for = Card!None
  BY DEF Card!NoIntent
<1>3. /\ cardPosts = {} /\ pending = Card!Idle /\ uncertain = Card!Certain /\ receipts = {} /\ bound \in Bounds
      /\ pending.req = Card!None /\ uncertain.req = Card!None /\ pending.answer = "none"
  BY IdleCard DEF Card!Init, Card!None
<1>4. Card!TypeOK
  <2>1. SendingTyped
    BY <1>3, CardBounds, IdleCard DEF Card!Init, SendingTyped
  <2>2. 0 \in 0 .. MaxChanges + 1 /\ 1 \in 1 .. MaxChanges + 1 /\ 0 \in 0 .. MaxRequests
    BY <1>3, CardBounds
  <2>3. Card!NoIntent \in [kind : Card!Kinds \cup {"none"}, names : Card!Requests \cup {Card!None},
                           for : 0 .. MaxChanges + 1]
    BY <2>2 DEF Card!NoIntent, Card!None
  <2>4. IntentsTyped
    BY <1>3, <2>2, <2>3 DEF Card!Init, IntentsTyped, Card!None
  <2>5. ServerTyped
    BY <1>3, <2>2 DEF Card!Init, ServerTyped, Card!None
  <2> QED
    BY <2>1, <2>4, <2>5, CardTyped
<1>5. InOrder
  <2>1. Card!Confirmed = 1 .. 0 /\ 0 \in 0 .. MaxRequests
    BY <1>1, <1>2, <1>3, CardBounds DEF Card!Confirmed
  <2> QED
    BY <2>1 DEF InOrder
<1>6. Underway /\ NamesAreOlder /\ BoundAsSeen /\ NumberedRows
  BY <1>1, <1>2, <1>3 DEF Underway, NamesAreOlder, BoundAsSeen, NumberedRows, Card!Accepted
<1>7. SendingSound /\ FirstSending /\ Tied
  BY <1>3, IdleCard DEF SendingSound, FirstSending, Tied
<1>8. Covered /\ Card!Accounted /\ Card!StopIsLast
  BY <1>1, <1>2, <1>3 DEF Covered, Card!Accounted, Card!StopIsLast, Card!Accepted, Card!Kind, Card!Confirmed
<1> QED
  BY <1>4, <1>5, <1>6, <1>7, <1>8 DEF CardInv

\* Whatever is under way of the card's requests is accounted for: a Stop names each Start before
\* it that may still reach the server.
THEOREM CardInvariant == Spec => []CardInv
<1>1. Init => CardInv
  BY CardInit DEF Init
<1>2. CardInv /\ [Next]_<<screen, scheduleVars, itemVars, rowVars, driveVars, cardVars, queryVars, accessVars>>
        => CardInv'
  <2> SUFFICES ASSUME CardInv, Next \/ UNCHANGED cardVars PROVE CardInv'
    OBVIOUS
  <2>1. CASE CardStep
    BY <2>1, CardStepSafe DEF CardStep
  <2>2. CASE UNCHANGED cardVars
    <3>1. UNCHANGED <<row, number, target, cardPosts, intents, seen, sendings, pending, receipts, given, uncertain>>
      BY <2>2 DEF cardVars
    <3>2. Card!TypeOK'
      BY <2>2 DEF cardVars, CardInv, Card!TypeOK
    <3>3. uncertain'.req = Card!None => uncertain' = Card!Certain
      BY <3>1 DEF CardInv, SendingSound
    <3> QED
      BY <3>1, <3>2, <3>3, CardRests
  <2> QED
    BY <2>1, <2>2 DEF Next, ScheduleStep, ItemStep, ListStep, DriveStep, QueryStep, MembersStep
<1> QED
  BY <1>1, <1>2, PTL DEF Spec

\* Once the server has accepted a Stop it never has a command in delivery that the same
\* operator had given before it and had not given up.
THEOREM StopsAreLast == Spec => []StopIsLast
<1>1. CardInv => StopIsLast
  BY DEF CardInv, StopIsLast
<1> QED
  BY <1>1, CardInvariant, PTL

\* No Start reaches the server behind the back of the operator.
THEOREM StartsAreAccounted == Spec => []Accounted
<1>1. CardInv => Accounted
  BY DEF CardInv, Accounted
<1> QED
  BY <1>1, CardInvariant, PTL

\* A command is bound to the equipment its operator saw.
THEOREM CommandsActOnWhatWasSeen == Spec => []ActsOnWhatWasSeen
<1>1. CardInv => ActsOnWhatWasSeen
  BY DEF CardInv, BoundAsSeen, ActsOnWhatWasSeen, Card!ActsOnWhatWasSeen
<1> QED
  BY <1>1, CardInvariant, PTL


-----------------------------------------------------------------------------
(* Live data.  An answer is given after its request was begun, so the age  *)
(* it states, counted from the beginning of the request, is never too      *)
(* small; and a page that is seen was rendered within the second.          *)

\* Nothing is of the future, and a page that is seen is of this second or the last.
ClockOrder ==
    /\ newestReading <= now
    /\ fetch.start <= now
    /\ data.receivedAt <= now
    /\ visible => now <= rendered + 1

\* An age reaches back from a moment after the request was begun.
AgeIsNotUnderstated ==
    /\ fetch.answered => fetch.start <= fetch.of + fetch.age
    /\ data.receivedAt <= data.of + data.age

PollingInv == Polling!TypeOK /\ ClockOrder /\ AgeIsNotUnderstated

LEMMA InitPolling == Polling!Init => PollingInv
BY DEF Polling!Init, PollingInv, Polling!TypeOK, ClockOrder, AgeIsNotUnderstated, Polling!NoFetch, Polling!NoData, Polling!NewBudget, Polling!Errors

LEMMA IdleType ==
  /\ Polling!NoFetch \in [on : BOOLEAN, start : Nat, answered : BOOLEAN, age : Nat, of : Nat]
  /\ Polling!NoFetch.start = 0 /\ Polling!NoFetch.answered = FALSE
BY DEF Polling!NoFetch

LEMMA BackoffType == ASSUME Polling!ConstantsAssumption, NEW n \in Nat \ {0} PROVE Polling!Backoff(n) \in Nat
<1>1. \A i \in 1 .. 6 : Polling!Doubled[i] \in Nat
  BY DEF Polling!Doubled
<1>2. (IF n < 6 THEN n ELSE 6) \in 1 .. 6
  OBVIOUS
<1>3. PICK d \in Nat : Polling!Backoff(n) = Interval * d
  BY <1>1, <1>2 DEF Polling!Backoff
<1> QED
  BY <1>3 DEF Polling!ConstantsAssumption

\* When the next refetch is due.
LEMMA DueType ==
  ASSUME Polling!ConstantsAssumption, now \in Nat, NEW b, b.next \in Nat
  PROVE  Polling!NextDue(b) \in Nat
BY DEF Polling!NextDue, Polling!Never, Polling!Later, Polling!ConstantsAssumption

LEMMA FailedType ==
  ASSUME Polling!ConstantsAssumption, Polling!TypeOK, NEW error \in Polling!Errors, NEW wait \in Nat, Polling!Failed(error, wait)
  PROVE  budget' \in [failures : Nat, error : Polling!Errors, next : Nat, retry : Nat] /\ timer' \in Nat
<1>1. Polling!Backoff(budget.failures + 1) \in Nat
  BY BackoffType DEF Polling!TypeOK
<1>2. Polling!AfterFailure(error, wait) \in [failures : Nat, error : Polling!Errors, next : Nat, retry : Nat]
  BY <1>1 DEF Polling!AfterFailure, Polling!Later, Polling!TypeOK
<1> QED
  BY <1>2, DueType DEF Polling!Failed, Polling!TypeOK

\* The request: begun, answered, used or given up.
LEMMA QueryPolling == ASSUME Polling!ConstantsAssumption, PollingInv, Polling!Query PROVE PollingInv'
<1> USE DEF PollingInv, Polling!TypeOK, ClockOrder, AgeIsNotUnderstated
<1>1. CASE Polling!Refetch
  <2>1. budget.next \in Nat
    OBVIOUS
  <2>2. Polling!NextDue(budget) \in Nat
    BY <2>1, DueType
  <2>3. timer' \in Nat
    BY <1>1, <2>2 DEF Polling!Refetch
  <2>4. CASE fetch' = fetch
    BY <1>1, <2>3, <2>4 DEF Polling!Refetch
  <2>5. CASE fetch' = Polling!Begun
    BY <1>1, <2>3, <2>5 DEF Polling!Refetch, Polling!Begun
  <2> QED
    BY <1>1, <2>4, <2>5 DEF Polling!Refetch
<1>2. CASE Polling!Refresh
  BY <1>2 DEF Polling!Refresh, Polling!Begun
<1>3. CASE Polling!Fail
  <2>1. fetch' = Polling!NoFetch /\ UNCHANGED <<now, newestReading, visible, online, poll, rendered, data>>
    BY <1>3 DEF Polling!Fail, Polling!Failed
  <2>2. budget' \in [failures : Nat, error : Polling!Errors, next : Nat, retry : Nat] /\ timer' \in Nat
    <3>1. PICK error \in Polling!Errors, wait \in Nat : Polling!Failed(error, wait)
      BY <1>3 DEF Polling!Fail, Polling!Errors, Polling!ConstantsAssumption
    <3> QED
      BY <3>1, FailedType
  <2> QED
    BY <2>1, <2>2 DEF Polling!NoFetch
<1>4. CASE Polling!Answer
  <2>1. UNCHANGED <<now, newestReading, visible, online, poll, rendered, data, budget, timer>>
    BY <1>4 DEF Polling!Answer
  <2>2. fetch' = [fetch EXCEPT !.answered = TRUE, !.age = now - newestReading, !.of = newestReading]
    BY <1>4 DEF Polling!Answer
  <2>3. now - newestReading \in Nat
    OBVIOUS
  <2>4. fetch' \in [on : BOOLEAN, start : Nat, answered : BOOLEAN, age : Nat, of : Nat]
    BY <2>2, <2>3
  <2>5. fetch'.start = fetch.start /\ fetch'.age = now - newestReading /\ fetch'.of = newestReading
    BY <2>2
  <2> QED
    BY <2>1, <2>3, <2>4, <2>5
<1>5. CASE Polling!Succeed
  <2>1. UNCHANGED <<now, newestReading, visible, online, poll, rendered>>
    BY <1>5 DEF Polling!Succeed
  <2>2. fetch' = Polling!NoFetch /\ fetch.answered
    BY <1>5 DEF Polling!Succeed
  <2>3. data' = [known |-> TRUE, receivedAt |-> fetch.start, age |-> fetch.age, of |-> fetch.of]
    BY <1>5 DEF Polling!Succeed, Polling!ReceivedAt
  <2>4. budget' = Polling!NewBudget /\ timer' \in Nat
    BY <1>5, DueType DEF Polling!Succeed, Polling!NewBudget
  <2>5. data' \in [known : BOOLEAN, receivedAt : Nat, age : Nat, of : Nat]
    BY <2>3
  <2>6. data'.receivedAt = fetch.start /\ data'.age = fetch.age /\ data'.of = fetch.of
    BY <2>3
  <2>7. budget' \in [failures : Nat, error : Polling!Errors, next : Nat, retry : Nat]
    BY <2>4 DEF Polling!NewBudget, Polling!Errors
  <2>8. /\ fetch' \in [on : BOOLEAN, start : Nat, answered : BOOLEAN, age : Nat, of : Nat]
        /\ fetch'.start = 0 /\ fetch'.answered = FALSE
    BY <2>2, IdleType
  <2> QED
    BY <2>1, <2>2, <2>4, <2>5, <2>6, <2>7, <2>8
<1> HIDE DEF PollingInv, Polling!TypeOK, ClockOrder, AgeIsNotUnderstated
<1> QED
  BY <1>1, <1>2, <1>3, <1>4, <1>5 DEF Polling!Query

\* The visitor, the network, the device and time.
LEMMA OtherPolling ==
  ASSUME Polling!ConstantsAssumption, PollingInv, Polling!Environment \/ Polling!Render \/ Polling!Tick \/ UNCHANGED queryVars
  PROVE  PollingInv'
<1> USE DEF PollingInv, Polling!TypeOK, ClockOrder, AgeIsNotUnderstated
<1>1. CASE Polling!Hide \/ Polling!Disconnect
  <2>1. UNCHANGED <<now, newestReading, poll, rendered, data, budget, timer>>
    BY <1>1 DEF Polling!Hide, Polling!Disconnect
  <2>2. visible' \in {visible, FALSE} /\ online' \in BOOLEAN
    BY <1>1 DEF Polling!Hide, Polling!Disconnect
  <2>3. /\ fetch' \in [on : BOOLEAN, start : Nat, answered : BOOLEAN, age : Nat, of : Nat]
        /\ fetch'.start = 0 /\ fetch'.answered = FALSE
    BY <1>1, IdleType DEF Polling!Hide, Polling!Disconnect
  <2>4. Polling!TypeOK'
    BY <2>1, <2>2, <2>3
  <2>5. ClockOrder'
    <3>1. CASE visible' = visible
      BY <2>1, <2>3, <3>1
    <3>2. CASE visible' = FALSE
      BY <2>1, <2>3, <3>2
    <3> QED
      BY <2>2, <3>1, <3>2
  <2>6. AgeIsNotUnderstated'
    BY <2>1, <2>3
  <2> QED
    BY <2>4, <2>5, <2>6
<1>2. CASE Polling!Show
  BY <1>2 DEF Polling!Show
<1>3. CASE Polling!Render
  BY <1>3 DEF Polling!Render
<1>4. CASE Polling!Connect
  BY <1>4 DEF Polling!Connect
<1>5. CASE Polling!SwitchPolling
  <2>1. timer' \in Nat
    BY <1>5 DEF Polling!SwitchPolling, Polling!Never, Polling!ConstantsAssumption
  <2>2. poll' \in BOOLEAN
    BY <1>5 DEF Polling!SwitchPolling
  <2> QED
    BY <1>5, <2>1, <2>2 DEF Polling!SwitchPolling
<1>6. CASE UNCHANGED queryVars
  BY <1>6 DEF queryVars
<1>7. CASE Polling!Receive
  BY <1>7 DEF Polling!Receive
<1>8. CASE Polling!Tick
  BY <1>8 DEF Polling!Tick
<1> HIDE DEF PollingInv, Polling!TypeOK, ClockOrder, AgeIsNotUnderstated
<1> QED
  BY <1>1, <1>2, <1>3, <1>4, <1>5, <1>6, <1>7, <1>8 DEF Polling!Environment

\* Whatever screen is open, the page's clock and the ages it was told are in order.
THEOREM PollingInvariant == Spec => []PollingInv
<1>1. Init => PollingInv
  BY InitPolling DEF Init
<1>2. PollingInv /\ [Next]_<<screen, scheduleVars, itemVars, rowVars, driveVars, cardVars, queryVars, accessVars>>
        => PollingInv'
  <2> SUFFICES ASSUME PollingInv, Next \/ UNCHANGED queryVars PROVE PollingInv'
    OBVIOUS
  <2>1. CASE QueryStep
    BY <2>1, QueryAssumption, QueryPolling, OtherPolling DEF QueryStep, Polling!Next
  <2>2. CASE UNCHANGED queryVars
    BY <2>2, QueryAssumption, OtherPolling
  <2> QED
    BY <2>1, <2>2 DEF Next, ScheduleStep, ItemStep, ListStep, DriveStep, CardStep, MembersStep
<1> QED
  BY <1>1, <1>2, PTL DEF Spec

\* What the page calls fresh is a reading the server received no longer than the limit
\* ago, give or take the second in which the page renders.
THEOREM FreshDataIsRecent == Spec => []FreshIsRecent
<1>1. PollingInv => FreshIsRecent
  <2> SUFFICES ASSUME PollingInv, visible, data.age + Polling!Elapsed <= StaleAfter
               PROVE  now - data.of <= StaleAfter + 1
    BY DEF FreshIsRecent, Polling!FreshIsRecent, Polling!ShownFresh, Polling!Displayed, Polling!Quality
  <2> USE QueryAssumption DEF Polling!ConstantsAssumption, PollingInv, Polling!TypeOK, ClockOrder, AgeIsNotUnderstated
  <2>1. CASE rendered > data.receivedAt
    BY <2>1 DEF Polling!Elapsed
  <2>2. CASE ~(rendered > data.receivedAt)
    BY <2>2 DEF Polling!Elapsed
  <2> QED
    BY <2>1, <2>2
<1> QED
  BY <1>1, PollingInvariant, PTL

-----------------------------------------------------------------------------
(* An incident or a notification.  Nothing is read while a request to mark *)
(* the item is under way, so the read that satisfies the page after a      *)
(* result began when every request had ended.                              *)

DeskInv ==
    /\ page.read \in Nat /\ reads \in Nat /\ page.read <= reads
    \* A request under way was made on sight of the page as it still is.
    /\ mark.answer # "none" => mark.on
    /\ mark.on => ~reading.on /\ outcome = Desk!NoOutcome /\ page.known /\ mark.read = page.read
    /\ reading.on => reading.after = marks
    \* A page newer than the one the last result was judged by.
    /\ outcome.kind # "none" => page.read <= outcome.checked \/ page.after = marks

LEMMA DeskIdle ==
  /\ Desk!NoPage.read = 0 /\ ~Desk!NoReading.on /\ ~Desk!NoMark.on /\ Desk!NoMark.answer = "none"
  /\ Desk!NoOutcome.kind = "none"
BY DEF Desk!NoPage, Desk!NoReading, Desk!NoMark, Desk!NoOutcome

LEMMA DeskInit == Desk!Init => DeskInv
BY DeskIdle DEF Desk!Init, DeskInv

LEMMA DeskReads ==
  ASSUME DeskInv,
         \/ Desk!Load \/ Desk!CheckState \/ Desk!AnswerReading \/ Desk!ReadingDone \/ Desk!RetryAccess
  PROVE  DeskInv'
<1> USE DEF DeskInv
<1>1. CASE Desk!Load \/ Desk!CheckState
  <2>1. ~mark.on /\ UNCHANGED <<page, mark, outcome, marks, reads>>
    BY <1>1 DEF Desk!Load, Desk!CheckState
  <2>2. reading' = [Desk!NoReading EXCEPT !.on = TRUE, !.after = marks]
    BY <1>1, <2>1 DEF Desk!Load, Desk!CheckState, Desk!StartReading, Desk!Ended
  <2>3. reading'.after = marks
    BY <2>2 DEF Desk!NoReading
  <2> QED
    BY <2>1, <2>3
<1>2. CASE Desk!AnswerReading
  <2>1. UNCHANGED <<page, mark, outcome, marks, reads>> /\ reading.on
    BY <1>2 DEF Desk!AnswerReading
  <2>2. reading'.after = reading.after
    BY <1>2 DEF Desk!AnswerReading
  <2> QED
    BY <2>1, <2>2
<1>3. CASE Desk!ReadingDone
  <2>1. UNCHANGED <<mark, outcome, marks>> /\ reading.on /\ ~reading'.on
    BY <1>3, DeskIdle DEF Desk!ReadingDone
  <2>2. CASE page' = [page EXCEPT !.error = TRUE] /\ reads' = reads
    <3>1. page'.read = page.read /\ page'.after = page.after
      BY <2>2
    <3>2. mark.on => page'.known
      BY <2>1
    <3> QED
      BY <2>1, <2>2, <3>1, <3>2
  <2>3. CASE page' = [known |-> TRUE, error |-> FALSE, item |-> reading.item,
                      read |-> reads + 1, after |-> reading.after] /\ reads' = reads + 1
    <3>1. page'.read = reads + 1 /\ page'.after = reading.after
      BY <2>3
    <3> QED
      BY <2>1, <2>3, <3>1
  <2> QED
    BY <1>3, <2>2, <2>3 DEF Desk!ReadingDone
<1>4. CASE Desk!RetryAccess
  BY <1>4, DeskIdle DEF Desk!RetryAccess
<1> QED
  BY <1>1, <1>2, <1>3, <1>4

\* The requests to mark the item, and what becomes of them.
LEMMA DeskMarks ==
  ASSUME DeskInv,
         \/ Desk!Acknowledge \/ Desk!MarkRead \/ Desk!Answered \/ Desk!Unanswered \/ Desk!RateLimited
         \/ Desk!RetryAtPasses \/ Desk!GoAway
  PROVE  DeskInv'
<1> USE DEF DeskInv
<1>1. CASE Desk!Acknowledge \/ Desk!MarkRead
  <2>1. ~reading.on /\ page.known /\ UNCHANGED <<page, reading, reads>> /\ outcome' = Desk!NoOutcome
    BY <1>1 DEF Desk!Acknowledge, Desk!MarkRead, Desk!CanMark, Desk!Shown, Desk!Post
  <2>2. mark' = [Desk!NoMark EXCEPT !.on = TRUE, !.read = page.read]
    BY <1>1 DEF Desk!Acknowledge, Desk!MarkRead, Desk!Post
  <2>3. mark'.on /\ mark'.read = page.read
    BY <2>2 DEF Desk!NoMark
  <2> QED
    BY <2>1, <2>3, DeskIdle
<1>2. CASE Desk!Answered
  <2>1. mark.on /\ ~mark'.on /\ mark'.answer = "none" /\ UNCHANGED <<page, marks, reads>>
    BY <1>2, DeskIdle DEF Desk!Answered
  <2>2. outcome'.checked = page.read
    BY <1>2, <2>1 DEF Desk!Answered
  <2>3. reading'.on => reading'.after = marks
    BY <1>2 DEF Desk!Answered, Desk!NoReading
  <2> QED
    BY <2>1, <2>2, <2>3
<1>3. CASE Desk!Unanswered \/ Desk!RateLimited
  <2>1. mark.on /\ ~mark'.on /\ mark'.answer = "none" /\ UNCHANGED <<page, reading, marks, reads>>
    BY <1>3, DeskIdle DEF Desk!Unanswered, Desk!RateLimited
  <2>2. outcome'.checked = page.read
    BY <1>3, <2>1 DEF Desk!Unanswered, Desk!RateLimited, Desk!Unknown
  <2> QED
    BY <2>1, <2>2
<1>4. CASE Desk!RetryAtPasses
  <2>1. UNCHANGED <<page, reading, mark, marks, reads>> /\ outcome.wait
    BY <1>4 DEF Desk!RetryAtPasses
  <2>2. outcome'.kind = outcome.kind /\ outcome'.checked = outcome.checked
    BY <1>4 DEF Desk!RetryAtPasses
  <2>3. ~mark.on
    BY <2>1 DEF Desk!NoOutcome
  <2> QED
    BY <2>1, <2>2, <2>3
<1>5. CASE Desk!GoAway
  <2>1. ~reading'.on /\ ~mark'.on /\ mark'.answer = "none" /\ UNCHANGED <<page, marks, reads>>
    BY <1>5, DeskIdle DEF Desk!GoAway
  <2>2. CASE mark.on
    BY <1>5, <2>1, <2>2 DEF Desk!GoAway, Desk!Unknown
  <2>3. CASE ~mark.on
    BY <1>5, <2>1, <2>3 DEF Desk!GoAway
  <2> QED
    BY <2>2, <2>3
<1> QED
  BY <1>1, <1>2, <1>3, <1>4, <1>5

\* The dialog, the server and the world outside.
LEMMA DeskRest ==
  ASSUME DeskInv,
         \/ Desk!OpenDialog \/ Desk!CloseDialog \/ Desk!ComeBack \/ Desk!Elsewhere
         \/ \E nr \in posts : Desk!ServerAcknowledges(nr) \/ Desk!ServerMarksRead(nr)
         \/ UNCHANGED itemVars
  PROVE  DeskInv' /\ marks' = marks
<1>1. UNCHANGED <<page, reading, outcome, marks, reads>>
  BY DEF Desk!OpenDialog, Desk!CloseDialog, Desk!ComeBack, Desk!Elsewhere, Desk!ServerAcknowledges,
         Desk!ServerMarksRead, itemVars
<1>2. mark'.on = mark.on /\ mark'.read = mark.read /\ (mark'.answer # "none" => mark' = mark \/ mark.on)
  <2>1. CASE mark' = mark
    BY <2>1
  <2>2. ASSUME NEW nr \in posts, NEW answer \in {"denied", "confirmed", "conflict"}, Desk!Tell(nr, answer)
        PROVE  mark'.on = mark.on /\ mark'.read = mark.read /\ (mark'.answer # "none" => mark' = mark \/ mark.on)
    BY <2>2 DEF Desk!Tell
  <2>3. \/ mark' = mark
        \/ \E nr \in posts, answer \in {"denied", "confirmed", "conflict"} : Desk!Tell(nr, answer)
    BY DEF Desk!OpenDialog, Desk!CloseDialog, Desk!ComeBack, Desk!Elsewhere, Desk!ServerAcknowledges,
           Desk!ServerMarksRead, itemVars
  <2> QED
    BY <2>1, <2>2, <2>3
<1> QED
  BY <1>1, <1>2 DEF DeskInv

\* A request is made on sight of the item.
LEMMA MarkedOnSight ==
  ASSUME DeskInv, Desk!Acknowledge \/ Desk!MarkRead
  PROVE  page.known /\ (outcome.kind \in {"uncertain", "conflict"} => page.after = marks)
<1>1. page.known /\ ~Desk!NeedsCheck
  BY DEF Desk!Acknowledge, Desk!MarkRead, Desk!CanMark, Desk!Shown
<1>2. CASE outcome.kind \in {"uncertain", "conflict"}
  <2>1. ~(page.read <= outcome.checked)
    BY <1>1, <1>2 DEF Desk!NeedsCheck
  <2> QED
    BY <1>1, <1>2, <2>1 DEF DeskInv
<1> QED
  BY <1>1, <1>2

\* No request to mark an item is under way while the page reads, and the page that is judged
\* after a result was read after every request had ended.
THEOREM DeskInvariant == Spec => []DeskInv
<1>1. Init => DeskInv
  BY DeskInit DEF Init
<1>2. DeskInv /\ [Next]_<<screen, scheduleVars, itemVars, rowVars, driveVars, cardVars, queryVars, accessVars>>
        => DeskInv'
  <2> SUFFICES ASSUME DeskInv, Next \/ UNCHANGED itemVars PROVE DeskInv'
    OBVIOUS
  <2>1. CASE ItemStep
    BY <2>1, DeskReads, DeskMarks, DeskRest DEF ItemStep, Desk!Next
  <2>2. CASE UNCHANGED itemVars
    BY <2>2, DeskRest
  <2> QED
    BY <2>1, <2>2 DEF Next, ScheduleStep, ListStep, DriveStep, CardStep, QueryStep, MembersStep
<1> QED
  BY <1>1, <1>2, PTL DEF Spec

\* An incident whose confirmation may have arrived, or a notification that may be marked,
\* is marked again only on sight of the item as it was read after the last request had
\* ended.
THEOREM MarksAreRepeatedOnSight == Spec => RepeatedOnSight
<1> DEFINE OnSight == marks' # marks =>
          /\ page.known
          /\ outcome.kind \in {"uncertain", "conflict"} => page.after = marks
<1>1. DeskInv /\ [Next]_<<screen, scheduleVars, itemVars, rowVars, driveVars, cardVars, queryVars, accessVars>>
        => [OnSight]_(Desk!deskVars)
  <2> SUFFICES ASSUME DeskInv, Next \/ UNCHANGED itemVars, marks' # marks PROVE OnSight
    BY DEF Desk!deskVars
  <2>1. CASE Desk!Acknowledge \/ Desk!MarkRead
    BY <2>1, MarkedOnSight
  <2>2. CASE UNCHANGED itemVars
    BY <2>2 DEF itemVars
  <2>3. CASE ItemStep /\ ~(Desk!Acknowledge \/ Desk!MarkRead)
    <3>1. \/ Desk!Load \/ Desk!CheckState \/ Desk!AnswerReading \/ Desk!ReadingDone \/ Desk!RetryAccess
          \/ Desk!Answered \/ Desk!Unanswered \/ Desk!RateLimited \/ Desk!RetryAtPasses \/ Desk!GoAway
      BY <2>3, DeskRest DEF ItemStep, Desk!Next
    <3>2. marks' = marks
      BY <3>1 DEF Desk!Load, Desk!CheckState, Desk!AnswerReading, Desk!ReadingDone, Desk!RetryAccess,
                  Desk!Answered, Desk!Unanswered, Desk!RateLimited, Desk!RetryAtPasses, Desk!GoAway
    <3> QED
      BY <3>2
  <2> QED
    BY <2>1, <2>2, <2>3 DEF Next, ScheduleStep, ListStep, DriveStep, CardStep, QueryStep, MembersStep
<1> QED
  BY <1>1, DeskInvariant, PTL DEF Spec, RepeatedOnSight, Desk!RepeatedOnSight

-----------------------------------------------------------------------------
(* The journal of commands.  A page is read from the last row of the page  *)
(* before, so that the rows that are added at the head do not move it.     *)
(* What an answer holds depends on the cursor it was asked with alone; the *)
(* invariant follows it from the request to the page, and the cursors from *)
(* the page to the next request.                                           *)

Moments == Nat \ {0}
Selections == [page : {0}, filter : {"all"}, cursors : Seq(Moments)]

\* Rows one after another; those right before the cursor, when there is one.
Consecutive(rows) ==
    /\ rows \in Seq(Moments)
    /\ \A i \in DOMAIN rows : rows[i] = rows[1] + 1 - i
BeforeCursor(sel, rows) ==
    sel.cursors # <<>> => \A i \in DOMAIN rows : rows[i] = Rows!Last(sel.cursors) - i

\* Between two cursors lies exactly one page.
APageApart(cursors) ==
    \A k \in 1 .. Len(cursors) - 1 : cursors[k + 1] = cursors[k] - Page

JournalTyped ==
    /\ selection \in Selections
    /\ asked \in [on : BOOLEAN, of : Selections, answered : BOOLEAN, rows : Seq(Moments)]
    /\ shown \in [known : BOOLEAN, error : BOOLEAN, of : Selections, rows : Seq(Moments)]

JournalInv ==
    /\ newest \in Nat /\ list \in Rows!Lists
    /\ list = Rows!CommandJournal =>
        /\ JournalTyped
        /\ Consecutive(asked.rows) /\ BeforeCursor(asked.of, asked.rows)
        /\ Consecutive(shown.rows) /\ BeforeCursor(shown.of, shown.rows)
        /\ APageApart(selection.cursors)

LEMMA JournalCounts == \A S : Rows!Cardinality(S) = Cardinality(S)
BY DEF Rows!Cardinality, Cardinality

\* As many rows are newer than a row of the journal as were added after it.
LEMMA NewerRows ==
  ASSUME NEW n \in Nat, NEW v \in 1 .. n
  PROVE  Rows!Cardinality({r \in 1 .. n : r > v}) = n - v
<1>1. {r \in 1 .. n : r > v} = (v + 1) .. n
  OBVIOUS
<1>2. Cardinality((v + 1) .. n) = n - v
  <2>1. v + 1 \in Int /\ n \in Int
    OBVIOUS
  <2>2. Cardinality((v + 1) .. n) = IF v + 1 > n THEN 0 ELSE n - (v + 1) + 1
    BY <2>1, FS_Interval
  <2> QED
    BY <2>2
<1> QED
  BY <1>1, <1>2, JournalCounts

\* The rows of a journal of n are n, n - 1, .. 1.
LEMMA RowsAre ==
  ASSUME NEW n \in Nat
  PROVE  /\ Rows!Rows(1 .. n) \in Seq(Moments)
         /\ Len(Rows!Rows(1 .. n)) = n
         /\ \A i \in 1 .. n : Rows!Rows(1 .. n)[i] = n + 1 - i
<1> DEFINE Nth(i) == CHOOSE v \in 1 .. n : Rows!Cardinality({r \in 1 .. n : r > v}) = i - 1
<1>1. Rows!Cardinality(1 .. n) = n
  <2>1. Cardinality(1 .. n) = IF 1 > n THEN 0 ELSE n - 1 + 1
    BY FS_Interval
  <2> QED
    BY <2>1, JournalCounts
<1>2. Rows!Rows(1 .. n) = [i \in 1 .. n |-> Nth(i)]
  BY <1>1 DEF Rows!Rows
<1>3. ASSUME NEW i \in 1 .. n PROVE Nth(i) = n + 1 - i
  <2>1. n + 1 - i \in 1 .. n /\ Rows!Cardinality({r \in 1 .. n : r > n + 1 - i}) = i - 1
    BY NewerRows
  <2>2. ASSUME NEW v \in 1 .. n, Rows!Cardinality({r \in 1 .. n : r > v}) = i - 1 PROVE v = n + 1 - i
    BY <2>2, NewerRows
  <2> QED
    BY <2>1, <2>2
<1> HIDE DEF Nth
<1>4. \A i \in 1 .. n : Nth(i) \in Moments
  BY <1>3 DEF Moments
<1> QED
  BY <1>2, <1>3, <1>4

\* The first rows of a list.
LEMMA FirstRows ==
  ASSUME NEW S, NEW s \in Seq(S), NEW n \in Nat
  PROVE  /\ Rows!Slice(s, 1, n) \in Seq(S)
         /\ Len(Rows!Slice(s, 1, n)) = IF Len(s) < n THEN Len(s) ELSE n
         /\ \A i \in 1 .. Len(Rows!Slice(s, 1, n)) : Rows!Slice(s, 1, n)[i] = s[i]
<1>1. PICK len \in Nat : len = Len(s)
  BY LenProperties
<1>2. PICK m \in Nat : m = (IF len < n THEN len ELSE n)
  OBVIOUS
<1>3. \A i \in 1 .. m : s[i] \in S
  BY <1>1, <1>2, ElementOfSeq
<1>4. Rows!Slice(s, 1, n) = SubSeq(s, 1, m)
  BY <1>1, <1>2 DEF Rows!Slice
<1>5. /\ SubSeq(s, 1, m) \in Seq(S)
      /\ Len(SubSeq(s, 1, m)) = m
      /\ \A i \in 1 .. m : SubSeq(s, 1, m)[i] = s[i]
  BY <1>3, SubSeqProperties
<1> QED
  BY <1>1, <1>2, <1>4, <1>5

\* The server answers a cursor with the rows right before it.
LEMMA CursorAnswered ==
  ASSUME Rows!ConstantsAssumption, newest \in Nat, NEW sel \in Selections
  PROVE  Consecutive(Rows!FromCursor(sel)) /\ BeforeCursor(sel, Rows!FromCursor(sel))
<1> DEFINE n == IF sel.cursors = <<>> THEN newest ELSE Rows!Last(sel.cursors) - 1
           rows == Rows!FromCursor(sel)
<1>1. n \in Nat /\ Page + 1 \in Nat
  <2>1. sel.cursors \in Seq(Moments)
    BY DEF Selections
  <2>2. CASE sel.cursors # <<>>
    <3>1. Len(sel.cursors) \in Nat \ {0}
      BY <2>1, <2>2, EmptySeq
    <3>2. Rows!Last(sel.cursors) \in Moments
      BY <2>1, <3>1, ElementOfSeq DEF Rows!Last
    <3> QED
      BY <2>2, <3>2 DEF Moments, Rows!ConstantsAssumption
  <2> QED
    BY <2>2 DEF Rows!ConstantsAssumption
<1>2. rows = Rows!Slice(Rows!Rows(1 .. n), 1, Page + 1)
  <2>1. CASE sel.cursors = <<>>
    BY <2>1, newest + 1 - 1 = newest DEF Rows!FromCursor
  <2>2. CASE sel.cursors # <<>>
    BY <2>2 DEF Rows!FromCursor
  <2> QED
    BY <2>1, <2>2
<1> HIDE DEF n, rows
<1>3. /\ rows \in Seq(Moments) /\ Len(rows) <= n
      /\ \A i \in 1 .. Len(rows) : rows[i] = Rows!Rows(1 .. n)[i]
  <2>1. /\ Rows!Rows(1 .. n) \in Seq(Moments)
        /\ Len(Rows!Rows(1 .. n)) = n
    BY <1>1, RowsAre
  <2>2. /\ rows \in Seq(Moments)
        /\ Len(rows) = IF n < Page + 1 THEN n ELSE Page + 1
        /\ \A i \in 1 .. Len(rows) : rows[i] = Rows!Rows(1 .. n)[i]
    BY <1>1, <1>2, <2>1, FirstRows
  <2> QED
    BY <1>1, <2>2
<1>4. Len(rows) \in Nat /\ DOMAIN rows = 1 .. Len(rows)
  BY <1>3, LenProperties
<1>5. \A i \in DOMAIN rows : rows[i] = n + 1 - i
  <2> SUFFICES ASSUME NEW i \in DOMAIN rows PROVE rows[i] = n + 1 - i
    OBVIOUS
  <2>1. i \in 1 .. n
    BY <1>1, <1>3, <1>4
  <2> QED
    BY <1>1, <1>3, <1>4, <2>1, RowsAre
<1>6. Consecutive(rows)
  <2>1. \A i \in DOMAIN rows : i \in Nat /\ 1 \in DOMAIN rows
    BY <1>4
  <2> QED
    BY <1>1, <1>3, <1>5, <2>1 DEF Consecutive
<1>7. BeforeCursor(sel, rows)
  <2> SUFFICES ASSUME sel.cursors # <<>>, NEW i \in DOMAIN rows PROVE rows[i] = Rows!Last(sel.cursors) - i
    BY DEF BeforeCursor
  <2>1. n = Rows!Last(sel.cursors) - 1 /\ i \in Nat
    BY <1>4 DEF n
  <2>2. Rows!Last(sel.cursors) \in Int
    <3>1. sel.cursors \in Seq(Moments) /\ Len(sel.cursors) \in Nat \ {0}
      BY EmptySeq DEF Selections
    <3> QED
      BY <3>1, ElementOfSeq DEF Rows!Last, Moments
  <2> QED
    BY <1>5, <2>1, <2>2
<1> QED
  BY <1>6, <1>7 DEF rows

LEMMA JournalIs ==
  /\ \A l \in Rows!Lists : l.cursor => l = Rows!CommandJournal
  /\ Rows!CommandJournal \in Rows!Lists
  /\ Rows!CommandJournal.cursor /\ ~Rows!CommandJournal.filters /\ ~Rows!CommandJournal.home
  /\ Rows!CommandJournal.peeks
<1>1. ~Rows!Directory.cursor /\ ~Rows!DevicePages.cursor /\ ~Rows!DeviceChooser.cursor
  BY DEF Rows!Directory, Rows!DevicePages, Rows!DeviceChooser, Rows!Plain
<1>2. ~Rows!TransitionHistory.cursor /\ ~Rows!DeviceAlarms.cursor
  BY DEF Rows!TransitionHistory, Rows!DeviceAlarms, Rows!Plain
<1>3. ~Rows!Feed.cursor /\ ~Rows!DeviceEvents.cursor
  BY DEF Rows!Feed, Rows!DeviceEvents, Rows!Plain
<1>4. /\ Rows!CommandJournal.cursor /\ ~Rows!CommandJournal.filters /\ ~Rows!CommandJournal.home
      /\ Rows!CommandJournal.peeks
  BY DEF Rows!CommandJournal, Rows!Plain
<1> QED
  BY <1>1, <1>2, <1>3, <1>4 DEF Rows!Lists

\* A page that is not read yet.
LEMMA NothingListed ==
  /\ Rows!Start \in Selections /\ Rows!Start.cursors = <<>>
  /\ Rows!NotAsked \in [on : BOOLEAN, of : Selections, answered : BOOLEAN, rows : Seq(Moments)]
  /\ Rows!NotShown \in [known : BOOLEAN, error : BOOLEAN, of : Selections, rows : Seq(Moments)]
  /\ Rows!NotAsked.rows = <<>> /\ Rows!NotShown.rows = <<>>
  /\ Consecutive(<<>>) /\ \A sel : BeforeCursor(sel, <<>>)
  /\ APageApart(<<>>)
<1>1. <<>> \in Seq(Moments) /\ Len(<<>>) = 0 /\ DOMAIN <<>> = {}
  <2>1. <<>> \in Seq(Moments) /\ Len(<<>>) = 0
    BY EmptySeq
  <2>2. DOMAIN <<>> = 1 .. 0
    BY <2>1, LenProperties
  <2> QED
    BY <2>1, <2>2
<1>2. Rows!Start \in Selections /\ Rows!Start.cursors = <<>>
  BY <1>1 DEF Rows!Start, Selections
<1>3. Rows!NotAsked \in [on : BOOLEAN, of : Selections, answered : BOOLEAN, rows : Seq(Moments)]
  BY <1>1, <1>2 DEF Rows!NotAsked
<1>4. Rows!NotShown \in [known : BOOLEAN, error : BOOLEAN, of : Selections, rows : Seq(Moments)]
  BY <1>1, <1>2 DEF Rows!NotShown
<1>5. Rows!NotAsked.rows = <<>> /\ Rows!NotShown.rows = <<>>
  BY DEF Rows!NotAsked, Rows!NotShown
<1>6. Consecutive(<<>>) /\ \A sel : BeforeCursor(sel, <<>>)
  BY <1>1 DEF Consecutive, BeforeCursor
<1>7. APageApart(<<>>)
  BY <1>1 DEF APageApart
<1> QED
  BY <1>2, <1>3, <1>4, <1>5, <1>6, <1>7

LEMMA JournalInit == ASSUME Rows!ConstantsAssumption, Rows!Init PROVE JournalInv
<1> QED
  BY NothingListed DEF Rows!Init, JournalInv, JournalTyped, Rows!ConstantsAssumption

\* The requests and their answers.
LEMMA JournalReads ==
  ASSUME Rows!ConstantsAssumption, JournalInv,
         Rows!Load \/ Rows!Reload \/ Rows!Answer \/ Rows!Received \/ Rows!Leave
  PROVE  JournalInv'
<1>1. list' = list /\ newest' = newest /\ selection' = selection
  BY DEF Rows!Load, Rows!Reload, Rows!Answer, Rows!Received, Rows!Leave
<1> SUFFICES ASSUME list = Rows!CommandJournal
             PROVE  /\ JournalTyped'
                    /\ (Consecutive(asked.rows) /\ BeforeCursor(asked.of, asked.rows))'
                    /\ (Consecutive(shown.rows) /\ BeforeCursor(shown.of, shown.rows))'
  BY <1>1 DEF JournalInv
<1> DEFINE Askings == [on : BOOLEAN, of : Selections, answered : BOOLEAN, rows : Seq(Moments)]
<1>2. /\ selection \in Selections /\ asked \in Askings
      /\ shown \in [known : BOOLEAN, error : BOOLEAN, of : Selections, rows : Seq(Moments)]
      /\ Consecutive(asked.rows) /\ BeforeCursor(asked.of, asked.rows)
      /\ Consecutive(shown.rows) /\ BeforeCursor(shown.of, shown.rows)
      /\ newest \in Nat
  BY DEF JournalInv, JournalTyped
<1>3. CASE Rows!Load \/ Rows!Reload
  <2>1. shown' = shown /\ asked' = [Rows!NotAsked EXCEPT !.on = TRUE, !.of = selection]
    BY <1>3 DEF Rows!Load, Rows!Reload, Rows!Ask
  <2>2. asked' \in Askings /\ asked'.rows = <<>>
    BY <1>2, <2>1, NothingListed
  <2> QED
    BY <1>1, <1>2, <2>1, <2>2, NothingListed DEF JournalTyped
<1>4. CASE Rows!Answer
  <2> DEFINE rows == Rows!FromCursor(asked.of)
  <2>1. shown' = shown /\ asked' = [asked EXCEPT !.answered = TRUE, !.rows = rows]
    BY <1>4, JournalIs DEF Rows!Answer, Rows!Requested
  <2>2. asked.of \in Selections
    BY <1>2
  <2>3. Consecutive(rows) /\ BeforeCursor(asked.of, rows)
    BY <1>2, <2>2, CursorAnswered
  <2>4. rows \in Seq(Moments)
    BY <2>3 DEF Consecutive
  <2> HIDE DEF rows
  <2>5. asked' \in Askings /\ asked'.rows = rows /\ asked'.of = asked.of
    BY <1>2, <2>1, <2>4
  <2> QED
    BY <1>1, <1>2, <2>1, <2>3, <2>5 DEF JournalTyped
<1>5. CASE Rows!Received
  <2>1. asked' = Rows!NotAsked
    BY <1>5 DEF Rows!Received
  <2>2. CASE shown' = [known |-> TRUE, error |-> FALSE, of |-> asked.of, rows |-> asked.rows]
    <3>1. /\ shown' \in [known : BOOLEAN, error : BOOLEAN, of : Selections, rows : Seq(Moments)]
          /\ shown'.of = asked.of /\ shown'.rows = asked.rows
      BY <1>2, <2>2
    <3> QED
      BY <1>1, <1>2, <2>1, <3>1, NothingListed DEF JournalTyped
  <2>3. CASE shown' = [Rows!NotShown EXCEPT !.error = TRUE, !.of = asked.of]
    <3>1. /\ shown' \in [known : BOOLEAN, error : BOOLEAN, of : Selections, rows : Seq(Moments)]
          /\ shown'.rows = <<>>
      BY <1>2, <2>3, NothingListed
    <3> QED
      BY <1>1, <1>2, <2>1, <3>1, NothingListed DEF JournalTyped
  <2> QED
    BY <1>5, <2>2, <2>3 DEF Rows!Received
<1>6. CASE Rows!Leave
  <2>1. shown' = shown /\ asked' = Rows!NotAsked
    BY <1>6 DEF Rows!Leave
  <2> QED
    BY <1>1, <1>2, <2>1, NothingListed DEF JournalTyped
<1> QED
  BY <1>3, <1>4, <1>5, <1>6

\* A page that was selected is asked for anew, unless it is the one on the page.
LEMMA JournalSelected ==
  ASSUME JournalInv, list = Rows!CommandJournal,
         NEW sel \in Selections, APageApart(sel.cursors), Rows!Select(sel)
  PROVE  JournalInv'
<1>1. /\ list' = list /\ newest' = newest /\ selection' = sel /\ asked' = Rows!NotAsked
      /\ shown' = shown \/ shown' = Rows!NotShown
  BY DEF Rows!Select
<1>2. CASE shown' = shown
  BY <1>1, <1>2, NothingListed DEF JournalInv, JournalTyped
<1>3. CASE shown' = Rows!NotShown
  BY <1>1, <1>3, NothingListed DEF JournalInv, JournalTyped
<1> QED
  BY <1>1, <1>2, <1>3

\* The last row on a full page that began right before a cursor is a page from it.
LEMMA LastOnThePage ==
  ASSUME Rows!ConstantsAssumption, JournalInv, list = Rows!CommandJournal, Rows!More
  PROVE  /\ Rows!Last(Rows!OnThePage) \in Moments
         /\ shown.of.cursors # <<>> =>
               Rows!Last(Rows!OnThePage) = Rows!Last(shown.of.cursors) - Page
<1>1. /\ shown.rows \in Seq(Moments) /\ BeforeCursor(shown.of, shown.rows)
  BY DEF JournalInv, Consecutive
<1>2. Page \in Nat \ {0} /\ Len(shown.rows) > Page
  BY JournalIs DEF Rows!More, Rows!ConstantsAssumption
<1>3. /\ Rows!OnThePage \in Seq(Moments)
      /\ Len(Rows!OnThePage) = IF Len(shown.rows) < Page THEN Len(shown.rows) ELSE Page
      /\ \A i \in 1 .. Len(Rows!OnThePage) : Rows!OnThePage[i] = shown.rows[i]
  BY <1>1, <1>2, FirstRows DEF Rows!OnThePage
<1>4. Len(shown.rows) \in Nat /\ DOMAIN shown.rows = 1 .. Len(shown.rows)
  BY <1>1, LenProperties
<1>5. Len(Rows!OnThePage) = Page /\ Page \in 1 .. Page /\ Page \in DOMAIN shown.rows
  BY <1>2, <1>3, <1>4
<1>6. Rows!Last(Rows!OnThePage) = shown.rows[Page]
  BY <1>3, <1>5 DEF Rows!Last
<1>7. shown.rows[Page] \in Moments
  BY <1>1, <1>4, <1>5, ElementOfSeq
<1> QED
  BY <1>1, <1>5, <1>6, <1>7 DEF BeforeCursor

\* Turning the pages of the journal.
LEMMA JournalTurns ==
  ASSUME Rows!ConstantsAssumption, JournalInv, Rows!Older \/ Rows!Newer
  PROVE  JournalInv'
<1>1. list = Rows!CommandJournal
  BY JournalIs DEF JournalInv, Rows!Older, Rows!Newer
<1> DEFINE c == selection.cursors
<1>2. c \in Seq(Moments) /\ selection \in Selections /\ APageApart(c)
  BY <1>1 DEF JournalInv, JournalTyped, Selections
<1>3. PICK n \in Nat : n = Len(c)
  BY <1>2, LenProperties
<1>4. CASE Rows!Older
  <2> DEFINE v == Rows!Last(Rows!OnThePage)
             sel == [selection EXCEPT !.cursors = Append(@, v)]
  <2>1. Rows!Ready /\ Rows!More /\ Rows!Select(sel)
    BY <1>4 DEF Rows!Older
  <2>2. v \in Moments /\ (c # <<>> => v = Rows!Last(c) - Page)
    BY <1>1, <2>1, LastOnThePage DEF Rows!Ready
  <2> HIDE DEF v
  <2>3. /\ Append(c, v) \in Seq(Moments) /\ Len(Append(c, v)) = n + 1
        /\ \A k \in 1 .. n : Append(c, v)[k] = c[k]
        /\ Append(c, v)[n + 1] = v
    BY <1>2, <1>3, <2>2, AppendProperties
  <2>4. APageApart(Append(c, v))
    <3> SUFFICES ASSUME NEW k \in 1 .. n PROVE Append(c, v)[k + 1] = Append(c, v)[k] - Page
      BY <2>3 DEF APageApart
    <3>1. CASE k = n
      <4>1. c # <<>> /\ Rows!Last(c) = c[n]
        BY <1>2, <1>3, <3>1, EmptySeq DEF Rows!Last
      <4> QED
        BY <2>2, <2>3, <3>1, <4>1
    <3>2. CASE k # n
      <4>1. k \in 1 .. Len(c) - 1 /\ k + 1 \in 1 .. n
        BY <1>3, <3>2
      <4> QED
        BY <1>2, <2>3, <4>1 DEF APageApart
    <3> QED
      BY <3>1, <3>2
  <2>5. sel \in Selections /\ sel.cursors = Append(c, v)
    BY <1>2, <2>3 DEF Selections
  <2> HIDE DEF sel
  <2> QED
    BY <1>1, <2>1, <2>4, <2>5, JournalSelected
<1>5. CASE Rows!Newer
  <2> DEFINE sel == [selection EXCEPT !.cursors = Rows!Front(@)]
  <2>1. Rows!Select(sel) /\ c # <<>>
    BY <1>5 DEF Rows!Newer
  <2>2. n # 0
    BY <1>2, <1>3, <2>1, EmptySeq
  <2>3. /\ Rows!Front(c) \in Seq(Moments) /\ Len(Rows!Front(c)) = n - 1
        /\ \A k \in 1 .. n - 1 : Rows!Front(c)[k] = c[k]
    <3>1. \A k \in 1 .. n - 1 : c[k] \in Moments
      BY <1>2, <1>3, ElementOfSeq
    <3>2. Rows!Front(c) = SubSeq(c, 1, n - 1) /\ n - 1 \in Int
      BY <1>3 DEF Rows!Front
    <3>3. /\ SubSeq(c, 1, n - 1) \in Seq(Moments)
          /\ Len(SubSeq(c, 1, n - 1)) = IF 1 <= n - 1 THEN n - 1 - 1 + 1 ELSE 0
          /\ \A k \in 1 .. n - 1 - 1 + 1 : SubSeq(c, 1, n - 1)[k] = c[1 + k - 1]
      BY <3>1, <3>2, SubSeqProperties
    <3>4. \A k \in 1 .. n - 1 : SubSeq(c, 1, n - 1)[k] = c[k]
      BY <3>3
    <3> QED
      BY <2>2, <3>2, <3>3, <3>4
  <2>4. APageApart(Rows!Front(c))
    <3> SUFFICES ASSUME NEW k \in 1 .. n - 1 - 1 PROVE Rows!Front(c)[k + 1] = Rows!Front(c)[k] - Page
      BY <2>3 DEF APageApart
    <3>1. k \in 1 .. n - 1 /\ k + 1 \in 1 .. n - 1 /\ k \in 1 .. Len(c) - 1
      BY <1>3
    <3> QED
      BY <1>2, <2>3, <3>1 DEF APageApart
  <2>5. sel \in Selections /\ sel.cursors = Rows!Front(c)
    BY <1>2, <2>3 DEF Selections
  <2> HIDE DEF sel
  <2> QED
    BY <1>1, <2>1, <2>4, <2>5, JournalSelected
<1> QED
  BY <1>4, <1>5

\* What the other lists do, and the server.
LEMMA JournalRest ==
  ASSUME JournalInv,
         \/ Rows!Turn \/ Rows!Filter \/ Rows!FirstPage
         \/ Rows!TakeNext \/ Rows!RetryPresence \/ \E i \in presence.busy : Rows!Present(i)
         \/ Rows!Grow \/ Rows!Close \/ Rows!Move
         \/ UNCHANGED rowVars
  PROVE  JournalInv'
<1>1. CASE Rows!Turn \/ Rows!Filter \/ Rows!FirstPage
  <2>1. list' = list /\ newest' = newest
    BY <1>1 DEF Rows!Turn, Rows!Filter, Rows!FirstPage, Rows!Select
  <2>2. list # Rows!CommandJournal
    BY <1>1, JournalIs DEF Rows!Turn, Rows!Filter, Rows!FirstPage
  <2> QED
    BY <2>1, <2>2 DEF JournalInv
<1>2. CASE ~(Rows!Turn \/ Rows!Filter \/ Rows!FirstPage)
  <2>1. UNCHANGED <<list, selection, asked, shown>> /\ newest' \in {newest, newest + 1}
    BY <1>2 DEF Rows!TakeNext, Rows!RetryPresence, Rows!Present, Rows!Grow, Rows!Close, Rows!Move, rowVars
  <2>2. newest \in Nat => newest' \in Nat
    BY <2>1
  <2> QED
    BY <2>1, <2>2 DEF JournalInv, JournalTyped
<1> QED
  BY <1>1, <1>2

\* Each page of the journal is asked for, answered and shown from the last row of the page
\* before, one page above.
THEOREM JournalInvariant == Spec => []JournalInv
<1>1. Init => JournalInv
  BY JournalInit, ListsAssumption DEF Init
<1>2. JournalInv /\ [Next]_<<screen, scheduleVars, itemVars, rowVars, driveVars, cardVars, queryVars, accessVars>>
        => JournalInv'
  <2> SUFFICES ASSUME JournalInv, Next \/ UNCHANGED rowVars PROVE JournalInv'
    OBVIOUS
  <2>1. CASE ListStep
    BY <2>1, JournalReads, JournalTurns, JournalRest, ListsAssumption DEF ListStep, Rows!Next
  <2>2. CASE UNCHANGED rowVars
    BY <2>2, JournalRest
  <2> QED
    BY <2>1, <2>2 DEF Next, ScheduleStep, ItemStep, DriveStep, CardStep, QueryStep, MembersStep
<1> QED
  BY <1>1, <1>2, PTL DEF Spec

\* The rows of a page of the journal are those right before the last row that the operator
\* saw on the page before, whatever was added to it meanwhile.
THEOREM JournalPagesFollow == Spec => []JournalIsContiguous
<1>1. JournalInv => JournalIsContiguous
  <2> SUFFICES ASSUME JournalInv, list.cursor, shown.of = selection PROVE
        selection.cursors # <<>> =>
          \A i \in DOMAIN shown.rows : shown.rows[i] = Rows!Last(selection.cursors) - i
    BY DEF JournalIsContiguous, Rows!JournalIsContiguous, Rows!Ready
  <2>1. list = Rows!CommandJournal
    BY JournalIs DEF JournalInv
  <2> QED
    BY <2>1 DEF JournalInv, BeforeCursor
<1> QED
  BY <1>1, JournalInvariant, PTL

-----------------------------------------------------------------------------
(* A setting of the drive.  A write that the snapshot does not show is     *)
(* that of a command above the highest one the snapshot tells of, and only *)
(* the newest setting can be such a command: none was admitted while an    *)
(* older one was not observed.  A register that the controller has still   *)
(* to write is as it was compared, and shown, unless the panel changed it. *)

SettingCommands ==
    [kind : {"setting", "start", "stop"}, saw : Drive!Values, expected : Drive!Values, value : Drive!Values,
     status : {"queued", "published", "late", "result_unknown", "succeeded", "failed"}, sent : BOOLEAN]

\* A sample of telemetry.
Samples == [on : BOOLEAN, stopped : BOOLEAN, value : Drive!Values, highest : Nat, made : Nat, writes : Nat]

Doing ==
    [of : Nat, register : 1..2, phase : {"none", "permit", "write", "readback"},
     found : Drive!Values, changed : SUBSET (1..2)]

SettingTyped ==
    /\ doing \in Doing
    /\ drive \in [value : Drive!Values, runs : BOOLEAN, writes : Nat, since : Nat]
    /\ highest \in Nat
    /\ commands \in Seq(SettingCommands)
    /\ sample \in Samples /\ snapshot \in Samples
    /\ \A r \in results : r.of \in DOMAIN commands /\ r.outcome \in {"succeeded", "failed"}
    /\ change.saw = change.expected /\ {change.saw, change.value, view.value} \subseteq Drive!Values

\* What an operator was shown is what the controller compares; only what was sent is answered.
SeenIsExpected ==
    \A i \in DOMAIN commands : /\ commands[i].saw = commands[i].expected
                               /\ commands[i].sent \/ commands[i].status \in {"queued", "failed"}

\* Samples follow one another.
SamplesAdvance ==
    /\ snapshot.highest <= highest /\ snapshot.made <= Len(commands)
    /\ sample.on => /\ sample.highest \in snapshot.highest .. highest
                    /\ sample.made \in snapshot.made .. Len(commands)

\* A setting older than another has been observed, or was given up unsent.
OnlyNewestUnseen ==
    \A i, j \in Drive!Settings : i < j =>
        Drive!Observed(i) \/ (commands[i].status = "failed" /\ ~commands[i].sent)

\* A write that a sample does not show is that of a command it does not tell of.
WritesAreTold(s) ==
    s.writes # drive.writes =>
        \E i \in Drive!Settings : /\ s.highest < i /\ i <= highest
                                  /\ commands[i].sent /\ commands[i].status # "queued"

\* What is being carried out is the newest command accepted, and no sample tells of it yet.
CarriesOut ==
    doing.phase # "none" =>
        /\ doing.of = highest /\ doing.of \in Drive!Settings
        /\ commands[doing.of].sent /\ commands[doing.of].status # "queued"
        /\ snapshot.highest < highest /\ (sample.on => sample.highest < highest)

\* The registers still to be written are those that were shown, but for the panel.
ShownStill ==
    doing.phase # "none" =>
        \A r \in (1..2) \ doing.changed :
            r > doing.register \/ (r = doing.register /\ doing.phase # "readback") =>
                drive.value[r] = commands[doing.of].saw[r]

DriveInv ==
    /\ SettingTyped /\ SeenIsExpected /\ SamplesAdvance /\ OnlyNewestUnseen
    /\ CarriesOut /\ ShownStill
    /\ WritesAreTold(snapshot) /\ (sample.on => WritesAreTold(sample))

LEMMA DriveIdle ==
  ASSUME NEW value \in Drive!Values
  PROVE  /\ Drive!Idle \in Doing /\ Drive!Idle.phase = "none"
         /\ Drive!NoSample \in Samples /\ ~Drive!NoSample.on
         /\ Drive!NoSample.highest = 0 /\ Drive!NoSample.made = 0 /\ Drive!NoSample.writes = 0
         /\ Drive!NoChange.saw = Drive!NoChange.expected
         /\ {Drive!NoChange.saw, Drive!NoChange.value} \subseteq Drive!Values
<1>1. (CHOOSE v \in Drive!Values : TRUE) \in Drive!Values
  OBVIOUS
<1> QED
  BY <1>1 DEF Drive!NoSample, Drive!NoChange, Drive!Idle, Samples, Doing

LEMMA DriveInit == Drive!Init => DriveInv
<1> SUFFICES ASSUME Drive!Init PROVE DriveInv
  OBVIOUS
<1>1. drive \in [value : Drive!Values, runs : {FALSE}, writes : {0}, since : {0}]
  BY DEF Drive!Init
<1>2. drive \in [value : Drive!Values, runs : BOOLEAN, writes : Nat, since : Nat] /\ drive.writes = 0
  <2>1. PICK value \in Drive!Values : drive = [value |-> value, runs |-> FALSE, writes |-> 0, since |-> 0]
    BY <1>1
  <2> QED
    BY <2>1
<1>3. /\ highest = 0 /\ commands = <<>> /\ results = {} /\ sample = Drive!NoSample
      /\ doing = Drive!Idle /\ change = Drive!NoChange /\ view = snapshot
  BY DEF Drive!Init
<1>4. PICK value \in Drive!Values : value = drive.value
  BY <1>2
<1>5. snapshot = [Drive!NoSample EXCEPT !.on = TRUE, !.value = value]
  BY <1>4 DEF Drive!Init
<1>6. snapshot \in Samples /\ snapshot.highest = 0 /\ snapshot.made = 0 /\ snapshot.writes = 0
  BY <1>5, DriveIdle DEF Samples
<1>7. SettingTyped
  <2>1. commands \in Seq(SettingCommands) /\ view.value \in Drive!Values
    BY <1>3, <1>6 DEF Samples
  <2> QED
    BY <1>2, <1>6, <1>3, <2>1, <1>4, DriveIdle DEF SettingTyped
<1>8. SeenIsExpected /\ SamplesAdvance
  BY <1>2, <1>3, <1>6, DriveIdle DEF SeenIsExpected, SamplesAdvance
<1>9. OnlyNewestUnseen
  BY <1>3 DEF OnlyNewestUnseen, Drive!Settings
<1>10. WritesAreTold(snapshot) /\ (sample.on => WritesAreTold(sample))
  BY <1>2, <1>3, <1>6, DriveIdle DEF WritesAreTold
<1>11. CarriesOut /\ ShownStill
  BY <1>3, <1>4, DriveIdle DEF CarriesOut, ShownStill
<1> QED
  BY <1>7, <1>8, <1>9, <1>10, <1>11 DEF DriveInv

\* Where nothing stands against a command, every setting is observed or was given up
\* unsent, and the snapshot shows every write.
LEMMA NothingUnseen ==
  ASSUME DriveInv, Drive!Unseen = {}
  PROVE  /\ \A i \in Drive!Settings :
               Drive!Observed(i) \/ (commands[i].status = "failed" /\ ~commands[i].sent)
         /\ snapshot.writes = drive.writes
<1> DEFINE answered == {i \in Drive!Settings : commands[i].status \in {"succeeded", "failed"} /\ commands[i].sent}
<1>1. ASSUME NEW i \in Drive!Settings, commands[i].status \in Drive!Pending \cup {"result_unknown"}
      PROVE  Drive!Observed(i)
  BY <1>1 DEF Drive!Unseen
<1>2. ASSUME NEW i \in answered, ~Drive!Observed(i)
      PROVE  FALSE
  <2>1. PICK j \in answered : ~(j <= i)
    BY <1>2 DEF Drive!Unseen
  <2>2. i \in Nat /\ j \in Nat
    BY DEF DriveInv, SettingTyped, Drive!Settings
  <2> QED
    BY <1>2, <2>1, <2>2 DEF DriveInv, OnlyNewestUnseen
<1>3. ASSUME NEW i \in Drive!Settings
      PROVE  Drive!Observed(i) \/ (commands[i].status = "failed" /\ ~commands[i].sent)
  <2>1. /\ commands[i].status \in {"queued", "published", "late", "result_unknown", "succeeded", "failed"}
        /\ commands[i].sent \/ commands[i].status \in {"queued", "failed"}
    <3>1. i \in DOMAIN commands /\ commands \in Seq(SettingCommands)
      BY DEF DriveInv, SettingTyped, Drive!Settings
    <3>2. commands[i] \in SettingCommands
      BY <3>1
    <3> QED
      BY <3>1, <3>2 DEF DriveInv, SeenIsExpected, SettingCommands
  <2> QED
    BY <2>1, <1>1, <1>2 DEF Drive!Pending
<1>4. snapshot.writes = drive.writes
  <2> SUFFICES ASSUME snapshot.writes # drive.writes PROVE FALSE
    OBVIOUS
  <2>1. PICK i \in Drive!Settings : snapshot.highest < i /\ commands[i].sent
    BY DEF DriveInv, WritesAreTold
  <2>2. i \in Nat /\ snapshot.highest \in Nat
    BY DEF DriveInv, SettingTyped, Samples, Drive!Settings
  <2> QED
    BY <1>3, <2>1, <2>2 DEF Drive!Observed
<1> QED
  BY <1>3, <1>4

\* The page changes nothing of the server and the drive, and sends what it showed.
LEMMA DrivePage ==
  ASSUME DriveInv,
         UNCHANGED <<drive, doing, highest, commands, results, sample, snapshot>>,
         change'.saw = change'.expected, {change'.saw, change'.value, view'.value} \subseteq Drive!Values
  PROVE  DriveInv'
<1>1. SettingTyped' /\ SeenIsExpected' /\ SamplesAdvance' /\ OnlyNewestUnseen'
  BY DEF DriveInv, SettingTyped, SeenIsExpected, SamplesAdvance, OnlyNewestUnseen, Drive!Settings, Drive!Observed
<1>2. WritesAreTold(snapshot)' /\ (sample'.on => WritesAreTold(sample)')
  BY DEF DriveInv, WritesAreTold, Drive!Settings
<1>3. CarriesOut' /\ ShownStill'
  BY DEF DriveInv, CarriesOut, ShownStill, Drive!Settings
<1> QED
  BY <1>1, <1>2, <1>3 DEF DriveInv

\* What the page asks for.
LEMMA ValuesAsked ==
  ASSUME NEW part \in Parts
  PROVE  {Drive!Source(part), Drive!Parameter(part), Drive!Whole(part)} \subseteq Drive!Values
<1>1. Remote \in Parts
  BY DriveAssumption DEF Drive!SettingsAssumption
<1>2. Drive!Source(part) \in Drive!Values /\ Drive!Source(Remote) \in Drive!Values
  BY <1>1 DEF Drive!Source, Drive!Values
<1>3. Drive!Parameter(part) \in Drive!Values
  BY <1>2 DEF Drive!Parameter, Drive!Values
<1> QED
  BY <1>2, <1>3 DEF Drive!Whole

LEMMA DrivePageSteps ==
  ASSUME DriveInv,
         \/ Drive!PollView \/ \E part \in Parts : Drive!OpenSource(part) \/ Drive!OpenParameter(part)
         \/ Drive!Dismiss \/ Drive!Send \/ Drive!CheckPasses \/ Drive!CheckFails \/ Drive!PostUnanswered
         \/ Drive!AskCommand \/ Drive!LeavePage \/ UNCHANGED driveVars
  PROVE  DriveInv' /\ UNCHANGED <<drive, doing, commands>>
<1>1. UNCHANGED <<drive, doing, highest, commands, results, sample, snapshot>>
  BY DEF Drive!PollView, Drive!OpenSource, Drive!OpenParameter, Drive!Open, Drive!Dismiss, Drive!Send,
         Drive!CheckPasses, Drive!CheckFails, Drive!PostUnanswered, Drive!AskCommand, Drive!LeavePage, driveVars
<1>2. view' \in {view, snapshot}
  BY DEF Drive!PollView, Drive!OpenSource, Drive!OpenParameter, Drive!Open, Drive!Dismiss, Drive!Send,
         Drive!CheckPasses, Drive!CheckFails, Drive!PostUnanswered, Drive!AskCommand, Drive!LeavePage, driveVars
<1>3. view'.value \in Drive!Values
  BY <1>2 DEF DriveInv, SettingTyped, Samples
<1>4. \/ change' = change \/ change' = Drive!NoChange
      \/ \E value \in Drive!Values : change' = [on |-> TRUE, expected |-> view.value, saw |-> view.value, value |-> value]
  <2>1. ASSUME NEW part \in Parts, Drive!OpenSource(part) \/ Drive!OpenParameter(part)
        PROVE  \E value \in Drive!Values :
                  change' = [on |-> TRUE, expected |-> view.value, saw |-> view.value, value |-> value]
    BY <2>1, ValuesAsked DEF Drive!OpenSource, Drive!OpenParameter, Drive!Open
  <2> QED
    BY <2>1 DEF Drive!PollView, Drive!Dismiss, Drive!Send, Drive!CheckPasses, Drive!Checked, Drive!CheckFails,
       Drive!PostUnanswered, Drive!AskCommand, Drive!LeavePage, driveVars
<1>5. view.value \in Drive!Values /\ change.saw = change.expected /\ {change.saw, change.value} \subseteq Drive!Values
  BY DEF DriveInv, SettingTyped
<1>6. change'.saw = change'.expected /\ {change'.saw, change'.value} \subseteq Drive!Values
  BY <1>4, <1>5, DriveIdle
<1> QED
  BY <1>1, <1>3, <1>6, DrivePage

\* A command is created: a setting only where nothing stands against it.
LEMMA DriveCreates ==
  ASSUME DriveInv, NEW c \in SettingCommands, c.saw = c.expected, c.status = "queued",
         c.kind = "setting" => Drive!Unseen = {},
         commands' = Append(commands, c),
         UNCHANGED <<drive, doing, highest, results, sample, snapshot, view, change>>
  PROVE  DriveInv'
<1>1. commands \in Seq(SettingCommands)
  BY DEF DriveInv, SettingTyped
<1>2. /\ commands' \in Seq(SettingCommands) /\ Len(commands') = Len(commands) + 1
      /\ DOMAIN commands' = DOMAIN commands \cup {Len(commands) + 1}
      /\ DOMAIN commands = 1 .. Len(commands) /\ Len(commands) \in Nat
      /\ commands'[Len(commands) + 1] = c
      /\ \A k \in DOMAIN commands : commands'[k] = commands[k]
  BY <1>1
<1>3. SettingTyped'
  BY <1>2 DEF DriveInv, SettingTyped
<1>4. SeenIsExpected'
  BY <1>2 DEF DriveInv, SeenIsExpected
<1>5. SamplesAdvance'
  <2>1. snapshot.made \in Nat /\ sample.made \in Nat
    BY DEF DriveInv, SettingTyped, Samples
  <2> QED
    BY <1>2, <2>1 DEF DriveInv, SamplesAdvance
<1>6. /\ \A k \in Drive!Settings : k \in Drive!Settings' /\ commands'[k] = commands[k] /\ k < Len(commands) + 1
      /\ \A k \in Drive!Settings' : k \in Drive!Settings \/ (k = Len(commands) + 1 /\ c.kind = "setting")
  BY <1>2 DEF Drive!Settings
<1>7. OnlyNewestUnseen'
  <2> SUFFICES ASSUME NEW i \in Drive!Settings', NEW j \in Drive!Settings', i < j
               PROVE  Drive!Observed(i) \/ (commands'[i].status = "failed" /\ ~commands'[i].sent)
    BY DEF OnlyNewestUnseen, Drive!Observed
  <2>1. i \in Drive!Settings
    BY <1>2, <1>6 DEF Drive!Settings
  <2>2. CASE j \in Drive!Settings
    BY <1>6, <2>1, <2>2 DEF DriveInv, OnlyNewestUnseen
  <2>3. CASE j \notin Drive!Settings
    BY <1>6, <2>1, <2>3, NothingUnseen
  <2> QED
    BY <2>2, <2>3
<1>8. WritesAreTold(snapshot)' /\ (sample'.on => WritesAreTold(sample)')
  BY <1>6 DEF DriveInv, WritesAreTold
<1>9. CarriesOut' /\ ShownStill'
  BY <1>6 DEF DriveInv, CarriesOut, ShownStill
<1> QED
  BY <1>3, <1>4, <1>5, <1>7, <1>8, <1>9 DEF DriveInv

\* What may become of a command: failed is final, and what was sent or answered stays so.
LEMMA DriveBecomes ==
  ASSUME DriveInv, NEW i \in DOMAIN commands, NEW c \in SettingCommands,
         commands' = [commands EXCEPT ![i] = c],
         c.kind = commands[i].kind, c.saw = commands[i].saw, c.expected = commands[i].expected,
         commands[i].status # "failed", commands[i].sent => c.sent,
         c.status # "queued", c.sent \/ c.status = "failed",
         UNCHANGED <<drive, doing, highest, sample, snapshot, view, change>>,
         \A r \in results' : r \in results
  PROVE  DriveInv'
<1>1. commands \in Seq(SettingCommands)
  BY DEF DriveInv, SettingTyped
<1>2. /\ commands' \in Seq(SettingCommands) /\ Len(commands') = Len(commands)
      /\ DOMAIN commands' = DOMAIN commands /\ commands'[i] = c
      /\ \A k \in DOMAIN commands \ {i} : commands'[k] = commands[k]
  BY <1>1
<1>3. SettingTyped'
  BY <1>2 DEF DriveInv, SettingTyped
<1>4. SeenIsExpected'
  BY <1>2 DEF DriveInv, SeenIsExpected
<1>5. SamplesAdvance'
  BY <1>2 DEF DriveInv, SamplesAdvance
<1>6. Drive!Settings' = Drive!Settings
  BY <1>2 DEF Drive!Settings
<1>7. OnlyNewestUnseen'
  <2> SUFFICES ASSUME NEW k \in Drive!Settings, NEW j \in Drive!Settings, k < j
               PROVE  Drive!Observed(k) \/ (commands'[k].status = "failed" /\ ~commands'[k].sent)
    BY <1>6 DEF OnlyNewestUnseen, Drive!Observed
  <2>1. Drive!Observed(k) \/ (commands[k].status = "failed" /\ ~commands[k].sent)
    BY DEF DriveInv, OnlyNewestUnseen
  <2> QED
    BY <1>2, <2>1 DEF Drive!Settings
<1>8. \A k \in Drive!Settings : commands[k].sent /\ commands[k].status # "queued" =>
         commands'[k].sent /\ commands'[k].status # "queued"
  BY <1>2 DEF Drive!Settings
<1>9. WritesAreTold(snapshot)' /\ (sample'.on => WritesAreTold(sample)')
  BY <1>6, <1>8 DEF DriveInv, WritesAreTold
<1>10. \A k \in DOMAIN commands : commands'[k].saw = commands[k].saw
  BY <1>2
<1>11. CarriesOut' /\ ShownStill'
  <2>1. CarriesOut'
    BY <1>6, <1>8 DEF DriveInv, CarriesOut
  <2>2. doing.phase # "none" => commands'[doing.of].saw = commands[doing.of].saw
    BY <1>10 DEF DriveInv, CarriesOut, Drive!Settings
  <2> QED
    BY <2>1, <2>2 DEF DriveInv, ShownStill
<1> QED
  BY <1>3, <1>4, <1>5, <1>7, <1>9, <1>11 DEF DriveInv

\* The command that is asked for by the page or by others.
LEMMA DriveAdmission ==
  ASSUME DriveInv, Drive!PostArrives \/ \E kind \in {"setting", "start", "stop"} : Drive!OthersAsk(kind)
  PROVE  DriveInv'
<1>1. \A kind : Drive!Fresh(kind) = [kind |-> kind, saw |-> Drive!NoChange.value, expected |-> Drive!NoChange.value,
                                     value |-> Drive!NoChange.value, status |-> "queued", sent |-> FALSE]
  BY DEF Drive!Fresh
<1>2. \A kind : Drive!Admits(kind, change.expected, 0) \/ Drive!Admits(kind, snapshot.value, 0) => Drive!Unseen = {}
  <2>1. 0 \notin Drive!Unseen
    BY DEF Drive!Unseen, Drive!Settings, DriveInv, SettingTyped
  <2> QED
    BY <2>1 DEF Drive!Admits
<1>3. /\ change.saw = change.expected /\ {change.saw, change.value, view.value, snapshot.value} \subseteq Drive!Values
  BY DEF DriveInv, SettingTyped, Samples
<1>4. ASSUME NEW c, c = [Drive!Fresh("setting") EXCEPT !.saw = change.saw, !.expected = change.expected,
                                                       !.value = change.value]
      PROVE  c \in SettingCommands /\ c.saw = c.expected /\ c.status = "queued"
  BY <1>1, <1>3, <1>4 DEF SettingCommands
<1>5. CASE Drive!PostArrives
  <2>1. UNCHANGED <<drive, doing, highest, results, sample, snapshot, view>>
    BY <1>5 DEF Drive!PostArrives
  <2>2. CASE change' = Drive!NoChange /\ UNCHANGED commands
    BY <1>3, <2>1, <2>2, DrivePage, DriveIdle
  <2>3. CASE Drive!Admits("setting", change.expected, 0) /\ UNCHANGED change
             /\ commands' = Append(commands, [Drive!Fresh("setting") EXCEPT !.saw = change.saw,
                                                 !.expected = change.expected, !.value = change.value])
    BY <1>2, <1>4, <2>1, <2>3, DriveCreates
  <2> QED
    BY <1>5, <2>2, <2>3 DEF Drive!PostArrives, Drive!Create
<1>6. ASSUME NEW kind \in {"setting", "start", "stop"}, Drive!OthersAsk(kind) PROVE DriveInv'
  <2>1. UNCHANGED <<drive, doing, highest, results, sample, snapshot, view, change>>
    BY <1>6 DEF Drive!OthersAsk
  <2>2. kind = "setting" => Drive!Unseen = {}
    BY <1>2, <1>6 DEF Drive!OthersAsk
  <2>3. PICK c : commands' = Append(commands, c)
                 /\ \/ c = Drive!Fresh(kind)
                    \/ \E value \in Drive!Values :
                          c = [Drive!Fresh(kind) EXCEPT !.saw = snapshot.value,
                                                  !.expected = snapshot.value, !.value = value]
    BY <1>6, ValuesAsked DEF Drive!OthersAsk, Drive!Create
  <2>4. c \in SettingCommands /\ c.saw = c.expected /\ c.status = "queued" /\ c.kind = kind
    <3>1. CASE c = Drive!Fresh(kind)
      <4>1. Drive!NoChange.value \in Drive!Values
        BY <1>3, DriveIdle
      <4> QED
        BY <1>1, <3>1, <4>1 DEF SettingCommands
    <3>2. CASE \E value \in Drive!Values :
                  c = [Drive!Fresh(kind) EXCEPT !.saw = snapshot.value, !.expected = snapshot.value,
                                                !.value = value]
      BY <1>1, <1>3, <3>2 DEF SettingCommands
    <3> QED
      BY <2>3, <3>1, <3>2
  <2> QED
    BY <2>1, <2>2, <2>3, <2>4, DriveCreates
<1> QED
  BY <1>5, <1>6

\* What becomes of the commands on the server.
LEMMA DriveDecides ==
  ASSUME DriveInv,
         \/ \E i \in DOMAIN commands : Drive!Dispatch(i) \/ Drive!Expire(i) \/ Drive!GiveUp(i)
         \/ \E r \in results : Drive!ResultArrives(r)
  PROVE  DriveInv'
<1>1. \A i \in DOMAIN commands : commands[i] \in SettingCommands
  BY DEF DriveInv, SettingTyped
<1>2. UNCHANGED <<drive, doing, highest, sample, snapshot, view, change>> /\ \A r \in results' : r \in results
  BY DEF Drive!Dispatch, Drive!Expire, Drive!GiveUp, Drive!ResultArrives
<1>3. ASSUME NEW i \in DOMAIN commands,
             NEW status \in {"published", "late", "result_unknown", "succeeded", "failed"},
             commands' = [commands EXCEPT ![i].status = status],
             commands[i].status # "failed", status = "failed" \/ commands[i].status # "queued"
      PROVE  DriveInv'
  <2> DEFINE c == [commands[i] EXCEPT !.status = status]
  <2>1. commands[i].sent \/ status = "failed"
    BY <1>3 DEF DriveInv, SeenIsExpected
  <2>2. c \in SettingCommands
    BY <1>1 DEF SettingCommands
  <2>3. /\ c.kind = commands[i].kind /\ c.saw = commands[i].saw /\ c.expected = commands[i].expected
        /\ c.sent = commands[i].sent /\ c.status = status
    BY <1>1 DEF SettingCommands
  <2>4. commands' = [commands EXCEPT ![i] = c]
    BY <1>3
  <2> HIDE DEF c
  <2> QED
    BY <1>2, <1>3, <2>1, <2>2, <2>3, <2>4, DriveBecomes
<1>4. ASSUME NEW i \in DOMAIN commands, commands[i].status = "queued",
             commands' = [commands EXCEPT ![i].status = "published", ![i].sent = TRUE]
      PROVE  DriveInv'
  <2> DEFINE c == [commands[i] EXCEPT !.status = "published", !.sent = TRUE]
  <2>1. c \in SettingCommands
    BY <1>1 DEF SettingCommands
  <2>2. /\ c.kind = commands[i].kind /\ c.saw = commands[i].saw /\ c.expected = commands[i].expected
        /\ c.sent /\ c.status = "published"
    BY <1>1 DEF SettingCommands
  <2>3. commands' = [commands EXCEPT ![i] = c]
    BY <1>4 DEF DriveInv, SettingTyped
  <2> HIDE DEF c
  <2> QED
    BY <1>2, <1>4, <2>1, <2>2, <2>3, DriveBecomes
<1>5. ASSUME UNCHANGED commands PROVE DriveInv'
  <2>1. SettingTyped' /\ SeenIsExpected' /\ SamplesAdvance' /\ OnlyNewestUnseen'
    BY <1>2, <1>5 DEF DriveInv, SettingTyped, SeenIsExpected, SamplesAdvance, OnlyNewestUnseen, Drive!Settings, Drive!Observed
  <2>2. WritesAreTold(snapshot)' /\ (sample'.on => WritesAreTold(sample)')
    BY <1>2, <1>5 DEF DriveInv, WritesAreTold, Drive!Settings
  <2>3. CarriesOut' /\ ShownStill'
    BY <1>2, <1>5 DEF DriveInv, CarriesOut, ShownStill, Drive!Settings
  <2> QED
    BY <2>1, <2>2, <2>3 DEF DriveInv
<1>6. ASSUME NEW i \in DOMAIN commands, Drive!Dispatch(i) PROVE DriveInv'
  BY <1>3, <1>4, <1>6 DEF Drive!Dispatch, Drive!Become
<1>7. ASSUME NEW i \in DOMAIN commands, Drive!Expire(i) \/ Drive!GiveUp(i) PROVE DriveInv'
  BY <1>3, <1>7 DEF Drive!Expire, Drive!GiveUp, Drive!Become
<1>8. ASSUME NEW r \in results, Drive!ResultArrives(r) PROVE DriveInv'
  <2>1. r.outcome \in {"succeeded", "failed"} /\ r.of \in DOMAIN commands
    BY DEF DriveInv, SettingTyped
  <2>2. CASE commands[r.of].status \in {"published", "late", "result_unknown"}
    BY <1>3, <1>8, <2>1, <2>2 DEF Drive!ResultArrives, Drive!Become
  <2>3. CASE commands[r.of].status \notin {"published", "late", "result_unknown"}
    BY <1>5, <1>8, <2>3 DEF Drive!ResultArrives
  <2> QED
    BY <2>2, <2>3
<1> QED
  BY <1>6, <1>7, <1>8

\* The controller takes a command with a higher number: it moves the motor, refuses, or begins
\* to carry a setting out that has the value its operator was shown.
LEMMA DriveDelivers ==
  ASSUME DriveInv, NEW i \in DOMAIN commands, Drive!Deliver(i)
  PROVE  /\ DriveInv' /\ drive'.writes = drive.writes
         /\ doing.phase = "none" /\ doing'.phase # "none" => drive.value = commands[doing'.of].saw
<1>1. /\ commands[i] \in SettingCommands /\ i \in Nat
      /\ drive \in [value : Drive!Values, runs : BOOLEAN, writes : Nat, since : Nat]
      /\ highest \in Nat /\ Len(commands) \in Nat /\ doing \in Doing
  BY DEF DriveInv, SettingTyped
<1>2. /\ commands[i].status = "published" /\ i > highest /\ highest' = i /\ doing.phase = "none"
      /\ UNCHANGED <<commands, sample, snapshot, view, change>>
  BY DEF Drive!Deliver
<1>3. commands[i].saw = commands[i].expected /\ commands[i].sent
  BY <1>2 DEF DriveInv, SeenIsExpected
<1>4. \/ UNCHANGED <<drive, doing>>
      \/ \E runs \in BOOLEAN : drive' = [drive EXCEPT !.runs = runs] /\ UNCHANGED doing
      \/ /\ commands[i].kind = "setting" /\ drive.value = commands[i].expected
         /\ UNCHANGED drive /\ doing' = [Drive!Idle EXCEPT !.of = i, !.phase = "permit"]
  BY DEF Drive!Deliver, Drive!Compare, Drive!Motion
<1>5. /\ drive' \in [value : Drive!Values, runs : BOOLEAN, writes : Nat, since : Nat]
      /\ drive'.writes = drive.writes /\ drive'.value = drive.value
  <2>1. CASE drive' = drive
    BY <1>1, <2>1
  <2>2. ASSUME NEW runs \in BOOLEAN, drive' = [drive EXCEPT !.runs = runs]
        PROVE  /\ drive' \in [value : Drive!Values, runs : BOOLEAN, writes : Nat, since : Nat]
               /\ drive'.writes = drive.writes /\ drive'.value = drive.value
    BY <1>1, <2>2
  <2> QED
    BY <1>4, <2>1, <2>2
<1>6. results' \subseteq results \cup {[of |-> i, outcome |-> told] : told \in {"succeeded", "failed"}}
  BY DEF Drive!Deliver, Drive!Compare, Drive!Motion, Drive!Finish
<1>7. /\ doing' \in Doing
      /\ \/ doing'.phase = "none"
         \/ /\ doing'.of = i /\ commands[i].kind = "setting" /\ drive.value = commands[i].saw
  <2>1. CASE UNCHANGED doing
    BY <1>1, <1>2, <2>1
  <2>2. CASE /\ commands[i].kind = "setting" /\ drive.value = commands[i].expected
             /\ doing' = [Drive!Idle EXCEPT !.of = i, !.phase = "permit"]
    <3>1. Drive!Idle \in Doing
      BY <1>1, DriveIdle
    <3>2. doing' \in Doing /\ doing'.of = i
      BY <1>1, <2>2, <3>1 DEF Doing
    <3> QED
      BY <1>3, <2>2, <3>2
  <2> QED
    BY <1>4, <2>1, <2>2
<1>8. SettingTyped'
  BY <1>1, <1>2, <1>5, <1>6, <1>7 DEF DriveInv, SettingTyped
<1>9. SeenIsExpected' /\ OnlyNewestUnseen'
  BY <1>2 DEF DriveInv, SeenIsExpected, OnlyNewestUnseen, Drive!Settings, Drive!Observed
<1>10. snapshot.highest \in Nat /\ sample.highest \in Nat
  BY DEF DriveInv, SettingTyped, Samples
<1>11. SamplesAdvance'
  BY <1>1, <1>2, <1>10 DEF DriveInv, SamplesAdvance
<1>12. \A k \in Drive!Settings : k \in Nat
  BY DEF DriveInv, SettingTyped, Drive!Settings
<1>13. Drive!Settings' = Drive!Settings
  BY <1>2 DEF Drive!Settings
<1>14. \A k \in Drive!Settings : k <= highest => k <= highest'
  BY <1>1, <1>2, <1>12
<1>15. WritesAreTold(snapshot)' /\ (sample'.on => WritesAreTold(sample)')
  BY <1>2, <1>5, <1>13, <1>14 DEF DriveInv, WritesAreTold
<1>16. CarriesOut'
  <2>1. snapshot.highest < i /\ (sample.on => sample.highest < i)
    BY <1>1, <1>2, <1>10 DEF DriveInv, SamplesAdvance
  <2>2. commands[i].kind = "setting" => i \in Drive!Settings
    BY DEF Drive!Settings
  <2> QED
    BY <1>2, <1>3, <1>7, <1>13, <2>1, <2>2 DEF CarriesOut
<1>17. ShownStill'
  BY <1>2, <1>5, <1>7 DEF ShownStill
<1> QED
  BY <1>2, <1>5, <1>7, <1>8, <1>9, <1>11, <1>15, <1>16, <1>17 DEF DriveInv

\* What the controller does on the way from its comparison to its answer.
LEMMA DriveWorks ==
  ASSUME DriveInv,
         \/ Drive!MayWrite \/ Drive!WriteRegister \/ Drive!ReadBack
         \/ Drive!FinishSetting \/ Drive!Abandon
  PROVE  /\ DriveInv'
         /\ doing.phase # "none"
         /\ drive'.writes # drive.writes =>
               \/ doing.register \in doing.changed
               \/ drive.value[doing.register] = commands[doing.of].saw[doing.register]
<1>1. /\ drive \in [value : Drive!Values, runs : BOOLEAN, writes : Nat, since : Nat]
      /\ highest \in Nat /\ Len(commands) \in Nat /\ doing \in Doing
      /\ doing.register \in 1..2 /\ drive.writes \in Nat /\ drive.value \in Drive!Values
  BY DEF DriveInv, SettingTyped, Doing
<1>2. UNCHANGED <<setting, highest, commands, sample, snapshot, view, change>> /\ doing.phase # "none"
  BY DEF Drive!MayWrite, Drive!WriteRegister, Drive!ReadBack, Drive!FinishSetting, Drive!Abandon
<1>3. /\ doing.of = highest /\ doing.of \in Drive!Settings
      /\ commands[doing.of].sent /\ commands[doing.of].status # "queued"
      /\ snapshot.highest < highest /\ (sample.on => sample.highest < highest)
  BY <1>2 DEF DriveInv, CarriesOut
<1>4. commands[doing.of] \in SettingCommands
  BY <1>3 DEF DriveInv, SettingTyped, Drive!Settings
<1>5. commands[doing.of].value \in Drive!Values /\ commands[doing.of].expected \in Drive!Values
  BY <1>4 DEF SettingCommands
<1>6. Drive!Settings' = Drive!Settings /\ SeenIsExpected' /\ SamplesAdvance' /\ OnlyNewestUnseen'
  BY <1>2 DEF DriveInv, SeenIsExpected, SamplesAdvance, OnlyNewestUnseen, Drive!Settings, Drive!Observed
<1>7. ASSUME drive' \in [value : Drive!Values, runs : BOOLEAN, writes : Nat, since : Nat],
             doing' \in Doing,
             \A q \in results' : q \in results \/ (q.of = doing.of /\ q.outcome \in {"succeeded", "failed"}),
             doing'.phase # "none" => doing'.of = doing.of,
             ShownStill'
      PROVE  DriveInv'
  <2>1. doing.of \in DOMAIN commands
    BY <1>3 DEF Drive!Settings
  <2>2. SettingTyped'
    BY <1>2, <1>7, <2>1 DEF DriveInv, SettingTyped
  <2>3. CarriesOut'
    BY <1>2, <1>3, <1>6, <1>7 DEF CarriesOut
  <2>4. highest \in Nat /\ highest <= highest
    BY <1>1
  <2>5. WritesAreTold(snapshot)'
    BY <1>2, <1>3, <1>6, <2>4 DEF WritesAreTold
  <2>6. sample'.on => WritesAreTold(sample)'
    BY <1>2, <1>3, <1>6, <2>4 DEF WritesAreTold
  <2> QED
    BY <1>6, <1>7, <2>2, <2>3, <2>5, <2>6 DEF DriveInv
<1>8. CASE Drive!MayWrite
  <2>1. PICK found \in Drive!Values : doing' = [doing EXCEPT !.phase = "write", !.found = found]
    BY <1>1, <1>5, <1>8 DEF Drive!MayWrite
  <2>2. /\ doing' \in Doing /\ doing'.phase = "write" /\ doing'.of = doing.of
        /\ doing'.register = doing.register /\ doing'.changed = doing.changed
    BY <1>1, <2>1 DEF Doing
  <2>3. UNCHANGED <<drive, results>> /\ doing.phase = "permit"
    BY <1>8 DEF Drive!MayWrite
  <2>4. ShownStill'
    BY <1>2, <2>2, <2>3 DEF DriveInv, ShownStill
  <2> QED
    BY <1>1, <1>2, <1>7, <2>2, <2>3, <2>4
<1>9. CASE Drive!WriteRegister
  <2> DEFINE k == doing.register
             new == commands[doing.of].value[k]
  <2>1. new \in Parts
    BY <1>1, <1>5 DEF Drive!Values
  <2>2. \/ drive' = drive
        \/ drive' = [drive EXCEPT !.value[k] = new, !.writes = @ + 1]
    BY <1>9 DEF Drive!WriteRegister, Drive!Target
  <2>3. doing.phase = "write" /\ doing' = [doing EXCEPT !.phase = "readback", !.found = Drive!Idle.found]
        /\ UNCHANGED results
    BY <1>9 DEF Drive!WriteRegister
  <2>4. /\ doing' \in Doing /\ doing'.phase = "readback" /\ doing'.of = doing.of
        /\ doing'.register = k /\ doing'.changed = doing.changed
    <3>1. Drive!Idle.found \in Drive!Values
      BY <1>1, DriveIdle DEF Doing
    <3> QED
      BY <1>1, <2>3, <3>1 DEF Doing
  <2> HIDE DEF new
  <2>5. /\ drive' \in [value : Drive!Values, runs : BOOLEAN, writes : Nat, since : Nat]
        /\ \A q \in (1..2) \ {k} : drive'.value[q] = drive.value[q]
    <3>1. [drive.value EXCEPT ![k] = new] \in Drive!Values
      BY <1>1, <2>1 DEF Drive!Values
    <3>2. \A q \in (1..2) \ {k} : [drive.value EXCEPT ![k] = new][q] = drive.value[q]
      BY <1>1 DEF Drive!Values
    <3>3. drive.writes + 1 \in Nat
      BY <1>1
    <3> QED
      BY <1>1, <2>2, <3>1, <3>2, <3>3
  <2>6. \A q \in (1..2) \ doing.changed : q > k => drive.value[q] = commands[doing.of].saw[q]
    BY <1>2 DEF DriveInv, ShownStill
  <2>7. ShownStill'
    <3>1. \A q \in 1..2 : q > k => q # k
      BY <1>1
    <3> QED
      BY <1>2, <2>4, <2>5, <2>6, <3>1 DEF ShownStill
  <2>8. k \in doing.changed \/ drive.value[k] = commands[doing.of].saw[k]
    BY <1>1, <1>2, <2>3 DEF DriveInv, ShownStill
  <2> QED
    BY <1>2, <1>7, <2>3, <2>4, <2>5, <2>7, <2>8
<1>10. CASE Drive!ReadBack
  <2>1. /\ doing' = [doing EXCEPT !.phase = "permit", !.register = @ + 1]
        /\ UNCHANGED <<drive, results>> /\ doing.register + 1 \in Drive!Registers
    BY <1>10 DEF Drive!ReadBack
  <2>2. doing.register + 1 \in 1..2
    BY <2>1 DEF Drive!Registers
  <2>3. /\ doing' \in Doing /\ doing'.phase = "permit" /\ doing'.of = doing.of
        /\ doing'.register = doing.register + 1 /\ doing'.changed = doing.changed
    BY <1>1, <2>1, <2>2 DEF Doing
  <2>4. \A q \in 1..2 : q > doing'.register \/ q = doing'.register => q > doing.register
    BY <1>1, <2>3
  <2>5. ShownStill'
    BY <1>2, <2>1, <2>3, <2>4 DEF DriveInv, ShownStill
  <2> QED
    BY <1>1, <1>2, <1>7, <2>1, <2>3, <2>5
<1>11. CASE Drive!FinishSetting \/ Drive!Abandon
  <2>1. doing' = Drive!Idle
    BY <1>11 DEF Drive!FinishSetting, Drive!Abandon
  <2>2. doing' \in Doing /\ doing'.phase = "none"
    BY <1>1, <2>1, DriveIdle
  <2>3. drive' = drive \/ drive' = [drive EXCEPT !.since = Len(commands)]
    BY <1>11 DEF Drive!FinishSetting, Drive!Abandon, Drive!Withdraw
  <2>4. /\ drive' \in [value : Drive!Values, runs : BOOLEAN, writes : Nat, since : Nat]
        /\ drive'.writes = drive.writes
    BY <1>1, <2>3
  <2>5. \A q \in results' : q \in results \/ (q.of = doing.of /\ q.outcome \in {"succeeded", "failed"})
    BY <1>11 DEF Drive!FinishSetting, Drive!Abandon, Drive!Finish
  <2>6. ShownStill'
    BY <2>2 DEF ShownStill
  <2> QED
    BY <1>2, <1>7, <2>2, <2>4, <2>5, <2>6
<1> QED
  BY <1>8, <1>9, <1>10, <1>11

\* Telemetry, and the person at the panel.
LEMMA DriveTells ==
  ASSUME DriveInv, Drive!Sample \/ Drive!SampleArrives \/ Drive!Panel
  PROVE  DriveInv' /\ drive'.writes = drive.writes /\ doing'.phase = doing.phase
<1>1. /\ drive \in [value : Drive!Values, runs : BOOLEAN, writes : Nat, since : Nat]
      /\ highest \in Nat /\ Len(commands) \in Nat /\ sample \in Samples /\ snapshot \in Samples
  BY DEF DriveInv, SettingTyped
<1>2. UNCHANGED <<highest, commands, results, view, change>>
  BY DEF Drive!Sample, Drive!SampleArrives, Drive!Panel
<1>3. \A k \in Drive!Settings : k \in Nat
  BY DEF DriveInv, SettingTyped, Drive!Settings
<1>4. Drive!Settings' = Drive!Settings /\ SeenIsExpected'
  BY <1>2 DEF Drive!Settings, DriveInv, SeenIsExpected
<1>5. CASE Drive!Sample
  <2>1. UNCHANGED <<drive, doing, snapshot>> /\ doing.phase = "none"
    BY <1>5 DEF Drive!Sample
  <2>2. sample' = [on |-> TRUE, value |-> drive.value, stopped |-> ~drive.runs, highest |-> highest,
                   made |-> Len(commands), writes |-> drive.writes]
    BY <1>5 DEF Drive!Sample
  <2>3. sample'.highest = highest /\ sample'.made = Len(commands) /\ sample'.writes = drive.writes
    BY <2>2
  <2>4. sample' \in Samples
    BY <1>1, <2>2 DEF Samples
  <2>5. SettingTyped'
    BY <1>2, <2>1, <2>4 DEF DriveInv, SettingTyped
  <2>6. snapshot.highest \in Nat /\ snapshot.made \in Nat
    BY <1>1 DEF Samples
  <2>7. SamplesAdvance'
    BY <1>1, <1>2, <2>1, <2>3, <2>6 DEF DriveInv, SamplesAdvance
  <2>8. OnlyNewestUnseen' /\ WritesAreTold(snapshot)'
    BY <1>2, <1>4, <2>1 DEF DriveInv, OnlyNewestUnseen, WritesAreTold, Drive!Observed
  <2>9. WritesAreTold(sample)'
    BY <2>1, <2>3 DEF WritesAreTold
  <2>10. CarriesOut' /\ ShownStill'
    BY <2>1 DEF CarriesOut, ShownStill
  <2> QED
    BY <1>4, <2>1, <2>5, <2>7, <2>8, <2>9, <2>10 DEF DriveInv
<1>6. CASE Drive!SampleArrives
  <2>1. UNCHANGED <<drive, doing>> /\ sample.on /\ snapshot' = sample /\ sample' = Drive!NoSample
    BY <1>6 DEF Drive!SampleArrives
  <2>2. sample' \in Samples /\ ~sample'.on
    <3>1. PICK value \in Drive!Values : value = drive.value
      BY <1>1
    <3> QED
      BY <2>1, <3>1, DriveIdle
  <2>3. SettingTyped'
    BY <1>1, <1>2, <2>1, <2>2 DEF DriveInv, SettingTyped
  <2>4. /\ sample.highest \in Nat /\ snapshot.highest \in Nat /\ sample.made \in Nat /\ snapshot.made \in Nat
        /\ sample.highest \in snapshot.highest .. highest /\ sample.made \in snapshot.made .. Len(commands)
    BY <1>1, <2>1 DEF DriveInv, SamplesAdvance, Samples
  <2>5. SamplesAdvance'
    BY <1>1, <1>2, <2>1, <2>2, <2>4 DEF SamplesAdvance
  <2>6. \A k \in Drive!Settings : Drive!Observed(k) => snapshot'.highest >= k /\ snapshot'.made >= k
    BY <1>1, <1>3, <2>1, <2>4 DEF Drive!Observed
  <2>7. OnlyNewestUnseen'
    BY <1>2, <1>4, <2>6 DEF DriveInv, OnlyNewestUnseen, Drive!Observed
  <2>8. WritesAreTold(snapshot)'
    BY <1>2, <1>4, <2>1 DEF DriveInv, WritesAreTold
  <2>9. CarriesOut' /\ ShownStill'
    BY <1>2, <1>4, <2>1, <2>2 DEF DriveInv, CarriesOut, ShownStill
  <2> QED
    BY <1>4, <2>1, <2>2, <2>3, <2>5, <2>7, <2>8, <2>9 DEF DriveInv
<1>7. CASE Drive!Panel
  <2>1. UNCHANGED <<sample, snapshot>>
    BY <1>7 DEF Drive!Panel
  <2>2. PICK k \in 1..2, part \in Parts :
          /\ drive' = [drive EXCEPT !.value[k] = part]
          /\ doing' = IF doing.phase = "none" THEN doing ELSE [doing EXCEPT !.changed = @ \cup {k}]
    <3>1. Drive!Registers \subseteq 1..2
      BY DEF Drive!Registers
    <3>2. PICK k \in Drive!Registers, part \in Parts :
            /\ drive' = [drive EXCEPT !.value[k] = part]
            /\ doing' = IF doing.phase = "none" THEN doing ELSE [doing EXCEPT !.changed = @ \cup {k}]
      BY <1>7, Zenon DEF Drive!Panel
    <3> QED
      BY <3>1, <3>2, Zenon
  <2>3. /\ drive' \in [value : Drive!Values, runs : BOOLEAN, writes : Nat, since : Nat]
        /\ drive'.writes = drive.writes
        /\ \A q \in (1..2) \ {k} : drive'.value[q] = drive.value[q]
    <3>1. drive.value \in Drive!Values
      BY <1>1
    <3>2. [drive.value EXCEPT ![k] = part] \in Drive!Values
      BY <3>1 DEF Drive!Values
    <3>3. \A q \in (1..2) \ {k} : [drive.value EXCEPT ![k] = part][q] = drive.value[q]
      BY <3>1 DEF Drive!Values
    <3> DEFINE value == [drive.value EXCEPT ![k] = part]
    <3>4. drive' = [drive EXCEPT !.value = value]
      BY <1>1, <2>2
    <3>5. value \in Drive!Values /\ \A q \in (1..2) \ {k} : value[q] = drive.value[q]
      BY <3>2, <3>3
    <3> HIDE DEF value
    <3>6. drive'.value = value /\ drive'.runs = drive.runs /\ drive'.writes = drive.writes
      BY <1>1, <3>4
    <3> QED
      BY <1>1, <3>4, <3>5, <3>6
  <2>4. /\ doing' \in Doing /\ doing'.phase = doing.phase
        /\ doing.phase # "none" => /\ doing'.of = doing.of /\ doing'.register = doing.register
                                   /\ doing'.changed = doing.changed \cup {k}
    <3>1. doing \in Doing
      BY DEF DriveInv, SettingTyped
    <3>2. doing.changed \cup {k} \in SUBSET (1..2)
      BY <3>1 DEF Doing
    <3> QED
      BY <2>2, <3>1, <3>2 DEF Doing
  <2>5. SettingTyped' /\ SamplesAdvance'
    BY <1>2, <2>1, <2>3, <2>4 DEF DriveInv, SettingTyped, SamplesAdvance
  <2>6. OnlyNewestUnseen' /\ WritesAreTold(snapshot)' /\ (sample'.on => WritesAreTold(sample)')
    BY <1>2, <1>4, <2>1, <2>3 DEF DriveInv, OnlyNewestUnseen, WritesAreTold, Drive!Observed
  <2>7. CarriesOut'
    BY <1>2, <1>4, <2>1, <2>4 DEF DriveInv, CarriesOut
  <2>8. ShownStill'
    BY <1>2, <2>3, <2>4 DEF DriveInv, ShownStill
  <2> QED
    BY <1>4, <2>3, <2>4, <2>5, <2>6, <2>7, <2>8 DEF DriveInv
<1> QED
  BY <1>5, <1>6, <1>7

\* A write to the drive that the page's snapshot does not show is that of a command the
\* snapshot does not tell of either, and none was admitted while an older one was not observed.
THEOREM DriveInvariant == Spec => []DriveInv
<1>1. Init => DriveInv
  BY DriveInit DEF Init
<1>2. DriveInv /\ [Next]_<<screen, scheduleVars, itemVars, rowVars, driveVars, cardVars, queryVars, accessVars>>
        => DriveInv'
  <2> SUFFICES ASSUME DriveInv, Next \/ UNCHANGED driveVars PROVE DriveInv'
    OBVIOUS
  <2>1. CASE DriveStep
    BY <2>1, DrivePageSteps, DriveAdmission, DriveDecides, DriveDelivers, DriveWorks, DriveTells
       DEF DriveStep, Drive!Next
  <2>2. CASE UNCHANGED driveVars
    BY <2>2, DrivePageSteps
  <2> QED
    BY <2>1, <2>2 DEF Next, ScheduleStep, ItemStep, ListStep, CardStep, QueryStep, MembersStep
<1> QED
  BY <1>1, <1>2, PTL DEF Spec

\* The controller carries a change out only over the value that its operator was shown, and
\* writes over no other than the register that was shown, or that the panel has changed since
\* the controller itself compared (Controller::executeSetting): the window between that
\* comparison and the writes is open to the panel and to nobody else.
THEOREM SettingsWriteOverWhatWasSeen == Spec => WritesOverWhatWasSeen
<1> DEFINE OverSeen ==
      /\ doing.phase = "none" /\ doing'.phase # "none" => drive.value = commands[doing'.of].saw
      /\ drive'.writes # drive.writes =>
            \/ doing.register \in doing.changed
            \/ drive.value[doing.register] = commands[doing.of].saw[doing.register]
<1>1. DriveInv /\ [Next]_<<screen, scheduleVars, itemVars, rowVars, driveVars, cardVars, queryVars, accessVars>>
        => [OverSeen]_(Drive!settingVars)
  <2> SUFFICES ASSUME DriveInv, Next \/ UNCHANGED driveVars PROVE OverSeen
    BY DEF Drive!settingVars
  <2>1. CASE DriveStep
    <3>1. CASE \E i \in DOMAIN commands : Drive!Deliver(i)
      BY <3>1, DriveDelivers
    <3>2. CASE \/ Drive!PostArrives \/ \E kind \in {"setting", "start", "stop"} : Drive!OthersAsk(kind)
               \/ \E i \in DOMAIN commands : Drive!Dispatch(i) \/ Drive!Expire(i) \/ Drive!GiveUp(i)
               \/ \E r \in results : Drive!ResultArrives(r)
      <4>1. UNCHANGED <<drive, doing>>
        BY <3>2 DEF Drive!PostArrives, Drive!OthersAsk, Drive!Dispatch, Drive!Expire, Drive!GiveUp, Drive!ResultArrives
      <4> QED
        BY <4>1
    <3>3. CASE \/ Drive!MayWrite \/ Drive!WriteRegister \/ Drive!ReadBack
               \/ Drive!FinishSetting \/ Drive!Abandon
      BY <3>3, DriveWorks
    <3>4. CASE Drive!Sample \/ Drive!SampleArrives \/ Drive!Panel
      BY <3>4, DriveTells
    <3> QED
      BY <2>1, <3>1, <3>2, <3>3, <3>4, DrivePageSteps DEF DriveStep, Drive!Next
  <2>2. CASE UNCHANGED driveVars
    BY <2>2 DEF driveVars
  <2> QED
    BY <2>1, <2>2 DEF Next, ScheduleStep, ItemStep, ListStep, CardStep, QueryStep, MembersStep
<1> QED
  BY <1>1, DriveInvariant, PTL DEF Spec, WritesOverWhatWasSeen, Drive!WritesOverWhatWasSeen

\* A start that nothing stands against is created or sent on a snapshot that shows every
\* write.
LEMMA StartAdmitted ==
  ASSUME DriveInv, NEW expected, NEW self, self \notin Drive!Settings, Drive!Admits("start", expected, self)
  PROVE  snapshot.writes = drive.writes
<1>1. self \notin Drive!Unseen
  BY DEF Drive!Unseen
<1>2. Drive!Unseen = {}
  BY <1>1 DEF Drive!Admits
<1> QED
  BY <1>2, NothingUnseen

NewlySent(i) == /\ commands'[i].kind = "start"
                /\ i \in DOMAIN commands => commands'[i].sent /\ ~commands[i].sent

LEMMA StartSees ==
  ASSUME DriveInv, Drive!Next, NEW i \in DOMAIN commands', NewlySent(i)
  PROVE  snapshot.writes = drive.writes
<1>1. commands \in Seq(SettingCommands) /\ Len(commands) \in Nat
  BY DEF DriveInv, SettingTyped
<1>2. \A k \in DOMAIN commands : commands[k] \in SettingCommands
  BY <1>1
<1>3. ASSUME NEW c, commands' = Append(commands, c)
      PROVE  i = Len(commands) + 1 /\ c.kind = "start"
  <2>1. i \in 1 .. Len(commands) + 1
    BY <1>1, <1>3
  <2>2. i \in DOMAIN commands => commands'[i] = commands[i]
    BY <1>1, <1>3
  <2>3. i = Len(commands) + 1
    BY <1>1, <2>1, <2>2 DEF NewlySent
  <2> QED
    BY <1>1, <1>3, <2>3 DEF NewlySent
<1>4. 0 \notin Drive!Settings
  BY <1>1 DEF Drive!Settings
<1>5. CASE Drive!PostArrives
  <2> DEFINE c == [Drive!Fresh("setting") EXCEPT !.saw = change.saw, !.expected = change.expected, !.value = change.value]
  <2>1. commands' = Append(commands, c) \/ commands' = commands
    BY <1>5 DEF Drive!PostArrives, Drive!Create
  <2>2. c.kind = "setting"
    BY DEF Drive!Fresh
  <2> HIDE DEF c
  <2> QED
    BY <1>3, <2>1, <2>2 DEF NewlySent
<1>6. ASSUME NEW kind \in {"setting", "start", "stop"}, Drive!OthersAsk(kind)
      PROVE  snapshot.writes = drive.writes
  <2>1. PICK c : commands' = Append(commands, c)
                 /\ \/ c = Drive!Fresh(kind)
                    \/ \E value : c = [Drive!Fresh(kind) EXCEPT !.saw = snapshot.value,
                                                  !.expected = snapshot.value, !.value = value]
    BY <1>6 DEF Drive!OthersAsk, Drive!Create
  <2>2. c.kind = kind
    <3>1. CASE c = Drive!Fresh(kind)
      BY <3>1 DEF Drive!Fresh
    <3>2. CASE \E value : c = [Drive!Fresh(kind) EXCEPT !.saw = snapshot.value,
                                                       !.expected = snapshot.value, !.value = value]
      BY <3>2 DEF Drive!Fresh
    <3> QED
      BY <2>1, <3>1, <3>2
  <2>3. c.kind = "start"
    BY <1>3, <2>1
  <2>4. Drive!Admits("start", snapshot.value, 0)
    BY <1>6, <2>2, <2>3 DEF Drive!OthersAsk
  <2> QED
    BY <1>4, <2>4, StartAdmitted
<1>7. ASSUME NEW k \in DOMAIN commands, Drive!Dispatch(k)
      PROVE  snapshot.writes = drive.writes
  <2>1. i \in DOMAIN commands /\ (i # k => commands'[i] = commands[i]) /\ commands'[k].kind = commands[k].kind
    BY <1>1, <1>2, <1>7 DEF Drive!Dispatch, Drive!Become, SettingCommands
  <2>2. i = k
    BY <2>1 DEF NewlySent
  <2>3. commands[k].kind = "start" /\ commands'[k].sent /\ ~commands[k].sent
    BY <2>1, <2>2 DEF NewlySent
  <2>4. ~Drive!Become(k, "failed")
    BY <1>1, <1>2, <2>3 DEF Drive!Become, SettingCommands
  <2>5. Drive!Admits("start", commands[k].expected, k)
    BY <1>7, <2>3, <2>4 DEF Drive!Dispatch
  <2> QED
    BY <2>3, <2>5, StartAdmitted DEF Drive!Settings
<1>8. CASE commands' = commands
  BY <1>8 DEF NewlySent
<1>9. ASSUME NEW k \in DOMAIN commands, NEW status, Drive!Become(k, status) PROVE FALSE
  <2>1. i \in DOMAIN commands /\ commands'[i].sent = commands[i].sent
    BY <1>1, <1>2, <1>9 DEF Drive!Become, SettingCommands
  <2> QED
    BY <2>1 DEF NewlySent
<1>10. CASE \E r \in results : Drive!ResultArrives(r)
  <2>1. \A r \in results : r.of \in DOMAIN commands
    BY DEF DriveInv, SettingTyped
  <2> QED
    BY <1>8, <1>9, <1>10, <2>1 DEF Drive!ResultArrives
<1>11. CASE \E k \in DOMAIN commands : Drive!Expire(k) \/ Drive!GiveUp(k)
  BY <1>9, <1>11 DEF Drive!Expire, Drive!GiveUp
<1>12. CASE \E k \in DOMAIN commands : Drive!Deliver(k)
  BY <1>8, <1>12 DEF Drive!Deliver
<1>13. CASE Drive!Sample \/ Drive!SampleArrives \/ Drive!Panel
  BY <1>8, <1>13 DEF Drive!Sample, Drive!SampleArrives, Drive!Panel
<1>14. CASE \/ Drive!MayWrite \/ Drive!WriteRegister \/ Drive!ReadBack
            \/ Drive!FinishSetting \/ Drive!Abandon
  BY <1>8, <1>14 DEF Drive!MayWrite, Drive!WriteRegister, Drive!ReadBack, Drive!FinishSetting, Drive!Abandon
<1> QED
  BY <1>5, <1>6, <1>7, <1>8, <1>10, <1>11, <1>12, <1>13, <1>14, DrivePageSteps DEF Drive!Next

\* A start is admitted and sent only on a snapshot that shows the drive after the last
\* change of a setting.
THEOREM StartsSeeSettings == Spec => StartSeesSettings
<1> DEFINE Seen == \A i \in DOMAIN commands' :
          /\ commands'[i].kind = "start"
          /\ i \in DOMAIN commands => commands'[i].sent /\ ~commands[i].sent
          => snapshot.writes = drive.writes
<1>1. DriveInv /\ [Next]_<<screen, scheduleVars, itemVars, rowVars, driveVars, cardVars, queryVars, accessVars>>
        => [Seen]_(Drive!settingVars)
  <2> SUFFICES ASSUME DriveInv, Next \/ UNCHANGED driveVars PROVE Seen
    BY DEF Drive!settingVars
  <2>1. CASE DriveStep
    BY <2>1, StartSees DEF DriveStep, NewlySent
  <2>2. CASE UNCHANGED driveVars
    BY <2>2 DEF driveVars
  <2> QED
    BY <2>1, <2>2 DEF Next, ScheduleStep, ItemStep, ListStep, CardStep, QueryStep, MembersStep
<1> QED
  BY <1>1, DriveInvariant, PTL DEF Spec, StartSeesSettings, Drive!StartSeesSettings

-----------------------------------------------------------------------------
(* The schedules of a device.  A revision names one state of a rule; the   *)
(* revision a write is bound to is the one the operator was looking at.    *)

ScheduleRows == [rev : Nat, spec : Schedules!Specs, on : BOOLEAN, gone : BOOLEAN,
                 by : {"nobody", "me", "other"}]

RulesTyped ==
    /\ rules \in [RuleIds -> ScheduleRows]
    /\ \A id \in RuleIds : rules[id].rev = 0 => rules[id] = Schedules!Absent

\* Someone has seen a rule as it was at a revision.
SeenRow(rule, base, saw) ==
    /\ base \in Nat /\ saw.rev = base /\ base <= rule.rev
    /\ rule.rev = base => rule = saw

\* A list that was read.
SeenList(rs, rows) ==
    /\ rows \in [RuleIds -> ScheduleRows]
    /\ \A id \in RuleIds : SeenRow(rs[id], rows[id].rev, rows[id])

\* A write that is asked for is bound to what was seen, and what is saved was previewed.
BoundWrite(rs, x) ==
    /\ x.id \in RuleIds /\ SeenRow(rs[x.id], x.base, x.saw)
    /\ x.spec \in Schedules!Specs /\ x.on \in BOOLEAN
    /\ x.checked => x.of = x.spec

ScheduleInv ==
    /\ RulesTyped
    /\ SeenList(rules, listed.rows) /\ SeenList(rules, listRead.rows)
    /\ draft.spec \in Schedules!Specs
    /\ draft # Schedules!NoDraft => draft.id \in RuleIds /\ SeenRow(rules[draft.id], draft.base, draft.saw)
    /\ preview.known => preview.of = draft.spec
    /\ confirmation # Schedules!NoWrite => BoundWrite(rules, confirmation)
    /\ \A w \in wire : BoundWrite(rules, w.input)

LEMMA ScheduleConstants ==
  /\ Day \in Nat \ {0} /\ MaxDays \in Nat \ {0} /\ MaxRun \in Nat /\ Saved \subseteq Schedules!Specs
BY EditorAssumption DEF Schedules!ConstantsAssumption

\* The changes of a run: at most two.
LEMMA ChangesAre ==
  ASSUME NEW c
  PROVE  c \in UNION {[1 .. n -> Schedules!Points] : n \in 0 .. 2}
            <=> c \in Seq(Schedules!Points) /\ Len(c) <= 2
<1>1. ASSUME c \in UNION {[1 .. n -> Schedules!Points] : n \in 0 .. 2}
      PROVE  c \in Seq(Schedules!Points) /\ Len(c) <= 2
  <2>1. PICK n \in 0 .. 2 : c \in [1 .. n -> Schedules!Points]
    BY <1>1
  <2> QED
    BY <2>1
<1>2. ASSUME c \in Seq(Schedules!Points), Len(c) <= 2
      PROVE  c \in UNION {[1 .. n -> Schedules!Points] : n \in 0 .. 2}
  <2>1. Len(c) \in Nat
    BY <1>2
  <2>2. c \in [1 .. Len(c) -> Schedules!Points]
    BY <1>2
  <2>3. Len(c) \in 0 .. 2
    <3>1. PICK n \in Nat : n = Len(c)
      BY <2>1
    <3>2. n <= 2
      BY <1>2, <3>1
    <3>3. n \in 0 .. 2
      BY <3>2
    <3> QED
      BY <3>1, <3>3
  <2> QED
    BY <2>2, <2>3
<1> QED
  BY <1>1, <1>2

LEMMA NewSpecTyped ==
  /\ Schedules!NewSpec \in Schedules!Specs
  /\ Schedules!Absent \in ScheduleRows /\ Schedules!Absent.rev = 0
  /\ Schedules!NoDraft.spec = Schedules!NewSpec /\ ~Schedules!NoPreview.known
<1>1. Schedules!NewSpec.changes \in UNION {[1 .. n -> Schedules!Points] : n \in 0 .. 2}
  <2>1. <<>> \in Seq(Schedules!Points) /\ Len(<<>>) = 0
    OBVIOUS
  <2> QED
    BY <2>1, ChangesAre DEF Schedules!NewSpec
<1>2. Day - 1 \in 0 .. Day - 1 /\ 1 \in 0 .. MaxDays /\ 0 \in 0 .. Day - 1
  BY ScheduleConstants
<1>3. Schedules!NewSpec.stop \in [day : 0 .. MaxDays, at : 0 .. Day - 1]
  BY <1>2 DEF Schedules!NewSpec
<1>4. Schedules!NewSpec.rest \in Schedules!Rests
  BY DEF Schedules!NewSpec, Schedules!Rests
<1>5. Schedules!NewSpec \in Schedules!Specs
  BY <1>1, <1>2, <1>3, <1>4 DEF Schedules!Specs, Schedules!NewSpec
<1> QED
  BY <1>5 DEF Schedules!Absent, ScheduleRows, Schedules!NoDraft, Schedules!NoPreview

\* The form lets through what the server takes.
LEMMA FormAgrees ==
  ASSUME NEW spec \in Schedules!Specs
  PROVE  Schedules!Submittable(spec) <=> Schedules!Coherent(spec)
<1> DEFINE c == spec.changes
           m == [i \in DOMAIN c |-> Schedules!Minute(c[i])]
           points == <<spec.start>> \o m
           stop == Schedules!Stop(spec)
           entered == \A i \in DOMAIN c : c[i].at # Schedules!Blank
<1>1. c \in Seq(Schedules!Points) /\ Len(c) \in 0 .. 2 /\ spec.start \in Nat
  <2>1. c \in UNION {[1 .. n -> Schedules!Points] : n \in 0 .. 2} /\ spec.start \in 0 .. Day - 1
    BY DEF Schedules!Specs
  <2> HIDE DEF c
  <2> QED
    BY <2>1, ChangesAre, ScheduleConstants
<1>2. \A p \in Schedules!Points : Schedules!Minute(p) \in Nat
  <2>1. \A a, b \in Nat : a * Day + b \in Nat
    BY ScheduleConstants
  <2>2. \A p \in Schedules!Points : p.day \in Nat /\ p.at \in Nat
    BY ScheduleConstants DEF Schedules!Points
  <2> QED
    BY <2>1, <2>2 DEF Schedules!Minute
<1>3. stop \in Nat
  <2>1. spec.stop \in [day : 0 .. MaxDays, at : 0 .. Day - 1]
    BY DEF Schedules!Specs
  <2>2. spec.stop.day \in Nat /\ spec.stop.at \in Nat
    BY <2>1, ScheduleConstants
  <2>3. \A a, b \in Nat : a * Day + b \in Nat
    BY ScheduleConstants
  <2> QED
    BY <2>2, <2>3 DEF Schedules!Minute, Schedules!Stop
<1>4. /\ m \in Seq(Nat) /\ DOMAIN c = 1 .. Len(c) /\ DOMAIN m = 1 .. Len(c) /\ Len(m) = Len(c)
      /\ \A i \in 1 .. Len(c) : m[i] \in Nat /\ m[i] = Schedules!Minute(c[i])
  <2>1. DOMAIN c = 1 .. Len(c) /\ Len(c) \in Nat /\ \A i \in 1 .. Len(c) : c[i] \in Schedules!Points
    BY <1>1
  <2>2. m \in [1 .. Len(c) -> Nat] /\ \A i \in 1 .. Len(c) : m[i] = Schedules!Minute(c[i])
    BY <1>2, <2>1
  <2> HIDE DEF m, c
  <2>3. m \in Seq(Nat) /\ Len(m) = Len(c) /\ DOMAIN m = 1 .. Len(c) /\ \A i \in 1 .. Len(c) : m[i] \in Nat
    BY <2>1, <2>2
  <2> QED
    BY <2>1, <2>2, <2>3
<1> HIDE DEF m
<1>5. points[1] = spec.start /\ \A i \in 1 .. Len(c) : points[i + 1] = m[i]
  BY <1>1, <1>4
<1>6. Schedules!Coherent(spec) <=>
         /\ spec.rest # "blank" /\ entered /\ stop - spec.start \in 1 .. MaxRun
         /\ \A i \in 1 .. Len(c) : points[i] + 1 <= points[i + 1] /\ points[i + 1] + 1 <= stop
  BY <1>4 DEF Schedules!Coherent, m
<1> HIDE DEF points
<1>7. ASSUME entered, stop - spec.start \in 1 .. MaxRun
      PROVE  Schedules!TimingErrors(spec) = {} <=>
                \A i \in 1 .. Len(c) : /\ m[i] \in (spec.start + 1) .. (stop - 1)
                                       /\ i > 1 => m[i - 1] < m[i]
  <2>1. Schedules!TimingErrors(spec) =
           {i \in 1 .. Len(c) : \/ m[i] \notin (spec.start + 1) .. (stop - 1)
                                \/ i > 1 /\ m[i] <= m[i - 1]}
    <3>1. \A i \in 1 .. Len(c) : i > 1 => i - 1 \in 1 .. Len(c)
      BY <1>1
    <3>2. \A i \in DOMAIN c : /\ c[i].at # Schedules!Blank /\ Schedules!Minute(c[i]) = m[i]
                              /\ i > 1 => c[i - 1].at # Schedules!Blank /\ Schedules!Minute(c[i - 1]) = m[i - 1]
      BY <1>4, <1>7, <3>1
    <3>3. Schedules!TimingErrors(spec) =
             {i \in DOMAIN c : /\ c[i].at # Schedules!Blank
                               /\ \/ Schedules!Minute(c[i]) \notin (spec.start + 1) .. (stop - 1)
                                  \/ /\ i > 1 /\ c[i - 1].at # Schedules!Blank
                                     /\ Schedules!Minute(c[i]) <= Schedules!Minute(c[i - 1])}
      BY <1>7 DEF Schedules!TimingErrors
    <3> HIDE DEF c, stop
    <3>4. ASSUME NEW i \in 1 .. Len(c)
          PROVE  i \in Schedules!TimingErrors(spec) <=>
                    m[i] \notin (spec.start + 1) .. (stop - 1) \/ (i > 1 /\ m[i] <= m[i - 1])
      <4>1. i \in Schedules!TimingErrors(spec) <=>
               /\ c[i].at # Schedules!Blank
               /\ \/ Schedules!Minute(c[i]) \notin (spec.start + 1) .. (stop - 1)
                  \/ /\ i > 1 /\ c[i - 1].at # Schedules!Blank
                     /\ Schedules!Minute(c[i]) <= Schedules!Minute(c[i - 1])
        BY <1>4, <3>3
      <4>2. c[i].at # Schedules!Blank /\ Schedules!Minute(c[i]) = m[i]
        BY <1>4, <3>2
      <4>3. CASE i > 1
        <5>1. c[i - 1].at # Schedules!Blank /\ Schedules!Minute(c[i - 1]) = m[i - 1]
          BY <1>4, <3>2, <4>3
        <5> QED
          BY <4>1, <4>2, <4>3, <5>1
      <4>4. CASE ~(i > 1)
        BY <4>1, <4>2, <4>4
      <4> QED
        BY <4>3, <4>4
    <3>5. Schedules!TimingErrors(spec) \subseteq 1 .. Len(c)
      BY <1>4, <3>3
    <3> QED
      BY <3>4, <3>5
  <2>2. \A i \in 1 .. Len(c) : i > 1 => m[i] \in Nat /\ m[i - 1] \in Nat
    BY <1>1, <1>4
  <2> QED
    BY <2>1, <2>2
<1>8. ASSUME stop - spec.start \notin 1 .. MaxRun PROVE Schedules!TimingErrors(spec) # {}
  BY <1>8 DEF Schedules!TimingErrors
<1>9. Schedules!Submittable(spec) <=>
         /\ spec.rest # "blank" /\ entered /\ stop - spec.start \in 1 .. MaxRun
         /\ \A i \in 1 .. Len(c) : /\ m[i] \in (spec.start + 1) .. (stop - 1)
                                   /\ i > 1 => m[i - 1] < m[i]
  BY <1>7, <1>8 DEF Schedules!Submittable
<1> HIDE DEF c, stop, entered
<1>10. CASE Len(c) = 0
  BY <1>6, <1>9, <1>10
<1>11. CASE Len(c) = 1
  <2>1. m[1] \in Nat /\ points[1] = spec.start /\ points[1 + 1] = m[1]
    BY <1>4, <1>5, <1>11
  <2> QED
    BY <1>1, <1>3, <1>6, <1>9, <1>11, <2>1
<1>12. CASE Len(c) = 2
  <2>1. /\ m[1] \in Nat /\ m[2] \in Nat
        /\ points[1] = spec.start /\ points[2] = m[1] /\ points[3] = m[2]
    <3>1. points[1 + 1] = m[1] /\ points[2 + 1] = m[2]
      BY <1>5, <1>12
    <3> QED
      BY <1>4, <1>5, <1>12, <3>1
  <2>2. (\A i \in 1 .. Len(c) : /\ m[i] \in (spec.start + 1) .. (stop - 1)
                                /\ i > 1 => m[i - 1] < m[i])
           <=> /\ m[1] \in (spec.start + 1) .. (stop - 1) /\ m[2] \in (spec.start + 1) .. (stop - 1)
               /\ m[1] < m[2]
    BY <1>12, <2>1
  <2>3. (\A i \in 1 .. Len(c) : points[i] + 1 <= points[i + 1] /\ points[i + 1] + 1 <= stop)
           <=> /\ points[1] + 1 <= points[2] /\ points[2] + 1 <= stop
               /\ points[2] + 1 <= points[3] /\ points[3] + 1 <= stop
    BY <1>12
  <2>4. spec.start \in Nat /\ stop \in Nat /\ m[1] \in Nat /\ m[2] \in Nat
    BY <1>1, <1>3, <2>1
  <2>5. (/\ m[1] \in (spec.start + 1) .. (stop - 1) /\ m[2] \in (spec.start + 1) .. (stop - 1)
         /\ m[1] < m[2])
           <=> /\ spec.start + 1 <= m[1] /\ m[1] + 1 <= stop
               /\ m[1] + 1 <= m[2] /\ m[2] + 1 <= stop
    BY <2>4
  <2> QED
    BY <1>6, <1>9, <2>1, <2>2, <2>3, <2>5
<1> QED
  BY <1>1, <1>10, <1>11, <1>12

\* A step of the server that gives one rule its next revision leaves what was seen true.
LEMMA RuleAdvances ==
  ASSUME RulesTyped, NEW r \in RuleIds, NEW new \in ScheduleRows, new.rev = rules[r].rev + 1,
         rules' = [rules EXCEPT ![r] = new]
  PROVE  /\ RulesTyped'
         /\ \A id \in RuleIds : \A base, saw : SeenRow(rules[id], base, saw) => SeenRow(rules'[id], base, saw)
<1>1. \A id \in RuleIds : rules[id] \in ScheduleRows /\ rules[id].rev \in Nat
  BY DEF RulesTyped, ScheduleRows
<1>2. rules' \in [RuleIds -> ScheduleRows] /\ \A id \in RuleIds : rules'[id] = IF id = r THEN new ELSE rules[id]
  BY DEF RulesTyped
<1>3. RulesTyped'
  <2>1. ASSUME NEW id \in RuleIds, rules'[id].rev = 0 PROVE rules'[id] = Schedules!Absent
    <3>1. id # r
      BY <1>1, <1>2, <2>1
    <3> QED
      BY <1>2, <2>1, <3>1 DEF RulesTyped
  <2> QED
    BY <1>2, <2>1 DEF RulesTyped
<1>4. ASSUME NEW id \in RuleIds, NEW base, NEW saw, SeenRow(rules[id], base, saw)
      PROVE  SeenRow(rules'[id], base, saw)
  <2>1. CASE id = r
    <3>1. base \in Nat /\ base <= rules[id].rev /\ saw.rev = base
      BY <1>4 DEF SeenRow
    <3>2. rules'[id].rev = rules[id].rev + 1
      BY <1>2, <2>1
    <3>3. base <= rules'[id].rev /\ rules'[id].rev # base
      BY <1>1, <3>1, <3>2
    <3> QED
      BY <3>1, <3>3 DEF SeenRow
  <2>2. CASE id # r
    BY <1>2, <1>4, <2>2
  <2> QED
    BY <2>1, <2>2
<1> QED
  BY <1>3, <1>4

\* The page follows whatever the server does to the rules.
LEMMA ServerKeeps ==
  ASSUME ScheduleInv, RulesTyped',
         \A id \in RuleIds : \A base, saw : SeenRow(rules[id], base, saw) => SeenRow(rules'[id], base, saw),
         wire' \subseteq wire,
         UNCHANGED <<listed, listRead, draft, preview, confirmation>>
  PROVE  ScheduleInv'
<1>1. ASSUME NEW rows, SeenList(rules, rows) PROVE SeenList(rules', rows)
  BY <1>1 DEF SeenList
<1>2. ASSUME NEW x, BoundWrite(rules, x) PROVE BoundWrite(rules', x)
  BY <1>2 DEF BoundWrite
<1> QED
  BY <1>1, <1>2 DEF ScheduleInv

\* ScheduleService.write and delete, and the other operator.
LEMMA ServerSteps ==
  ASSUME ScheduleInv, Schedules!Server
  PROVE  /\ ScheduleInv'
         /\ \A w \in wire : w \notin wire' /\ rules' # rules => rules[w.input.id] = w.input.saw
<1>1. UNCHANGED <<listed, listRead, draft, preview, confirmation>> /\ wire' \subseteq wire
  BY DEF Schedules!Server, Schedules!ServerPreviews, Schedules!ServerWrites, Schedules!ServerDeletes, Schedules!OtherWrites
<1>2. RulesTyped /\ \A id \in RuleIds : rules[id] \in ScheduleRows
  BY DEF ScheduleInv, RulesTyped
<1>3. CASE UNCHANGED rules
  BY <1>1, <1>2, <1>3, ServerKeeps DEF RulesTyped
<1>4. ASSUME NEW id \in RuleIds, NEW spec \in Schedules!Specs, NEW on \in BOOLEAN, NEW by \in {"me", "other"},
             NEW rev, rev = rules[id].rev,
             rules' = [rules EXCEPT ![id] = [rev |-> rev + 1, spec |-> spec, on |-> on, gone |-> FALSE, by |-> by]]
      PROVE  ScheduleInv'
  <2> DEFINE new == [rev |-> rev + 1, spec |-> spec, on |-> on, gone |-> FALSE, by |-> by]
  <2>1. rev \in Nat
    BY <1>2, <1>4 DEF ScheduleRows
  <2>2. new \in ScheduleRows /\ new.rev = rules[id].rev + 1
    BY <1>4, <2>1 DEF ScheduleRows
  <2>3. rules' = [rules EXCEPT ![id] = new]
    BY <1>4
  <2> HIDE DEF new
  <2> QED
    BY <1>1, <1>2, <2>2, <2>3, RuleAdvances, ServerKeeps
<1>5. ASSUME NEW id \in RuleIds, Schedules!Deleted(id) PROVE ScheduleInv'
  <2> DEFINE new == [rules[id] EXCEPT !.rev = rules[id].rev + 1, !.on = FALSE, !.gone = TRUE]
  <2>1. new \in ScheduleRows /\ new.rev = rules[id].rev + 1
    <3> DEFINE no == FALSE
               yes == TRUE
    <3>1. no \in BOOLEAN /\ yes \in BOOLEAN
      OBVIOUS
    <3>2. new = [rules[id] EXCEPT !.rev = rules[id].rev + 1, !.on = no, !.gone = yes]
      OBVIOUS
    <3> HIDE DEF no, yes, new
    <3>3. rules[id] \in ScheduleRows /\ rules[id].rev + 1 \in Nat
      BY <1>2 DEF ScheduleRows
    <3> QED
      BY <3>1, <3>2, <3>3 DEF ScheduleRows
  <2>2. rules' = [rules EXCEPT ![id] = new]
    BY <1>2, <1>5 DEF Schedules!Deleted, RulesTyped
  <2> HIDE DEF new
  <2> QED
    BY <1>1, <1>2, <2>1, <2>2, RuleAdvances, ServerKeeps
<1>6. ASSUME NEW w \in wire, rules[w.input.id].rev = w.input.base
      PROVE  rules[w.input.id] = w.input.saw
  BY <1>6 DEF ScheduleInv, BoundWrite, SeenRow
<1>7. \A w \in wire : /\ w.input.id \in RuleIds /\ w.input.spec \in Schedules!Specs /\ w.input.on \in BOOLEAN
  BY DEF ScheduleInv, BoundWrite
<1>8. ASSUME NEW w \in wire, Schedules!ServerWrites(w)
      PROVE  ScheduleInv' /\ (rules' # rules => rules[w.input.id] = w.input.saw)
  <2>1. \/ UNCHANGED rules
        \/ Schedules!Written(w.input, "me") /\ ~Schedules!Refused(rules[w.input.id], w.input)
    BY <1>8 DEF Schedules!ServerWrites
  <2>2. ASSUME Schedules!Written(w.input, "me"), ~Schedules!Refused(rules[w.input.id], w.input)
        PROVE  ScheduleInv' /\ rules[w.input.id] = w.input.saw
    <3>1. rules[w.input.id].rev = w.input.base
      BY <2>2 DEF Schedules!Refused
    <3> QED
      BY <1>4, <1>6, <1>7, <2>2, <3>1 DEF Schedules!Written
  <2> QED
    BY <1>3, <2>1, <2>2
<1>9. ASSUME NEW w \in wire, Schedules!ServerDeletes(w)
      PROVE  ScheduleInv' /\ (rules' # rules => rules[w.input.id] = w.input.saw)
  <2>1. \/ UNCHANGED rules
        \/ Schedules!Deleted(w.input.id) /\ rules[w.input.id].rev = w.input.base
    BY <1>9 DEF Schedules!ServerDeletes
  <2> QED
    BY <1>3, <1>5, <1>6, <1>7, <2>1
<1>10. ASSUME NEW id \in RuleIds, Schedules!OtherWrites(id) PROVE ScheduleInv' /\ wire' = wire
  <2>1. wire' = wire
    BY <1>10 DEF Schedules!OtherWrites
  <2>2. CASE Schedules!Deleted(id)
    BY <1>5, <2>1, <2>2
  <2>3. ASSUME rules' = [rules EXCEPT ![id] = [rev |-> rules[id].rev + 1, spec |-> rules[id].spec,
                                               on |-> ~rules[id].on, gone |-> FALSE, by |-> "other"]]
        PROVE  ScheduleInv'
    <3>1. rules[id].spec \in Schedules!Specs
      BY <1>2 DEF ScheduleRows
    <3>2. (~rules[id].on) \in BOOLEAN
      OBVIOUS
    <3> QED
      BY <1>4, <2>3, <3>1, <3>2
  <2> QED
    BY <1>10, <2>1, <2>2, <2>3 DEF Schedules!OtherWrites, Schedules!Written
<1>11. \A w \in wire : Schedules!ServerWrites(w) \/ Schedules!ServerDeletes(w) =>
          \A v \in wire : v \notin wire' => v = w
  BY DEF Schedules!ServerWrites, Schedules!ServerDeletes
<1>12. CASE Schedules!ServerPreviews
  <2>1. UNCHANGED <<rules, wire>>
    BY <1>12 DEF Schedules!ServerPreviews
  <2> QED
    BY <1>3, <2>1
<1> QED
  BY <1>8, <1>9, <1>10, <1>11, <1>12 DEF Schedules!Server

\* What a form may make of a spec.
LEMMA SpecsFilled ==
  ASSUME NEW spec \in Schedules!Specs
  PROVE  /\ \A n \in 0 .. Day - 1 : [spec EXCEPT !.start = n] \in Schedules!Specs
         /\ \A n \in 0 .. Day - 1 : [spec EXCEPT !.stop.at = n] \in Schedules!Specs
         /\ \A d \in 0 .. MaxDays : [spec EXCEPT !.stop.day = d] \in Schedules!Specs
         /\ \A rest \in Schedules!Rests : [spec EXCEPT !.rest = rest] \in Schedules!Specs
<1>1. /\ spec.stop \in [day : 0 .. MaxDays, at : 0 .. Day - 1]
      /\ spec = [start |-> spec.start, stop |-> spec.stop, changes |-> spec.changes, rest |-> spec.rest]
      /\ spec.start \in 0 .. Day - 1 /\ spec.rest \in Schedules!Rests
      /\ spec.changes \in UNION {[1 .. n -> Schedules!Points] : n \in 0 .. 2}
  BY DEF Schedules!Specs
<1>2. \A n \in 0 .. Day - 1 : [spec.stop EXCEPT !.at = n] \in [day : 0 .. MaxDays, at : 0 .. Day - 1]
  BY <1>1
<1>3. \A d \in 0 .. MaxDays : [spec.stop EXCEPT !.day = d] \in [day : 0 .. MaxDays, at : 0 .. Day - 1]
  BY <1>1
<1> DEFINE C == UNION {[1 .. n -> Schedules!Points] : n \in 0 .. 2}
           T == [day : 0 .. MaxDays, at : 0 .. Day - 1]
<1>4. Schedules!Specs = [start : 0 .. Day - 1, stop : T, changes : C, rest : Schedules!Rests]
  BY DEF Schedules!Specs
<1> HIDE DEF C, T
<1>5. ASSUME NEW n \in 0 .. Day - 1 PROVE [spec EXCEPT !.start = n] \in Schedules!Specs
  BY <1>4
<1>6. ASSUME NEW n \in 0 .. Day - 1 PROVE [spec EXCEPT !.stop.at = n] \in Schedules!Specs
  BY <1>2, <1>4 DEF T
<1>7. ASSUME NEW d \in 0 .. MaxDays PROVE [spec EXCEPT !.stop.day = d] \in Schedules!Specs
  BY <1>3, <1>4 DEF T
<1>8. ASSUME NEW rest \in Schedules!Rests PROVE [spec EXCEPT !.rest = rest] \in Schedules!Specs
  BY <1>4
<1> QED
  BY <1>5, <1>6, <1>7, <1>8

\* A change of the frequency is added, taken away or altered.
LEMMA ChangesFilled ==
  ASSUME NEW spec \in Schedules!Specs
  PROVE  /\ Len(spec.changes) < 2 =>
               [spec EXCEPT !.changes = Append(@, [day |-> 0, at |-> Schedules!Blank])] \in Schedules!Specs
         /\ \A i \in DOMAIN spec.changes :
               /\ [spec EXCEPT !.changes = Schedules!RemoveAt(@, i)] \in Schedules!Specs
               /\ \A p \in Schedules!Points : [spec EXCEPT !.changes[i] = p] \in Schedules!Specs
<1> DEFINE C == UNION {[1 .. n -> Schedules!Points] : n \in 0 .. 2}
           T == [day : 0 .. MaxDays, at : 0 .. Day - 1]
           c == spec.changes
<1>1. Schedules!Specs = [start : 0 .. Day - 1, stop : T, changes : C, rest : Schedules!Rests]
  BY DEF Schedules!Specs
<1>2. \A s : s \in C <=> s \in Seq(Schedules!Points) /\ Len(s) <= 2
  BY ChangesAre
<1> HIDE DEF C, T
<1>3. c \in C
  BY <1>1
<1>4. ASSUME NEW new \in C PROVE [spec EXCEPT !.changes = new] \in Schedules!Specs
  BY <1>1, <1>4
<1> HIDE DEF c
<1>5. c \in Seq(Schedules!Points) /\ Len(c) \in Nat /\ Len(c) <= 2
  BY <1>2, <1>3
<1>6. [day |-> 0, at |-> Schedules!Blank] \in Schedules!Points
  BY ScheduleConstants DEF Schedules!Points, Schedules!Blank
<1>7. Len(c) < 2 => Append(c, [day |-> 0, at |-> Schedules!Blank]) \in C
  <2> DEFINE p == [day |-> 0, at |-> Schedules!Blank]
  <2>1. p \in Schedules!Points
    BY <1>6
  <2> HIDE DEF p
  <2>2. Append(c, p) \in Seq(Schedules!Points) /\ Len(Append(c, p)) = Len(c) + 1
    BY <1>5, <2>1
  <2>3. Len(c) < 2 => Len(Append(c, p)) <= 2
    BY <1>5, <2>2
  <2>4. Len(c) < 2 => Append(c, p) \in C
    BY <1>2, <2>2, <2>3
  <2> QED
    BY <2>4 DEF p
<1>8. ASSUME NEW i \in DOMAIN c, NEW p \in Schedules!Points PROVE [c EXCEPT ![i] = p] \in C
  <2>1. [c EXCEPT ![i] = p] \in Seq(Schedules!Points) /\ Len([c EXCEPT ![i] = p]) = Len(c)
    BY <1>5
  <2> QED
    BY <1>2, <1>5, <2>1
<1>9. ASSUME NEW i \in DOMAIN c PROVE Schedules!RemoveAt(c, i) \in C
  <2>1. i \in 1 .. Len(c)
    BY <1>5
  <2> DEFINE before == SubSeq(c, 1, i - 1)
             after == SubSeq(c, i + 1, Len(c))
  <2>2. \A k \in 1 .. Len(c) : c[k] \in Schedules!Points
    BY <1>5
  <2>3. before \in Seq(Schedules!Points) /\ Len(before) = IF 1 <= i - 1 THEN (i - 1) - 1 + 1 ELSE 0
    <3>1. 1 \in Int /\ i - 1 \in Int /\ \A k \in 1 .. i - 1 : c[k] \in Schedules!Points
      BY <1>5, <2>1, <2>2
    <3> QED
      BY <3>1, SubSeqProperties
  <2>4. after \in Seq(Schedules!Points) /\ Len(after) = IF i + 1 <= Len(c) THEN Len(c) - (i + 1) + 1 ELSE 0
    <3>1. i + 1 \in Int /\ Len(c) \in Int /\ \A k \in i + 1 .. Len(c) : c[k] \in Schedules!Points
      BY <1>5, <2>1, <2>2
    <3> QED
      BY <3>1, SubSeqProperties
  <2>5. Schedules!RemoveAt(c, i) = before \o after
    BY DEF Schedules!RemoveAt
  <2> HIDE DEF before, after
  <2>6. before \o after \in Seq(Schedules!Points) /\ Len(before \o after) = Len(before) + Len(after)
    BY <2>3, <2>4
  <2>7. Len(before) + Len(after) <= 2
    BY <1>5, <2>1, <2>3, <2>4
  <2> QED
    BY <1>2, <2>5, <2>6, <2>7
<1>10. Len(c) < 2 => [spec EXCEPT !.changes = Append(c, [day |-> 0, at |-> Schedules!Blank])] \in Schedules!Specs
  BY <1>4, <1>7
<1>11. ASSUME NEW i \in DOMAIN c
       PROVE  /\ [spec EXCEPT !.changes = Schedules!RemoveAt(c, i)] \in Schedules!Specs
              /\ \A p \in Schedules!Points : [spec EXCEPT !.changes = [c EXCEPT ![i] = p]] \in Schedules!Specs
  BY <1>4, <1>8, <1>9
<1>12. spec = [spec EXCEPT !.changes = c]
  BY <1>1 DEF c
<1> QED
  BY <1>10, <1>11 DEF c

\* A row that was not read yet says that there is no rule.
LEMMA NothingRead == ASSUME RulesTyped PROVE SeenList(rules, Schedules!NotRead.rows) /\ SeenList(rules, Schedules!NotListed.rows)
<1> DEFINE rows == [id \in RuleIds |-> Schedules!Absent]
<1>1. Schedules!NotRead.rows = rows /\ Schedules!NotListed.rows = rows
  BY DEF Schedules!NotRead, Schedules!NotListed
<1>2. rows \in [RuleIds -> ScheduleRows]
  BY NewSpecTyped
<1>3. ASSUME NEW id \in RuleIds PROVE SeenRow(rules[id], rows[id].rev, rows[id])
  <2>1. rules[id].rev \in Nat /\ rows[id] = Schedules!Absent /\ rows[id].rev = 0
    BY NewSpecTyped DEF RulesTyped, ScheduleRows
  <2>2. rules[id].rev = 0 => rules[id] = Schedules!Absent
    BY DEF RulesTyped
  <2> QED
    BY <2>1, <2>2 DEF SeenRow
<1> QED
  BY <1>1, <1>2, <1>3 DEF SeenList

\* A rule as it is now, or as a list shows it.
LEMMA SeenNow ==
  ASSUME RulesTyped
  PROVE  /\ SeenList(rules, rules)
         /\ \A id \in RuleIds : rules[id] = Schedules!Absent => SeenRow(rules[id], 0, Schedules!Absent)
<1>1. \A id \in RuleIds : rules[id].rev \in Nat
  BY DEF RulesTyped, ScheduleRows
<1> QED
  BY <1>1, NewSpecTyped DEF RulesTyped, SeenList, SeenRow

LEMMA ListSteps == ASSUME ScheduleInv, Schedules!Lists PROVE ScheduleInv' /\ wire' = wire /\ rules' = rules
<1>1. UNCHANGED <<rules, wire, draft, preview, confirmation>>
  BY DEF Schedules!Lists, Schedules!ReadList, Schedules!AnswerList, Schedules!ListDone, Schedules!Pause
<1>2. RulesTyped /\ RulesTyped'
  BY <1>1 DEF ScheduleInv, RulesTyped
<1>3. \/ listRead'.rows = listRead.rows \/ listRead'.rows = Schedules!NotRead.rows \/ listRead'.rows = rules
  BY DEF Schedules!Lists, Schedules!ReadList, Schedules!AnswerList, Schedules!ListDone, Schedules!Pause,
         Schedules!StartRead, Schedules!NotRead
<1>4. listed'.rows = listed.rows \/ listed'.rows = listRead.rows
  <2>1. \/ listed' = listed \/ listed' = [listed EXCEPT !.error = TRUE]
        \/ listed' = [known |-> TRUE, error |-> FALSE, rows |-> listRead.rows]
    BY DEF Schedules!Lists, Schedules!ReadList, Schedules!AnswerList, Schedules!ListDone, Schedules!Pause
  <2>2. ASSUME listed' = [listed EXCEPT !.error = TRUE] PROVE listed'.rows = listed.rows
    BY <2>2
  <2>3. ASSUME listed' = [known |-> TRUE, error |-> FALSE, rows |-> listRead.rows]
        PROVE  listed'.rows = listRead.rows
    BY <2>3
  <2> QED
    BY <2>1, <2>2, <2>3
<1>5. SeenList(rules, listRead'.rows) /\ SeenList(rules, listed'.rows)
  BY <1>2, <1>3, <1>4, NothingRead, SeenNow DEF ScheduleInv
<1> QED
  BY <1>1, <1>2, <1>5 DEF ScheduleInv

\* The draft, by a change of the form.
LEMMA FillSteps ==
  ASSUME ScheduleInv, Schedules!FillWindow \/ Schedules!FillChanges \/ Schedules!FillRest
  PROVE  ScheduleInv' /\ wire' = wire /\ rules' = rules
<1>1. draft.spec \in Schedules!Specs /\ RulesTyped
  BY DEF ScheduleInv
<1>2. PICK spec \in Schedules!Specs : Schedules!Fill(spec)
  <2>1. CASE Schedules!FillWindow
    BY <1>1, <2>1, SpecsFilled DEF Schedules!FillWindow
  <2>2. CASE Schedules!FillChanges
    BY <1>1, <2>2, ChangesFilled DEF Schedules!FillChanges
  <2>3. CASE Schedules!FillRest
    BY <1>1, <2>3, SpecsFilled DEF Schedules!FillRest
  <2> QED
    BY <2>1, <2>2, <2>3
<1>3. /\ UNCHANGED <<rules, wire, listed, listRead, confirmation>> /\ draft # Schedules!NoDraft
      /\ draft' = [draft EXCEPT !.spec = spec] /\ preview' = Schedules!NoPreview
  BY <1>2 DEF Schedules!Fill, Schedules!Changed
<1>4. draft'.spec = spec /\ draft'.id = draft.id /\ draft'.base = draft.base /\ draft'.saw = draft.saw
  BY <1>3
<1>5. RulesTyped'
  BY <1>1, <1>3 DEF RulesTyped
<1> QED
  BY <1>3, <1>4, <1>5, NewSpecTyped DEF ScheduleInv

LEMMA EditorSteps ==
  ASSUME ScheduleInv, Schedules!Editor
  PROVE  ScheduleInv' /\ wire' = wire /\ rules' = rules
<1>1. RulesTyped /\ (UNCHANGED rules => RulesTyped')
  BY DEF ScheduleInv, RulesTyped
<1>2. ASSUME NEW id \in RuleIds, Schedules!EditNew(id) PROVE ScheduleInv' /\ wire' = wire /\ rules' = rules
  <2>1. /\ UNCHANGED <<rules, wire, listed, listRead, confirmation>> /\ rules[id] = Schedules!Absent
        /\ draft' = [Schedules!NoDraft EXCEPT !.id = id] /\ preview' = Schedules!NoPreview
    BY <1>2 DEF Schedules!EditNew
  <2>2. draft'.id = id /\ draft'.base = 0 /\ draft'.spec = Schedules!NewSpec /\ draft'.saw = Schedules!Absent
    BY <2>1 DEF Schedules!NoDraft
  <2> QED
    BY <1>1, <2>1, <2>2, SeenNow, NewSpecTyped DEF ScheduleInv
<1>3. ASSUME NEW id \in RuleIds, Schedules!Edit(id) PROVE ScheduleInv' /\ wire' = wire /\ rules' = rules
  <2>1. /\ UNCHANGED <<rules, wire, listed, listRead, confirmation>> /\ preview' = Schedules!NoPreview
        /\ draft' = [id |-> id, base |-> listed.rows[id].rev, spec |-> listed.rows[id].spec, saw |-> listed.rows[id]]
    BY <1>3 DEF Schedules!Edit, Schedules!Row
  <2>2. draft'.id = id /\ draft'.base = listed.rows[id].rev /\ draft'.spec = listed.rows[id].spec
        /\ draft'.saw = listed.rows[id]
    BY <2>1
  <2>3. listed.rows[id].spec \in Schedules!Specs /\ SeenRow(rules[id], listed.rows[id].rev, listed.rows[id])
    BY DEF ScheduleInv, SeenList, ScheduleRows
  <2> QED
    BY <1>1, <2>1, <2>2, <2>3, NewSpecTyped DEF ScheduleInv
<1>4. CASE Schedules!CloseEditor
  <2>1. UNCHANGED <<rules, wire, listed, listRead, confirmation>> /\ draft' = Schedules!NoDraft
        /\ preview' = Schedules!NoPreview
    BY <1>4 DEF Schedules!CloseEditor
  <2> QED
    BY <1>1, <2>1, NewSpecTyped DEF ScheduleInv
<1>5. CASE Schedules!AskPreview
  <2>1. UNCHANGED <<rules, wire, listed, listRead, draft, confirmation>> /\ preview' = Schedules!NoPreview
    BY <1>5 DEF Schedules!AskPreview
  <2> QED
    BY <1>1, <2>1, NewSpecTyped DEF ScheduleInv
<1>6. CASE Schedules!ConfirmSave
  <2>1. UNCHANGED <<rules, wire, listed, listRead, draft, preview>> /\ draft # Schedules!NoDraft /\ preview.known
    BY <1>6 DEF Schedules!ConfirmSave
  <2>2. confirmation' = [kind |-> "save", id |-> draft.id, base |-> draft.base, spec |-> draft.spec,
                         on |-> TRUE, saw |-> draft.saw, checked |-> TRUE, of |-> preview.of]
    BY <1>6 DEF Schedules!ConfirmSave
  <2>3. /\ confirmation'.id = draft.id /\ confirmation'.base = draft.base /\ confirmation'.spec = draft.spec
        /\ confirmation'.saw = draft.saw /\ confirmation'.of = preview.of
    BY <2>2
  <2>4. confirmation'.on \in BOOLEAN
    BY <2>2
  <2>5. BoundWrite(rules, confirmation')
    BY <2>1, <2>3, <2>4 DEF BoundWrite, ScheduleInv
  <2> QED
    BY <1>1, <2>1, <2>5 DEF ScheduleInv
<1> QED
  BY <1>2, <1>3, <1>4, <1>5, <1>6, FillSteps DEF Schedules!Editor

LEMMA DialogSteps ==
  ASSUME ScheduleInv, Schedules!Dialogs
  PROVE  ScheduleInv' /\ wire \subseteq wire' /\ rules' = rules
<1>1. RulesTyped /\ (UNCHANGED rules => RulesTyped')
  BY DEF ScheduleInv, RulesTyped
<1>2. ASSUME NEW id \in RuleIds, NEW kind, Schedules!ConfirmListed(id, kind)
      PROVE  ScheduleInv' /\ wire' = wire /\ rules' = rules
  <2> DEFINE seenRow == listed.rows[id]
  <2>1. UNCHANGED <<rules, wire, listed, listRead, draft, preview>>
    BY <1>2 DEF Schedules!ConfirmListed
  <2>2. confirmation' = [Schedules!NoWrite EXCEPT !.kind = kind, !.id = id, !.base = seenRow.rev,
                                    !.spec = seenRow.spec, !.on = ~seenRow.on, !.saw = seenRow]
    BY <1>2 DEF Schedules!ConfirmListed, Schedules!Row
  <2>3. seenRow.spec \in Schedules!Specs /\ SeenRow(rules[id], seenRow.rev, seenRow)
    BY DEF ScheduleInv, SeenList, ScheduleRows
  <2> HIDE DEF seenRow
  <2>4. /\ confirmation'.id = id /\ confirmation'.base = seenRow.rev /\ confirmation'.spec = seenRow.spec
        /\ confirmation'.saw = seenRow /\ confirmation'.checked = FALSE
    BY <2>2 DEF Schedules!NoWrite
  <2>5. confirmation'.on \in BOOLEAN
    <3>1. confirmation'.on = ~seenRow.on
      BY <2>2 DEF Schedules!NoWrite
    <3> QED
      BY <3>1
  <2>6. BoundWrite(rules, confirmation')
    BY <2>3, <2>4, <2>5 DEF BoundWrite
  <2> QED
    BY <1>1, <2>1, <2>6 DEF ScheduleInv
<1>3. CASE Schedules!Dismiss
  <2>1. UNCHANGED <<rules, wire, listed, listRead, draft, preview>> /\ confirmation' = Schedules!NoWrite
    BY <1>3 DEF Schedules!Dismiss
  <2> QED
    BY <1>1, <2>1 DEF ScheduleInv
<1>4. CASE Schedules!Confirm
  <2>1. /\ UNCHANGED <<rules, listed, listRead, draft, preview>> /\ confirmation' = Schedules!NoWrite
        /\ confirmation # Schedules!NoWrite
        /\ wire' = wire \cup {[nr |-> sends + 1, input |-> [confirmation EXCEPT !.base = confirmation.base]]}
    BY <1>4 DEF Schedules!Confirm, Schedules!Closed, Schedules!Base
  <2> DEFINE sent == [confirmation EXCEPT !.base = confirmation.base]
  <2>2. BoundWrite(rules, confirmation)
    BY <2>1 DEF ScheduleInv
  <2>3. /\ sent.id = confirmation.id /\ sent.base = confirmation.base /\ sent.spec = confirmation.spec
        /\ sent.on = confirmation.on /\ sent.saw = confirmation.saw /\ sent.checked = confirmation.checked
        /\ sent.of = confirmation.of
    OBVIOUS
  <2> HIDE DEF sent
  <2>4. BoundWrite(rules, sent)
    BY <2>2, <2>3 DEF BoundWrite
  <2>5. \A w \in wire' : w \in wire \/ w.input = sent
    BY <2>1 DEF sent
  <2> QED
    BY <1>1, <2>1, <2>4, <2>5 DEF ScheduleInv
<1>5. CASE Schedules!ActionDone
  <2>1. UNCHANGED <<rules, wire, listed, confirmation>>
    BY <1>5 DEF Schedules!ActionDone
  <2>2. listRead' = listRead \/ listRead'.rows = Schedules!NotRead.rows
    BY <1>5 DEF Schedules!ActionDone, Schedules!StartRead, Schedules!NotRead
  <2>3. SeenList(rules, listRead'.rows)
    BY <1>1, <2>2, NothingRead DEF ScheduleInv
  <2>4. \/ draft' = Schedules!NoDraft /\ preview' = Schedules!NoPreview
        \/ draft' = draft /\ (preview' = preview \/ preview'.of = draft.spec)
    <3>1. CASE action.kind = "save" /\ action.answer = "ok"
      BY <1>5, <3>1 DEF Schedules!ActionDone
    <3>2. CASE ~(action.kind = "save" /\ action.answer = "ok")
      BY <1>5, <3>2 DEF Schedules!ActionDone
    <3> QED
      BY <3>1, <3>2
  <2> QED
    BY <1>1, <2>1, <2>3, <2>4, NewSpecTyped DEF ScheduleInv
<1>6. CASE Schedules!ActionFails
  <2>1. UNCHANGED <<rules, wire, listed, listRead, draft, preview, confirmation>>
    BY <1>6 DEF Schedules!ActionFails
  <2> QED
    BY <1>1, <2>1 DEF ScheduleInv
<1> QED
  BY <1>2, <1>3, <1>4, <1>5, <1>6 DEF Schedules!Dialogs

LEMMA ScheduleInit == Schedules!Init => ScheduleInv
<1> SUFFICES ASSUME Schedules!Init PROVE ScheduleInv
  OBVIOUS
<1>1. /\ wire = {} /\ listed = Schedules!NotListed /\ listRead = Schedules!NotRead /\ draft = Schedules!NoDraft
      /\ preview = Schedules!NoPreview /\ confirmation = Schedules!NoWrite
  BY DEF Schedules!Init
<1>2. RulesTyped
  <2>1. [id \in RuleIds |-> Schedules!Absent] \in [RuleIds -> ScheduleRows]
    BY NewSpecTyped
  <2>2. CASE rules = [id \in RuleIds |-> Schedules!Absent]
    BY <2>1, <2>2 DEF RulesTyped
  <2>3. ASSUME NEW spec \in Saved, NEW r,
               rules = [[id \in RuleIds |-> Schedules!Absent] EXCEPT ![r] =
                          [rev |-> 1, spec |-> spec, on |-> TRUE, gone |-> FALSE, by |-> "other"]]
        PROVE  RulesTyped
    <3> DEFINE saved == [rev |-> 1, spec |-> spec, on |-> TRUE, gone |-> FALSE, by |-> "other"]
    <3>1. saved \in ScheduleRows /\ saved.rev = 1
      BY ScheduleConstants DEF ScheduleRows
    <3>2. rules = [[id \in RuleIds |-> Schedules!Absent] EXCEPT ![r] = saved]
      BY <2>3
    <3> HIDE DEF saved
    <3>3. rules \in [RuleIds -> ScheduleRows]
      BY <2>1, <3>1, <3>2
    <3>4. \A id \in RuleIds : rules[id] = Schedules!Absent \/ rules[id] = saved
      BY <3>2
    <3> QED
      BY <3>1, <3>3, <3>4 DEF RulesTyped
  <2> QED
    BY <2>2, <2>3 DEF Schedules!Init
<1> QED
  BY <1>1, <1>2, NothingRead, NewSpecTyped DEF ScheduleInv

\* A revision names one state of a rule, and every write that is prepared, confirmed or under
\* way carries the revision of the state its operator was looking at.
THEOREM ScheduleInvariant == Spec => []ScheduleInv
<1>1. Init => ScheduleInv
  BY ScheduleInit DEF Init
<1>2. ScheduleInv /\ [Next]_<<screen, scheduleVars, itemVars, rowVars, driveVars, cardVars, queryVars, accessVars>>
        => ScheduleInv'
  <2> SUFFICES ASSUME ScheduleInv, Next \/ UNCHANGED scheduleVars PROVE ScheduleInv'
    OBVIOUS
  <2>1. CASE ScheduleStep
    BY <2>1, ListSteps, EditorSteps, DialogSteps, ServerSteps DEF ScheduleStep, Schedules!Next
  <2>2. CASE UNCHANGED scheduleVars
    BY <2>2 DEF scheduleVars, ScheduleInv, RulesTyped
  <2> QED
    BY <2>1, <2>2 DEF Next, ItemStep, ListStep, DriveStep, CardStep, QueryStep, MembersStep
<1> QED
  BY <1>1, <1>2, PTL DEF Spec

\* A rule is enabled from the editor only as it was previewed.
THEOREM SavedAsPreviewed == Spec => []EnabledAsPreviewed
<1>1. ScheduleInv => EnabledAsPreviewed
  BY DEF ScheduleInv, BoundWrite, EnabledAsPreviewed, Schedules!EnabledAsPreviewed
<1> QED
  BY <1>1, ScheduleInvariant, PTL

\* The form lets through exactly the runs that the server takes.
THEOREM FormsAgree == Spec => []FormAgreesWithServer
<1>1. ScheduleInv => FormAgreesWithServer
  BY FormAgrees DEF ScheduleInv, FormAgreesWithServer, Schedules!FormAgreesWithServer
<1> QED
  BY <1>1, ScheduleInvariant, PTL

\* A write of the page, however late, replaces the row the operator was looking at when
\* the editor or the dialog was opened.
THEOREM WritesReplaceWhatWasSeen == Spec => ReplacesWhatWasSeen
<1> DEFINE Replaces == \A w \in wire : w \notin wire' /\ rules' # rules => rules[w.input.id] = w.input.saw
<1>1. ScheduleInv /\ [Next]_<<screen, scheduleVars, itemVars, rowVars, driveVars, cardVars, queryVars, accessVars>>
        => [Replaces]_(Schedules!vars)
  <2> SUFFICES ASSUME ScheduleInv, Next \/ UNCHANGED scheduleVars PROVE Replaces
    BY DEF Schedules!vars
  <2>1. CASE ScheduleStep
    BY <2>1, ListSteps, EditorSteps, DialogSteps, ServerSteps DEF ScheduleStep, Schedules!Next
  <2>2. CASE UNCHANGED scheduleVars
    BY <2>2 DEF scheduleVars
  <2> QED
    BY <2>1, <2>2 DEF Next, ItemStep, ListStep, DriveStep, CardStep, QueryStep, MembersStep
<1> QED
  BY <1>1, ScheduleInvariant, PTL DEF Spec, ReplacesWhatWasSeen, Schedules!ReplacesWhatWasSeen
=============================================================================
