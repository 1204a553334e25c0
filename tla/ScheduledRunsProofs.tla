------------------------ MODULE ScheduledRunsProofs ------------------------
(***************************************************************************)
(* Proofs about ScheduledRuns, for any number of rules, users and starts.  *)
(* The journal grows only where there is no entry of the start and         *)
(* nothing is pending, and no entry ever changes its rule or its start.    *)
(* The worker alone moves a rule on from a start that is due (MovesOn),    *)
(* and only over an entry of the journal.                                  *)
(***************************************************************************)
EXTENDS ScheduledRuns, SequenceTheorems, WellFoundedInduction, TLAPS

RunsInv == TypeOK /\ OneRunPerStart /\ OneAtATime

Pending(run) == run.status \in {"queued", "published"}

\* The time that is kept is not before that of any Stop that took effect, and nothing is
\* pending that it forbids.
StopInv ==
    \A k \in Stops : stops[k].done =>
        /\ stops[k].at # Never /\ lastStop # Never /\ stops[k].at <= lastStop
        /\ \A i \in DOMAIN runs : Pending(runs[i]) => lastStop < runs[i].start

\* A Stop that waits is not older than one that took effect, and none is of the future.
WaitingInv ==
    \A k, m \in Stops :
        /\ stops[k].at # Never => stops[k].at <= clock
        /\ stops[k].done => stops[k].at # Never
        /\ stops[k].at # Never /\ ~stops[k].done /\ stops[m].done => stops[m].at <= stops[k].at

\* What every step but a new run leaves of the journal.
RunsKept ==
    /\ DOMAIN runs' = DOMAIN runs
    /\ \A i \in DOMAIN runs :
          /\ runs'[i].rule = runs[i].rule /\ runs'[i].start = runs[i].start
          /\ Pending(runs'[i]) => Pending(runs[i])
          /\ runs'[i].attempts # runs[i].attempts => Pending(runs[i])

-----------------------------------------------------------------------------
(* The calendar.                                                            *)

LEMMA NatMinimum ==
  ASSUME NEW T, T \subseteq Nat, T # {}
  PROVE  \E t \in T : \A u \in T : t <= u
<1>1. \E t \in T : \A u \in T : ~ (<<u, t>> \in OpToRel(<, Nat))
  BY NatLessThanWellFounded, WFMin, Zenon
<1>2. OpToRel(<, Nat) = {ss \in Nat \X Nat : ss[1] < ss[2]}
  BY Zenon DEF OpToRel
<1> HIDE DEF OpToRel
<1>3. \E t \in T : \A u \in T : ~ (<<u, t>> \in {ss \in Nat \X Nat : ss[1] < ss[2]})
  BY <1>1, <1>2, Zenon
<1>4. PICK t \in T : \A u \in T : ~ (<<u, t>> \in {ss \in Nat \X Nat : ss[1] < ss[2]})
  BY <1>3
<1>5. ASSUME NEW u \in T PROVE t <= u
  <2>1. t \in Nat /\ u \in Nat
    BY Zenon
  <2>2. u < t => <<u, t>> \in {ss \in Nat \X Nat : ss[1] < ss[2]}
    BY <2>1
  <2> QED
    BY <1>4, <2>1, <2>2
<1> QED
  BY <1>5

LEMMA UpcomingStart ==
  ASSUME NEW spec, spec \subseteq Nat, shift \in 0..1, NEW from \in Nat
  PROVE  /\ Upcoming(spec, from) \in Nat \cup {Never}
         /\ Upcoming(spec, from) # Never => Upcoming(spec, from) \in Starts(spec)
<1> DEFINE later == {t \in Starts(spec) : t >= from}
<1>1. later \subseteq Nat
  BY DEF Starts
<1>2. CASE later = {}
  BY <1>2 DEF Upcoming
<1>3. CASE later # {}
  <2>1. PICK t \in later : \A u \in later : t <= u
    BY <1>1, <1>3, NatMinimum
  <2>2. Upcoming(spec, from) = CHOOSE x \in later : \A u \in later : x <= u
    BY <1>3 DEF Upcoming
  <2>3. Upcoming(spec, from) \in later
    BY <2>1, <2>2
  <2> QED
    BY <1>1, <2>3
<1> QED
  BY <1>2, <1>3


LEMMA RefreshedTyped ==
  ASSUME shift \in 0..1, NEW rule \in RuleShape, NEW from \in Nat,
         rule.enabled => rule.revision > 0 /\ rule.author \in Users /\ rule.spec \in Specs,
         rule.deleted => ~rule.enabled
  PROVE  Refreshed(rule, from) \in RuleShape /\ RuleOK(Refreshed(rule, from))
<1> DEFINE next == IF rule.enabled THEN Upcoming(rule.spec, from) ELSE Never
           check == IF next = Never \/ next <= from + Day THEN next ELSE from + Day
<1>1. next \in Nat \cup {Never} /\ (~rule.enabled => next = Never)
  <2>1. rule.enabled => rule.spec \subseteq Nat
    BY SchedulesAssumption
  <2> QED
    BY <2>1, UpcomingStart
<1>2. /\ check \in Nat \cup {Never} /\ check <= next
      /\ next = Never <=> check = Never
  BY <1>1, SchedulesAssumption DEF Never
<1>3. Refreshed(rule, from) = [rule EXCEPT !.next = next, !.check = check]
  BY DEF Refreshed
<1> HIDE DEF next, check
<1> QED
  BY <1>1, <1>2, <1>3 DEF RuleShape, RuleOK

-----------------------------------------------------------------------------
(* The tables.                                                              *)

LEMMA ChangeRule ==
  ASSUME TypeOK, NEW r \in Rules, NEW x \in RuleShape, RuleOK(x), rules' = [rules EXCEPT ![r] = x]
  PROVE  rules' \in [Rules -> RuleShape] /\ \A q \in Rules : RuleOK(rules'[q])
BY DEF TypeOK

LEMMA RunTyped ==
  ASSUME TypeOK, NEW i \in DOMAIN runs
  PROVE  runs[i] \in RunShape /\ i \in 1..Len(runs)
BY LenProperties, ElementOfSeq DEF TypeOK

LEMMA AppendRun ==
  ASSUME TypeOK, NEW x \in RunShape, runs' = Append(runs, x)
  PROVE  /\ runs' \in Seq(RunShape)
         /\ Len(runs) + 1 \notin DOMAIN runs
         /\ DOMAIN runs' = DOMAIN runs \cup {Len(runs) + 1}
         /\ \A i \in DOMAIN runs : runs'[i] = runs[i]
         /\ runs'[Len(runs) + 1] = x
<1>1. runs \in Seq(RunShape) /\ DOMAIN runs = 1..Len(runs) /\ Len(runs) \in Nat
  BY LenProperties DEF TypeOK
<1>2. /\ runs' \in Seq(RunShape)
      /\ Len(runs') = Len(runs) + 1
      /\ \A i \in 1..Len(runs) : runs'[i] = runs[i]
      /\ runs'[Len(runs) + 1] = x
  BY <1>1, AppendProperties
<1>3. DOMAIN runs' = 1..(Len(runs) + 1)
  BY <1>2, LenProperties
<1> QED
  BY <1>1, <1>2, <1>3

LEMMA ChangeRun ==
  ASSUME TypeOK, NEW i \in DOMAIN runs, NEW x \in RunShape, runs' = [runs EXCEPT ![i] = x],
         x.rule = runs[i].rule, x.start = runs[i].start, Pending(x) => Pending(runs[i]),
         x.attempts # runs[i].attempts => Pending(runs[i]), x.leaving => x.attempts > 0
  PROVE  /\ runs' \in Seq(RunShape)
         /\ \A j \in DOMAIN runs' : runs'[j].leaving => runs'[j].attempts > 0
         /\ RunsKept
<1>1. runs \in Seq(RunShape) /\ DOMAIN runs = 1..Len(runs)
  BY LenProperties DEF TypeOK
<1>2. /\ runs' \in Seq(RunShape)
      /\ DOMAIN runs' = DOMAIN runs
      /\ \A j \in DOMAIN runs : runs'[j] = IF j = i THEN x ELSE runs[j]
  BY <1>1, ExceptSeq
<1>3. \A j \in DOMAIN runs' : runs'[j].leaving => runs'[j].attempts > 0
  BY <1>2 DEF TypeOK
<1> QED
  BY <1>2, <1>3 DEF RunsKept

\* The journal is as good as it was where nothing is added to it.
LEMMA KeptIsGood ==
  ASSUME OneRunPerStart, OneAtATime, RunsKept
  PROVE  OneRunPerStart' /\ OneAtATime'
<1>1. OneRunPerStart'
  BY DEF OneRunPerStart, RunsKept
<1>2. OneAtATime'
  BY DEF OneAtATime, RunsKept, Pending
<1> QED
  BY <1>1, <1>2


-----------------------------------------------------------------------------
(* The operations.                                                          *)

LEMMA WriteStep ==
  ASSUME TypeOK, NEW u \in Users, NEW r \in Rules, NEW spec \in Specs, NEW on \in BOOLEAN,
         Write(u, r, spec, on)
  PROVE  TypeOK' /\ RunsKept
<1> DEFINE x == [rules[r] EXCEPT !.revision = @ + 1, !.enabled = on, !.spec = spec, !.author = u]
<1>1. /\ x \in RuleShape /\ ~x.deleted /\ x.revision > 0
      /\ x.author \in Users /\ x.spec \in Specs
  <2>1. rules[r] \in RuleShape /\ rules[r].revision < Revisions /\ ~rules[r].deleted
    BY DEF TypeOK, Write
  <2>2. rules[r].revision + 1 \in 0..Revisions /\ rules[r].revision + 1 > 0
    BY <2>1, SchedulesAssumption DEF RuleShape
  <2> QED
    BY <2>1, <2>2 DEF RuleShape
<1>2. Refreshed(x, clock) \in RuleShape /\ RuleOK(Refreshed(x, clock))
  <2>1. clock \in Nat /\ shift \in 0..1
    BY DEF TypeOK
  <2> HIDE DEF x
  <2> QED
    BY <1>1, <2>1, RefreshedTyped
<1>3. rules' = [rules EXCEPT ![r] = Refreshed(x, clock)]
  BY DEF Write
<1> HIDE DEF x
<1>4. rules' \in [Rules -> RuleShape] /\ \A q \in Rules : RuleOK(rules'[q])
  BY <1>2, <1>3, ChangeRule
<1>5. UNCHANGED <<clock, runs, stops, lastStop, other, revoked, shift>>
  BY DEF Write
<1> QED
  BY <1>4, <1>5 DEF TypeOK, RunsKept

LEMMA DeleteStep ==
  ASSUME TypeOK, NEW r \in Rules, Delete(r)
  PROVE  TypeOK' /\ RunsKept
<1> DEFINE x == [rules[r] EXCEPT !.deleted = TRUE, !.enabled = FALSE,
                    !.next = Never, !.check = Never, !.revision = @ + 1]
<1>1. x \in RuleShape /\ RuleOK(x)
  <2>1. rules[r] \in RuleShape /\ rules[r].revision < Revisions
    BY DEF TypeOK, Delete
  <2>2. rules[r].revision + 1 \in 0..Revisions
    BY <2>1, SchedulesAssumption DEF RuleShape
  <2>3. x \in RuleShape
    BY <2>1, <2>2 DEF RuleShape, Never
  <2>4. x.enabled = FALSE /\ x.next = Never /\ x.check = Never
    BY <2>1 DEF RuleShape
  <2> HIDE DEF x
  <2> QED
    BY <2>3, <2>4 DEF RuleOK, Never
<1>2. rules' = [rules EXCEPT ![r] = x]
  BY DEF Delete
<1> HIDE DEF x
<1>3. rules' \in [Rules -> RuleShape] /\ \A q \in Rules : RuleOK(rules'[q])
  BY <1>1, <1>2, ChangeRule
<1>4. UNCHANGED <<clock, runs, stops, lastStop, other, revoked, shift>>
  BY DEF Delete
<1> QED
  BY <1>3, <1>4 DEF TypeOK, RunsKept

LEMMA RefreshStep ==
  ASSUME TypeOK, NEW r \in Rules, NEW from \in Nat, Refresh(r, from)
  PROVE  rules' \in [Rules -> RuleShape] /\ \A q \in Rules : RuleOK(rules'[q])
<1>1. Refreshed(rules[r], from) \in RuleShape /\ RuleOK(Refreshed(rules[r], from))
  <2>1. /\ shift \in 0..1 /\ rules[r] \in RuleShape /\ (rules[r].deleted => ~rules[r].enabled)
        /\ rules[r].enabled =>
              rules[r].revision > 0 /\ rules[r].author \in Users /\ rules[r].spec \in Specs
    BY DEF TypeOK, RuleOK
  <2> QED
    BY <2>1, RefreshedTyped
<1>2. rules' = [rules EXCEPT ![r] = Refreshed(rules[r], from)]
  BY DEF Refresh
<1> QED
  BY <1>1, <1>2, ChangeRule

LEMMA LookStep ==
  ASSUME TypeOK, NEW r \in Rules, ProcessRefresh(r) \/ ProcessDuplicate(r)
  PROVE  TypeOK' /\ RunsKept
<1>1. clock \in Nat /\ clock + 1 \in Nat
  BY DEF TypeOK
<1>2. rules' \in [Rules -> RuleShape] /\ \A q \in Rules : RuleOK(rules'[q])
  BY <1>1, RefreshStep DEF ProcessRefresh, ProcessDuplicate
<1>3. UNCHANGED <<clock, runs, stops, lastStop, other, revoked, shift>>
  BY DEF ProcessRefresh, ProcessDuplicate
<1> QED
  BY <1>2, <1>3 DEF TypeOK, RunsKept

\* A due start makes an entry for the journal.
LEMMA NewRun ==
  ASSUME TypeOK, NEW r \in Rules, NEW status \in {"skipped", "queued"}, ToCheck(r),
         rules[r].next \in Starts(rules[r].spec)
  PROVE  Run(r, status) \in RunShape
<1>1. /\ rules[r] \in RuleShape /\ rules[r].revision > 0 /\ rules[r].author \in Users
      /\ rules[r].spec \in Specs
  BY DEF TypeOK, RuleOK, ToCheck
<1>2. rules[r].spec \subseteq Nat /\ shift \in 0..1 /\ clock \in Nat
  BY <1>1, SchedulesAssumption DEF TypeOK
<1>3. rules[r].next \in Nat
  BY <1>2 DEF Starts
<1>4. clock + Grace \in Nat /\ 0 \in 0..Attempts /\ rules[r].revision \in 1..Revisions
  BY <1>1, <1>2, SchedulesAssumption DEF RuleShape
<1> QED
  BY <1>1, <1>3, <1>4 DEF Run, RunShape


\* It makes one only where the journal has none of that start, and a pending one only where
\* nothing else is pending.
LEMMA NewRunStep ==
  ASSUME RunsInv, NEW r \in Rules, ProcessSkipped(r) \/ ProcessStart(r)
  PROVE  RunsInv'
<1> DEFINE status == IF ProcessStart(r) THEN "queued" ELSE "skipped"
<1>1. TypeOK /\ OneRunPerStart /\ OneAtATime
  BY DEF RunsInv
<1>2. /\ Run(r, status) \in RunShape /\ runs' = Append(runs, Run(r, status))
      /\ ~Handled(r)
      /\ Pending(Run(r, status)) => ~Busy
  <2>1. ToCheck(r) /\ rules[r].next \in Starts(rules[r].spec) /\ ~Handled(r)
    BY DEF ProcessSkipped, ProcessStart
  <2>2. Run(r, status) \in RunShape
    BY <1>1, <2>1, NewRun
  <2>3. CASE ProcessStart(r)
    BY <2>1, <2>2, <2>3 DEF ProcessStart
  <2>4. CASE ~ProcessStart(r)
    <3>1. status = "skipped" /\ ProcessSkipped(r)
      BY <2>4
    <3>2. ~Pending(Run(r, status))
      BY <3>1 DEF Pending, Run
    <3> QED
      BY <2>1, <2>2, <3>1, <3>2 DEF ProcessSkipped
  <2> QED
    BY <2>3, <2>4
<1> HIDE DEF status
<1> DEFINE new == Len(runs) + 1
<1>3. /\ runs' \in Seq(RunShape)
      /\ new \notin DOMAIN runs
      /\ DOMAIN runs' = DOMAIN runs \cup {new}
      /\ \A i \in DOMAIN runs : runs'[i] = runs[i]
      /\ runs'[new] = Run(r, status)
  BY <1>1, <1>2, AppendRun
<1> HIDE DEF new
<1>4. rules' \in [Rules -> RuleShape] /\ \A q \in Rules : RuleOK(rules'[q])
  <2>1. clock \in Nat /\ clock + 1 \in Nat /\ shift \in 0..1
    BY <1>1 DEF TypeOK
  <2>2. CASE ProcessStart(r)
    BY <1>1, <2>1, <2>2, RefreshStep DEF ProcessStart
  <2>3. CASE ProcessSkipped(r)
    <3> DEFINE x == [rules[r] EXCEPT !.enabled = rules[r].author \notin revoked]
    <3>1. /\ rules[r] \in RuleShape /\ rules[r].enabled /\ ~rules[r].deleted
          /\ rules[r].revision > 0 /\ rules[r].author \in Users /\ rules[r].spec \in Specs
      BY <1>1, <2>3 DEF TypeOK, RuleOK, ProcessSkipped, ToCheck
    <3>2. /\ x \in RuleShape /\ ~x.deleted
          /\ x.revision > 0 /\ x.author \in Users /\ x.spec \in Specs
      BY <3>1 DEF RuleShape
    <3>3. rules' = [rules EXCEPT ![r] = Refreshed(x, clock + 1)]
      BY <2>3 DEF ProcessSkipped
    <3> HIDE DEF x
    <3>4. Refreshed(x, clock + 1) \in RuleShape /\ RuleOK(Refreshed(x, clock + 1))
      BY <2>1, <3>2, RefreshedTyped
    <3> QED
      BY <1>1, <3>3, <3>4, ChangeRule
  <2> QED
    BY <2>2, <2>3
<1>5. TypeOK'
  <2>1. UNCHANGED <<clock, stops, lastStop, other, revoked, shift>>
    BY DEF ProcessStart, ProcessSkipped
  <2>2. ~Run(r, status).leaving
    BY DEF Run
  <2>3. \A i \in DOMAIN runs' : runs'[i].leaving => runs'[i].attempts > 0
    BY <1>1, <1>3, <2>2 DEF TypeOK
  <2> QED
    BY <1>1, <1>3, <1>4, <2>1, <2>3 DEF TypeOK
<1>6. OneRunPerStart'
  <2>1. \A i \in DOMAIN runs :
            ~(runs[i].rule = runs'[new].rule /\ runs[i].start = runs'[new].start)
    BY <1>2, <1>3 DEF Handled, Run
  <2> QED
    BY <1>1, <1>3, <2>1 DEF OneRunPerStart
<1>7. OneAtATime'
  <2>1. Pending(runs'[new]) => \A i \in DOMAIN runs : ~Pending(runs[i])
    BY <1>2, <1>3 DEF Busy, Pending
  <2> QED
    BY <1>1, <1>3, <2>1 DEF OneAtATime, Pending
<1> QED
  BY <1>5, <1>6, <1>7 DEF RunsInv

LEMMA DeliveryStep ==
  ASSUME TypeOK, NEW i \in DOMAIN runs, Attempt(i) \/ GiveUp(i) \/ Leave(i) \/ Finish(i)
  PROVE  TypeOK' /\ RunsKept
<1>1. runs[i] \in RunShape /\ (runs[i].leaving => runs[i].attempts > 0)
  BY RunTyped DEF TypeOK
<1>2. /\ runs' \in Seq(RunShape)
      /\ \A j \in DOMAIN runs' : runs'[j].leaving => runs'[j].attempts > 0
      /\ RunsKept
  <2>1. CASE Attempt(i)
    <3> DEFINE x == [runs[i] EXCEPT !.status = "published", !.attempts = @ + 1, !.leaving = TRUE]
    <3>1. runs[i].attempts + 1 \in 0..Attempts /\ runs[i].attempts + 1 > 0
      BY <1>1, <2>1, SchedulesAssumption DEF Attempt, RunShape
    <3>2. /\ x \in RunShape /\ x.rule = runs[i].rule /\ x.start = runs[i].start
          /\ x.attempts > 0
      BY <1>1, <3>1 DEF RunShape
    <3>3. runs' = [runs EXCEPT ![i] = x] /\ Pending(runs[i])
      BY <2>1 DEF Attempt, Pending
    <3> HIDE DEF x
    <3> QED
      BY <3>2, <3>3, ChangeRun
  <2>2. CASE GiveUp(i) \/ Finish(i)
    <3> DEFINE x == [runs[i] EXCEPT !.status = "over"]
    <3>1. /\ x \in RunShape /\ x.rule = runs[i].rule /\ x.start = runs[i].start
          /\ x.leaving = runs[i].leaving /\ x.attempts = runs[i].attempts /\ ~Pending(x)
      BY <1>1 DEF RunShape, Pending
    <3>2. runs' = [runs EXCEPT ![i] = x]
      BY <1>1, <2>2 DEF GiveUp, Finish, RunShape
    <3> HIDE DEF x
    <3> QED
      BY <1>1, <3>1, <3>2, ChangeRun
  <2>3. CASE Leave(i)
    <3> DEFINE x == [runs[i] EXCEPT !.leaving = FALSE]
    <3>1. /\ x \in RunShape /\ x.rule = runs[i].rule /\ x.start = runs[i].start
          /\ ~x.leaving /\ x.status = runs[i].status /\ x.attempts = runs[i].attempts
      BY <1>1 DEF RunShape
    <3>2. runs' = [runs EXCEPT ![i] = x]
      BY <1>1, <2>3 DEF Leave, RunShape
    <3> HIDE DEF x
    <3> QED
      BY <3>1, <3>2, ChangeRun DEF Pending
  <2> QED
    BY <2>1, <2>2, <2>3
<1>3. UNCHANGED <<clock, rules, stops, lastStop, other, revoked, shift>>
  BY DEF Attempt, GiveUp, Leave, Finish
<1> QED
  BY <1>2, <1>3 DEF TypeOK

LEMMA AcceptStep ==
  ASSUME TypeOK, NEW k \in Stops, AcceptStop(k)
  PROVE  TypeOK' /\ RunsKept /\ \A i \in DOMAIN runs' : ~Pending(runs'[i])
<1> DEFINE ended(i) == IF runs[i].status \in {"queued", "published"}
                       THEN [runs[i] EXCEPT !.status = "over"] ELSE runs[i]
<1>1. runs' = [i \in DOMAIN runs |-> ended(i)]
  BY DEF AcceptStop
<1>2. ASSUME NEW i \in DOMAIN runs
      PROVE  /\ ended(i) \in RunShape /\ ~Pending(ended(i))
             /\ ended(i).rule = runs[i].rule /\ ended(i).start = runs[i].start
             /\ ended(i).attempts = runs[i].attempts
             /\ ended(i).leaving => ended(i).attempts > 0
  <2>1. runs[i] \in RunShape /\ (runs[i].leaving => runs[i].attempts > 0)
    BY RunTyped DEF TypeOK
  <2> QED
    BY <2>1 DEF RunShape, Pending
<1> HIDE DEF ended
<1>3. DOMAIN runs = 1..Len(runs) /\ Len(runs) \in Nat
  BY LenProperties DEF TypeOK
<1>4. runs' \in Seq(RunShape)
  BY <1>1, <1>2, <1>3, IsASeq
<1>5. UNCHANGED <<clock, rules, revoked, shift>> /\ other' = FALSE
  BY DEF AcceptStop
<1>6. /\ stops' \in [Stops -> [at : 0..MaxTime \cup {Never}, done : BOOLEAN]]
      /\ lastStop' \in 0..MaxTime \cup {Never}
  BY DEF AcceptStop, TypeOK
<1> QED
  BY <1>1, <1>2, <1>4, <1>5, <1>6 DEF TypeOK, RunsKept


\* What the surroundings do: no rule and no run changes.
LEMMA SurroundingsStep ==
  ASSUME TypeOK,
         \/ \E k \in Stops : RequestStop(k)
         \/ OtherCommand \/ (\E u \in Users : AccessChanges(u)) \/ CalendarChanges \/ Tick
  PROVE  TypeOK' /\ RunsKept
<1>1. UNCHANGED <<rules, runs, lastStop>>
  BY DEF RequestStop, OtherCommand, AccessChanges, CalendarChanges, Tick
<1>2. clock' \in 0..MaxTime /\ shift' \in 0..1 /\ other' \in BOOLEAN /\ revoked' \subseteq Users
  <2>1. clock' \in 0..MaxTime
    BY SchedulesAssumption
       DEF TypeOK, RequestStop, OtherCommand, AccessChanges, CalendarChanges, Tick
  <2>2. shift' \in 0..1
    BY DEF TypeOK, RequestStop, OtherCommand, AccessChanges, CalendarChanges, Tick
  <2>3. other' \in BOOLEAN
    BY Zenon DEF TypeOK, RequestStop, OtherCommand, AccessChanges, CalendarChanges, Tick
  <2>4. revoked' \subseteq Users
    BY DEF TypeOK, RequestStop, OtherCommand, AccessChanges, CalendarChanges, Tick
  <2> QED
    BY <2>1, <2>2, <2>3, <2>4
<1>3. stops' \in [Stops -> [at : 0..MaxTime \cup {Never}, done : BOOLEAN]]
  <2>1. CASE \E k \in Stops : RequestStop(k)
    <3>1. PICK k \in Stops : stops' = [stops EXCEPT ![k].at = clock]
      BY <2>1 DEF RequestStop
    <3>2. [stops[k] EXCEPT !.at = clock] \in [at : 0..MaxTime \cup {Never}, done : BOOLEAN]
      BY DEF TypeOK
    <3>3. stops' = [stops EXCEPT ![k] = [stops[k] EXCEPT !.at = clock]]
      BY <3>1
    <3> QED
      BY <3>2, <3>3 DEF TypeOK
  <2>2. CASE UNCHANGED stops
    BY <2>2 DEF TypeOK
  <2> QED
    BY <2>1, <2>2 DEF OtherCommand, AccessChanges, CalendarChanges, Tick
<1> QED
  BY <1>1, <1>2, <1>3 DEF TypeOK, RunsKept

\* Every step leaves the journal as it is, or adds one run to it.
LEMMA StepKinds ==
  ASSUME TypeOK, [Next]_vars
  PROVE  \/ TypeOK' /\ RunsKept
         \/ \E r \in Rules : ProcessSkipped(r) \/ ProcessStart(r)
<1>1. CASE UNCHANGED vars
  BY <1>1 DEF vars, TypeOK, RunsKept
<1>2. CASE \E u \in Users, r \in Rules, spec \in Specs, on \in BOOLEAN : Write(u, r, spec, on)
  BY <1>2, WriteStep
<1>3. CASE \E r \in Rules : Delete(r)
  BY <1>3, DeleteStep
<1>4. CASE \E r \in Rules : ProcessRefresh(r) \/ ProcessDuplicate(r)
  BY <1>4, LookStep
<1>5. CASE \E i \in DOMAIN runs : Attempt(i) \/ GiveUp(i) \/ Leave(i) \/ Finish(i)
  BY <1>5, DeliveryStep
<1>6. CASE \E k \in Stops : AcceptStop(k)
  BY <1>6, AcceptStep
<1>7. CASE \/ \E k \in Stops : RequestStop(k)
           \/ OtherCommand \/ (\E u \in Users : AccessChanges(u)) \/ CalendarChanges \/ Tick
  BY <1>7, SurroundingsStep
<1>8. CASE \E r \in Rules : ProcessSkipped(r) \/ ProcessStart(r)
  BY <1>8
<1> QED
  BY <1>1, <1>2, <1>3, <1>4, <1>5, <1>6, <1>7, <1>8 DEF Next

LEMMA InitGood == Init => RunsInv /\ StopInv
<1> SUFFICES ASSUME Init PROVE RunsInv /\ StopInv
  OBVIOUS
<1>1. NoRule \in RuleShape /\ RuleOK(NoRule)
  BY SchedulesAssumption DEF NoRule, RuleShape, RuleOK, Never
<1>2. runs \in Seq(RunShape) /\ DOMAIN runs = {}
  BY EmptySeq, LenProperties DEF Init
<1>3. rules \in [Rules -> RuleShape] /\ \A r \in Rules : RuleOK(rules[r])
  BY <1>1 DEF Init
<1>4. /\ clock \in 0..MaxTime /\ lastStop = Never /\ other \in BOOLEAN
      /\ revoked \subseteq Users /\ shift \in 0..1
      /\ stops \in [Stops -> [at : 0..MaxTime \cup {Never}, done : BOOLEAN]]
  <2>1. clock \in 0..MaxTime /\ shift \in 0..1
    BY SchedulesAssumption DEF Init
  <2>2. lastStop = Never /\ other \in BOOLEAN /\ revoked \subseteq Users
    BY Zenon DEF Init
  <2>3. stops \in [Stops -> [at : 0..MaxTime \cup {Never}, done : BOOLEAN]]
    BY DEF Init
  <2> QED
    BY <2>1, <2>2, <2>3, Zenon
<1>5. TypeOK
  <2>1. \A i \in DOMAIN runs : runs[i].leaving => runs[i].attempts > 0
    BY <1>2, Zenon
  <2>2. lastStop \in 0..MaxTime \cup {Never}
    BY <1>4, Zenon
  <2> QED
    BY <1>2, <1>3, <1>4, <2>1, <2>2, Zenon DEF TypeOK
<1>6. \A k \in Stops : ~stops[k].done
  BY DEF Init
<1> QED
  BY <1>2, <1>5, <1>6 DEF RunsInv, OneRunPerStart, OneAtATime, StopInv

LEMMA RunsInvKept == RunsInv /\ [Next]_vars => RunsInv'
<1> SUFFICES ASSUME RunsInv, [Next]_vars PROVE RunsInv'
  OBVIOUS
<1>1. CASE TypeOK' /\ RunsKept
  BY <1>1, KeptIsGood DEF RunsInv
<1>2. CASE \E r \in Rules : ProcessSkipped(r) \/ ProcessStart(r)
  BY <1>2, NewRunStep
<1> QED
  BY <1>1, <1>2, StepKinds DEF RunsInv

-----------------------------------------------------------------------------
(* The theorems.                                                            *)

\* The invariant behind the others: types, one run for a start, one pending run.
THEOREM RunsInvariant == Spec => []RunsInv
<1>1. Init => RunsInv
  BY InitGood
<1> QED
  BY <1>1, RunsInvKept, PTL DEF Spec

\* The tables keep their constraints: only enabled rules are due, and so on.
THEOREM SchedulesTypeCorrect == Spec => []TypeOK
<1>1. RunsInv => TypeOK
  BY DEF RunsInv
<1> QED
  BY <1>1, RunsInvariant, PTL

\* No start is run twice, whatever revisions of the rule contain it and however often the
\* worker comes to it.
THEOREM StartRunsOnce == Spec => []OneRunPerStart
<1>1. RunsInv => OneRunPerStart
  BY DEF RunsInv
<1> QED
  BY <1>1, RunsInvariant, PTL

\* The schedules of a device have one command pending at a time.
THEOREM RunsFollowOneAnother == Spec => []OneAtATime
<1>1. RunsInv => OneAtATime
  BY DEF RunsInv
<1> QED
  BY <1>1, RunsInvariant, PTL


LEMMA StopInvKept ==
  ASSUME RunsInv, StopInv, [Next]_vars, StopsInOrder
  PROVE  StopInv'
<1>1. TypeOK
  BY DEF RunsInv
<1>2. CASE \E k \in Stops : AcceptStop(k)
  <2>1. PICK k \in Stops : AcceptStop(k)
    BY <1>2
  <2>2. lastStop' = stops[k].at /\ stops[k].at # Never
    BY <2>1 DEF AcceptStop
  <2>3. /\ stops' \in [Stops -> [at : 0..MaxTime \cup {Never}, done : BOOLEAN]]
        /\ \A m \in Stops : /\ stops'[m].at = stops[m].at
                            /\ stops'[m].done <=> m = k \/ stops[m].done
    BY <1>1, <2>1 DEF AcceptStop, TypeOK
  <2>4. stops[k].at \in Int /\ ~stops[k].done
    BY <1>1, <2>1 DEF AcceptStop, TypeOK, Never
  <2>5. \A m \in Stops : stops[m].done => stops[m].at # Never /\ stops[m].at <= stops[k].at
    BY <2>3, <2>4 DEF StopInv, StopsInOrder
  <2>6. \A i \in DOMAIN runs' : ~Pending(runs'[i])
    BY <1>1, <2>1, AcceptStep
  <2> QED
    BY <2>2, <2>3, <2>4, <2>5, <2>6 DEF StopInv
<1>3. CASE \E k \in Stops : RequestStop(k)
  <2>1. PICK k \in Stops : RequestStop(k)
    BY <1>3
  <2>2. ~stops[k].done
    BY <2>1 DEF RequestStop, StopInv
  <2>3. \A m \in Stops : stops'[m].done => stops[m].done /\ stops'[m].at = stops[m].at
    BY <1>1, <2>1, <2>2 DEF RequestStop, TypeOK
  <2>4. UNCHANGED <<runs, lastStop>>
    BY <2>1 DEF RequestStop
  <2> QED
    BY <2>3, <2>4 DEF StopInv
<1>4. CASE \E r \in Rules : ProcessSkipped(r) \/ ProcessStart(r)
  <2>1. PICK r \in Rules : ProcessSkipped(r) \/ ProcessStart(r)
    BY <1>4
  <2>2. UNCHANGED <<stops, lastStop>>
    BY <2>1 DEF ProcessSkipped, ProcessStart
  <2>3. CASE ProcessStart(r)
    <3>1. ToCheck(r) /\ rules[r].next \in Starts(rules[r].spec)
      BY <2>3 DEF ProcessStart
    <3>2. Run(r, "queued") \in RunShape /\ Run(r, "queued").start = rules[r].next
      BY <1>1, <3>1, NewRun DEF Run
    <3>3. runs' = Append(runs, Run(r, "queued"))
      BY <2>3 DEF ProcessStart
    <3>4. lastStop # Never => lastStop < rules[r].next
      BY <1>1, <2>3, <3>2 DEF ProcessStart, StoppedSince, RunShape, TypeOK, Never
    <3>5. \A i \in DOMAIN runs' : (i \in DOMAIN runs /\ runs'[i] = runs[i])
                                  \/ runs'[i] = Run(r, "queued")
      BY <1>1, <3>2, <3>3, AppendRun
    <3> QED
      BY <2>2, <3>2, <3>4, <3>5 DEF StopInv
  <2>4. CASE ProcessSkipped(r)
    <3>1. ToCheck(r) /\ rules[r].next \in Starts(rules[r].spec)
      BY <2>4 DEF ProcessSkipped
    <3>2. Run(r, "skipped") \in RunShape /\ ~Pending(Run(r, "skipped"))
      BY <1>1, <3>1, NewRun DEF Run, Pending
    <3>3. runs' = Append(runs, Run(r, "skipped"))
      BY <2>4 DEF ProcessSkipped
    <3>4. \A i \in DOMAIN runs' : (i \in DOMAIN runs /\ runs'[i] = runs[i])
                                  \/ runs'[i] = Run(r, "skipped")
      BY <1>1, <3>2, <3>3, AppendRun
    <3> QED
      BY <2>2, <3>2, <3>4 DEF StopInv
  <2> QED
    BY <2>1, <2>3, <2>4
<1>5. CASE UNCHANGED <<stops, lastStop>> /\ RunsKept
  BY <1>5 DEF StopInv, RunsKept
<1>6. \/ UNCHANGED <<stops, lastStop>>
      \/ \E k \in Stops : RequestStop(k) \/ AcceptStop(k)
  BY DEF Next, vars, Write, Delete, ProcessRefresh, ProcessDuplicate, ProcessSkipped,
         ProcessStart, Attempt, GiveUp, Leave, Finish, OtherCommand, AccessChanges,
         CalendarChanges, Tick
<1> QED
  BY <1>1, <1>2, <1>3, <1>4, <1>5, <1>6, StepKinds

LEMMA SendingIsAllowed ==
  ASSUME RunsInv, StopInv, [Next]_vars
  PROVE  \A i \in DOMAIN runs : Sending(i) =>
             \A k \in Stops : stops[k].done => stops[k].at < runs[i].start
<1>1. TypeOK
  BY DEF RunsInv
<1>2. ASSUME NEW i \in DOMAIN runs, Sending(i) PROVE Pending(runs[i])
  <2>1. runs[i] \in RunShape /\ runs'[i].attempts # runs[i].attempts
    BY <1>1, <1>2, RunTyped DEF Sending, RunShape
  <2>2. CASE RunsKept
    BY <2>1, <2>2 DEF RunsKept
  <2>3. CASE \E r \in Rules : ProcessSkipped(r) \/ ProcessStart(r)
    <3>1. PICK r \in Rules : ProcessSkipped(r) \/ ProcessStart(r)
      BY <2>3
    <3>2. PICK status \in {"skipped", "queued"} : runs' = Append(runs, Run(r, status))
      BY <3>1 DEF ProcessSkipped, ProcessStart
    <3>3. ToCheck(r) /\ rules[r].next \in Starts(rules[r].spec)
      BY <3>1 DEF ProcessSkipped, ProcessStart
    <3>4. runs'[i] = runs[i]
      BY <1>1, <3>2, <3>3, NewRun, AppendRun
    <3> QED
      BY <2>1, <3>4
  <2> QED
    BY <1>1, <2>2, <2>3, StepKinds
<1>3. lastStop \in Int /\ \A k \in Stops : stops[k].at \in Int
  BY <1>1 DEF TypeOK, Never
<1>4. \A i \in DOMAIN runs : runs[i].start \in Int
  BY <1>1, RunTyped DEF RunShape
<1> QED
  BY <1>2, <1>3, <1>4 DEF StopInv

\* A Stop that was requested after the time of a start keeps that start from being sent, as
\* long as Stops take effect in the order in which they were received.  (Two that wait for
\* the lock at once may not, and the saved time goes back: see the run that violates
\* StopPrevents.)
THEOREM StopIsKept == Spec /\ [][StopsInOrder]_vars => StopPrevents
<1>1. Init => RunsInv /\ StopInv
  BY InitGood
<1>2. RunsInv /\ StopInv /\ [Next]_vars /\ [StopsInOrder]_vars => RunsInv' /\ StopInv'
  <2> SUFFICES ASSUME RunsInv, StopInv, [Next]_vars, [StopsInOrder]_vars PROVE RunsInv' /\ StopInv'
    OBVIOUS
  <2>1. RunsInv'
    BY RunsInvKept
  <2>2. CASE StopsInOrder
    BY <2>1, <2>2, StopInvKept
  <2>3. CASE UNCHANGED vars
    BY <2>1, <2>3 DEF StopInv, vars
  <2> QED
    BY <2>2, <2>3
<1>3. RunsInv /\ StopInv /\ [Next]_vars =>
        [\A i \in DOMAIN runs : Sending(i) =>
            \A k \in Stops : stops[k].done => stops[k].at < runs[i].start]_vars
  BY SendingIsAllowed
<1> QED
  BY <1>1, <1>2, <1>3, PTL DEF Spec, StopPrevents

LEMMA WaitingInvKept ==
  ASSUME RunsInv, WaitingInv, [Next]_vars, SerialStops, SerialStops'
  PROVE  WaitingInv'
<1>1. /\ TypeOK /\ clock \in Int
      /\ \A m \in Stops : stops[m].at \in Int
  BY DEF RunsInv, TypeOK, Never
<1>2. CASE \E k \in Stops : AcceptStop(k)
  <2>1. PICK k \in Stops : AcceptStop(k)
    BY <1>2
  <2>2. clock' = clock /\ stops[k].at # Never /\ ~stops[k].done
    BY <2>1 DEF AcceptStop
  <2>3. \A m \in Stops : stops'[m].at = stops[m].at /\ (stops'[m].done <=> m = k \/ stops[m].done)
    BY <1>1, <2>1 DEF AcceptStop, TypeOK
  <2>4. \A m \in Stops \ {k} : stops[m].at = Never \/ stops[m].done
    BY <2>2 DEF SerialStops
  <2> QED
    BY <1>1, <2>2, <2>3, <2>4 DEF WaitingInv
<1>3. CASE \E k \in Stops : RequestStop(k)
  <2>1. PICK k \in Stops : RequestStop(k)
    BY <1>3
  <2>2. clock' = clock /\ stops[k].at = Never /\ ~stops[k].done
    BY <2>1 DEF RequestStop, WaitingInv
  <2>3. /\ \A m \in Stops \ {k} : stops'[m] = stops[m]
        /\ stops'[k].at = clock /\ ~stops'[k].done
    BY <1>1, <2>1, <2>2 DEF RequestStop, TypeOK
  <2>4. \A m \in Stops : stops[m].done => stops[m].at <= clock
    BY DEF WaitingInv
  <2>5. clock # Never
    BY <1>1 DEF TypeOK, Never
  <2> QED
    BY <1>1, <2>2, <2>3, <2>4, <2>5 DEF WaitingInv
<1>4. CASE UNCHANGED stops
  <2>1. UNCHANGED clock \/ Tick
    BY DEF Next, vars, Write, Delete, ProcessRefresh, ProcessDuplicate, ProcessSkipped,
           ProcessStart, Attempt, GiveUp, Leave, Finish, RequestStop, AcceptStop, OtherCommand,
           AccessChanges, CalendarChanges
  <2>2. clock' \in Int /\ clock <= clock'
    BY <1>1, <2>1 DEF Tick
  <2> QED
    BY <1>1, <1>4, <2>2 DEF WaitingInv
<1>5. UNCHANGED stops \/ \E k \in Stops : RequestStop(k) \/ AcceptStop(k)
  BY DEF Next, vars, Write, Delete, ProcessRefresh, ProcessDuplicate, ProcessSkipped,
         ProcessStart, Attempt, GiveUp, Leave, Finish, OtherCommand, AccessChanges,
         CalendarChanges, Tick
<1> QED
  BY <1>2, <1>3, <1>4, <1>5

\* Any number of Stops, one after another, are in order: each is received after those
\* before it took effect.
THEOREM SerialStopsAreKept == Spec /\ []SerialStops => StopPrevents
<1>1. Init => RunsInv /\ WaitingInv
  BY InitGood DEF Init, WaitingInv
<1>2. RunsInv /\ WaitingInv /\ [Next]_vars /\ SerialStops /\ SerialStops' => RunsInv' /\ WaitingInv'
  BY RunsInvKept, WaitingInvKept
<1>3. WaitingInv /\ RunsInv /\ [Next]_vars => [StopsInOrder]_vars
  <2> SUFFICES ASSUME WaitingInv, RunsInv, Next,
                      NEW k \in Stops, NEW m \in Stops,
                      stops'[k].done, ~stops[k].done, stops[m].done
               PROVE  stops[m].at <= stops[k].at
    BY DEF StopsInOrder
  <2>1. CASE UNCHANGED stops
    BY <2>1
  <2>2. CASE \E j \in Stops : RequestStop(j)
    BY <2>2 DEF RequestStop, RunsInv, TypeOK
  <2>3. CASE \E j \in Stops : AcceptStop(j)
    <3>1. PICK j \in Stops : AcceptStop(j)
      BY <2>3
    <3>2. j = k
      BY <3>1 DEF AcceptStop, RunsInv, TypeOK
    <3> QED
      BY <3>1, <3>2 DEF AcceptStop, WaitingInv
  <2>4. UNCHANGED stops \/ \E j \in Stops : RequestStop(j) \/ AcceptStop(j)
    BY DEF Next, Write, Delete, ProcessRefresh, ProcessDuplicate, ProcessSkipped,
           ProcessStart, Attempt, GiveUp, Leave, Finish, OtherCommand, AccessChanges,
           CalendarChanges, Tick
  <2> QED
    BY <2>1, <2>2, <2>3, <2>4
<1> QED
  BY <1>1, <1>2, <1>3, StopIsKept, PTL DEF Spec

-----------------------------------------------------------------------------
(* What is sent, and when.                                                 *)

\* Nothing is in the journal before its time.
Begun == \A i \in DOMAIN runs : runs[i].start <= clock

\* A due start adds a run that has not been sent.
LEMMA AddedRun ==
  ASSUME TypeOK, NEW r \in Rules, ProcessSkipped(r) \/ ProcessStart(r)
  PROVE  \E new \in RunShape :
            /\ new.start = rules[r].next /\ new.start <= clock
            /\ DOMAIN runs' = DOMAIN runs \cup {Len(runs) + 1}
            /\ \A i \in DOMAIN runs : runs'[i] = runs[i]
            /\ runs'[Len(runs) + 1] = new
            /\ clock' = clock
<1>1. ToCheck(r) /\ rules[r].next <= clock /\ rules[r].next \in Starts(rules[r].spec) /\ clock' = clock
  BY DEF ProcessSkipped, ProcessStart
<1>2. PICK status \in {"skipped", "queued"} : runs' = Append(runs, Run(r, status))
  BY DEF ProcessSkipped, ProcessStart
<1>3. Run(r, status) \in RunShape /\ Run(r, status).start = rules[r].next
  BY <1>1, NewRun DEF Run
<1> QED
  BY <1>1, <1>2, <1>3, AppendRun

LEMMA BegunKept == ASSUME TypeOK, Begun, [Next]_vars PROVE Begun'
<1>1. CASE \E r \in Rules : ProcessSkipped(r) \/ ProcessStart(r)
  BY <1>1, AddedRun DEF Begun
<1>2. CASE RunsKept /\ TypeOK'
  <2>0. clock' = clock \/ clock' = clock + 1
    BY Zenon DEF Next, vars, Write, Delete, ProcessRefresh, ProcessDuplicate, ProcessSkipped,
       ProcessStart, Attempt, GiveUp, Leave, Finish, RequestStop, AcceptStop, OtherCommand,
       AccessChanges, CalendarChanges, Tick
  <2>1. clock' \in Nat /\ clock \in Nat /\ clock <= clock'
    BY <1>2, <2>0 DEF TypeOK
  <2>2. \A i \in DOMAIN runs : runs[i].start \in Nat
    BY RunTyped DEF RunShape
  <2> QED
    BY <1>2, <2>1, <2>2 DEF Begun, RunsKept
<1> QED
  BY <1>1, <1>2, StepKinds

\* Only an attempt counts one up.
LEMMA OnlyAttemptsSend ==
  ASSUME TypeOK, [Next]_vars, NEW i \in DOMAIN runs, Sending(i)
  PROVE  Attempt(i)
<1>1. runs[i] \in RunShape /\ runs[i].attempts \in Nat
  BY RunTyped, SchedulesAssumption DEF RunShape
<1>2. runs'[i].attempts # runs[i].attempts
  BY <1>1 DEF Sending
<1>3. CASE \E j \in DOMAIN runs : Attempt(j) \/ GiveUp(j) \/ Leave(j) \/ Finish(j)
  <2>1. PICK j \in DOMAIN runs : Attempt(j) \/ GiveUp(j) \/ Leave(j) \/ Finish(j)
    BY <1>3
  <2>2. runs[j] \in RunShape
    BY RunTyped
  <2>3. PICK x : /\ runs' = [runs EXCEPT ![j] = x]
                 /\ Attempt(j) \/ x.attempts = runs[j].attempts
    <3>1. CASE Attempt(j)
      BY <3>1 DEF Attempt
    <3>2. CASE GiveUp(j) \/ Finish(j)
      <4>1. runs' = [runs EXCEPT ![j] = [runs[j] EXCEPT !.status = "over"]]
        BY <3>2 DEF GiveUp, Finish
      <4>2. [runs[j] EXCEPT !.status = "over"].attempts = runs[j].attempts
        BY <2>2 DEF RunShape
      <4> QED
        BY <4>1, <4>2
    <3>3. CASE Leave(j)
      <4>1. runs' = [runs EXCEPT ![j] = [runs[j] EXCEPT !.leaving = FALSE]]
        BY <3>3 DEF Leave
      <4>2. [runs[j] EXCEPT !.leaving = FALSE].attempts = runs[j].attempts
        BY <2>2 DEF RunShape
      <4> QED
        BY <4>1, <4>2
    <3> QED
      BY <2>1, <3>1, <3>2, <3>3
  <2>4. runs'[i] = IF i = j THEN x ELSE runs[i]
    BY <2>3
  <2> QED
    BY <1>2, <2>3, <2>4
<1>4. CASE \E r \in Rules : ProcessSkipped(r) \/ ProcessStart(r)
  BY <1>2, <1>4, AddedRun
<1>5. CASE \E k \in Stops : AcceptStop(k)
  <2>1. runs' = [j \in DOMAIN runs |-> IF runs[j].status \in {"queued", "published"}
                                       THEN [runs[j] EXCEPT !.status = "over"] ELSE runs[j]]
    BY <1>5 DEF AcceptStop
  <2>2. runs'[i].attempts = runs[i].attempts
    BY <1>1, <2>1 DEF RunShape
  <2> QED
    BY <1>2, <2>2
<1>6. CASE UNCHANGED runs
  BY <1>2, <1>6
<1> QED
  BY <1>3, <1>4, <1>5, <1>6 DEF Next, vars, Write, Delete, ProcessRefresh, ProcessDuplicate,
     RequestStop, OtherCommand, AccessChanges, CalendarChanges, Tick

\* A run is sent within its thirty seconds and while it would still last, after whatever
\* outage of the worker or of the connection.
THEOREM StartsAreSentInTime == Spec => SentInTime
<1>1. Init => Begun
  <2>1. Init => DOMAIN runs = {}
    BY EmptySeq, LenProperties DEF Init
  <2> QED
    BY <2>1 DEF Begun
<1>2. TypeOK /\ Begun /\ [Next]_vars => Begun'
  BY BegunKept
<1>3. TypeOK /\ Begun /\ [Next]_vars => SendsInTime
  <2> SUFFICES ASSUME TypeOK, Begun, [Next]_vars, NEW i \in DOMAIN runs, Sending(i)
               PROVE  /\ clock >= runs[i].start /\ clock < runs[i].start + Grace
                      /\ clock < runs[i].start + Length
    BY DEF SendsInTime
  <2>1. InTime(runs[i].start)
    BY OnlyAttemptsSend DEF Attempt, InWindow
  <2>2. runs[i] \in RunShape
    BY RunTyped
  <2>3. runs[i].start \in Nat /\ clock \in Nat
    BY <2>2 DEF RunShape, TypeOK
  <2>4. runs[i].start <= clock
    BY DEF Begun
  <2> QED
    BY <2>1, <2>3, <2>4 DEF InTime
<1> QED
  BY <1>1, <1>2, <1>3, SchedulesTypeCorrect, PTL DEF Spec, SentInTime

-----------------------------------------------------------------------------
(* What the worker passes over.                                            *)

\* The revision of a rule stays, and a start that was due is no longer its next one.
MovesOn(r) ==
    /\ rules[r].next # Never /\ rules[r].next <= clock
    /\ rules[r].next \in Starts(rules[r].spec)
    /\ rules'[r].next # rules[r].next
    /\ rules'[r].revision = rules[r].revision

\* The change of a rule by its author counts its revision up, so only the worker moves a
\* rule on; and it moves on from a due start only over an entry of the journal.
LEMMA OnlyWorkerMovesOn ==
  ASSUME TypeOK, [Next]_vars, NEW r \in Rules, MovesOn(r)
  PROVE  ProcessDuplicate(r) \/ ProcessSkipped(r) \/ ProcessStart(r)
<1>1. rules[r] \in RuleShape /\ rules[r].revision \in Nat /\ rules[r].next \in Nat /\ clock \in Nat
  BY SchedulesAssumption DEF TypeOK, RuleShape, MovesOn
<1>2. rules'[r] # rules[r]
  BY DEF MovesOn
<1>3. CASE \E q \in Rules : ProcessRefresh(q) \/ ProcessDuplicate(q)
                            \/ ProcessSkipped(q) \/ ProcessStart(q)
  <2>1. PICK q \in Rules : ProcessRefresh(q) \/ ProcessDuplicate(q)
                           \/ ProcessSkipped(q) \/ ProcessStart(q)
    BY <1>3
  <2>2. \E x : rules' = [rules EXCEPT ![q] = x]
    BY <2>1, Zenon DEF ProcessRefresh, ProcessDuplicate, ProcessSkipped, ProcessStart, Refresh
  <2>3. q = r
    BY <1>2, <2>2
  <2>4. ~ProcessRefresh(r)
    BY <1>1 DEF MovesOn, ProcessRefresh
  <2> QED
    BY <2>1, <2>3, <2>4
<1>4. CASE \E u \in Users, q \in Rules, spec \in Specs, on \in BOOLEAN : Write(u, q, spec, on)
  <2>1. PICK u \in Users, q \in Rules, spec \in Specs, on \in BOOLEAN : Write(u, q, spec, on)
    BY <1>4
  <2> DEFINE x == [rules[q] EXCEPT !.revision = @ + 1, !.enabled = on, !.spec = spec, !.author = u]
  <2>2. rules' = [rules EXCEPT ![q] = Refreshed(x, clock)]
    BY <2>1 DEF Write
  <2>3. q = r
    BY <1>2, <2>2
  <2>4. rules'[r] = Refreshed(x, clock)
    BY <2>2, <2>3 DEF TypeOK
  <2>5. x.revision = rules[r].revision + 1 /\ "revision" \in DOMAIN x
    BY <1>1, <2>3 DEF RuleShape
  <2> HIDE DEF x
  <2>6. Refreshed(x, clock).revision = x.revision
    BY <2>5 DEF Refreshed
  <2> QED
    BY <1>1, <2>4, <2>5, <2>6 DEF MovesOn
<1>5. CASE \E q \in Rules : Delete(q)
  <2>1. PICK q \in Rules : Delete(q)
    BY <1>5
  <2> DEFINE x == [rules[q] EXCEPT !.deleted = TRUE, !.enabled = FALSE,
                     !.next = Never, !.check = Never, !.revision = @ + 1]
  <2>2. rules' = [rules EXCEPT ![q] = x]
    BY <2>1 DEF Delete
  <2>3. q = r
    BY <1>2, <2>2
  <2>4. rules'[r] = x
    BY <2>2, <2>3 DEF TypeOK
  <2>5. x.revision = rules[r].revision + 1
    BY <1>1, <2>3 DEF RuleShape
  <2> HIDE DEF x
  <2> QED
    BY <1>1, <2>4, <2>5 DEF MovesOn
<1>6. CASE UNCHANGED rules
  BY <1>2, <1>6
<1> QED
  BY <1>3, <1>4, <1>5, <1>6 DEF Next, vars, Attempt, GiveUp, Leave, Finish, RequestStop,
     AcceptStop, OtherCommand, AccessChanges, CalendarChanges, Tick

LEMMA MovedOverEntry ==
  ASSUME TypeOK, [Next]_vars, NEW r \in Rules, MovesOn(r)
  PROVE  \E i \in DOMAIN runs' : runs'[i].rule = r /\ runs'[i].start = rules[r].next
<1>1. CASE ProcessDuplicate(r)
  <2>1. Handled(r) /\ runs' = runs
    BY <1>1 DEF ProcessDuplicate
  <2> QED
    BY <2>1 DEF Handled
<1>2. CASE ProcessSkipped(r) \/ ProcessStart(r)
  <2>1. ToCheck(r) /\ rules[r].next <= clock /\ rules[r].next \in Starts(rules[r].spec)
    BY <1>2 DEF ProcessSkipped, ProcessStart
  <2>2. PICK status \in {"skipped", "queued"} : runs' = Append(runs, Run(r, status))
    BY <1>2 DEF ProcessSkipped, ProcessStart
  <2>3. /\ Run(r, status) \in RunShape
        /\ Run(r, status).rule = r /\ Run(r, status).start = rules[r].next
    BY <2>1, NewRun DEF Run
  <2>4. Len(runs) + 1 \in DOMAIN runs' /\ runs'[Len(runs) + 1] = Run(r, status)
    BY <2>2, <2>3, AppendRun
  <2> QED
    BY <2>3, <2>4
<1> QED
  BY <1>1, <1>2, OnlyWorkerMovesOn

\* The worker passes over no start in silence: a due start it moves on from has an entry
\* in the journal, as a run or as one that fell out.
THEOREM DueStartsAreJournaled == Spec => DueIsJournaled
<1>1. TypeOK /\ [Next]_vars =>
        [\A r \in Rules :
            /\ rules[r].next # Never /\ rules[r].next <= clock
            /\ rules[r].next \in Starts(rules[r].spec)
            /\ rules'[r].next # rules[r].next
            /\ rules'[r].revision = rules[r].revision
            => \E i \in DOMAIN runs' : runs'[i].rule = r /\ runs'[i].start = rules[r].next]_vars
  BY MovedOverEntry DEF MovesOn
<1> QED
  BY <1>1, SchedulesTypeCorrect, PTL DEF Spec, DueIsJournaled

=============================================================================
