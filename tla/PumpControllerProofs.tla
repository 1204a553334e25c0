------------------------ MODULE PumpControllerProofs ------------------------
(***************************************************************************)
(* Proofs about PumpController, for any number and order of commands, any  *)
(* size of the ledger and any number of failed saves and power failures.   *)
(* The argument: whatever goes wrong only withdraws the permission and     *)
(* asks for the STOP (Calmer), and that keeps everything a RUN needs or    *)
(* makes the RUN impossible; flash is never told that the motor rests      *)
(* before the drive was read to be at rest.  As for the numbers of         *)
(* commands, all but the acceptance of one leaves them as they are         *)
(* (Modest).                                                               *)
(* Then the answers: flash is never ahead of the core, and what was told   *)
(* is what both say of the command (AnswerInv); a record becomes a         *)
(* success only in the step after the last one of its program (Wholly);    *)
(* while a program goes on, no Stop above it is acknowledged but the one   *)
(* that is about to be carried out (RankInv); and while flash can be read  *)
(* and has one pending program at most, no step but one that reads the     *)
(* drive at rest forgets that the motor may turn (Readable, Remembers).    *)
(* A command refused for its number has no record anywhere and is at or    *)
(* below the highest number in flash, and stays so (Gone).                 *)
(***************************************************************************)
EXTENDS PumpController, FiniteSetTheorems, TLAPS

-----------------------------------------------------------------------------
(* The core.                                                               *)

CmdOf(c, slot) == c.journal.records[slot].cmd

\* c may be a core between two handlers.
Sound(c) ==
    /\ c \in Cores
    /\ \A s \in Active(c) \ {NoSlot} : CmdOf(c, s) \in Commands
    /\ c.armed => ~c.inhibited
    /\ c.armed /\ c.stopping => c.journal.motionPossible
    /\ c.journal.motionPossible /\ ~c.armed => c.stopping
    /\ c.program # NoSlot /\ c.phase # "stopping" =>
          c.journal.motionPossible /\ c.armed /\ ~c.stopping /\ CmdOf(c, c.program) > c.permission
    /\ c.program # NoSlot /\ c.pending # NoSlot /\ Type[CmdOf(c, c.pending)] = "stop" =>
          c.phase = "stopping"

\* d is c, perhaps without its permission and then with a STOP requested if it may move.
Calmer(c, d) ==
    /\ d \in Cores
    /\ d.program = c.program /\ d.permission = c.permission
    /\ d.writable => c.writable
    /\ d.pending \in {c.pending, NoSlot}
    /\ d.journal.motionPossible = c.journal.motionPossible
    /\ \A s \in Slots : CmdOf(d, s) = CmdOf(c, s)
    /\ d.phase \in {c.phase, "stopping"}
    /\ \/ d.armed = c.armed /\ d.inhibited = c.inhibited /\ d.stopping = c.stopping /\ d.phase = c.phase
       \/ /\ ~d.armed
          /\ c.stopping \/ c.journal.motionPossible => d.stopping
          /\ c.journal.motionPossible /\ c.program # NoSlot => d.phase = "stopping"

LEMMA SlotFacts == NoSlot \notin Slots /\ Slots \subseteq Nat
BY CoreAssumption DEF NoSlot, Slots

LEMMA CalmerIsSound == ASSUME NEW c, NEW d, Sound(c), Calmer(c, d) PROVE Sound(d)
<1>1. c \in Cores /\ d \in Cores
  BY DEF Sound, Calmer
<1>2. /\ c.pending \in Slots \cup {NoSlot} /\ c.program \in Slots \cup {NoSlot}
      /\ d.pending \in Slots \cup {NoSlot} /\ d.program \in Slots \cup {NoSlot}
  BY <1>1 DEF Cores
<1>3. /\ c.armed \in BOOLEAN /\ d.armed \in BOOLEAN /\ c.stopping \in BOOLEAN /\ d.stopping \in BOOLEAN
      /\ c.inhibited \in BOOLEAN /\ d.inhibited \in BOOLEAN
      /\ c.journal.motionPossible \in BOOLEAN /\ d.journal.motionPossible \in BOOLEAN
  BY <1>1 DEF Cores, Journals
<1>4. \A s \in Active(d) \ {NoSlot} : CmdOf(d, s) \in Commands
  BY <1>2 DEF Sound, Calmer, Active
<1>5. d.armed => ~d.inhibited
  BY <1>3 DEF Sound, Calmer
<1>6. d.armed /\ d.stopping => d.journal.motionPossible
  BY <1>3 DEF Sound, Calmer
<1>7. d.journal.motionPossible /\ ~d.armed => d.stopping
  BY <1>3 DEF Sound, Calmer
<1>8. d.program # NoSlot /\ d.phase # "stopping" =>
         d.journal.motionPossible /\ d.armed /\ ~d.stopping /\ CmdOf(d, d.program) > d.permission
  <2> SUFFICES ASSUME d.program # NoSlot, d.phase # "stopping"
               PROVE  d.journal.motionPossible /\ d.armed /\ ~d.stopping /\ CmdOf(d, d.program) > d.permission
    OBVIOUS
  <2>1. c.program # NoSlot /\ c.phase # "stopping" /\ d.program \in Slots
    BY <1>2 DEF Calmer
  <2>2. c.journal.motionPossible /\ c.armed /\ ~c.stopping /\ CmdOf(c, c.program) > c.permission
    BY <2>1 DEF Sound
  <2>3. d.armed = c.armed /\ d.stopping = c.stopping
    BY <2>1, <2>2 DEF Calmer
  <2> QED
    BY <2>1, <2>2, <2>3 DEF Calmer
<1>9. d.program # NoSlot /\ d.pending # NoSlot /\ Type[CmdOf(d, d.pending)] = "stop" =>
         d.phase = "stopping"
  BY <1>2 DEF Sound, Calmer
<1> QED
  BY <1>1, <1>4, <1>5, <1>6, <1>7, <1>8, <1>9 DEF Sound

LEMMA CalmerItself == ASSUME NEW c \in Cores PROVE Calmer(c, c)
BY DEF Calmer

LEMMA CalmerYet ==
  ASSUME NEW c, NEW d, NEW e, c \in Cores, Calmer(c, d), Calmer(d, e)
  PROVE  Calmer(c, e)
<1>1. d \in Cores /\ e \in Cores
  BY DEF Calmer
<1>2. /\ c.armed \in BOOLEAN /\ d.armed \in BOOLEAN /\ c.stopping \in BOOLEAN /\ d.stopping \in BOOLEAN
      /\ c.journal.motionPossible \in BOOLEAN /\ d.journal.motionPossible \in BOOLEAN
      /\ e.armed \in BOOLEAN /\ e.stopping \in BOOLEAN
  BY <1>1 DEF Cores, Journals
<1> QED
  BY <1>1, <1>2 DEF Calmer

\* How a stop may be asked for that takes the permission away.
Withdrawing == {"storage_failed", "local_disarm", "configuration_mismatch", "network_lost",
                "physical_result_unconfirmed", "bench_timer", "vfd_link_lost"}

LEMMA RequestStopIsCalm ==
  ASSUME NEW c \in Cores, NEW reason \in Withdrawing
  PROVE  Calmer(c, RequestStop(c, reason))
<1> DEFINE d == RequestStop(c, reason)
<1>1. ~KeepsPermission(c, reason)
  BY DEF KeepsPermission, Withdrawing
<1>2. d = [c EXCEPT !.phase = IF c.program # NoSlot THEN "stopping" ELSE @,
                    !.cause = IF c.program # NoSlot THEN "cut" ELSE @,
                    !.armed = FALSE, !.mode = "bench", !.stopping = TRUE]
  <2>1. (c.armed /\ KeepsPermission(c, reason)) = FALSE
    BY <1>1
  <2>2. reason # "completed"
    BY DEF Withdrawing
  <2> QED
    BY <1>1, <2>1, <2>2, Zenon DEF RequestStop
<1>3. d \in Cores /\ d.journal = c.journal /\ d.writable = c.writable
  BY <1>2 DEF Cores, Phases
<1>4. /\ d.program = c.program /\ d.permission = c.permission /\ d.pending = c.pending
      /\ ~d.armed /\ d.stopping
      /\ d.phase = IF c.program # NoSlot THEN "stopping" ELSE c.phase
  BY <1>2 DEF Cores
<1> HIDE DEF d
<1>5. Calmer(c, d)
  BY <1>3, <1>4 DEF Calmer, CmdOf
<1> QED
  BY <1>5 DEF d

LEMMA DisarmIsCalm ==
  ASSUME NEW c \in Cores, NEW reason \in Withdrawing
  PROVE  /\ Calmer(c, Disarm(c, reason)) /\ ~Disarm(c, reason).armed
         /\ Disarm(c, reason).pending = c.pending
<1> DEFINE b == [c EXCEPT !.inhibited = @ \/ reason = "local_disarm",
                          !.armed = FALSE, !.mode = "bench"]
<1>1. b \in Cores
  BY DEF Cores
<1>2. /\ b.journal = c.journal /\ b.program = c.program /\ b.permission = c.permission
      /\ b.pending = c.pending /\ b.phase = c.phase /\ ~b.armed /\ b.stopping = c.stopping
      /\ b.writable = c.writable
  BY DEF Cores
<1>3. Disarm(c, reason) = IF b.journal.motionPossible THEN RequestStop(b, reason) ELSE b
  BY DEF Disarm
<1> HIDE DEF b
<1>4. CASE b.journal.motionPossible
  <2>1. Calmer(b, RequestStop(b, reason))
    BY <1>1, RequestStopIsCalm
  <2>2. /\ RequestStop(b, reason).stopping
        /\ b.program # NoSlot => RequestStop(b, reason).phase = "stopping"
        /\ RequestStop(b, reason).pending = b.pending
    BY <1>1 DEF RequestStop, Cores
  <2>3. ~RequestStop(b, reason).armed
    BY <1>1, <1>2, <2>1 DEF Calmer
  <2> QED
    BY <1>2, <1>3, <1>4, <2>1, <2>2, <2>3 DEF Calmer, CmdOf
<1>5. CASE ~b.journal.motionPossible
  BY <1>1, <1>2, <1>3, <1>5 DEF Calmer, CmdOf
<1> QED
  BY <1>4, <1>5

LEMMA SavedIsCalm ==
  ASSUME NEW c \in Cores, NEW ok \in BOOLEAN
  PROVE  /\ Calmer(c, Saved(c, ok)) /\ Saved(c, ok).pending = c.pending
         /\ Saved(c, ok).storageOk => ok /\ c.writable /\ Saved(c, ok) = [c EXCEPT !.storageOk = TRUE]
         /\ Saved(c, ok).journal = c.journal
<1>1. CASE ok /\ c.writable
  <2> DEFINE d == [c EXCEPT !.storageOk = TRUE]
  <2>1. Saved(c, ok) = d
    BY <1>1 DEF Saved
  <2>2. /\ d \in Cores /\ d.journal = c.journal /\ d.program = c.program /\ d.permission = c.permission
        /\ d.pending = c.pending /\ d.phase = c.phase /\ d.armed = c.armed
        /\ d.inhibited = c.inhibited /\ d.stopping = c.stopping /\ d.writable = c.writable
    BY DEF Cores
  <2> QED
    BY <1>1, <2>1, <2>2 DEF Calmer, CmdOf
<1>2. CASE ~(ok /\ c.writable)
  <2> DEFINE b == [c EXCEPT !.storageOk = FALSE]
             d == Disarm(b, "storage_failed")
  <2>1. Saved(c, ok) = d
    BY <1>2 DEF Saved
  <2>2. /\ b \in Cores /\ b.journal = c.journal /\ b.program = c.program /\ b.permission = c.permission
        /\ b.pending = c.pending /\ b.phase = c.phase /\ b.armed = c.armed
        /\ b.inhibited = c.inhibited /\ b.stopping = c.stopping /\ b.writable = c.writable
    BY DEF Cores
  <2>3. Calmer(b, d) /\ d.pending = b.pending
    BY <2>2, DisarmIsCalm DEF Withdrawing
  <2>4. ~d.storageOk /\ d.journal = b.journal
    BY <2>2 DEF Disarm, RequestStop, Cores
  <2> HIDE DEF b, d
  <2>5. Calmer(c, d)
    BY <2>2, <2>3 DEF Calmer, CmdOf
  <2> QED
    BY <2>1, <2>2, <2>3, <2>4, <2>5
<1> QED
  BY <1>1, <1>2

LEMMA OutcomeIsCalm ==
  ASSUME NEW c \in Cores, NEW slot \in Slots, NEW outcome \in Outcomes, CmdOf(c, slot) \in Commands
  PROVE  /\ Calmer(c, WithOutcome(c, slot, outcome))
         /\ WithOutcome(c, slot, outcome).pending = c.pending
         /\ WithOutcome(c, slot, outcome).writable = c.writable
<1> DEFINE d == WithOutcome(c, slot, outcome)
<1>1. c.journal \in Journals /\ c.journal.records \in [Slots -> Records]
  BY DEF Cores, Journals
<1>2. c.journal.records[slot] \in [cmd : Commands, outcome : Outcomes, steps : Nat]
  BY <1>1 DEF Records, EmptyRecord, CmdOf, Commands
<1>3. [c.journal.records EXCEPT ![slot].outcome = outcome] \in [Slots -> Records]
  BY <1>1, <1>2 DEF Records
<1>4. /\ d.journal = [c.journal EXCEPT !.records = [@ EXCEPT ![slot].outcome = outcome]]
      /\ d.program = c.program /\ d.permission = c.permission
      /\ d.pending = c.pending /\ d.phase = c.phase /\ d.armed = c.armed
      /\ d.inhibited = c.inhibited /\ d.stopping = c.stopping /\ d.writable = c.writable
  BY DEF WithOutcome, Cores, Journals
<1>5. d.journal \in Journals /\ d.journal.motionPossible = c.journal.motionPossible
  BY <1>1, <1>3, <1>4 DEF Journals
<1>6. \A s \in Slots : CmdOf(d, s) = CmdOf(c, s)
  BY <1>1, <1>4 DEF CmdOf, Journals
<1>7. d \in Cores
  BY <1>1, <1>3 DEF WithOutcome, Cores, Journals
<1> HIDE DEF d
<1>8. Calmer(c, d)
  BY <1>4, <1>5, <1>6, <1>7 DEF Calmer
<1> QED
  BY <1>4, <1>8 DEF d

LEMMA FinishIsCalm ==
  ASSUME NEW c \in Cores, NEW slot \in Slots, NEW outcome \in Outcomes, NEW ok \in BOOLEAN,
         CmdOf(c, slot) \in Commands
  PROVE  /\ Calmer(c, Finish(c, slot, outcome, ok))
         /\ Finish(c, slot, outcome, ok).pending # slot
         /\ Finish(c, slot, outcome, ok).storageOk => ok
<1> DEFINE w == WithOutcome(c, slot, outcome)
           s == Saved(w, ok)
           d == [s EXCEPT !.pending = IF @ = slot THEN NoSlot ELSE @]
<1>1. Calmer(c, w) /\ w \in Cores
  BY OutcomeIsCalm DEF Calmer
<1>2. Calmer(w, s) /\ s \in Cores /\ (s.storageOk => ok)
  BY <1>1, SavedIsCalm DEF Calmer
<1> HIDE DEF w, s
<1>3. Calmer(c, s)
  BY <1>1, <1>2, CalmerYet
<1>4. /\ d \in Cores /\ d.journal = s.journal /\ d.program = s.program /\ d.permission = s.permission
      /\ d.pending = IF s.pending = slot THEN NoSlot ELSE s.pending
      /\ d.phase = s.phase /\ d.armed = s.armed /\ d.storageOk = s.storageOk
      /\ d.inhibited = s.inhibited /\ d.stopping = s.stopping /\ d.writable = s.writable
  BY <1>2 DEF Cores
<1>5. d = Finish(c, slot, outcome, ok)
  BY DEF Finish, s, w
<1> HIDE DEF d
<1>6. Calmer(c, d)
  BY <1>3, <1>4 DEF Calmer, CmdOf
<1>7. d.pending # slot
  BY <1>4, SlotFacts
<1> QED
  BY <1>2, <1>4, <1>5, <1>6, <1>7

-----------------------------------------------------------------------------
(* Flash.                                                                  *)

\* What a save of a core that is Calmer than the present one does to flash.
FlashFollows(c) ==
    /\ nvs' \in Journals
    /\ \/ nvs'.motionPossible = nvs.motionPossible
       \/ c.writable /\ nvs'.motionPossible = c.journal.motionPossible

LEMMA SavesFollow ==
  ASSUME NEW c \in Cores, NEW ok \in BOOLEAN, nvs \in Journals, nvs' = SavedTo(c, ok)
  PROVE  FlashFollows(c)
BY DEF SavedTo, FlashFollows, Cores

ToldOK == told \in [Commands -> SUBSET Outcomes]

LEMMA FinishFollows ==
  ASSUME NEW c \in Cores, NEW slot \in Slots, NEW outcome \in Outcomes, NEW ok \in BOOLEAN,
         CmdOf(c, slot) \in Commands, nvs \in Journals, ToldOK,
         FinishEffects(c, slot, outcome, ok)
  PROVE  FlashFollows(c) /\ ToldOK'
<1> DEFINE w == WithOutcome(c, slot, outcome)
<1>1. w \in Cores /\ w.writable = c.writable /\ w.journal.motionPossible = c.journal.motionPossible
  BY OutcomeIsCalm DEF Calmer
<1>2. nvs' = SavedTo(w, ok)
  BY DEF FinishEffects
<1> HIDE DEF w
<1>3. FlashFollows(w)
  BY <1>1, <1>2, SavesFollow
<1>4. FlashFollows(c)
  BY <1>1, <1>3 DEF FlashFollows
<1>5. ToldOK'
  BY DEF FinishEffects, ToldOK
<1> QED
  BY <1>4, <1>5

-----------------------------------------------------------------------------
(* The slot of a new record: of any three in a row, one is not active.      *)

LEMMA Around ==
  /\ \A a \in Slots : a % LedgerSize = a
  /\ \A a \in Nat : a % LedgerSize \in Slots
  /\ \A a \in Slots : \A k \in 0 .. 2 :
        (a + k) % LedgerSize = IF a + k < LedgerSize THEN a + k ELSE a + k - LedgerSize
<1> SUFFICES ASSUME NEW L \in Nat, L > 2, L = LedgerSize
             PROVE  /\ \A a \in 0 .. (L - 1) : a % L = a
                    /\ \A a \in Nat : a % L \in 0 .. (L - 1)
                    /\ \A a \in 0 .. (L - 1) : \A k \in 0 .. 2 :
                          (a + k) % L = IF a + k < L THEN a + k ELSE a + k - L
  BY CoreAssumption DEF Slots
<1>1. \A a \in 0 .. (L - 1) : a % L = a
  OBVIOUS
<1>2. \A a \in Nat : a % L \in 0 .. (L - 1)
  OBVIOUS
<1>3. \A b \in L .. (L + 1) : b % L = b - L
  OBVIOUS
<1> QED
  BY <1>1, <1>2, <1>3

LEMMA SlotIsFree ==
  ASSUME NEW c \in Cores
  PROVE  Slot(c) \in Slots /\ Slot(c) \notin Active(c)
<1> DEFINE At(k) == (c.journal.next + k) % LedgerSize
           Found(s, k) == /\ s = At(k) /\ s \notin Active(c)
                          /\ \A i \in 0 .. (k - 1) : At(i) \in Active(c)
<1>1. c.journal.next \in Slots /\ c.journal.next \in Nat
  BY SlotFacts DEF Cores, Journals
<1>2. At(0) # At(1) /\ At(1) # At(2) /\ At(0) # At(2)
  <2> DEFINE Next1(n, k) == IF n + k < LedgerSize THEN n + k ELSE n + k - LedgerSize
  <2>1. At(0) = Next1(c.journal.next, 0) /\ At(1) = Next1(c.journal.next, 1) /\ At(2) = Next1(c.journal.next, 2)
    BY <1>1, Around
  <2> HIDE DEF At
  <2> QED
    BY <1>1, <2>1, CoreAssumption DEF Slots
<1>3. \A k \in 0 .. 2 : At(k) \in Slots
  BY <1>1, Around
<1>4. \E k \in 0 .. 2 : At(k) \notin Active(c)
  <2> HIDE DEF At
  <2> QED
    BY <1>2 DEF Active
<1>5. \E s \in Slots : \E k \in 0 .. 2 : Found(s, k)
  <2> HIDE DEF At
  <2>1. CASE At(0) \notin Active(c)
    <3>1. Found(At(0), 0)
      BY <2>1
    <3> QED
      BY <1>3, <3>1
  <2>2. CASE At(0) \in Active(c) /\ At(1) \notin Active(c)
    <3>1. Found(At(1), 1)
      BY <2>2
    <3> QED
      BY <1>3, <3>1
  <2>3. CASE At(0) \in Active(c) /\ At(1) \in Active(c) /\ At(2) \notin Active(c)
    <3>1. \A i \in 0 .. (2 - 1) : i = 0 \/ i = 1
      OBVIOUS
    <3>2. Found(At(2), 2)
      BY <2>3, <3>1
    <3> QED
      BY <1>3, <3>2
  <2>4. At(0) \notin Active(c) \/ At(1) \notin Active(c) \/ At(2) \notin Active(c)
    BY <1>4
  <2> QED
    BY <2>1, <2>2, <2>3, <2>4
<1>6. \E s \in Slots : \E k \in 0 .. (LedgerSize - 1) : Found(s, k)
  <2>1. \A k \in 0 .. 2 : k \in 0 .. (LedgerSize - 1)
    BY CoreAssumption
  <2> HIDE DEF Found
  <2> QED
    BY <1>5, <2>1
<1>7. Slot(c) = CHOOSE s \in Slots : \E k \in 0 .. (LedgerSize - 1) : Found(s, k)
  BY DEF Slot
<1>8. Slot(c) \in Slots /\ \E k \in 0 .. (LedgerSize - 1) : Found(Slot(c), k)
  <2> HIDE DEF Found
  <2> QED
    BY <1>6, <1>7
<1> QED
  BY <1>8

-----------------------------------------------------------------------------
(* The invariant.                                                          *)

\* A controller with core c over flash j and a motor in state m.
Safe(c, j, m) ==
    /\ Sound(c)
    /\ m # "stopped" => j.motionPossible /\ (c.writable => c.journal.motionPossible)
    /\ c.program # NoSlot /\ c.phase # "stopping" => j.motionPossible

Shape ==
    /\ at \in Places /\ cur \in Nat /\ nvs \in Journals /\ ToldOK
    /\ motor \in {"stopped", "forward", "slowing"}
    /\ runs \in [Commands -> Nat]
    /\ issued \in 0 .. N /\ refused \subseteq Commands \X Refusals
    /\ faults \in 0 .. MaxFaults /\ crashes \in 0 .. MaxCrashes

CmdHere == CmdOf(core, cur)

\* What a handler relies on in its later parts.
Working ==
    /\ at = "displaced" => cur \in Commands /\ core.pending = NoSlot
    /\ at \in {"accepted", "prepared"} =>
          cur \in Slots /\ CmdHere \in Commands /\ core.pending = NoSlot
    /\ at = "accepted" /\ Type[CmdHere] # "stop" =>
          core.program = NoSlot /\ core.armed /\ CmdHere > core.permission
    /\ at = "prepared" /\ Type[CmdHere] = "start" =>
          /\ nvs.motionPossible /\ core.journal.motionPossible
          /\ core.armed /\ ~core.stopping /\ CmdHere > core.permission
    /\ at = "prepared" /\ Type[CmdHere] = "program" =>
          core.program # NoSlot /\ core.phase # "stopping"
    /\ at = "prepared" /\ Type[CmdHere] = "stop" /\ core.program # NoSlot => core.phase = "stopping"
    /\ at \in {"cleared", "verified"} => core.program # NoSlot

PumpInv == Shape /\ Safe(core, nvs, motor) /\ Working

LEMMA CalmIsSafe ==
  ASSUME NEW c, NEW m, Safe(c, nvs, m), Calmer(c, core'), FlashFollows(c),
         motor' # "stopped" => m # "stopped"
  PROVE  Safe(core', nvs', motor')
<1>1. Sound(c) /\ Sound(core')
  BY CalmerIsSound DEF Safe
<1>2. c.program \in Slots \cup {NoSlot} /\ c.journal.motionPossible \in BOOLEAN /\ nvs'.motionPossible \in BOOLEAN
  BY <1>1 DEF Sound, Cores, Journals, FlashFollows
<1>3. motor' # "stopped" => nvs'.motionPossible /\ (core'.writable => core'.journal.motionPossible)
  BY <1>2 DEF Safe, Calmer, FlashFollows
<1>4. core'.program # NoSlot /\ core'.phase # "stopping" => nvs'.motionPossible
  BY <1>1, <1>2 DEF Safe, Calmer, FlashFollows, Sound
<1> QED
  BY <1>1, <1>3, <1>4 DEF Safe

LEMMA FollowsEarlier ==
  ASSUME NEW c, NEW d, Calmer(c, d), FlashFollows(d)
  PROVE  FlashFollows(c)
BY DEF Calmer, FlashFollows

\* Between two parts of a handler nothing is relied on.
Resting == {"off", "loop", "stop", "verify", "program", "guard"}

LEMMA RestingWorks == ASSUME at' \in Resting PROVE Working'
BY DEF Resting, Working

LEMMA SavingIsTyped ==
  ASSUME Shape, NEW ok \in Verdicts, Saving(ok)
  PROVE  /\ ok \in BOOLEAN
         /\ issued' \in 0 .. N /\ refused' \subseteq Commands \X Refusals
         /\ faults' \in 0 .. MaxFaults /\ crashes' \in 0 .. MaxCrashes
         /\ issued' = issued /\ refused' = refused
<1>1. ok \in BOOLEAN /\ (~ok => faults < MaxFaults)
  BY DEF Verdicts
<1>2. CASE ok
  BY <1>1, <1>2 DEF Shape, Saving
<1>3. CASE ~ok
  <2>1. faults' = faults + 1
    BY <1>3 DEF Saving
  <2> QED
    BY <1>1, <2>1, CoreAssumption DEF Shape, Saving
<1> QED
  BY <1>2, <1>3

LEMMA EnvIsTyped ==
  ASSUME Shape, UNCHANGED env
  PROVE  /\ issued' \in 0 .. N /\ refused' \subseteq Commands \X Refusals
         /\ faults' \in 0 .. MaxFaults /\ crashes' \in 0 .. MaxCrashes
BY DEF Shape, env

\* Sound, and the parts of a core that the prover looks at.
LEMMA SoundFacts ==
  ASSUME NEW c, Sound(c)
  PROVE  /\ c \in Cores /\ c.journal \in Journals /\ c.journal.records \in [Slots -> Records]
         /\ c.pending \in Slots \cup {NoSlot} /\ c.program \in Slots \cup {NoSlot}
         /\ c.pending # NoSlot => CmdOf(c, c.pending) \in Commands
         /\ c.program # NoSlot => CmdOf(c, c.program) \in Commands
         /\ c.journal.motionPossible \in BOOLEAN /\ c.armed \in BOOLEAN /\ c.stopping \in BOOLEAN
         /\ c.inhibited \in BOOLEAN /\ c.writable \in BOOLEAN /\ c.storageOk \in BOOLEAN
         /\ c.permission \in Nat /\ c.phase \in Phases
BY DEF Sound, Cores, Journals, Active

Environs ==
    /\ issued' \in 0 .. N /\ refused' \subseteq Commands \X Refusals
    /\ faults' \in 0 .. MaxFaults /\ crashes' \in 0 .. MaxCrashes

\* A part of a handler that comes to rest with a core calmer than a safe one.
LEMMA CalmStep ==
  ASSUME PumpInv, NEW c, Safe(c, nvs, motor), Calmer(c, core'), FlashFollows(c),
         at' \in Resting, cur' \in Nat, ToldOK', UNCHANGED <<motor, runs>>, Environs
  PROVE  PumpInv'
<1>1. Safe(core', nvs', motor')
  BY CalmIsSafe
<1>2. Working'
  BY RestingWorks
<1>3. Shape'
  BY DEF PumpInv, Shape, FlashFollows, Environs, Resting, Places
<1> QED
  BY <1>1, <1>2, <1>3 DEF PumpInv

LEMMA NvsStays == ASSUME Shape, NEW c, UNCHANGED nvs PROVE FlashFollows(c)
BY DEF Shape, FlashFollows

LEMMA ToldStays == ASSUME Shape, UNCHANGED told PROVE ToldOK'
BY DEF Shape, ToldOK

LEMMA CoreFacts ==
  ASSUME PumpInv
  PROVE  /\ Shape /\ Safe(core, nvs, motor) /\ Working /\ Sound(core) /\ core \in Cores
         /\ cur \in Nat /\ Calmer(core, core) /\ nvs \in Journals /\ ToldOK
BY CalmerItself DEF PumpInv, Safe, Sound, Shape

-----------------------------------------------------------------------------
(* The environment, and what only answers.                                 *)

Refuses == \E cmd \in Commands : ReceiveRefused(cmd)

LEMMA SameCore ==
  ASSUME PumpInv, UNCHANGED <<at, cur, core, nvs, runs>>, ToldOK', Environs,
         motor' \in {"stopped", "forward", "slowing"}, motor' # "stopped" => motor # "stopped"
  PROVE  PumpInv'
<1>1. Safe(core', nvs', motor')
  BY DEF PumpInv, Safe
<1>2. Working'
  BY DEF PumpInv, Working, CmdHere, CmdOf
<1>3. Shape'
  BY DEF PumpInv, Shape, Environs
<1> QED
  BY <1>1, <1>2, <1>3 DEF PumpInv

LEMMA Environment ==
  ASSUME PumpInv, Issue \/ Refuses \/ MotorStops \/ DriveTrips
  PROVE  PumpInv'
<1>1. UNCHANGED <<at, cur, core, nvs, told, runs>>
  BY DEF Issue, Refuses, ReceiveRefused, MotorStops, DriveTrips
<1>2. Environs
  <2>1. CASE Issue \/ MotorStops \/ DriveTrips
    BY <2>1, CoreAssumption DEF PumpInv, Shape, Environs, Issue, MotorStops, DriveTrips, env
  <2>2. CASE Refuses
    <3>1. PICK cmd \in Commands : ReceiveRefused(cmd)
      BY <2>2 DEF Refuses
    <3>2. PICK why \in Refusals : refused' = refused \cup {<<cmd, why>>}
      BY <3>1 DEF ReceiveRefused
    <3> QED
      BY <3>1, <3>2 DEF ReceiveRefused, PumpInv, Shape, Environs
  <2> QED
    BY <2>1, <2>2
<1>3. motor' \in {"stopped", "forward", "slowing"} /\ (motor' # "stopped" => motor # "stopped")
  BY DEF PumpInv, Shape, Issue, Refuses, ReceiveRefused, MotorStops, DriveTrips
<1> QED
  BY <1>1, <1>2, <1>3, SameCore, ToldStays DEF PumpInv

LEMMA RecordFacts ==
  ASSUME NEW c, Sound(c), NEW s \in Slots, CmdOf(c, s) \in Commands
  PROVE  RecordOf(c, s).outcome \in Outcomes
BY SoundFacts DEF CmdOf, RecordOf, Records, EmptyRecord, Commands

LEMMA Answers ==
  ASSUME PumpInv, Replay \/ \E cmd \in Commands : ReceiveKnown(cmd)
  PROVE  PumpInv'
<1> USE CoreFacts
<1>1. CASE \E cmd \in Commands : ReceiveKnown(cmd)
  <2>1. PICK cmd \in Commands : ReceiveKnown(cmd)
    BY <1>1
  <2>2. PICK s \in Slots : /\ RecordOf(core, s).cmd = cmd
                           /\ told' = [told EXCEPT ![cmd] = @ \cup {RecordOf(core, s).outcome}]
    BY <2>1 DEF ReceiveKnown
  <2>3. RecordOf(core, s).outcome \in Outcomes
    BY <2>2, RecordFacts DEF RecordOf, CmdOf
  <2>4. ToldOK'
    BY <2>2, <2>3 DEF ToldOK
  <2>5. UNCHANGED <<at, cur, core, nvs, runs, motor, env>>
    BY <2>1 DEF ReceiveKnown
  <2> QED
    BY <2>4, <2>5, SameCore, EnvIsTyped DEF Environs, Shape
<1>2. CASE Replay
  <2>1. \A c \in Commands : \A s \in {x \in Slots : RecordOf(core, x).cmd = c} :
           RecordOf(core, s).outcome \in Outcomes
    BY RecordFacts DEF RecordOf, CmdOf
  <2> DEFINE Again(c) == {RecordOf(core, s).outcome : s \in {x \in Slots : RecordOf(core, x).cmd = c}}
  <2>1a. told \in [Commands -> SUBSET Outcomes]
    BY DEF ToldOK
  <2>a. \A c \in Commands : Again(c) \in SUBSET Outcomes
    BY <2>1
  <2>b. told' = [c \in Commands |-> told[c] \cup Again(c)]
    BY <1>2 DEF Replay
  <2>2. ToldOK'
    <3> HIDE DEF Again
    <3>1. \A c \in Commands : told[c] \cup Again(c) \in SUBSET Outcomes
      BY <2>1a, <2>a
    <3>2. told' \in [Commands -> SUBSET Outcomes]
      BY <2>b, <3>1
    <3> QED
      BY <3>2 DEF ToldOK
  <2>3. UNCHANGED <<at, cur, core, nvs, runs, motor, env>>
    BY <1>2 DEF Replay
  <2> QED
    BY <2>2, <2>3, SameCore, EnvIsTyped DEF Environs, Shape
<1> QED
  BY <1>1, <1>2

LEMMA Crashes == ASSUME PumpInv, Crash PROVE PumpInv'
<1>1. 0 \in Slots
  BY CoreAssumption DEF Slots
<1>2. EmptyJournal \in Journals
  BY <1>1 DEF EmptyJournal, Journals, Records
<1>3. NewCore \in Cores
  BY <1>2 DEF NewCore, Cores, Phases
<1>4. Sound(NewCore)
  BY <1>3 DEF Sound, NewCore, Active, EmptyJournal
<1>5. Safe(core', nvs', motor')
  BY <1>4 DEF Crash, Safe, PumpInv, NewCore
<1>6. Shape'
  BY CoreAssumption DEF Crash, PumpInv, Shape, ToldOK, Places
<1>7. Working'
  BY RestingWorks DEF Crash, Resting
<1> QED
  BY <1>5, <1>6, <1>7 DEF PumpInv

LEMMA Initially == Init => PumpInv
<1> SUFFICES ASSUME Init PROVE PumpInv
  OBVIOUS
<1>1. 0 \in Slots
  BY CoreAssumption DEF Slots
<1>2. EmptyJournal \in Journals
  BY <1>1 DEF EmptyJournal, Journals, Records
<1>3. NewCore \in Cores
  BY <1>2 DEF NewCore, Cores, Phases
<1>4. Sound(NewCore)
  BY <1>3 DEF Sound, NewCore, Active, EmptyJournal
<1>5. Safe(core, nvs, motor)
  BY <1>4 DEF Init, Safe, NewCore
<1>6. Shape
  BY <1>2, CoreAssumption DEF Init, Shape, ToldOK, Places
<1>7. Working
  BY DEF Init, Working
<1> QED
  BY <1>5, <1>6, <1>7 DEF PumpInv

-----------------------------------------------------------------------------
(* Answers that are saved.                                                 *)

\* The answer to the command of a slot, out of a core c that is calmer than a sound one.
LEMMA Finishing ==
  ASSUME PumpInv, NEW b, Sound(b), NEW c, Calmer(b, c), NEW slot \in Slots,
         CmdOf(b, slot) \in Commands, NEW outcome \in Outcomes, NEW ok \in Verdicts,
         Saving(ok), FinishEffects(c, slot, outcome, ok)
  PROVE  /\ Calmer(b, Finish(c, slot, outcome, ok)) /\ Finish(c, slot, outcome, ok) \in Cores
         /\ Finish(c, slot, outcome, ok).pending # slot
         /\ FlashFollows(b) /\ ToldOK' /\ Environs /\ ok \in BOOLEAN
<1>1. ok \in BOOLEAN /\ Environs
  BY SavingIsTyped, CoreFacts DEF Environs
<1>2. b \in Cores /\ c \in Cores /\ CmdOf(c, slot) \in Commands
  BY DEF Sound, Calmer
<1>3. Calmer(c, Finish(c, slot, outcome, ok)) /\ Finish(c, slot, outcome, ok).pending # slot
  BY <1>1, <1>2, FinishIsCalm
<1>4. Calmer(b, Finish(c, slot, outcome, ok))
  BY <1>2, <1>3, CalmerYet
<1>5. FlashFollows(c) /\ ToldOK'
  BY <1>1, <1>2, FinishFollows, CoreFacts
<1>6. FlashFollows(b)
  BY <1>5, FollowsEarlier
<1> QED
  BY <1>1, <1>3, <1>4, <1>5, <1>6 DEF Calmer

LEMMA WithdrawsStill ==
  ASSUME NEW b \in Cores, NEW c, Calmer(b, c), NEW reason \in Withdrawing
  PROVE  Calmer(b, RequestStop(c, reason)) /\ Calmer(b, Disarm(c, reason))
<1>1. c \in Cores
  BY DEF Calmer
<1>2. Calmer(c, RequestStop(c, reason)) /\ Calmer(c, Disarm(c, reason))
  BY <1>1, RequestStopIsCalm, DisarmIsCalm
<1> QED
  BY <1>2, CalmerYet

LEMMA Rejects == ASSUME PumpInv, ExamineFails PROVE PumpInv'
<1>1. PICK ok \in Verdicts, revokes \in BOOLEAN :
         /\ core' = IF revokes THEN Disarm(Finish(core, cur, "failed", ok), "configuration_mismatch")
                    ELSE Finish(core, cur, "failed", ok)
         /\ FinishEffects(core, cur, "failed", ok)
         /\ Saving(ok)
  BY DEF ExamineFails
<1>2. cur \in Slots /\ CmdOf(core, cur) \in Commands
  BY DEF PumpInv, Working, CmdHere, ExamineFails
<1> DEFINE f == Finish(core, cur, "failed", ok)
<1>3. Calmer(core, f) /\ FlashFollows(core) /\ ToldOK' /\ Environs
  BY <1>1, <1>2, Finishing, CoreFacts DEF Outcomes
<1> HIDE DEF f
<1>4. Calmer(core, Disarm(f, "configuration_mismatch"))
  BY <1>3, WithdrawsStill, CoreFacts DEF Withdrawing
<1>5. Calmer(core, core')
  BY <1>1, <1>3, <1>4 DEF f
<1>6. at' \in Resting /\ cur' \in Nat /\ UNCHANGED <<motor, runs>>
  BY DEF ExamineFails, Resting
<1> QED
  BY <1>3, <1>5, <1>6, CalmStep, CoreFacts

LEMMA Lates == ASSUME PumpInv, ActuateLate PROVE PumpInv'
<1>1. PICK ok \in Verdicts :
         /\ core' = IF Finish(core, cur, "failed", ok).journal.motionPossible
                    THEN RequestStop(Finish(core, cur, "failed", ok), "physical_result_unconfirmed")
                    ELSE Finish(core, cur, "failed", ok)
         /\ FinishEffects(core, cur, "failed", ok)
         /\ Saving(ok)
  BY DEF ActuateLate
<1>2. cur \in Slots /\ CmdOf(core, cur) \in Commands
  BY DEF PumpInv, Working, CmdHere, ActuateLate
<1> DEFINE f == Finish(core, cur, "failed", ok)
<1>3. Calmer(core, f) /\ FlashFollows(core) /\ ToldOK' /\ Environs
  BY <1>1, <1>2, Finishing, CoreFacts DEF Outcomes
<1> HIDE DEF f
<1>4. Calmer(core, RequestStop(f, "physical_result_unconfirmed"))
  BY <1>3, WithdrawsStill, CoreFacts DEF Withdrawing
<1>5. Calmer(core, core')
  BY <1>1, <1>3, <1>4 DEF f
<1>6. at' \in Resting /\ cur' \in Nat /\ UNCHANGED <<motor, runs>>
  BY DEF ActuateLate, Resting
<1> QED
  BY <1>3, <1>5, <1>6, CalmStep, CoreFacts

LEMMA Unlinks == ASSUME PumpInv, ActuateUnlinked PROVE PumpInv'
<1> DEFINE d == Disarm(core, "network_lost")
<1>1. PICK ok \in Verdicts : /\ core' = Finish(d, cur, "failed", ok)
                             /\ FinishEffects(d, cur, "failed", ok)
                             /\ Saving(ok)
  BY DEF ActuateUnlinked
<1>2. cur \in Slots /\ CmdOf(core, cur) \in Commands
  BY DEF PumpInv, Working, CmdHere, ActuateUnlinked
<1>3. Calmer(core, d)
  BY WithdrawsStill, CoreFacts DEF Withdrawing
<1> HIDE DEF d
<1>4. Calmer(core, core') /\ FlashFollows(core) /\ ToldOK' /\ Environs
  BY <1>1, <1>2, <1>3, Finishing, CoreFacts DEF Outcomes
<1>6. at' \in Resting /\ cur' \in Nat /\ UNCHANGED <<motor, runs>>
  BY DEF ActuateUnlinked, Resting
<1> QED
  BY <1>4, <1>6, CalmStep, CoreFacts

LEMMA TimesOut == ASSUME PumpInv, TickVerifyTimedOut PROVE PumpInv'
<1> DEFINE f(ok) == Finish(core, core.pending, "unknown", ok)
<1>1. PICK ok \in Verdicts :
         /\ core' = RequestStop(f(ok), "physical_result_unconfirmed")
         /\ FinishEffects(core, core.pending, "unknown", ok)
         /\ Saving(ok)
  BY DEF TickVerifyTimedOut
<1>2. core.pending \in Slots /\ CmdOf(core, core.pending) \in Commands
  BY SoundFacts, CoreFacts DEF TickVerifyTimedOut
<1>3. Calmer(core, f(ok)) /\ FlashFollows(core) /\ ToldOK' /\ Environs
  BY <1>1, <1>2, Finishing, CoreFacts DEF Outcomes
<1> HIDE DEF f
<1>5. Calmer(core, core')
  BY <1>1, <1>3, WithdrawsStill, CoreFacts DEF Withdrawing
<1>6. at' \in Resting /\ cur' \in Nat /\ UNCHANGED <<motor, runs>>
  BY CoreFacts DEF TickVerifyTimedOut, Resting
<1> QED
  BY <1>3, <1>5, <1>6, CalmStep, CoreFacts

LEMMA Displacing == ASSUME PumpInv, NEW cmd \in Commands, ReceiveDisplacing(cmd) PROVE PumpInv'
<1>1. PICK ok \in Verdicts :
         /\ core' = Finish(core, core.pending, "unknown", ok)
         /\ FinishEffects(core, core.pending, "unknown", ok)
         /\ IF ok THEN at' = "displaced" /\ cur' = cmd ELSE at' = "loop" /\ cur' = 0
         /\ Saving(ok)
  BY DEF ReceiveDisplacing
<1>2. core.pending \in Slots /\ CmdOf(core, core.pending) \in Commands
  BY SoundFacts, CoreFacts DEF ReceiveDisplacing, Displaces
<1>3. Calmer(core, core') /\ core'.pending # core.pending /\ FlashFollows(core) /\ ToldOK' /\ Environs
  BY <1>1, <1>2, Finishing, CoreFacts DEF Outcomes
<1>4. UNCHANGED <<motor, runs>>
  BY DEF ReceiveDisplacing
<1>5. CASE ~ok
  BY <1>1, <1>3, <1>4, <1>5, CalmStep, CoreFacts DEF Resting
<1>6. CASE ok
  <2>1. at' = "displaced" /\ cur' = cmd
    BY <1>1, <1>6
  <2>2. core'.pending = NoSlot
    BY <1>3 DEF Calmer
  <2>3. Safe(core', nvs', motor')
    BY <1>3, <1>4, CalmIsSafe, CoreFacts
  <2>4. Working'
    BY <2>1, <2>2 DEF Working
  <2>5. Shape'
    BY <1>3, <1>4, <2>1, CoreFacts DEF Shape, FlashFollows, Environs, Places, Commands
  <2> QED
    BY <2>3, <2>4, <2>5 DEF PumpInv
<1> QED
  BY <1>5, <1>6

-----------------------------------------------------------------------------
(* What only withdraws the permission.                                     *)

LEMMA LinkIsCalm ==
  ASSUME NEW c \in Cores, NEW connected \in BOOLEAN
  PROVE  Calmer(c, [c EXCEPT !.linked = connected])
<1> DEFINE d == [c EXCEPT !.linked = connected]
<1>1. /\ d \in Cores /\ d.journal = c.journal /\ d.program = c.program /\ d.permission = c.permission
      /\ d.pending = c.pending /\ d.phase = c.phase /\ d.armed = c.armed
      /\ d.inhibited = c.inhibited /\ d.stopping = c.stopping /\ d.writable = c.writable
  BY DEF Cores
<1> HIDE DEF d
<1>2. Calmer(c, d)
  BY <1>1 DEF Calmer, CmdOf
<1> QED
  BY <1>2 DEF d

\* A step that changes nothing but the core, for a calmer one.
LEMMA OnlyCalmer ==
  ASSUME PumpInv, Calmer(core, core'), at' \in Resting, UNCHANGED <<cur, nvs, told, motor, runs, env>>
  PROVE  PumpInv'
<1>1. FlashFollows(core) /\ ToldOK' /\ cur' \in Nat
  BY CoreFacts, NvsStays, ToldStays
<1>2. Environs
  BY CoreFacts, EnvIsTyped DEF Environs
<1> QED
  BY <1>1, <1>2, CalmStep, CoreFacts

LEMMA NetworkTick == ASSUME PumpInv, TickNetwork PROVE PumpInv'
<1>1. PICK networkConnected \in BOOLEAN, minutePassed \in BOOLEAN :
         core' = LET n == [core EXCEPT !.linked = networkConnected]
                     l == IF networkConnected THEN n ELSE OnNetworkLoss(n) IN
                 IF minutePassed THEN OnTimer(l) ELSE l
  BY DEF TickNetwork
<1> DEFINE n == [core EXCEPT !.linked = networkConnected]
           l == IF networkConnected THEN n ELSE OnNetworkLoss(n)
<1>2. core' = IF minutePassed THEN OnTimer(l) ELSE l
  BY <1>1
<1>3. Calmer(core, n)
  BY LinkIsCalm, CoreFacts
<1> HIDE DEF n
<1>4. Calmer(core, Disarm(n, "network_lost"))
  BY <1>3, WithdrawsStill, CoreFacts DEF Withdrawing
<1>5. Calmer(core, l)
  BY <1>3, <1>4 DEF OnNetworkLoss
<1> HIDE DEF l
<1>6. Calmer(core, RequestStop(l, "bench_timer"))
  BY <1>5, WithdrawsStill, CoreFacts DEF Withdrawing
<1>7. Calmer(core, core')
  BY <1>2, <1>5, <1>6 DEF OnTimer
<1>8. at' \in Resting /\ UNCHANGED <<cur, nvs, told, motor, runs, env>>
  BY DEF TickNetwork, Resting
<1> QED
  BY <1>7, <1>8, OnlyCalmer

LEMMA Withdrawals ==
  ASSUME PumpInv, \/ TickVerifyNothing \/ ProgramTrouble \/ ProgramUnlinked \/ ProgramNothing
                  \/ SampleTrouble \/ LocalDisarm
  PROVE  PumpInv'
<1>1. /\ Calmer(core, core)
      /\ \A reason \in Withdrawing : Calmer(core, RequestStop(core, reason)) /\ Calmer(core, Disarm(core, reason))
  BY CoreFacts, WithdrawsStill
<1>2. Calmer(core, core')
  BY <1>1 DEF TickVerifyNothing, ProgramTrouble, ProgramUnlinked, ProgramNothing, SampleTrouble,
              LocalDisarm, Withdrawing
<1>3. at' \in Resting /\ UNCHANGED <<cur, nvs, told, motor, runs, env>>
  BY DEF TickVerifyNothing, ProgramTrouble, ProgramUnlinked, ProgramNothing, SampleTrouble,
         LocalDisarm, Resting
<1> QED
  BY <1>2, <1>3, OnlyCalmer

LEMMA StopUnread == ASSUME PumpInv, TickStopUnread PROVE PumpInv'
<1>1. /\ at' \in Resting /\ UNCHANGED <<cur, core, nvs, told, runs, env>>
      /\ motor' \in {"stopped", "forward", "slowing"} /\ (motor' # "stopped" => motor # "stopped")
  BY CoreFacts DEF TickStopUnread, WriteStop, Resting, Shape
<1>2. Safe(core', nvs', motor')
  BY <1>1, CoreFacts DEF Safe
<1>3. Working'
  BY <1>1, RestingWorks
<1>4. Shape'
  BY <1>1, CoreFacts, EnvIsTyped, ToldStays DEF Shape, Resting, Places
<1> QED
  BY <1>2, <1>3, <1>4 DEF PumpInv

-----------------------------------------------------------------------------
(* What gives a permission.                                                *)

LEMMA IdleFacts ==
  ASSUME NEW c, Sound(c), ~Busy(c)
  PROVE  ~c.journal.motionPossible /\ ~c.stopping /\ c.pending = NoSlot /\ c.program = NoSlot
BY DEF Busy, Active

\* An idle core may be armed, and disarmed, as one likes.
LEMMA IdleIsFree ==
  ASSUME NEW c, NEW j, NEW m, Safe(c, j, m), ~Busy(c), NEW d \in Cores,
         d.journal = c.journal, d.writable = c.writable, d.stopping = c.stopping,
         d.pending = c.pending, d.program = c.program, d.armed => ~d.inhibited
  PROVE  Safe(d, j, m)
<1>1. Sound(c)
  BY DEF Safe
<1>2. ~c.journal.motionPossible /\ ~c.stopping /\ c.pending = NoSlot /\ c.program = NoSlot
  BY <1>1, IdleFacts
<1>3. Sound(d)
  BY <1>2 DEF Sound, Active
<1> QED
  BY <1>2, <1>3 DEF Safe

\* A step that changes nothing but the core, for a safe one.
LEMMA OnlySafe ==
  ASSUME PumpInv, Safe(core', nvs, motor), at' \in Resting, UNCHANGED <<cur, nvs, told, motor, runs, env>>
  PROVE  PumpInv'
<1>1. Safe(core', nvs', motor')
  OBVIOUS
<1>2. Working'
  BY RestingWorks
<1>3. Shape'
  BY CoreFacts, EnvIsTyped, ToldStays DEF Shape, Resting, Places
<1> QED
  BY <1>1, <1>2, <1>3 DEF PumpInv

LEMMA ArmedIsTyped ==
  ASSUME NEW c \in Cores, NEW mode \in {"bench", "extended"}, NEW fit \in BOOLEAN
  PROVE  LET d == Armed(c, mode, fit) IN
         /\ d \in Cores
         /\ d.journal = c.journal /\ d.writable = c.writable /\ d.stopping = c.stopping
         /\ d.pending = c.pending /\ d.program = c.program
         /\ d.armed => ~d.inhibited
<1>1. CASE fit
  BY <1>1 DEF Armed, Cores
<1>2. CASE ~fit
  BY <1>2 DEF Armed, Cores
<1> QED
  BY <1>1, <1>2

LEMMA ArmsLocally == ASSUME PumpInv, LocalArm PROVE PumpInv'
<1>1. PICK mode \in {"bench", "extended"}, fit \in BOOLEAN :
         core' = Armed(core, mode, fit /\ core.storageOk /\ motor = "stopped")
  BY DEF LocalArm
<1> DEFINE well == fit /\ core.storageOk /\ motor = "stopped"
<1>2. well \in BOOLEAN /\ core' = Armed(core, mode, well)
  BY <1>1
<1> HIDE DEF well
<1>4. Safe(core, nvs, motor) /\ core \in Cores /\ ~Busy(core)
  BY CoreFacts DEF LocalArm
<1>5. /\ core' \in Cores
      /\ core'.journal = core.journal /\ core'.writable = core.writable
      /\ core'.stopping = core.stopping
      /\ core'.pending = core.pending /\ core'.program = core.program
      /\ core'.armed => ~core'.inhibited
  BY <1>2, <1>4, ArmedIsTyped
<1>3. Safe(core', nvs, motor)
  BY <1>4, <1>5, IdleIsFree
<1> QED
  BY <1>3, OnlySafe DEF LocalArm, Resting

LEMMA Guards == ASSUME PumpInv, TickGuard PROVE PumpInv'
<1>1. PICK fit \in BOOLEAN, remoteOperation \in BOOLEAN, mode \in {"bench", "extended"} :
         core' = LET rechecked == (~core.journal.motionPossible \/ core.mode = "extended")
                                      /\ core.pending = NoSlot
                     d == IF rechecked /\ ~fit THEN Disarm(core, "configuration_mismatch") ELSE core IN
                 IF remoteOperation /\ RemotelyArmable(d) /\ motor = "stopped"
                 THEN [Armed(d, mode, TRUE) EXCEPT !.permission = issued] ELSE d
  BY DEF TickGuard
<1> DEFINE rechecked == (~core.journal.motionPossible \/ core.mode = "extended") /\ core.pending = NoSlot
           d == IF rechecked /\ ~fit THEN Disarm(core, "configuration_mismatch") ELSE core
           a == Armed(d, mode, TRUE)
<1>2. core' = IF remoteOperation /\ RemotelyArmable(d) /\ motor = "stopped"
              THEN [a EXCEPT !.permission = issued] ELSE d
  BY <1>1
<1>3. Calmer(core, d)
  BY WithdrawsStill, CoreFacts DEF Withdrawing
<1> HIDE DEF d
<1>4. at' \in Resting /\ UNCHANGED <<cur, nvs, told, motor, runs, env>>
  BY DEF TickGuard, Resting
<1>5. CASE core' = d
  BY <1>3, <1>4, <1>5, OnlyCalmer
<1>6. CASE core' = [a EXCEPT !.permission = issued] /\ RemotelyArmable(d) /\ motor = "stopped"
  <2>1. Sound(d) /\ d \in Cores
    BY <1>3, CalmerIsSound, CoreFacts DEF Calmer
  <2>2. ~Busy(d)
    BY <1>6 DEF RemotelyArmable
  <2>3. Safe(d, nvs, motor)
    BY <1>6, <2>1, <2>2, IdleFacts DEF Safe
  <2>4. /\ a \in Cores /\ a.journal = d.journal /\ a.writable = d.writable
        /\ a.stopping = d.stopping /\ a.pending = d.pending /\ a.program = d.program
        /\ a.armed => ~a.inhibited
    BY <2>1, ArmedIsTyped
  <2>5. issued \in Nat
    BY CoreFacts, CoreAssumption DEF Shape
  <2> HIDE DEF a
  <2>6. /\ core' \in Cores /\ core'.journal = d.journal /\ core'.writable = d.writable
        /\ core'.stopping = d.stopping /\ core'.pending = d.pending /\ core'.program = d.program
        /\ core'.armed => ~core'.inhibited
    BY <1>6, <2>4, <2>5 DEF Cores
  <2>7. Safe(core', nvs, motor)
    BY <2>2, <2>3, <2>6, IdleIsFree
  <2> QED
    BY <1>4, <2>7, OnlySafe
<1> QED
  BY <1>2, <1>5, <1>6

LEMMA Grants == ASSUME PumpInv, GrantChanges PROVE PumpInv'
<1>1. PICK utc \in BOOLEAN :
         core' = [Disarm(core, "configuration_mismatch")
                     EXCEPT !.permission = IF utc THEN issued ELSE @]
  BY DEF GrantChanges
<1> DEFINE d == Disarm(core, "configuration_mismatch")
<1>2. Calmer(core, d) /\ ~d.armed
  BY DisarmIsCalm, CoreFacts DEF Withdrawing
<1> HIDE DEF d
<1>3. Sound(d) /\ d \in Cores
  BY <1>2, CalmerIsSound, CoreFacts DEF Calmer
<1>4. issued \in Nat
  BY CoreFacts, CoreAssumption DEF Shape
<1>5. /\ core' \in Cores /\ core'.journal = d.journal /\ core'.writable = d.writable
      /\ core'.stopping = d.stopping /\ core'.pending = d.pending /\ core'.program = d.program
      /\ core'.armed = d.armed /\ core'.inhibited = d.inhibited /\ core'.phase = d.phase
  BY <1>1, <1>3, <1>4 DEF Cores, d
<1>6. d.program # NoSlot => d.phase = "stopping"
  BY <1>2, <1>3 DEF Sound
<1>7. Sound(core')
  BY <1>2, <1>3, <1>5, <1>6 DEF Sound, Active, CmdOf
<1>8. motor # "stopped" => nvs.motionPossible /\ (core'.writable => core'.journal.motionPossible)
  BY <1>2, <1>5, CoreFacts DEF Safe, Calmer
<1>9. Safe(core', nvs, motor)
  BY <1>5, <1>6, <1>7, <1>8 DEF Safe
<1> QED
  BY <1>9, OnlySafe DEF GrantChanges, Resting

LEMMA Restores == ASSUME PumpInv, RestorePermission PROVE PumpInv'
<1>1. core' = [core EXCEPT !.inhibited = FALSE] /\ ~Busy(core)
  BY DEF RestorePermission, Restorable
<1>2. /\ core' \in Cores /\ core'.journal = core.journal /\ core'.writable = core.writable
      /\ core'.stopping = core.stopping /\ core'.pending = core.pending
      /\ core'.program = core.program /\ ~core'.inhibited
  BY <1>1, CoreFacts DEF Cores
<1>3. Safe(core', nvs, motor)
  BY <1>1, <1>2, IdleIsFree, CoreFacts
<1> QED
  BY <1>3, OnlySafe DEF RestorePermission, Resting

-----------------------------------------------------------------------------
(* The motor was read to be at rest.                                       *)

LEMMA HaltIsSafe ==
  ASSUME NEW c, NEW j, Sound(c), c.program # NoSlot => c.phase = "stopping"
  PROVE  LET h == Halted(c) IN
         /\ Safe(h, j, "stopped") /\ h \in Cores
         /\ h.program = c.program /\ h.pending = c.pending
         /\ \A s \in Slots : CmdOf(h, s) = CmdOf(c, s)
<1> DEFINE h == Halted(c)
<1>1. /\ c \in Cores /\ c.journal \in Journals
      /\ c.pending \in Slots \cup {NoSlot} /\ c.program \in Slots \cup {NoSlot}
  BY SoundFacts
<1>2. [c.journal EXCEPT !.motionPossible = FALSE] \in Journals
  BY <1>1 DEF Journals
<1>3. h = [c EXCEPT !.journal = [@ EXCEPT !.motionPossible = FALSE], !.stopping = FALSE]
  BY DEF Halted
<1>4. h \in Cores
  BY <1>1, <1>2, <1>3 DEF Cores
<1>5. /\ h.journal = [c.journal EXCEPT !.motionPossible = FALSE] /\ ~h.stopping
      /\ h.program = c.program /\ h.pending = c.pending /\ h.phase = c.phase
      /\ h.armed = c.armed /\ h.inhibited = c.inhibited /\ h.permission = c.permission
  BY <1>1, <1>3 DEF Cores
<1> HIDE DEF h
<1>6. ~h.journal.motionPossible /\ \A s \in Slots : CmdOf(h, s) = CmdOf(c, s)
  BY <1>1, <1>5 DEF Journals, CmdOf
<1>7. \A s \in Active(h) \ {NoSlot} : CmdOf(h, s) \in Commands
  BY <1>1, <1>5, <1>6 DEF Sound, Active
<1>8. h.program # NoSlot => h.phase = "stopping"
  BY <1>5
<1>9. Sound(h)
  BY <1>4, <1>5, <1>6, <1>7, <1>8 DEF Sound
<1>10. Safe(h, j, "stopped")
  BY <1>8, <1>9 DEF Safe
<1> QED
  BY <1>4, <1>5, <1>6, <1>10 DEF h

LEMMA StopsRead == ASSUME PumpInv, TickStopRead PROVE PumpInv'
<1> DEFINE h == Halted(core)
<1>1. PICK ok \in Verdicts : core' = Saved(h, ok) /\ nvs' = SavedTo(h, ok) /\ Saving(ok)
  BY DEF TickStopRead
<1>2. core.program # NoSlot => core.phase = "stopping"
  BY CoreFacts DEF TickStopRead, Sound
<1>3. Safe(h, nvs, "stopped") /\ h \in Cores /\ h.program = core.program
  BY <1>2, HaltIsSafe, CoreFacts
<1> HIDE DEF h
<1>4. ok \in BOOLEAN /\ Environs
  BY <1>1, SavingIsTyped, CoreFacts DEF Environs
<1>5. Calmer(h, core') /\ FlashFollows(h)
  BY <1>1, <1>3, <1>4, SavedIsCalm, SavesFollow, CoreFacts
<1>6. motor' = "stopped"
  BY DEF TickStopRead, StopConfirmed
<1>7. Safe(core', nvs', motor')
  BY <1>3, <1>5, <1>6, CalmIsSafe
<1>8. core'.program = core.program
  BY <1>3, <1>5 DEF Calmer
<1>9. at' = IF core.program # NoSlot THEN "cleared" ELSE "verify"
  BY DEF TickStopRead
<1>10. Working'
  BY <1>8, <1>9 DEF Working
<1>11. Shape'
  BY <1>4, <1>5, <1>6, <1>9, CoreFacts, ToldStays DEF TickStopRead, Shape, FlashFollows, Environs, Places
<1> QED
  BY <1>7, <1>10, <1>11 DEF PumpInv

LEMMA Verifies == ASSUME PumpInv, TickVerified PROVE PumpInv'
<1> DEFINE h == IF TypeOf(core, core.pending) = "stop" THEN Halted(core) ELSE core
<1>1. PICK ok \in Verdicts : /\ core' = Finish(h, core.pending, "succeeded", ok)
                             /\ FinishEffects(h, core.pending, "succeeded", ok)
                             /\ Saving(ok)
  BY DEF TickVerified
<1>2. core.pending \in Slots /\ CmdOf(core, core.pending) \in Commands
  BY SoundFacts, CoreFacts DEF TickVerified
<1>3. Safe(h, nvs, motor) /\ h.program = core.program /\ CmdOf(h, core.pending) = CmdOf(core, core.pending)
  <2>1. CASE TypeOf(core, core.pending) # "stop"
    BY <2>1, CoreFacts
  <2>2. CASE TypeOf(core, core.pending) = "stop"
    <3>1. motor = "stopped"
      BY <2>2 DEF TickVerified, Verified
    <3>2. core.program # NoSlot => core.phase = "stopping"
      BY <1>2, <2>2, CoreFacts, SlotFacts DEF Sound, TypeOf, RecordOf, CmdOf
    <3> QED
      BY <1>2, <2>2, <3>1, <3>2, HaltIsSafe, CoreFacts
  <2> QED
    BY <2>1, <2>2
<1> HIDE DEF h
<1>4. Sound(h) /\ Calmer(h, h)
  BY <1>3, CalmerItself DEF Safe, Sound
<1>5. /\ Calmer(h, core') /\ FlashFollows(h) /\ ToldOK' /\ Environs
  BY <1>1, <1>2, <1>3, <1>4, Finishing DEF Outcomes
<1>6. UNCHANGED <<motor, runs, cur>> /\ at' \in {"verified", "program"}
  BY DEF TickVerified
<1>7. Safe(core', nvs', motor')
  BY <1>3, <1>5, <1>6, CalmIsSafe
<1>8. at' = "verified" => core'.program # NoSlot
  BY <1>3, <1>5 DEF TickVerified, Calmer
<1>9. Working'
  BY <1>6, <1>8 DEF Working
<1>10. Shape'
  BY <1>5, <1>6, CoreFacts DEF Shape, FlashFollows, Environs, Places
<1> QED
  BY <1>7, <1>9, <1>10 DEF PumpInv

-----------------------------------------------------------------------------
(* A program ends.                                                         *)

LEMMA Completing ==
  ASSUME PumpInv, core.program # NoSlot, NEW sc \in BOOLEAN, CompleteProgram(sc),
         at' \in Resting, UNCHANGED <<cur, motor, runs>>
  PROVE  PumpInv'
<1> DEFINE p == [core EXCEPT !.program = NoSlot, !.phase = "idle", !.cause = "none"]
           d == IF sc THEN p ELSE Disarm(p, "physical_result_unconfirmed")
           outcome == ProgramOutcome(core, sc)
<1>1. PICK ok \in Verdicts : /\ core' = Finish(d, core.program, outcome, ok)
                             /\ FinishEffects(d, core.program, outcome, ok)
                             /\ Saving(ok)
  BY DEF CompleteProgram
<1>2. core.program \in Slots /\ CmdOf(core, core.program) \in Commands
  BY SoundFacts, CoreFacts
<1>3. /\ p \in Cores /\ p.journal = core.journal /\ p.program = NoSlot /\ p.pending = core.pending
      /\ p.permission = core.permission /\ p.armed = core.armed /\ p.inhibited = core.inhibited
      /\ p.stopping = core.stopping /\ p.writable = core.writable
  BY CoreFacts DEF Cores, Phases
<1> HIDE DEF p
<1>4. Sound(p)
  BY <1>3, CoreFacts DEF Sound, Active, CmdOf
<1>5. Safe(p, nvs, motor)
  BY <1>3, <1>4, CoreFacts DEF Safe
<1>6. Calmer(p, d)
  BY <1>3, CalmerItself, WithdrawsStill DEF Withdrawing
<1>7. CmdOf(p, core.program) \in Commands
  BY <1>2, <1>3 DEF CmdOf
<1>8. outcome \in Outcomes
  BY DEF ProgramOutcome, Outcomes
<1> HIDE DEF d, outcome
<1>9. Calmer(p, core') /\ FlashFollows(p) /\ ToldOK' /\ Environs
  BY <1>1, <1>2, <1>4, <1>6, <1>7, <1>8, Finishing
<1> QED
  BY <1>5, <1>9, CalmStep, CoreFacts

LEMMA Completes == ASSUME PumpInv, TickCompleteProgram \/ ProgramUnstopped PROVE PumpInv'
<1>1. core.program # NoSlot
  BY CoreFacts DEF Working, TickCompleteProgram, ProgramUnstopped, InPhase
<1>2. (CompleteProgram(TRUE) \/ CompleteProgram(FALSE)) /\ at' \in Resting /\ UNCHANGED <<cur, motor, runs>>
  BY DEF TickCompleteProgram, ProgramUnstopped, Resting
<1> QED
  BY <1>1, <1>2, Completing

-----------------------------------------------------------------------------
(* A command is taken.                                                     *)

LEMMA RecordedIsSafe ==
  ASSUME NEW c, NEW j, NEW m, Safe(c, j, m), NEW cmd \in Commands
  PROVE  LET r == WithRecord(c, cmd) IN
         /\ Safe(r, j, m) /\ r \in Cores /\ CmdOf(r, Slot(c)) = cmd /\ Slot(c) \in Slots
         /\ r.pending = c.pending /\ r.program = c.program /\ r.armed = c.armed
         /\ r.permission = c.permission
<1> DEFINE r == WithRecord(c, cmd)
           new == [cmd |-> cmd, outcome |-> AcceptedOutcome(c, cmd), steps |-> 0]
           rj == [c.journal EXCEPT !.next = (Slot(c) + 1) % LedgerSize, !.highest = cmd,
                                   !.records = [@ EXCEPT ![Slot(c)] = new]]
<1>1. Sound(c) /\ c \in Cores
  BY DEF Safe, Sound
<1>2. Slot(c) \in Slots /\ Slot(c) \notin Active(c)
  BY <1>1, SlotIsFree
<1>3. (Slot(c) + 1) % LedgerSize \in Slots
  <2>1. \A a \in Slots : a + 1 \in Nat
    BY SlotFacts
  <2>2. \A a \in Slots : (a + 1) % LedgerSize \in Slots
    BY <2>1, Around
  <2> QED
    BY <1>2, <2>2
<1>4. new \in Records
  BY DEF Records, AcceptedOutcome, Outcomes
<1>5. cmd \in Nat
  BY DEF Commands
<1> HIDE DEF new
<1>6. rj \in Journals /\ rj.motionPossible = c.journal.motionPossible
      /\ rj.records = [c.journal.records EXCEPT ![Slot(c)] = new]
  <2>1. [c.journal.records EXCEPT ![Slot(c)] = new] \in [Slots -> Records]
    BY <1>1, <1>4, SoundFacts
  <2> QED
    BY <1>1, <1>2, <1>3, <1>5, <2>1, SoundFacts DEF Journals
<1>7. r = [c EXCEPT !.journal = rj]
  BY <1>1 DEF WithRecord, new
<1> HIDE DEF rj
<1>8. /\ r \in Cores /\ r.journal = rj /\ r.pending = c.pending /\ r.program = c.program
      /\ r.armed = c.armed /\ r.inhibited = c.inhibited /\ r.stopping = c.stopping
      /\ r.permission = c.permission /\ r.phase = c.phase /\ r.writable = c.writable
  BY <1>1, <1>6, <1>7 DEF Cores
<1> HIDE DEF r
<1>9. CmdOf(r, Slot(c)) = cmd /\ \A s \in Slots \ {Slot(c)} : CmdOf(r, s) = CmdOf(c, s)
  BY <1>1, <1>2, <1>6, <1>8, SoundFacts DEF CmdOf, new
<1>10. \A s \in Active(c) \ {NoSlot} : CmdOf(r, s) = CmdOf(c, s)
  BY <1>1, <1>2, <1>9, SoundFacts DEF Active
<1>11. /\ c.program # NoSlot => CmdOf(r, c.program) = CmdOf(c, c.program)
       /\ c.pending # NoSlot => CmdOf(r, c.pending) = CmdOf(c, c.pending)
  BY <1>10 DEF Active
<1>12. Sound(r)
  BY <1>1, <1>6, <1>8, <1>10, <1>11 DEF Sound, Active
<1>13. Safe(r, j, m)
  BY <1>6, <1>8, <1>12 DEF Safe
<1> QED
  BY <1>2, <1>8, <1>9, <1>13 DEF r

LEMMA Accepting ==
  ASSUME PumpInv, NEW cmd \in Commands, Accept(cmd), UNCHANGED <<motor, runs>>
  PROVE  PumpInv'
<1> DEFINE r == WithRecord(core, cmd)
           s(ok) == Saved(r, ok)
<1>1. PICK ok \in Verdicts :
        /\ core' = s(ok)
        /\ nvs' = SavedTo(r, ok)
        /\ told' = IF s(ok).storageOk
                   THEN [told EXCEPT ![cmd] = @ \cup {AcceptedOutcome(core, cmd)}] ELSE told
        /\ IF s(ok).storageOk /\ AcceptedOutcome(core, cmd) = "pending"
           THEN at' = "accepted" /\ cur' = Slot(core)
           ELSE at' = "loop" /\ cur' = 0
        /\ Saving(ok)
  BY DEF Accept
<1>2. /\ Safe(r, nvs, motor) /\ r \in Cores /\ CmdOf(r, Slot(core)) = cmd /\ Slot(core) \in Slots
      /\ r.pending = core.pending /\ r.program = core.program /\ r.armed = core.armed
      /\ r.permission = core.permission
  BY RecordedIsSafe, CoreFacts
<1> HIDE DEF r
<1>3. ok \in BOOLEAN /\ Environs
  BY <1>1, SavingIsTyped, CoreFacts DEF Environs
<1>4. Calmer(r, core') /\ FlashFollows(r)
  BY <1>1, <1>2, <1>3, SavedIsCalm, SavesFollow, CoreFacts
<1>5. core'.storageOk => core' = [r EXCEPT !.storageOk = TRUE]
  BY <1>1, <1>2, <1>3, SavedIsCalm
<1>6. Safe(core', nvs', motor')
  BY <1>2, <1>4, CalmIsSafe
<1>7. ToldOK'
  BY <1>1, CoreFacts DEF ToldOK, AcceptedOutcome, Outcomes
<1>8. Shape'
  <2>1. (cur' = Slot(core) \/ cur' = 0) /\ (at' = "accepted" \/ at' = "loop")
    <3> HIDE DEF s
    <3> QED
      BY <1>1
  <2>2. Slot(core) \in Nat
    BY <1>2, SlotFacts
  <2>3. cur' \in Nat /\ at' \in Places
    BY <2>1, <2>2 DEF Places
  <2> QED
    BY <1>3, <1>4, <1>7, <2>3, CoreFacts DEF Shape, FlashFollows, Environs
<1>9. CASE at' = "loop"
  BY <1>6, <1>8, <1>9, RestingWorks DEF Resting, PumpInv
<1>10. CASE at' # "loop"
  <2>1. core'.storageOk /\ AcceptedOutcome(core, cmd) = "pending" /\ at' = "accepted" /\ cur' = Slot(core)
    BY <1>1, <1>10
  <2>2. Free(core, cmd) /\ Permitted(core, cmd)
    BY <2>1 DEF AcceptedOutcome
  <2>3. /\ CmdOf(core', cur') = cmd /\ core'.pending = core.pending /\ core'.program = core.program
        /\ core'.armed = core.armed /\ core'.permission = core.permission
    BY <1>2, <1>5, <2>1 DEF CmdOf, Cores
  <2>4. Working'
    BY <1>2, <2>1, <2>2, <2>3 DEF Working, CmdHere, Free, Permitted
  <2> QED
    BY <1>6, <1>8, <2>4 DEF PumpInv
<1> QED
  BY <1>9, <1>10

LEMMA Accepts ==
  ASSUME PumpInv, AcceptDisplacing \/ \E cmd \in Commands : ReceiveNew(cmd)
  PROVE  PumpInv'
<1>1. CASE AcceptDisplacing
  BY <1>1, Accepting, CoreFacts DEF AcceptDisplacing, Working
<1>2. CASE \E cmd \in Commands : ReceiveNew(cmd)
  BY <1>2, Accepting DEF ReceiveNew
<1> QED
  BY <1>1, <1>2

-----------------------------------------------------------------------------
(* The intent is saved before the drive is written.                        *)

\* A STOP is always sound to ask for, once motion is admitted.
LEMMA StopIsSound ==
  ASSUME NEW c \in Cores, NEW reason, c.journal.motionPossible, c.armed => ~c.inhibited,
         \A s \in Active(c) \ {NoSlot} : CmdOf(c, s) \in Commands
  PROVE  LET d == RequestStop(c, reason) IN
         /\ Sound(d) /\ d.journal = c.journal /\ d.program = c.program /\ d.pending = c.pending
         /\ d.program # NoSlot => d.phase = "stopping"
<1> DEFINE d == RequestStop(c, reason)
           kept == c.armed /\ KeepsPermission(c, reason)
           ended == IF reason = "completed" /\ c.cause # "cut" THEN "completed" ELSE "cut"
           mode == IF KeepsPermission(c, reason) THEN c.mode ELSE "bench"
<1>1. kept \in BOOLEAN /\ (kept => c.armed) /\ ended \in {"completed", "cut"} /\ mode \in {"bench", "extended"}
  BY DEF Cores
<1>2. d = [c EXCEPT !.phase = IF c.program # NoSlot THEN "stopping" ELSE @,
                    !.cause = IF c.program # NoSlot THEN ended ELSE @,
                    !.armed = kept, !.mode = mode, !.stopping = TRUE]
  BY Zenon DEF RequestStop
<1> DEFINE phase == IF c.program # NoSlot THEN "stopping" ELSE c.phase
           cause == IF c.program # NoSlot THEN ended ELSE c.cause
<1>6. phase \in Phases /\ cause \in {"none", "completed", "cut"}
  BY <1>1 DEF Cores, Phases
<1>7. d = [c EXCEPT !.phase = phase, !.cause = cause, !.armed = kept, !.mode = mode, !.stopping = TRUE]
  BY <1>2
<1> HIDE DEF d, kept, ended, mode, phase, cause
<1>3. d \in Cores
  BY <1>1, <1>6, <1>7 DEF Cores
<1>4. /\ d.journal = c.journal /\ d.program = c.program /\ d.pending = c.pending
      /\ d.inhibited = c.inhibited /\ d.stopping /\ d.armed = kept
      /\ d.phase = IF c.program # NoSlot THEN "stopping" ELSE c.phase
  BY <1>2 DEF Cores
<1>5. Sound(d)
  BY <1>1, <1>3, <1>4 DEF Sound, Active, CmdOf
<1> QED
  BY <1>4, <1>5 DEF d

LEMMA SaveOrDisarm ==
  ASSUME NEW c \in Cores, NEW ok \in BOOLEAN
  PROVE  (ok /\ c.writable) \/ ~Saved(c, ok).armed
<1> SUFFICES ASSUME ~(ok /\ c.writable) PROVE ~Saved(c, ok).armed
  OBVIOUS
<1>1. [c EXCEPT !.storageOk = FALSE] \in Cores
  BY DEF Cores
<1>2. Saved(c, ok) = Disarm([c EXCEPT !.storageOk = FALSE], "storage_failed")
  BY DEF Saved
<1> QED
  BY <1>1, <1>2, DisarmIsCalm DEF Withdrawing

\* Motion is admitted in RAM and then saved, or the permission is gone.
LEMMA IntentIsSafe ==
  ASSUME NEW i, NEW ok \in BOOLEAN, Sound(i), i.journal.motionPossible, nvs \in Journals,
         motor # "stopped" => nvs.motionPossible,
         core' = Saved(i, ok), nvs' = SavedTo(i, ok), motor' = motor
  PROVE  /\ Safe(core', nvs', motor') /\ FlashFollows(i)
         /\ core'.storageOk => core' = [i EXCEPT !.storageOk = TRUE] /\ nvs'.motionPossible
<1>1. i \in Cores /\ i.writable \in BOOLEAN
  BY DEF Sound, Cores
<1>2. /\ Calmer(i, core') /\ (core'.storageOk => core' = [i EXCEPT !.storageOk = TRUE] /\ ok /\ i.writable)
      /\ FlashFollows(i) /\ Sound(core')
  BY <1>1, SavedIsCalm, SavesFollow, CalmerIsSound
<1>3. ok /\ i.writable => nvs'.motionPossible
  BY DEF SavedTo
<1>4. core'.program # NoSlot /\ core'.phase # "stopping" => nvs'.motionPossible
  <2>1. core'.program # NoSlot /\ core'.phase # "stopping" => core'.armed
    BY <1>2 DEF Sound
  <2> QED
    BY <1>1, <1>3, <2>1, SaveOrDisarm
<1>5. motor' # "stopped" => nvs'.motionPossible /\ core'.journal.motionPossible
  BY <1>2 DEF Calmer, SavedTo
<1>6. Safe(core', nvs', motor')
  BY <1>2, <1>4, <1>5 DEF Safe
<1> QED
  BY <1>2, <1>3, <1>6

\* The core in which motion is possible.
LEMMA MotionAdmitted ==
  ASSUME NEW c, Sound(c)
  PROVE  LET i == [c EXCEPT !.journal.motionPossible = TRUE] IN
         /\ i \in Cores /\ i.journal.motionPossible /\ i.pending = c.pending /\ i.program = c.program
         /\ i.armed = c.armed /\ i.inhibited = c.inhibited /\ i.stopping = c.stopping
         /\ i.permission = c.permission /\ i.phase = c.phase
         /\ i.journal.records = c.journal.records
<1> DEFINE m == [c.journal EXCEPT !.motionPossible = TRUE]
           i == [c EXCEPT !.journal = m]
<1>1. m \in Journals /\ m.motionPossible /\ m.records = c.journal.records
  BY SoundFacts DEF Journals
<1> HIDE DEF m
<1>2. /\ i \in Cores /\ i.journal = m /\ i.pending = c.pending /\ i.program = c.program
      /\ i.armed = c.armed /\ i.inhibited = c.inhibited /\ i.stopping = c.stopping
      /\ i.permission = c.permission /\ i.phase = c.phase
  BY <1>1, SoundFacts DEF Cores
<1>3. i = [c EXCEPT !.journal.motionPossible = TRUE]
  BY DEF m
<1> HIDE DEF i
<1> QED
  BY <1>1, <1>2, <1>3

\* What remains to be shown of a save that precedes the drive.
LEMMA Preparing ==
  ASSUME PumpInv, NEW i, i \in Cores, NEW ok \in BOOLEAN, cur \in Slots, CmdHere \in Commands,
         i.pending = NoSlot, i.journal.records = core.journal.records,
         core' = Saved(i, ok),
         IF core'.storageOk THEN at' = "prepared" /\ cur' = cur ELSE at' = "loop" /\ cur' = 0,
         Safe(core', nvs', motor'), nvs' \in Journals, ToldOK', Environs, UNCHANGED <<motor, runs>>,
         core'.storageOk =>
            /\ Type[CmdHere] = "start" =>
                  /\ nvs'.motionPossible /\ i.journal.motionPossible
                  /\ i.armed /\ ~i.stopping /\ CmdHere > i.permission
            /\ Type[CmdHere] = "program" => i.program # NoSlot /\ i.phase # "stopping"
            /\ Type[CmdHere] = "stop" /\ i.program # NoSlot => i.phase = "stopping"
  PROVE  PumpInv'
<1>1. Shape'
  BY SlotFacts, CoreFacts DEF Shape, Environs, Places
<1>2. Working'
  <2>1. CASE ~core'.storageOk
    BY <2>1, RestingWorks DEF Resting
  <2>2. CASE core'.storageOk
    <3>1. core' = [i EXCEPT !.storageOk = TRUE]
      BY <2>2, SavedIsCalm
    <3>2. /\ core'.pending = i.pending /\ core'.program = i.program /\ core'.journal = i.journal
          /\ core'.armed = i.armed /\ core'.stopping = i.stopping /\ core'.permission = i.permission
          /\ core'.phase = i.phase
      BY <3>1 DEF Cores
    <3>3. CmdHere' = CmdHere
      BY <2>2, <3>2 DEF CmdHere, CmdOf
    <3>4. at' = "prepared" /\ cur' = cur
      BY <2>2
    <3> HIDE DEF CmdHere
    <3> QED
      BY <2>2, <3>2, <3>3, <3>4 DEF Working
  <2> QED
    BY <2>1, <2>2
<1> QED
  BY <1>1, <1>2 DEF PumpInv

LEMMA Examines == ASSUME PumpInv, ExaminePasses PROVE PumpInv'
<1> DEFINE i == Intended(core, cur)
           m == [core EXCEPT !.journal.motionPossible = TRUE]
<1>1. PICK ok \in Verdicts :
        /\ core' = Saved(i, ok)
        /\ nvs' = SavedTo(i, ok)
        /\ IF core'.storageOk THEN at' = "prepared" /\ cur' = cur ELSE at' = "loop" /\ cur' = 0
        /\ Saving(ok)
  BY DEF ExaminePasses
<1>2. /\ cur \in Slots /\ CmdHere \in Commands /\ core.pending = NoSlot
      /\ Type[CmdHere] # "stop" => core.program = NoSlot /\ core.armed /\ CmdHere > core.permission
  BY CoreFacts DEF ExaminePasses, Working
<1>3. TypeOf(core, cur) = Type[CmdHere] /\ Type[CmdHere] \in Types
  BY <1>2, CoreAssumption DEF TypeOf, RecordOf, CmdHere, CmdOf
<1>4. /\ Type[CmdHere] = "start" => Startable(core)
      /\ Type[CmdHere] = "program" => ProgramStartable(core)
      /\ UNCHANGED <<motor, runs>> /\ ToldOK'
  BY <1>3, ToldStays, CoreFacts DEF ExaminePasses
<1>5. ok \in BOOLEAN /\ Environs
  BY <1>1, SavingIsTyped, CoreFacts DEF Environs
<1>6. /\ m \in Cores /\ m.journal.motionPossible /\ m.pending = core.pending
      /\ m.program = core.program
      /\ m.armed = core.armed /\ m.inhibited = core.inhibited /\ m.stopping = core.stopping
      /\ m.permission = core.permission /\ m.phase = core.phase
      /\ m.journal.records = core.journal.records
  BY MotionAdmitted, CoreFacts
<1>7. motor # "stopped" => nvs.motionPossible
  BY CoreFacts DEF Safe
<1>8. \A s \in Slots : CmdOf(m, s) = CmdOf(core, s)
  BY <1>6 DEF CmdOf
<1>9. Sound(core) /\ core.program \in Slots \cup {NoSlot} /\ core.permission \in Nat
  BY CoreFacts, SoundFacts
<1>10. CASE Type[CmdHere] = "frequency"
  <2>1. i = core
    BY <1>3, <1>10 DEF Intended
  <2>2. Calmer(core, core') /\ FlashFollows(core)
    BY <1>1, <1>5, <2>1, SavedIsCalm, SavesFollow, CoreFacts
  <2>3. Safe(core', nvs', motor') /\ nvs' \in Journals
    BY <1>4, <2>2, CalmIsSafe, CoreFacts DEF FlashFollows
  <2> HIDE DEF i
  <2> QED
    BY <1>1, <1>2, <1>4, <1>5, <1>10, <2>1, <2>3, Preparing, CoreFacts
<1>11. CASE Type[CmdHere] = "start"
  <2>1. i = m
    BY <1>3, <1>11 DEF Intended
  <2>2. ~core.journal.motionPossible /\ core.program = NoSlot /\ core.armed /\ CmdHere > core.permission
    BY <1>2, <1>4, <1>11 DEF Startable
  <2>3. ~core.stopping
    BY <1>9, <2>2 DEF Sound
  <2> HIDE DEF i, m
  <2>4. Sound(m)
    BY <1>2, <1>6, <1>9, <2>2, <2>3 DEF Sound, Active
  <2>5. /\ Safe(core', nvs', motor') /\ nvs' \in Journals
        /\ core'.storageOk => nvs'.motionPossible
    BY <1>1, <1>4, <1>5, <1>6, <1>7, <2>1, <2>4, IntentIsSafe, CoreFacts DEF FlashFollows
  <2> QED
    BY <1>1, <1>2, <1>4, <1>5, <1>6, <1>11, <2>1, <2>2, <2>3, <2>5, Preparing
<1>12. CASE Type[CmdHere] = "stop"
  <2>1. i = RequestStop(m, "command")
    BY <1>3, <1>12 DEF Intended
  <2> HIDE DEF i, m
  <2>2. \A s \in Active(m) \ {NoSlot} : CmdOf(m, s) \in Commands
    BY <1>2, <1>6, <1>8, <1>9 DEF Active, Sound
  <2>3. m.armed => ~m.inhibited
    BY <1>6, <1>9 DEF Sound
  <2>4. /\ Sound(i) /\ i.journal = m.journal /\ i.program = m.program /\ i.pending = m.pending
        /\ i.program # NoSlot => i.phase = "stopping"
    BY <1>6, <2>1, <2>2, <2>3, StopIsSound
  <2>5. i \in Cores
    BY <2>4 DEF Sound
  <2>6. Safe(core', nvs', motor') /\ nvs' \in Journals
    BY <1>1, <1>4, <1>5, <1>6, <1>7, <2>4, IntentIsSafe, CoreFacts DEF FlashFollows
  <2> QED
    BY <1>1, <1>2, <1>4, <1>5, <1>6, <1>12, <2>4, <2>5, <2>6, Preparing
<1>13. CASE Type[CmdHere] = "program"
  <2>1. i = [m EXCEPT !.program = cur, !.phase = "idle", !.cause = "none"]
    BY <1>3, <1>13 DEF Intended
  <2>2. /\ ~core.journal.motionPossible /\ ~core.stopping /\ core.program = NoSlot /\ core.armed
        /\ CmdHere > core.permission
    BY <1>2, <1>4, <1>13 DEF ProgramStartable
  <2> HIDE DEF i, m
  <2>3. /\ i \in Cores /\ i.journal = m.journal /\ i.program = cur /\ i.phase = "idle"
        /\ i.pending = m.pending /\ i.armed = m.armed /\ i.inhibited = m.inhibited
        /\ i.stopping = m.stopping /\ i.permission = m.permission
    BY <1>2, <1>6, <2>1 DEF Cores, Phases
  <2>4. CmdOf(i, cur) = CmdHere
    BY <1>2, <1>8, <2>3 DEF CmdOf, CmdHere
  <2>5. Sound(i)
    BY <1>2, <1>6, <1>9, <2>2, <2>3, <2>4 DEF Sound, Active
  <2>6. Safe(core', nvs', motor') /\ nvs' \in Journals
    BY <1>1, <1>4, <1>5, <1>6, <1>7, <2>3, <2>5, IntentIsSafe, CoreFacts DEF FlashFollows
  <2>7. cur # NoSlot
    BY <1>2, SlotFacts
  <2> QED
    BY <1>1, <1>2, <1>4, <1>5, <1>6, <1>13, <2>3, <2>6, <2>7, Preparing
<1> QED
  BY <1>3, <1>10, <1>11, <1>12, <1>13 DEF Types

-----------------------------------------------------------------------------
(* The drive is written, and a program goes from phase to phase.           *)

LEMMA SafeStep ==
  ASSUME PumpInv, Safe(core', nvs', motor'), nvs' \in Journals, at' \in Resting, cur' \in Nat, ToldOK',
         motor' \in {"stopped", "forward", "slowing"}, runs' \in [Commands -> Nat], Environs
  PROVE  PumpInv'
<1>1. Working'
  BY RestingWorks
<1>2. Shape'
  BY DEF Shape, Environs, Resting, Places
<1> QED
  BY <1>1, <1>2 DEF PumpInv

\* As CalmIsSafe, for a core on the way to the next one.
LEMMA CalmMidway ==
  ASSUME NEW c, NEW d, NEW j, NEW k, NEW m, Safe(c, j, m), Calmer(c, d),
         k \in Journals,
         k.motionPossible = j.motionPossible \/ (c.writable /\ k.motionPossible = c.journal.motionPossible)
  PROVE  Safe(d, k, m)
<1>1. Sound(c) /\ Sound(d)
  BY CalmerIsSound DEF Safe
<1>2. c.journal.motionPossible \in BOOLEAN /\ k.motionPossible \in BOOLEAN
  BY <1>1 DEF Sound, Cores, Journals
<1>3. m # "stopped" => k.motionPossible /\ (d.writable => d.journal.motionPossible)
  BY <1>2 DEF Safe, Calmer
<1>4. d.program # NoSlot /\ d.phase # "stopping" => k.motionPossible
  BY <1>1, <1>2 DEF Safe, Calmer, Sound
<1> QED
  BY <1>1, <1>3, <1>4 DEF Safe

LEMMA PhaseMoves ==
  ASSUME NEW c, NEW j, NEW m, Safe(c, j, m), c.program # NoSlot, c.phase # "stopping",
         NEW ph \in Phases \ {"stopping"}
  PROVE  Safe([c EXCEPT !.phase = ph], j, m)
<1> DEFINE d == [c EXCEPT !.phase = ph]
<1>1. Sound(c) /\ c \in Cores
  BY DEF Safe, Sound
<1>2. /\ d \in Cores /\ d.journal = c.journal /\ d.pending = c.pending /\ d.program = c.program
      /\ d.armed = c.armed /\ d.inhibited = c.inhibited /\ d.stopping = c.stopping
      /\ d.permission = c.permission /\ d.writable = c.writable
  BY <1>1 DEF Cores
<1> HIDE DEF d
<1>3. Sound(d)
  BY <1>1, <1>2 DEF Sound, Active, CmdOf
<1>4. Safe(d, j, m)
  BY <1>2, <1>3 DEF Safe
<1> QED
  BY <1>4 DEF d

LEMMA StepBegunIsSafe ==
  ASSUME NEW c, NEW j \in Journals, NEW m, Safe(c, j, m), c.program # NoSlot, c.phase # "stopping",
         NEW fit \in BOOLEAN, NEW linkValid \in BOOLEAN
  PROVE  Safe(StepBegun(c, fit, linkValid), j, m)
<1> DEFINE b == [c EXCEPT !.phase = "setting"]
<1>1. Safe(b, j, m)
  BY PhaseMoves DEF Phases
<1>2. c \in Cores /\ b \in Cores
  BY <1>1 DEF Safe, Sound
<1>3. StepBegun(c, fit, linkValid) =
         IF ~fit THEN RequestStop(c, "configuration_mismatch")
         ELSE IF linkValid THEN b ELSE Disarm(b, "network_lost")
  BY DEF StepBegun
<1> HIDE DEF b
<1>4. Safe(RequestStop(c, "configuration_mismatch"), j, m)
  BY <1>2, RequestStopIsCalm, CalmMidway DEF Withdrawing
<1>5. Safe(Disarm(b, "network_lost"), j, m)
  BY <1>1, <1>2, DisarmIsCalm, CalmMidway DEF Withdrawing
<1> QED
  BY <1>1, <1>3, <1>4, <1>5

LEMMA Programs == ASSUME PumpInv, ActuateProgram \/ ProgramHolds PROVE PumpInv'
<1>1. CASE ActuateProgram
  <2>1. cur \in Slots /\ core.program # NoSlot /\ core.phase # "stopping"
    BY <1>1, CoreFacts DEF ActuateProgram, Working, TypeOf, RecordOf, CmdHere, CmdOf
  <2>2. Safe(core', nvs, motor)
    BY <1>1, <2>1, StepBegunIsSafe, CoreFacts DEF ActuateProgram
  <2>3. nvs' = nvs /\ motor' = motor /\ runs' = runs /\ told' = told /\ UNCHANGED env
        /\ at' = "loop" /\ cur' = 0
    BY <1>1 DEF ActuateProgram
  <2>4. Environs /\ ToldOK'
    BY <2>3, EnvIsTyped, ToldStays, CoreFacts DEF Environs
  <2> QED
    BY <2>2, <2>3, <2>4, SafeStep, CoreFacts DEF Resting, Shape
<1>2. CASE ProgramHolds
  <2>1. core.program # NoSlot /\ core.phase # "stopping"
    BY <1>2 DEF ProgramHolds, InPhase
  <2>2. Safe(core', nvs, motor)
    BY <1>2, <2>1, PhaseMoves, CoreFacts DEF ProgramHolds, Phases
  <2> QED
    BY <1>2, <2>2, OnlySafe DEF ProgramHolds, Resting
<1> QED
  BY <1>1, <1>2

LEMMA ProgramStarts == ASSUME PumpInv, ProgramStart PROVE PumpInv'
<1>1. core.program # NoSlot /\ core.phase # "stopping" /\ core' = [core EXCEPT !.phase = "starting"]
  BY DEF ProgramStart, InPhase
<1>2. Safe(core', nvs, motor)
  BY <1>1, PhaseMoves, CoreFacts DEF Phases
<1>3. nvs.motionPossible /\ core.journal.motionPossible
  BY <1>1, CoreFacts DEF Safe, Sound
<1>4. core'.journal = core.journal
  BY <1>1, CoreFacts DEF Cores
<1>5. Safe(core', nvs, motor')
  BY <1>2, <1>3, <1>4 DEF Safe
<1>6. RecordOf(core, core.program).cmd \in Commands
  BY <1>1, CoreFacts, SoundFacts DEF RecordOf, CmdOf
<1>7. /\ runs' \in [Commands -> Nat] /\ motor' \in {"stopped", "forward", "slowing"}
      /\ at' \in Resting /\ UNCHANGED <<cur, nvs, told, env>>
  BY <1>6, CoreFacts DEF ProgramStart, WriteRun, Shape, Resting
<1>8. Environs /\ ToldOK'
  BY <1>7, EnvIsTyped, ToldStays, CoreFacts DEF Environs
<1> QED
  BY <1>5, <1>7, <1>8, SafeStep, CoreFacts

LEMMA Actuates == ASSUME PumpInv, Actuate PROVE PumpInv'
<1>1. /\ cur \in Slots /\ CmdHere \in Commands /\ core.pending = NoSlot
      /\ Type[CmdHere] = "start" => nvs.motionPossible /\ core.journal.motionPossible
      /\ Type[CmdHere] = "stop" /\ core.program # NoSlot => core.phase = "stopping"
  BY CoreFacts DEF Actuate, Working
<1>2. TypeOf(core, cur) = Type[CmdHere] /\ RecordOf(core, cur).cmd = CmdHere
  BY DEF TypeOf, RecordOf, CmdHere, CmdOf
<1>3. core' = [core EXCEPT !.pending = cur]
  BY DEF Actuate
<1>4. /\ core' \in Cores /\ core'.journal = core.journal /\ core'.pending = cur
      /\ core'.program = core.program /\ core'.phase = core.phase
      /\ core'.armed = core.armed /\ core'.inhibited = core.inhibited
      /\ core'.stopping = core.stopping /\ core'.permission = core.permission
      /\ core'.writable = core.writable
  BY <1>1, <1>3, CoreFacts DEF Cores
<1>5. CmdOf(core', cur) = CmdHere
  BY <1>4 DEF CmdOf, CmdHere
<1>6. Sound(core')
  BY <1>1, <1>4, <1>5, CoreFacts DEF Sound, Active, CmdOf
<1>7. /\ runs' \in [Commands -> Nat] /\ motor' \in {"stopped", "forward", "slowing"}
      /\ motor' # "stopped" => motor # "stopped" \/ Type[CmdHere] = "start"
  <2>1. CASE Type[CmdHere] = "start"
    BY <1>1, <1>2, <2>1, CoreFacts DEF Actuate, WriteRun, Shape
  <2>2. CASE Type[CmdHere] = "stop"
    BY <1>2, <2>2, CoreFacts DEF Actuate, WriteStop, Shape
  <2>3. CASE Type[CmdHere] \notin {"start", "stop"}
    BY <1>2, <2>3, CoreFacts DEF Actuate, Shape
  <2> QED
    BY <2>1, <2>2, <2>3
<1>8. at' \in Resting /\ cur' \in Nat /\ UNCHANGED <<nvs, told, env>>
  BY DEF Actuate, Resting
<1>9. Safe(core', nvs', motor')
  BY <1>1, <1>4, <1>6, <1>7, <1>8, CoreFacts DEF Safe
<1>10. Environs /\ ToldOK'
  BY <1>8, EnvIsTyped, ToldStays, CoreFacts DEF Environs
<1> QED
  BY <1>7, <1>8, <1>9, <1>10, SafeStep, CoreFacts

\* A step of a program is counted.
LEMMA StepIsCalm ==
  ASSUME NEW c \in Cores, NEW slot \in Slots, CmdOf(c, slot) \in Commands
  PROVE  LET n == [c EXCEPT !.journal.records[slot].steps = @ + 1] IN
         /\ Calmer(c, n) /\ n \in Cores
         /\ n.phase = c.phase /\ n.program = c.program
<1> DEFINE recs == [c.journal.records EXCEPT ![slot].steps = @ + 1]
           j == [c.journal EXCEPT !.records = recs]
           n == [c EXCEPT !.journal = j]
<1>1. c.journal \in Journals /\ c.journal.records \in [Slots -> Records]
  BY DEF Cores, Journals
<1>2. c.journal.records[slot] \in [cmd : Commands, outcome : Outcomes, steps : Nat]
  BY <1>1 DEF Records, EmptyRecord, CmdOf, Commands
<1>3. recs \in [Slots -> Records] /\ \A s \in Slots : recs[s].cmd = c.journal.records[s].cmd
  BY <1>1, <1>2 DEF Records
<1>4. n = [c EXCEPT !.journal.records[slot].steps = @ + 1]
  OBVIOUS
<1> HIDE DEF recs
<1>5. j \in Journals /\ j.records = recs /\ j.motionPossible = c.journal.motionPossible
  BY <1>1, <1>3 DEF Journals
<1> HIDE DEF j
<1>6. /\ n \in Cores /\ n.journal = j /\ n.program = c.program /\ n.permission = c.permission
      /\ n.pending = c.pending /\ n.phase = c.phase /\ n.armed = c.armed
      /\ n.inhibited = c.inhibited /\ n.stopping = c.stopping /\ n.writable = c.writable
  BY <1>5 DEF Cores
<1> HIDE DEF n
<1>7. \A s \in Slots : CmdOf(n, s) = CmdOf(c, s)
  BY <1>3, <1>5, <1>6 DEF CmdOf
<1>8. Calmer(c, n)
  BY <1>5, <1>6, <1>7 DEF Calmer
<1> QED
  BY <1>4, <1>6, <1>8

LEMMA StepEnds == ASSUME PumpInv, ProgramStepEnds PROVE PumpInv'
<1> DEFINE n == [core EXCEPT !.journal.records[core.program].steps = @ + 1]
           last == StepsDone + 1 = StepsOf[RecordOf(core, core.program).cmd]
           s(ok) == Saved(n, ok)
<1>1. PICK ok \in Verdicts, fit \in BOOLEAN, linkValid \in BOOLEAN :
        /\ core' = IF ~s(ok).storageOk THEN s(ok)
                   ELSE IF last THEN RequestStop(s(ok), "completed")
                   ELSE StepBegun(s(ok), fit, linkValid)
        /\ nvs' = SavedTo(n, ok)
        /\ Saving(ok)
  BY DEF ProgramStepEnds
<1>2. /\ core.program \in Slots /\ core.program # NoSlot /\ CmdOf(core, core.program) \in Commands
      /\ core.phase = "holding"
  BY CoreFacts, SoundFacts DEF ProgramStepEnds, InPhase
<1>3. Calmer(core, n) /\ n \in Cores /\ n.phase = "holding" /\ n.program # NoSlot
  BY <1>2, StepIsCalm, CoreFacts
<1> HIDE DEF n, last
<1>4. ok \in BOOLEAN /\ Environs
  BY <1>1, SavingIsTyped, CoreFacts DEF Environs
<1> DEFINE t == s(ok)
<1>5. /\ Calmer(n, t) /\ FlashFollows(n)
      /\ t.storageOk => t = [n EXCEPT !.storageOk = TRUE]
  BY <1>1, <1>3, <1>4, SavedIsCalm, SavesFollow, CoreFacts
<1>6. core' = IF ~t.storageOk THEN t
              ELSE IF last THEN RequestStop(t, "completed") ELSE StepBegun(t, fit, linkValid)
  BY <1>1
<1> HIDE DEF t, s
<1>7. Safe(n, nvs, motor)
  BY <1>3, CalmMidway, CoreFacts
<1>8. nvs' \in Journals /\ Safe(t, nvs', motor)
  BY <1>5, <1>7, CalmMidway DEF FlashFollows
<1>9. Safe(core', nvs', motor)
  <2>1. CASE ~t.storageOk
    BY <1>6, <1>8, <2>1
  <2>2. CASE t.storageOk
    <3>1. t.phase = "holding" /\ t.program # NoSlot /\ t \in Cores
      BY <1>3, <1>5, <2>2 DEF Cores
    <3>2. Safe(StepBegun(t, fit, linkValid), nvs', motor)
      BY <1>8, <3>1, StepBegunIsSafe
    <3>3. Safe(RequestStop(t, "completed"), nvs', motor)
      <4> DEFINE d == RequestStop(t, "completed")
      <4>1. Sound(t) /\ t.journal.motionPossible /\ nvs'.motionPossible
        BY <1>8, <3>1 DEF Safe, Sound
      <4>2. Sound(d) /\ d.journal = t.journal /\ (d.program # NoSlot => d.phase = "stopping")
        BY <3>1, <4>1, StopIsSound DEF Sound
      <4> HIDE DEF d
      <4>3. Safe(d, nvs', motor)
        BY <4>1, <4>2 DEF Safe
      <4> QED
        BY <4>3 DEF d
    <3> QED
      BY <1>6, <2>2, <3>2, <3>3
  <2> QED
    BY <2>1, <2>2
<1>10. UNCHANGED <<cur, told, motor, runs>> /\ at' \in Resting
  BY DEF ProgramStepEnds, Resting
<1>11. cur' \in Nat /\ ToldOK'
  BY <1>10, CoreFacts, ToldStays
<1>12. motor' \in {"stopped", "forward", "slowing"} /\ runs' \in [Commands -> Nat]
  BY <1>10, CoreFacts DEF Shape
<1> QED
  BY <1>4, <1>8, <1>9, <1>10, <1>11, <1>12, SafeStep

-----------------------------------------------------------------------------
(* Power on.                                                               *)

LEMMA DisarmStops ==
  ASSUME NEW c \in Cores, NEW reason, c.journal.motionPossible
  PROVE  Disarm(c, reason).stopping
<1> DEFINE d == [c EXCEPT !.inhibited = @ \/ reason = "local_disarm", !.armed = FALSE, !.mode = "bench"]
<1>1. d.journal = c.journal /\ DOMAIN d = DOMAIN c
  BY DEF Cores
<1>2. Disarm(c, reason) = RequestStop(d, reason)
  BY <1>1 DEF Disarm
<1>3. "stopping" \in DOMAIN d
  BY <1>1 DEF Cores
<1> HIDE DEF d
<1> QED
  BY <1>2, <1>3 DEF RequestStop

LEMMA LockedIsCalm ==
  ASSUME NEW c \in Cores
  PROVE  LET d == [Disarm(c, "storage_failed") EXCEPT !.storageOk = FALSE, !.writable = FALSE] IN
         Calmer(c, d) /\ ~d.armed /\ d.pending = c.pending /\ ~d.writable /\ d \in Cores
<1> DEFINE b == Disarm(c, "storage_failed")
           d == [b EXCEPT !.storageOk = FALSE, !.writable = FALSE]
<1>1. Calmer(c, b) /\ b \in Cores /\ ~b.armed /\ b.pending = c.pending
  BY DisarmIsCalm DEF Withdrawing, Calmer
<1> HIDE DEF b
<1>2. /\ d \in Cores /\ d.journal = b.journal /\ d.program = b.program /\ d.permission = b.permission
      /\ d.pending = b.pending /\ d.phase = b.phase /\ d.armed = b.armed
      /\ d.inhibited = b.inhibited /\ d.stopping = b.stopping /\ ~d.writable
  BY <1>1 DEF Cores
<1> HIDE DEF d
<1>3. Calmer(c, d)
  BY <1>1, <1>2 DEF Calmer, CmdOf
<1> QED
  BY <1>1, <1>2, <1>3 DEF d, b

LEMMA InterruptedIsTyped ==
  ASSUME NEW j \in Journals
  PROVE  /\ Interrupted(j) \in Journals
         /\ j.motionPossible => Interrupted(j).motionPossible
         /\ \A s \in PendingPrograms(j) : s \in Slots /\ Interrupted(j).records[s].cmd \in Commands
<1> DEFINE new(s) == IF j.records[s].outcome = "pending" /\ s \notin PendingPrograms(j)
                     THEN [j.records[s] EXCEPT !.outcome = "unknown"] ELSE j.records[s]
           recs == [s \in Slots |-> new(s)]
           mp == j.motionPossible \/ PendingPrograms(j) # {}
<1>1. j.records \in [Slots -> Records]
  BY DEF Journals
<1>2. \A s \in Slots : j.records[s].outcome = "pending" =>
         j.records[s] \in [cmd : Commands, outcome : Outcomes, steps : Nat]
  BY <1>1 DEF Records, EmptyRecord
<1>3. \A s \in Slots : new(s) \in Records
  BY <1>1, <1>2 DEF Records, Outcomes
<1>4. recs \in [Slots -> Records]
  BY <1>3
<1>5. \A s \in PendingPrograms(j) : s \in Slots /\ recs[s].cmd \in Commands
  BY <1>2 DEF PendingPrograms
<1>6. Interrupted(j) = [j EXCEPT !.records = recs, !.motionPossible = mp]
  BY DEF Interrupted
<1>7. mp \in BOOLEAN /\ (j.motionPossible => mp)
  BY DEF Journals
<1> HIDE DEF new, recs, mp
<1> QED
  BY <1>4, <1>5, <1>6, <1>7 DEF Journals

LEMMA RecoveredIsSafe ==
  ASSUME NEW b \in Cores, ~b.armed, ~b.stopping, NEW j \in Journals, NEW ok \in BOOLEAN, NEW m,
         m # "stopped" => j.motionPossible
  PROVE  LET r == Recovered(b, j)
             f == IF ok THEN [Saved(r, ok) EXCEPT !.stopping = RecoveryStop(r.journal)]
                  ELSE [Saved(r, ok) EXCEPT !.writable = FALSE] IN
         /\ Safe(f, j, m) /\ Safe(f, r.journal, m)
         /\ r.journal \in Journals
<1> DEFINE p == IF PendingPrograms(j) = {} THEN NoSlot
                ELSE CHOOSE s \in PendingPrograms(j) : TRUE
           r == Recovered(b, j)
           s == Saved(r, ok)
           f == IF ok THEN [s EXCEPT !.stopping = RecoveryStop(r.journal)]
                ELSE [s EXCEPT !.writable = FALSE]
           i == Interrupted(j)
<1>1. /\ i \in Journals /\ (j.motionPossible => i.motionPossible)
      /\ \A x \in PendingPrograms(j) : x \in Slots /\ i.records[x].cmd \in Commands
  BY InterruptedIsTyped
<1>2. p = NoSlot \/ p \in PendingPrograms(j)
  OBVIOUS
<1>3. p \in Slots \cup {NoSlot} /\ (p # NoSlot => i.records[p].cmd \in Commands)
  BY <1>1, <1>2
<1>4. r = [b EXCEPT !.journal = i, !.writable = TRUE, !.pending = NoSlot, !.program = p,
                    !.phase = IF p = NoSlot THEN "idle" ELSE "stopping",
                    !.cause = IF p = NoSlot THEN "none" ELSE "cut"]
  BY DEF Recovered, RestoredPhase
<1> HIDE DEF p, i, r
<1>5. /\ r \in Cores /\ r.journal = i /\ r.pending = NoSlot /\ r.program = p /\ ~r.armed
      /\ p # NoSlot => r.phase = "stopping"
      /\ ~r.stopping
  BY <1>1, <1>3, <1>4 DEF Cores, Phases
<1>6. Calmer(r, s) /\ s.journal = r.journal /\ s.pending = NoSlot
  BY <1>5, SavedIsCalm
<1>7. s \in Cores /\ s.program = p /\ ~s.armed /\ (p # NoSlot => s.phase = "stopping")
  BY <1>5, <1>6 DEF Calmer
<1>8. ~ok /\ r.journal.motionPossible => s.stopping
  <2> SUFFICES ASSUME ~ok, r.journal.motionPossible PROVE s.stopping
    OBVIOUS
  <2>1. s = Disarm([r EXCEPT !.storageOk = FALSE], "storage_failed")
    BY DEF Saved
  <2>2. [r EXCEPT !.storageOk = FALSE] \in Cores /\ [r EXCEPT !.storageOk = FALSE].journal = r.journal
    BY <1>5 DEF Cores
  <2> HIDE DEF s
  <2> QED
    BY <2>1, <2>2, DisarmStops
<1> HIDE DEF s
<1>9. /\ f \in Cores /\ f.journal = i /\ f.program = p /\ f.pending = NoSlot /\ ~f.armed
      /\ f.phase = s.phase
  BY <1>1, <1>5, <1>6, <1>7 DEF Cores, Journals, RecoveryStop
<1>10. f.journal.motionPossible => f.stopping
  BY <1>5, <1>6, <1>7, <1>8 DEF RecoveryStop, Cores
<1> HIDE DEF f
<1>11. \A x \in Active(f) \ {NoSlot} : CmdOf(f, x) \in Commands
  BY <1>3, <1>9 DEF Active, CmdOf
<1>12. f.program # NoSlot => f.phase = "stopping"
  BY <1>7, <1>9
<1>13. Sound(f)
  BY <1>9, <1>10, <1>11, <1>12 DEF Sound
<1>14. Safe(f, j, m) /\ Safe(f, i, m)
  BY <1>1, <1>9, <1>12, <1>13 DEF Safe
<1> QED
  BY <1>1, <1>5, <1>14 DEF f, s, r

LEMMA Begins ==
  ASSUME PumpInv, NEW c, Safe(c, nvs, motor), Begin(c)
  PROVE  Safe(core', nvs', motor) /\ nvs' \in Journals /\ Environs
<1> DEFINE locked == [Disarm(c, "storage_failed") EXCEPT !.storageOk = FALSE, !.writable = FALSE]
           blank == [locked EXCEPT !.journal = EmptyJournal, !.pending = NoSlot,
                                   !.program = NoSlot, !.phase = "idle", !.cause = "none"]
<1>1. Sound(c) /\ c \in Cores /\ nvs \in Journals
  BY CoreFacts DEF Safe, Sound
<1>2. /\ Calmer(c, locked) /\ ~locked.armed /\ locked.pending = c.pending
      /\ ~locked.writable /\ locked \in Cores
  BY <1>1, LockedIsCalm
<1>3. CASE Busy(c)
  <2>1. /\ core' = IF c.pending # NoSlot THEN Finish(locked, c.pending, "unknown", FALSE) ELSE locked
        /\ UNCHANGED <<nvs, env>>
    BY <1>3 DEF Begin
  <2> HIDE DEF locked
  <2>2. Calmer(c, core')
    <3>1. CASE c.pending = NoSlot
      BY <1>2, <2>1, <3>1
    <3>2. CASE c.pending # NoSlot
      <4>1. c.pending \in Slots /\ CmdOf(locked, c.pending) \in Commands
        BY <1>1, <1>2, <3>2, SoundFacts DEF Calmer
      <4>2. Calmer(locked, core')
        BY <1>2, <2>1, <3>2, <4>1, FinishIsCalm DEF Outcomes
      <4> QED
        BY <1>1, <1>2, <4>2, CalmerYet
    <3> QED
      BY <3>1, <3>2
  <2>3. Safe(core', nvs, motor)
    BY <1>1, <2>2, CalmMidway
  <2> QED
    BY <1>1, <2>1, <2>3, EnvIsTyped, CoreFacts DEF Environs
<1>4. CASE ~Busy(c)
  <2>1. \/ core' = blank /\ UNCHANGED <<nvs, env>>
        \/ \E ok \in Verdicts :
             LET r == Recovered(blank, nvs) IN
             /\ core' = IF ok
                        THEN [Saved(r, ok) EXCEPT !.stopping = RecoveryStop(r.journal)]
                        ELSE [Saved(r, ok) EXCEPT !.writable = FALSE]
             /\ nvs' = SavedTo(r, ok)
             /\ Saving(ok)
    <3> HIDE DEF blank
    <3>1. Begin(c) => \/ core' = blank /\ UNCHANGED <<nvs, env>>
                      \/ \E ok \in Verdicts :
                           LET r == Recovered(blank, nvs) IN
                           /\ core' = IF ok
                                      THEN [Saved(r, ok) EXCEPT !.stopping = RecoveryStop(r.journal)]
                                      ELSE [Saved(r, ok) EXCEPT !.writable = FALSE]
                           /\ nvs' = SavedTo(r, ok)
                           /\ Saving(ok)
      BY <1>4, Zenon DEF Begin, blank
    <3> QED
      BY <3>1
  <2>2. ~c.journal.motionPossible /\ ~c.stopping
    BY <1>1, <1>4, IdleFacts
  <2>3. ~locked.stopping
    <3> DEFINE d == [c EXCEPT !.inhibited = @ \/ "storage_failed" = "local_disarm",
                              !.armed = FALSE, !.mode = "bench"]
    <3>1. d.journal = c.journal /\ d.stopping = c.stopping
      BY <1>1 DEF Cores
    <3>2. Disarm(c, "storage_failed") = d
      BY <2>2, <3>1 DEF Disarm
    <3> HIDE DEF d
    <3>3. locked.stopping = d.stopping
      BY <1>2, <3>2 DEF Cores
    <3> QED
      BY <2>2, <3>1, <3>3
  <2> HIDE DEF locked
  <2>4. EmptyJournal \in Journals /\ ~EmptyJournal.motionPossible
    <3>1. 0 \in Slots
      BY CoreAssumption DEF Slots
    <3> QED
      BY <3>1 DEF EmptyJournal, Journals, Records
  <2>5. /\ blank \in Cores /\ ~blank.armed /\ ~blank.stopping /\ ~blank.writable
        /\ blank.journal = EmptyJournal /\ blank.pending = NoSlot /\ blank.program = NoSlot
    BY <1>2, <2>3, <2>4 DEF Cores, Phases
  <2> HIDE DEF blank
  <2>6. motor # "stopped" => nvs.motionPossible
    BY DEF Safe
  <2>7. CASE core' = blank /\ UNCHANGED <<nvs, env>>
    <3>1. Sound(blank)
      BY <2>4, <2>5 DEF Sound, Active
    <3>2. Safe(blank, nvs, motor)
      BY <2>5, <2>6, <3>1 DEF Safe
    <3> QED
      BY <1>1, <2>7, <3>2, EnvIsTyped, CoreFacts DEF Environs
  <2>8. CASE \E ok \in Verdicts :
               LET r == Recovered(blank, nvs) IN
               /\ core' = IF ok
                          THEN [Saved(r, ok) EXCEPT !.stopping = RecoveryStop(r.journal)]
                          ELSE [Saved(r, ok) EXCEPT !.writable = FALSE]
               /\ nvs' = SavedTo(r, ok)
               /\ Saving(ok)
    <3> DEFINE r == Recovered(blank, nvs)
    <3>1. PICK ok \in Verdicts :
               /\ core' = IF ok
                          THEN [Saved(r, ok) EXCEPT !.stopping = RecoveryStop(r.journal)]
                          ELSE [Saved(r, ok) EXCEPT !.writable = FALSE]
               /\ nvs' = SavedTo(r, ok)
               /\ Saving(ok)
      BY <2>8
    <3>2. ok \in BOOLEAN /\ Environs
      BY <3>1, SavingIsTyped, CoreFacts DEF Environs
    <3>3. Safe(core', nvs, motor) /\ Safe(core', r.journal, motor) /\ r.journal \in Journals
      BY <1>1, <2>5, <2>6, <3>1, <3>2, RecoveredIsSafe
    <3> HIDE DEF r
    <3>4. nvs' = nvs \/ nvs' = r.journal
      BY <3>1 DEF SavedTo
    <3> QED
      BY <1>1, <3>2, <3>3, <3>4
  <2> QED
    BY <2>1, <2>7, <2>8
<1> QED
  BY <1>3, <1>4

LEMMA Boots == ASSUME PumpInv, PowerOn \/ ConfirmEquipment PROVE PumpInv'
<1>1. Safe(NewCore, nvs, motor)
  <2>1. 0 \in Slots
    BY CoreAssumption DEF Slots
  <2>2. EmptyJournal \in Journals
    BY <2>1 DEF EmptyJournal, Journals, Records
  <2>3. NewCore \in Cores
    BY <2>2 DEF NewCore, Cores, Phases
  <2>4. Sound(NewCore)
    BY <2>3 DEF Sound, NewCore, Active, EmptyJournal
  <2> QED
    BY <2>4, CoreFacts DEF Safe, NewCore
<1>2. Begin(NewCore) \/ Begin(core)
  BY DEF PowerOn, ConfirmEquipment
<1>3. Safe(core', nvs', motor) /\ nvs' \in Journals /\ Environs
  BY <1>1, <1>2, Begins, CoreFacts
<1>4. UNCHANGED <<told, motor, runs>> /\ at' \in Resting /\ cur' \in Nat
  BY CoreFacts DEF PowerOn, ConfirmEquipment, Resting
<1>5. motor' \in {"stopped", "forward", "slowing"} /\ runs' \in [Commands -> Nat] /\ ToldOK'
  BY <1>4, ToldStays, CoreFacts DEF Shape
<1> QED
  BY <1>3, <1>4, <1>5, SafeStep

-----------------------------------------------------------------------------
(* The theorems.                                                           *)

LEMMA NextKeeps == ASSUME PumpInv, Next PROVE PumpInv'
<1>1. CASE PowerOn \/ ConfirmEquipment
  BY <1>1, Boots
<1>2. CASE RestorePermission \/ TickGuard \/ LocalArm \/ GrantChanges
  BY <1>2, Restores, Guards, ArmsLocally, Grants
<1>3. CASE Crash
  BY <1>3, Crashes
<1>4. CASE Issue \/ Refuses \/ MotorStops \/ DriveTrips
  BY <1>4, Environment
<1>5. CASE Replay \/ \E cmd \in Commands : ReceiveKnown(cmd)
  BY <1>5, Answers
<1>6. CASE AcceptDisplacing \/ \E cmd \in Commands : ReceiveNew(cmd)
  BY <1>6, Accepts
<1>7. CASE \E cmd \in Commands : ReceiveDisplacing(cmd)
  BY <1>7, Displacing
<1>8. CASE ExamineFails \/ ExaminePasses
  BY <1>8, Rejects, Examines
<1>9. CASE Actuate \/ ActuateLate \/ ActuateUnlinked
  BY <1>9, Actuates, Lates, Unlinks
<1>10. CASE ActuateProgram \/ ProgramHolds
  BY <1>10, Programs
<1>11. CASE TickNetwork
  BY <1>11, NetworkTick
<1>12. CASE TickStopRead \/ TickStopUnread
  BY <1>12, StopsRead, StopUnread
<1>13. CASE TickCompleteProgram \/ ProgramUnstopped
  BY <1>13, Completes
<1>14. CASE TickVerified \/ TickVerifyTimedOut
  BY <1>14, Verifies, TimesOut
<1>15. CASE \/ TickVerifyNothing \/ ProgramTrouble \/ ProgramUnlinked \/ ProgramNothing
            \/ SampleTrouble \/ LocalDisarm
  BY <1>15, Withdrawals
<1>16. CASE ProgramStart \/ ProgramStepEnds
  BY <1>16, ProgramStarts, StepEnds
<1> QED
  BY <1>1, <1>2, <1>3, <1>4, <1>5, <1>6, <1>7, <1>8, <1>9, <1>10, <1>11, <1>12, <1>13, <1>14,
     <1>15, <1>16 DEF Next, Refuses

LEMMA Stutters == ASSUME PumpInv, UNCHANGED vars PROVE PumpInv'
<1>1. UNCHANGED <<at, cur, core, nvs, told, motor, runs, env>>
  BY DEF vars
<1> QED
  BY <1>1, SameCore, EnvIsTyped, ToldStays, CoreFacts DEF Environs, Shape

\* Whatever the commands, the network, the failed saves and the power failures, the
\* core, its flash and the drive stay in the relation every later part of a handler
\* relies on.
THEOREM PumpInvariant == Spec => []PumpInv
<1>1. PumpInv /\ [Next]_vars => PumpInv'
  BY NextKeeps, Stutters
<1> QED
  BY <1>1, Initially, PTL DEF Spec

\* Every variable of the control core keeps its type.
THEOREM PumpTypeCorrect == Spec => []TypeOK
<1>1. PumpInv => TypeOK
  BY CoreFacts DEF Shape, ToldOK, TypeOK
<1> QED
  BY <1>1, PumpInvariant, PTL

\* Flash says that the motor may move before it moves and until it was read to be at
\* rest, at every point where the power may fail.
THEOREM MotionRecorded == Spec => []MotionIsRecorded
<1>1. PumpInv => MotionIsRecorded
  BY DEF PumpInv, Safe, MotionIsRecorded
<1> QED
  BY <1>1, PumpInvariant, PTL

\* No path takes the permission away from a motor that may move without asking for
\* the STOP.
THEOREM UnarmedStops == Spec => []UnarmedIsStopping
<1>1. PumpInv => UnarmedIsStopping
  BY CoreFacts DEF Sound, UnarmedIsStopping
<1> QED
  BY <1>1, PumpInvariant, PTL

LEMMA OnlyTheseRun == ASSUME Next, ~Actuate, ~ProgramStart PROVE UNCHANGED runs
<1>1. CASE PowerOn \/ ConfirmEquipment \/ RestorePermission \/ Crash \/ Issue
  BY <1>1 DEF PowerOn, ConfirmEquipment, RestorePermission, Crash, Issue
<1>2. CASE \E cmd \in Commands :
        ReceiveKnown(cmd) \/ ReceiveRefused(cmd) \/ ReceiveNew(cmd) \/ ReceiveDisplacing(cmd)
  BY <1>2 DEF ReceiveKnown, ReceiveRefused, ReceiveNew, ReceiveDisplacing
<1>3. CASE AcceptDisplacing \/ ExamineFails \/ ExaminePasses \/ ActuateLate \/ ActuateUnlinked \/ ActuateProgram
  BY <1>3 DEF AcceptDisplacing, ExamineFails, ExaminePasses, ActuateLate, ActuateUnlinked, ActuateProgram
<1>4. CASE \/ TickNetwork \/ TickStopRead \/ TickStopUnread \/ TickCompleteProgram \/ TickVerified
           \/ TickVerifyTimedOut \/ TickVerifyNothing
  BY <1>4 DEF TickNetwork, TickStopRead, TickStopUnread, TickCompleteProgram, TickVerified,
              TickVerifyTimedOut, TickVerifyNothing
<1>5. CASE \/ ProgramUnstopped \/ ProgramTrouble \/ ProgramUnlinked \/ ProgramHolds
           \/ ProgramStepEnds \/ ProgramNothing \/ TickGuard
  BY <1>5 DEF ProgramUnstopped, ProgramTrouble, ProgramUnlinked, ProgramHolds, ProgramStepEnds,
              ProgramNothing, TickGuard
<1>6. CASE SampleTrouble \/ Replay \/ LocalArm \/ LocalDisarm \/ GrantChanges \/ MotorStops \/ DriveTrips
  BY <1>6 DEF SampleTrouble, Replay, LocalArm, LocalDisarm, GrantChanges, MotorStops, DriveTrips
<1> QED
  BY <1>1, <1>2, <1>3, <1>4, <1>5, <1>6 DEF Next

\* What a step that writes a RUN for a command needs.
Permits ==
    \A c \in Commands : runs'[c] > runs[c] =>
        c > core.permission /\ core.armed /\ ~core.inhibited /\ ~core.stopping /\ nvs.motionPossible

LEMMA RunsNeedPermission == ASSUME PumpInv, Next PROVE Permits
<1> SUFFICES ASSUME NEW c \in Commands, runs'[c] > runs[c]
             PROVE  /\ c > core.permission /\ core.armed /\ ~core.inhibited
                    /\ ~core.stopping /\ nvs.motionPossible
  BY DEF Permits
<1>1. runs \in [Commands -> Nat] /\ (core.armed => ~core.inhibited)
  BY CoreFacts DEF Shape, Sound
<1>2. Actuate \/ ProgramStart
  BY <1>1, OnlyTheseRun
<1>3. CASE Actuate
  <2>1. /\ cur \in Slots
        /\ Type[CmdHere] = "start" =>
              nvs.motionPossible /\ core.armed /\ ~core.stopping /\ CmdHere > core.permission
    BY <1>3, CoreFacts DEF Actuate, Working
  <2>2. TypeOf(core, cur) = Type[CmdHere] /\ RecordOf(core, cur).cmd = CmdHere
    BY DEF TypeOf, RecordOf, CmdHere, CmdOf
  <2>3. CASE Type[CmdHere] = "start"
    <3>1. runs' = [runs EXCEPT ![CmdHere] = @ + 1]
      BY <1>3, <2>2, <2>3 DEF Actuate, WriteRun
    <3>2. c = CmdHere
      BY <1>1, <3>1
    <3> QED
      BY <1>1, <2>1, <2>3, <3>2
  <2>4. CASE Type[CmdHere] # "start"
    <3>1. UNCHANGED runs
      BY <1>3, <2>2, <2>4 DEF Actuate
    <3> QED
      BY <1>1, <3>1
  <2> QED
    BY <2>3, <2>4
<1>4. CASE ProgramStart
  <2>1. /\ core.program # NoSlot /\ core.phase # "stopping"
        /\ runs' = [runs EXCEPT ![CmdOf(core, core.program)] = @ + 1]
    BY <1>4 DEF ProgramStart, InPhase, WriteRun, RecordOf, CmdOf
  <2>2. c = CmdOf(core, core.program)
    BY <1>1, <2>1
  <2> QED
    BY <1>1, <2>1, <2>2, CoreFacts DEF Safe, Sound
<1> QED
  BY <1>2, <1>3, <1>4

\* A RUN, the first of a program included, is written under a live permission that
\* covers the command, with no STOP outstanding and its possibility in flash.
THEOREM RunsArePermitted == Spec => RunIsPermitted
<1>1. PumpInv /\ [Next]_vars => [Permits]_vars
  BY RunsNeedPermission
<1>2. Spec => [][Permits]_vars
  BY <1>1, PumpInvariant, PTL DEF Spec
<1> QED
  BY <1>2 DEF RunIsPermitted, Permits

-----------------------------------------------------------------------------
(* A command runs the motor once.  The highest number a core has accepted is *)
(* never below that of its flash, and no command above the latter has run.   *)

\* d is c after something that accepts no command and begins no phase of a program.
Modest(c, d) ==
    /\ d \in Cores
    /\ d.journal.highest = c.journal.highest
    /\ \A s \in Slots : /\ CmdOf(d, s) = CmdOf(c, s)
                        /\ RecordOf(d, s).steps = RecordOf(c, s).steps
    /\ d.program = c.program /\ d.phase \in {c.phase, "stopping"} /\ d.cause \in {c.cause, "cut"}
    /\ d.writable => c.writable
    /\ (c.storageOk => c.writable) => (d.storageOk => d.writable)

LEMMA ModestYet ==
  ASSUME NEW c, NEW d, NEW e, Modest(c, d), Modest(d, e)
  PROVE  Modest(c, e)
BY DEF Modest

LEMMA ModestAlike ==
  ASSUME NEW c, NEW d \in Cores, d.journal = c.journal, d.program = c.program,
         d.phase \in {c.phase, "stopping"}, d.cause \in {c.cause, "cut"},
         d.writable = c.writable, d.storageOk = c.storageOk
  PROVE  Modest(c, d)
BY DEF Modest, CmdOf, RecordOf

LEMMA RequestStopMakes ==
  ASSUME NEW c \in Cores, NEW reason
  PROVE  LET d == RequestStop(c, reason) IN
         /\ d \in Cores /\ d.journal = c.journal /\ d.pending = c.pending /\ d.program = c.program
         /\ d.phase = IF c.program # NoSlot THEN "stopping" ELSE c.phase
         /\ reason # "completed" => d.cause \in {c.cause, "cut"}
         /\ d.writable = c.writable /\ d.storageOk = c.storageOk
<1> DEFINE d == RequestStop(c, reason)
           kept == c.armed /\ KeepsPermission(c, reason)
           ended == IF reason = "completed" /\ c.cause # "cut" THEN "completed" ELSE "cut"
           mode == IF KeepsPermission(c, reason) THEN c.mode ELSE "bench"
           phase == IF c.program # NoSlot THEN "stopping" ELSE c.phase
           cause == IF c.program # NoSlot THEN ended ELSE c.cause
<1>1. /\ kept \in BOOLEAN /\ mode \in {"bench", "extended"}
      /\ ended \in {"completed", "cut"} /\ (reason # "completed" => ended = "cut")
  BY DEF Cores
<1>2. d = [c EXCEPT !.phase = phase, !.cause = cause, !.armed = kept, !.mode = mode, !.stopping = TRUE]
  BY Zenon DEF RequestStop
<1>3. phase \in Phases /\ cause \in {"none", "completed", "cut"}
  BY <1>1 DEF Cores, Phases
<1>4. reason # "completed" => cause \in {c.cause, "cut"}
  BY <1>1
<1> HIDE DEF d, kept, ended, mode, phase, cause
<1>5. d \in Cores
  BY <1>1, <1>2, <1>3 DEF Cores
<1>6. /\ d.journal = c.journal /\ d.pending = c.pending /\ d.program = c.program
      /\ d.phase = phase /\ d.cause = cause
      /\ d.writable = c.writable /\ d.storageOk = c.storageOk
  BY <1>2 DEF Cores
<1> QED
  BY <1>4, <1>5, <1>6, Zenon DEF d, phase

LEMMA RequestStopIsModest ==
  ASSUME NEW c \in Cores, NEW reason, reason # "completed"
  PROVE  Modest(c, RequestStop(c, reason))
BY RequestStopMakes, ModestAlike

LEMMA DisarmIsModest ==
  ASSUME NEW c \in Cores, NEW reason, reason # "completed"
  PROVE  Modest(c, Disarm(c, reason))
<1> DEFINE local == c.inhibited \/ reason = "local_disarm"
           b == [c EXCEPT !.inhibited = local, !.armed = FALSE, !.mode = "bench"]
<1>1. local \in BOOLEAN
  BY DEF Cores
<1>2. Disarm(c, reason) = IF b.journal.motionPossible THEN RequestStop(b, reason) ELSE b
  BY DEF Disarm
<1> HIDE DEF local
<1>3. /\ b \in Cores /\ b.journal = c.journal /\ b.program = c.program /\ b.phase = c.phase /\ b.cause = c.cause
      /\ b.writable = c.writable /\ b.storageOk = c.storageOk
  BY <1>1 DEF Cores
<1> HIDE DEF b
<1>4. Modest(c, b) /\ Modest(b, RequestStop(b, reason))
  BY <1>3, ModestAlike, RequestStopIsModest
<1> QED
  BY <1>2, <1>4, ModestYet

LEMMA SavedIsModest ==
  ASSUME NEW c \in Cores, NEW ok \in BOOLEAN
  PROVE  Modest(c, Saved(c, ok))
<1>1. CASE ok /\ c.writable
  <2> DEFINE d == [c EXCEPT !.storageOk = TRUE]
  <2>1. Saved(c, ok) = d
    BY <1>1 DEF Saved
  <2>2. /\ d \in Cores /\ d.journal = c.journal /\ d.program = c.program /\ d.phase = c.phase /\ d.cause = c.cause
        /\ d.writable = c.writable
    BY DEF Cores
  <2> HIDE DEF d
  <2>3. Modest(c, d)
    BY <1>1, <2>2 DEF Modest, CmdOf, RecordOf
  <2> QED
    BY <2>1, <2>3
<1>2. CASE ~(ok /\ c.writable)
  <2> DEFINE b == [c EXCEPT !.storageOk = FALSE]
  <2>1. Saved(c, ok) = Disarm(b, "storage_failed")
    BY <1>2 DEF Saved
  <2>2. /\ b \in Cores /\ b.journal = c.journal /\ b.program = c.program /\ b.phase = c.phase /\ b.cause = c.cause
        /\ b.writable = c.writable /\ ~b.storageOk
    BY DEF Cores
  <2> HIDE DEF b
  <2>3. Modest(c, b) /\ Modest(b, Disarm(b, "storage_failed"))
    BY <2>2, DisarmIsModest DEF Modest, CmdOf, RecordOf
  <2> QED
    BY <2>1, <2>3, ModestYet
<1> QED
  BY <1>1, <1>2

LEMMA OutcomeIsModest ==
  ASSUME NEW c \in Cores, NEW slot \in Slots, NEW outcome \in Outcomes, CmdOf(c, slot) \in Commands
  PROVE  Modest(c, WithOutcome(c, slot, outcome))
<1> DEFINE d == WithOutcome(c, slot, outcome)
           recs == [c.journal.records EXCEPT ![slot].outcome = outcome]
<1>1. d \in Cores
  BY OutcomeIsCalm DEF Calmer
<1>2. c.journal \in Journals /\ c.journal.records \in [Slots -> Records]
  BY DEF Cores, Journals
<1>3. /\ d.journal = [c.journal EXCEPT !.records = recs]
      /\ d.program = c.program /\ d.phase = c.phase /\ d.cause = c.cause
      /\ d.writable = c.writable /\ d.storageOk = c.storageOk
  BY DEF WithOutcome, Cores, Journals
<1>4. c.journal.records[slot] \in [cmd : Commands, outcome : Outcomes, steps : Nat]
  BY <1>2 DEF Records, EmptyRecord, CmdOf, Commands
<1>5. \A s \in Slots : recs[s].cmd = c.journal.records[s].cmd /\ recs[s].steps = c.journal.records[s].steps
  BY <1>2, <1>4
<1> HIDE DEF d, recs
<1>6. d.journal.highest = c.journal.highest /\ d.journal.records = recs
  BY <1>2, <1>3 DEF Journals
<1>7. Modest(c, d)
  BY <1>1, <1>3, <1>5, <1>6 DEF Modest, CmdOf, RecordOf
<1> QED
  BY <1>7 DEF d

LEMMA FinishIsModest ==
  ASSUME NEW c \in Cores, NEW slot \in Slots, NEW outcome \in Outcomes, NEW ok \in BOOLEAN,
         CmdOf(c, slot) \in Commands
  PROVE  Modest(c, Finish(c, slot, outcome, ok))
<1> DEFINE w == WithOutcome(c, slot, outcome)
           s == Saved(w, ok)
           left == IF s.pending = slot THEN NoSlot ELSE s.pending
           d == [s EXCEPT !.pending = left]
<1>1. Modest(c, w) /\ w \in Cores
  BY OutcomeIsModest DEF Modest
<1>2. Modest(w, s) /\ s \in Cores
  BY <1>1, SavedIsModest DEF Modest
<1>3. d = Finish(c, slot, outcome, ok)
  BY DEF Finish
<1> HIDE DEF w, s
<1>4. left \in Slots \cup {NoSlot}
  BY <1>2 DEF Cores
<1> HIDE DEF left
<1>5. /\ d \in Cores /\ d.journal = s.journal /\ d.program = s.program /\ d.phase = s.phase /\ d.cause = s.cause
      /\ d.writable = s.writable /\ d.storageOk = s.storageOk
  BY <1>2, <1>4 DEF Cores
<1> HIDE DEF d
<1>6. Modest(s, d)
  BY <1>5, ModestAlike
<1> QED
  BY <1>1, <1>2, <1>3, <1>6, ModestYet


\* The program of core c has not written its RUN yet.
Unbegun(c) == c.phase = "idle" \/ (c.phase = "setting" /\ RecordOf(c, c.program).steps = 0)

\* Core c over flash j, with r RUN words written for each command; its program has come to
\* its end by itself only after its last step.
Numbered(c, j, r) ==
    /\ c.storageOk => c.writable
    /\ c.writable => c.journal.highest >= j.highest
    /\ c.program # NoSlot /\ c.phase # "stopping" =>
          /\ CmdOf(c, c.program) <= j.highest
          /\ Unbegun(c) => r[CmdOf(c, c.program)] = 0
    /\ c.program # NoSlot /\ c.cause = "completed" =>
          c.phase = "stopping" /\ RecordOf(c, c.program).steps = StepsOf[CmdOf(c, c.program)]

Counted == \A c \in Commands : runs[c] <= 1 /\ (runs[c] > 0 => c <= nvs.highest)

\* The command a handler works on has not run.
Waiting ==
    /\ at = "displaced" => cur > core.journal.highest
    /\ at \in {"accepted", "prepared"} => runs[CmdHere] = 0 /\ CmdHere <= nvs.highest
    /\ at = "prepared" /\ Type[CmdHere] = "start" => core.program = NoSlot
    /\ at = "prepared" /\ Type[CmdHere] = "program" => core.program = cur

OnceInv == Numbered(core, nvs, runs) /\ Counted /\ Waiting

\* Flash k after flash j and a save of a core as modest as c, or none.
HighFollows(c, j, k) ==
    k \in Journals /\ (k = j \/ (c.writable /\ k.highest = c.journal.highest))

LEMMA VerdictIsBoolean == ASSUME NEW ok \in Verdicts PROVE ok \in BOOLEAN
BY DEF Verdicts

LEMMA SavesHigh ==
  ASSUME NEW c \in Cores, NEW w, Modest(c, w), NEW ok \in BOOLEAN, nvs \in Journals, nvs' = SavedTo(w, ok)
  PROVE  HighFollows(c, nvs, nvs')
BY DEF SavedTo, HighFollows, Modest, Cores

LEMMA ModestNumbered ==
  ASSUME NEW c \in Cores, NEW d, NEW j \in Journals, NEW k, NEW r,
         Numbered(c, j, r), Modest(c, d), HighFollows(c, j, k)
  PROVE  Numbered(d, k, r) /\ k.highest >= j.highest
<1>1. c.journal.highest \in Nat /\ j.highest \in Nat /\ k.highest \in Nat
  BY DEF Cores, Journals, HighFollows
<1>2. k.highest >= j.highest /\ (c.writable => c.journal.highest >= k.highest)
  BY <1>1 DEF Numbered, HighFollows
<1>3. d.storageOk => d.writable
  BY DEF Numbered, Modest
<1>4. d.writable => d.journal.highest >= k.highest
  BY <1>2 DEF Modest
<1>5. ASSUME d.program # NoSlot, d.phase # "stopping"
      PROVE  CmdOf(d, d.program) <= k.highest /\ (Unbegun(d) => r[CmdOf(d, d.program)] = 0)
  <2>1. d.program = c.program /\ d.phase = c.phase /\ c.program \in Slots
    BY <1>5 DEF Modest, Cores
  <2>2. CmdOf(d, d.program) = CmdOf(c, c.program) /\ (Unbegun(d) => Unbegun(c))
    BY <2>1 DEF Modest, Unbegun
  <2>3. CmdOf(c, c.program) <= j.highest /\ (Unbegun(c) => r[CmdOf(c, c.program)] = 0)
    BY <1>5, <2>1 DEF Numbered
  <2>4. CmdOf(c, c.program) \in Nat
    <3>1. c.journal.records[c.program] \in Records
      BY <2>1 DEF Cores, Journals
    <3> QED
      BY <3>1 DEF Records, EmptyRecord, CmdOf, Commands
  <2> QED
    BY <1>1, <1>2, <2>2, <2>3, <2>4
<1>6. ASSUME d.program # NoSlot, d.cause = "completed"
      PROVE  d.phase = "stopping" /\ RecordOf(d, d.program).steps = StepsOf[CmdOf(d, d.program)]
  <2>1. d.program = c.program /\ c.cause = "completed" /\ c.program \in Slots
    BY <1>6 DEF Modest, Cores
  <2>2. c.phase = "stopping" /\ RecordOf(c, c.program).steps = StepsOf[CmdOf(c, c.program)]
    BY <1>6, <2>1 DEF Numbered
  <2> QED
    BY <2>1, <2>2 DEF Modest
<1> QED
  BY <1>2, <1>3, <1>4, <1>5, <1>6 DEF Numbered

LEMMA CountedStays ==
  ASSUME PumpInv, Counted, UNCHANGED runs, nvs' \in Journals, nvs'.highest >= nvs.highest
  PROVE  Counted'
<1>1. nvs.highest \in Nat /\ nvs'.highest \in Nat
  BY CoreFacts DEF Journals
<1> QED
  BY <1>1 DEF Counted, Commands

LEMMA OnceRests ==
  ASSUME PumpInv, OnceInv, Numbered(core', nvs', runs'), nvs' \in Journals,
         nvs'.highest >= nvs.highest, UNCHANGED runs, at' \in Resting
  PROVE  OnceInv'
<1>1. Counted'
  BY CountedStays DEF OnceInv
<1>2. Waiting'
  BY DEF Waiting, Resting
<1> QED
  BY <1>1, <1>2 DEF OnceInv

LEMMA OnceStep ==
  ASSUME PumpInv, OnceInv, NEW c \in Cores, Numbered(c, nvs, runs), Modest(c, core'),
         HighFollows(c, nvs, nvs'), UNCHANGED runs, at' \in Resting
  PROVE  OnceInv'
<1>1. Numbered(core', nvs', runs) /\ nvs'.highest >= nvs.highest
  BY ModestNumbered, CoreFacts
<1> QED
  BY <1>1, OnceRests DEF HighFollows

LEMMA OnceQuiet ==
  ASSUME PumpInv, OnceInv, Modest(core, core'), UNCHANGED <<nvs, runs>>, at' \in Resting
  PROVE  OnceInv'
<1>1. HighFollows(core, nvs, nvs')
  BY CoreFacts DEF HighFollows
<1> QED
  BY <1>1, OnceStep, CoreFacts DEF OnceInv

LEMMA OnceSame ==
  ASSUME OnceInv, UNCHANGED <<at, cur, core, nvs, runs>>
  PROVE  OnceInv'
BY DEF OnceInv, Numbered, Counted, Waiting, CmdHere, CmdOf, Unbegun, RecordOf

LEMMA OnceAnswers ==
  ASSUME OnceInv, Issue \/ Refuses \/ MotorStops \/ DriveTrips \/ Replay \/ \E cmd \in Commands : ReceiveKnown(cmd)
  PROVE  OnceInv'
<1>1. UNCHANGED <<at, cur, core, nvs, runs>>
  BY DEF Issue, Refuses, ReceiveRefused, MotorStops, DriveTrips, Replay, ReceiveKnown
<1> QED
  BY <1>1, OnceSame

LEMMA OnceCrash == ASSUME PumpInv, OnceInv, Crash PROVE OnceInv'
<1>1. Numbered(core', nvs', runs') /\ nvs' = nvs
  BY DEF Crash, Numbered, NewCore
<1>2. nvs.highest >= nvs.highest
  BY CoreFacts DEF Journals
<1> QED
  BY <1>1, <1>2, OnceRests, CoreFacts DEF Crash, Resting

LEMMA WithdrawalsAreModest ==
  ASSUME PumpInv,
         \/ TickVerifyNothing \/ ProgramTrouble \/ ProgramUnlinked \/ ProgramNothing
         \/ SampleTrouble \/ LocalDisarm \/ TickStopUnread
  PROVE  Modest(core, core')
<1>1. /\ Modest(core, core)
      /\ \A reason \in Withdrawing : Modest(core, RequestStop(core, reason)) /\ Modest(core, Disarm(core, reason))
  BY CoreFacts, ModestAlike, RequestStopIsModest, DisarmIsModest DEF Withdrawing
<1> QED
  BY <1>1 DEF TickVerifyNothing, ProgramTrouble, ProgramUnlinked, ProgramNothing, SampleTrouble,
              LocalDisarm, TickStopUnread, Withdrawing

LEMMA OnceWithdrawals ==
  ASSUME PumpInv, OnceInv,
         \/ TickVerifyNothing \/ ProgramTrouble \/ ProgramUnlinked \/ ProgramNothing
         \/ SampleTrouble \/ LocalDisarm \/ TickStopUnread
  PROVE  OnceInv'
<1>1. at' \in Resting /\ UNCHANGED <<nvs, runs>>
  BY DEF TickVerifyNothing, ProgramTrouble, ProgramUnlinked, ProgramNothing, SampleTrouble,
         LocalDisarm, TickStopUnread, Resting
<1> QED
  BY <1>1, WithdrawalsAreModest, OnceQuiet

LEMMA ArmedIsModest ==
  ASSUME NEW c \in Cores, NEW mode \in {"bench", "extended"}, NEW fit \in BOOLEAN, NEW since \in Nat
  PROVE  /\ Modest(c, Armed(c, mode, fit)) /\ Armed(c, mode, fit) \in Cores
         /\ Modest(c, [Armed(c, mode, fit) EXCEPT !.permission = since])
<1> DEFINE a == Armed(c, mode, fit)
           p == [a EXCEPT !.permission = since]
<1>1. /\ a \in Cores /\ a.journal = c.journal /\ a.program = c.program /\ a.phase = c.phase /\ a.cause = c.cause
      /\ a.writable = c.writable /\ a.storageOk = c.storageOk
  <2>1. CASE fit
    BY <2>1 DEF Armed, Cores
  <2>2. CASE ~fit
    BY <2>2 DEF Armed, Cores
  <2> QED
    BY <2>1, <2>2
<1> HIDE DEF a
<1>2. /\ p \in Cores /\ p.journal = a.journal /\ p.program = a.program /\ p.phase = a.phase /\ p.cause = a.cause
      /\ p.writable = a.writable /\ p.storageOk = a.storageOk
  BY <1>1 DEF Cores
<1> HIDE DEF p
<1>3. Modest(c, a) /\ Modest(c, p)
  BY <1>1, <1>2, ModestAlike
<1> QED
  BY <1>1, <1>3 DEF a, p

LEMMA PermissionsAreModest ==
  ASSUME PumpInv, RestorePermission \/ TickGuard \/ LocalArm \/ GrantChanges \/ TickNetwork
  PROVE  Modest(core, core')
<1>1. core \in Cores /\ issued \in Nat /\ Modest(core, core)
  BY CoreFacts, ModestAlike, CoreAssumption DEF Shape
<1>2. CASE RestorePermission
  <2>1. core' = [core EXCEPT !.inhibited = FALSE]
    BY <1>2 DEF RestorePermission
  <2>2. /\ core' \in Cores /\ core'.journal = core.journal /\ core'.program = core.program
        /\ core'.phase = core.phase /\ core'.cause = core.cause /\ core'.writable = core.writable /\ core'.storageOk = core.storageOk
    BY <1>1, <2>1 DEF Cores
  <2> QED
    BY <2>2, ModestAlike
<1>3. CASE TickGuard
  <2>1. PICK fit \in BOOLEAN, remoteOperation \in BOOLEAN, mode \in {"bench", "extended"} :
           core' = LET rechecked == (~core.journal.motionPossible \/ core.mode = "extended")
                                        /\ core.pending = NoSlot
                       d == IF rechecked /\ ~fit THEN Disarm(core, "configuration_mismatch") ELSE core IN
                   IF remoteOperation /\ RemotelyArmable(d) /\ motor = "stopped"
                   THEN [Armed(d, mode, TRUE) EXCEPT !.permission = issued] ELSE d
    BY <1>3 DEF TickGuard
  <2> DEFINE rechecked == (~core.journal.motionPossible \/ core.mode = "extended") /\ core.pending = NoSlot
             d == IF rechecked /\ ~fit THEN Disarm(core, "configuration_mismatch") ELSE core
             a == [Armed(d, mode, TRUE) EXCEPT !.permission = issued]
  <2>2. core' = d \/ core' = a
    BY <2>1
  <2>3. Modest(core, d)
    BY <1>1, DisarmIsModest
  <2> HIDE DEF d
  <2>4. d \in Cores
    BY <2>3 DEF Modest
  <2>5. Modest(d, a)
    BY <1>1, <2>4, ArmedIsModest
  <2> HIDE DEF a
  <2> QED
    BY <2>2, <2>3, <2>5, ModestYet
<1>4. CASE LocalArm
  <2>1. PICK mode \in {"bench", "extended"}, fit \in BOOLEAN :
           core' = Armed(core, mode, fit /\ core.storageOk /\ motor = "stopped")
    BY <1>4 DEF LocalArm
  <2> DEFINE well == fit /\ core.storageOk /\ motor = "stopped"
  <2>2. well \in BOOLEAN /\ core' = Armed(core, mode, well)
    BY <2>1
  <2> HIDE DEF well
  <2> QED
    BY <1>1, <2>2, ArmedIsModest
<1>5. CASE GrantChanges
  <2>1. PICK utc \in BOOLEAN :
           core' = [Disarm(core, "configuration_mismatch") EXCEPT !.permission = IF utc THEN issued ELSE @]
    BY <1>5 DEF GrantChanges
  <2> DEFINE d == Disarm(core, "configuration_mismatch")
             since == IF utc THEN issued ELSE d.permission
  <2>2. Modest(core, d) /\ d \in Cores
    BY <1>1, DisarmIsModest DEF Modest
  <2>3. core' = [d EXCEPT !.permission = since]
    BY <2>1
  <2> HIDE DEF d
  <2>4. since \in Nat
    BY <1>1, <2>2 DEF Cores
  <2> HIDE DEF since
  <2>5. /\ core' \in Cores /\ core'.journal = d.journal /\ core'.program = d.program
        /\ core'.phase = d.phase /\ core'.cause = d.cause /\ core'.writable = d.writable /\ core'.storageOk = d.storageOk
    BY <2>2, <2>3, <2>4 DEF Cores
  <2> QED
    BY <2>2, <2>5, ModestAlike, ModestYet
<1>6. CASE TickNetwork
  <2>1. PICK networkConnected \in BOOLEAN, minutePassed \in BOOLEAN :
           core' = LET n == [core EXCEPT !.linked = networkConnected]
                       l == IF networkConnected THEN n ELSE OnNetworkLoss(n) IN
                   IF minutePassed THEN OnTimer(l) ELSE l
    BY <1>6 DEF TickNetwork
  <2> DEFINE n == [core EXCEPT !.linked = networkConnected]
             l == IF networkConnected THEN n ELSE OnNetworkLoss(n)
  <2>2. core' = IF minutePassed THEN OnTimer(l) ELSE l
    BY <2>1
  <2>3. /\ n \in Cores /\ n.journal = core.journal /\ n.program = core.program
        /\ n.phase = core.phase /\ n.cause = core.cause /\ n.writable = core.writable /\ n.storageOk = core.storageOk
    BY <1>1 DEF Cores
  <2> HIDE DEF n
  <2>4. Modest(core, n) /\ Modest(n, Disarm(n, "network_lost"))
    BY <2>3, ModestAlike, DisarmIsModest
  <2>5. Modest(core, l)
    BY <2>4, ModestYet DEF OnNetworkLoss
  <2> HIDE DEF l
  <2>6. Modest(l, RequestStop(l, "bench_timer"))
    BY <2>5, RequestStopIsModest DEF Modest
  <2> QED
    BY <2>2, <2>5, <2>6, ModestYet DEF OnTimer
<1> QED
  BY <1>2, <1>3, <1>4, <1>5, <1>6

LEMMA OncePermissions ==
  ASSUME PumpInv, OnceInv, RestorePermission \/ TickGuard \/ LocalArm \/ GrantChanges \/ TickNetwork
  PROVE  OnceInv'
<1>1. at' \in Resting /\ UNCHANGED <<nvs, runs>>
  BY DEF RestorePermission, TickGuard, LocalArm, GrantChanges, TickNetwork, Resting
<1> QED
  BY <1>1, PermissionsAreModest, OnceQuiet

LEMMA FinishHigh ==
  ASSUME PumpInv, NEW c \in Cores, NEW slot \in Slots, CmdOf(c, slot) \in Commands,
         NEW outcome \in Outcomes, NEW ok \in Verdicts, FinishEffects(c, slot, outcome, ok)
  PROVE  /\ HighFollows(c, nvs, nvs') /\ Modest(c, Finish(c, slot, outcome, ok))
         /\ Finish(c, slot, outcome, ok) \in Cores
<1>1. ok \in BOOLEAN /\ Modest(c, WithOutcome(c, slot, outcome)) /\ nvs \in Journals
  BY VerdictIsBoolean, OutcomeIsModest, CoreFacts
<1>2. HighFollows(c, nvs, nvs')
  BY <1>1, SavesHigh DEF FinishEffects
<1>3. Modest(c, Finish(c, slot, outcome, ok))
  BY <1>1, FinishIsModest
<1> QED
  BY <1>2, <1>3 DEF Modest

LEMMA HaltedIsModest == ASSUME NEW c \in Cores PROVE Modest(c, Halted(c))
<1> DEFINE j == [c.journal EXCEPT !.motionPossible = FALSE]
           d == [c EXCEPT !.journal = j, !.stopping = FALSE]
<1>1. j \in Journals /\ j.highest = c.journal.highest /\ j.records = c.journal.records
  BY DEF Cores, Journals
<1>2. d = Halted(c)
  BY DEF Halted
<1> HIDE DEF j
<1>3. /\ d \in Cores /\ d.journal = j /\ d.program = c.program /\ d.phase = c.phase /\ d.cause = c.cause
      /\ d.writable = c.writable /\ d.storageOk = c.storageOk
  BY <1>1 DEF Cores
<1> HIDE DEF d
<1>4. Modest(c, d)
  BY <1>1, <1>3 DEF Modest, CmdOf, RecordOf
<1> QED
  BY <1>2, <1>4

\* A handler that ends a command.
LEMMA OnceFinishes ==
  ASSUME PumpInv, OnceInv, ExamineFails \/ ActuateLate \/ TickVerifyTimedOut
  PROVE  OnceInv'
<1>1. at' \in Resting /\ UNCHANGED runs
  BY DEF ExamineFails, ActuateLate, TickVerifyTimedOut, Resting
<1>2. core \in Cores /\ Numbered(core, nvs, runs)
  BY CoreFacts DEF OnceInv
<1>3. PICK slot \in Slots, outcome \in Outcomes, ok \in Verdicts :
        /\ CmdOf(core, slot) \in Commands
        /\ FinishEffects(core, slot, outcome, ok)
        /\ LET f == Finish(core, slot, outcome, ok) IN
           \/ core' = f
           \/ core' = Disarm(f, "configuration_mismatch")
           \/ core' = RequestStop(f, "physical_result_unconfirmed")
  <2>1. {"failed", "unknown"} \subseteq Outcomes
    BY DEF Outcomes
  <2>2. CASE ExamineFails
    <3>1. cur \in Slots /\ CmdOf(core, cur) \in Commands
      BY <2>2, CoreFacts DEF ExamineFails, Working, CmdHere
    <3> QED
      BY <2>1, <2>2, <3>1 DEF ExamineFails
  <2>3. CASE ActuateLate
    <3>1. cur \in Slots /\ CmdOf(core, cur) \in Commands
      BY <2>3, CoreFacts DEF ActuateLate, Working, CmdHere
    <3> QED
      BY <2>1, <2>3, <3>1 DEF ActuateLate
  <2>4. CASE TickVerifyTimedOut
    <3>1. core.pending \in Slots /\ CmdOf(core, core.pending) \in Commands
      BY <2>4, CoreFacts, SoundFacts DEF TickVerifyTimedOut
    <3> QED
      BY <2>1, <2>4, <3>1 DEF TickVerifyTimedOut
  <2> QED
    BY <2>2, <2>3, <2>4
<1> DEFINE f == Finish(core, slot, outcome, ok)
<1>4. HighFollows(core, nvs, nvs') /\ Modest(core, f) /\ f \in Cores
  BY <1>2, <1>3, FinishHigh
<1>5. core' = f \/ core' = Disarm(f, "configuration_mismatch")
      \/ core' = RequestStop(f, "physical_result_unconfirmed")
  BY <1>3
<1> HIDE DEF f
<1>6. Modest(core, core')
  BY <1>4, <1>5, DisarmIsModest, RequestStopIsModest, ModestYet
<1> QED
  BY <1>1, <1>2, <1>4, <1>6, OnceStep

LEMMA OnceUnlinks == ASSUME PumpInv, OnceInv, ActuateUnlinked PROVE OnceInv'
<1> DEFINE d == Disarm(core, "network_lost")
<1>1. at' \in Resting /\ UNCHANGED runs
  BY DEF ActuateUnlinked, Resting
<1>2. PICK ok \in Verdicts : core' = Finish(d, cur, "failed", ok) /\ FinishEffects(d, cur, "failed", ok)
  BY DEF ActuateUnlinked
<1>3. cur \in Slots /\ CmdOf(core, cur) \in Commands
  BY CoreFacts DEF ActuateUnlinked, Working, CmdHere
<1>4. core \in Cores /\ nvs \in Journals /\ Numbered(core, nvs, runs) /\ Modest(core, d)
  BY CoreFacts, DisarmIsModest DEF OnceInv
<1> HIDE DEF d
<1>5. d \in Cores /\ CmdOf(d, cur) \in Commands
  BY <1>3, <1>4 DEF Modest
<1>6. HighFollows(core, nvs, nvs)
  BY <1>4 DEF HighFollows
<1>7. Numbered(d, nvs, runs)
  BY <1>4, <1>6, ModestNumbered
<1>8. HighFollows(d, nvs, nvs') /\ Modest(d, core')
  BY <1>2, <1>3, <1>5, FinishHigh DEF Outcomes
<1> QED
  BY <1>1, <1>5, <1>7, <1>8, OnceStep

\* From a core to a modest one over the same flash.
LEMMA ModestStill ==
  ASSUME PumpInv, OnceInv, NEW d, Modest(core, d)
  PROVE  Numbered(d, nvs, runs) /\ d \in Cores
<1>1. core \in Cores /\ nvs \in Journals /\ Numbered(core, nvs, runs)
  BY CoreFacts DEF OnceInv
<1>2. HighFollows(core, nvs, nvs)
  BY <1>1 DEF HighFollows
<1> QED
  BY <1>1, <1>2, ModestNumbered DEF Modest

\* The STOP was read back: Working alone is at stake at "cleared" and "verified".
LEMMA OnceMoves ==
  ASSUME PumpInv, OnceInv, NEW c \in Cores, Numbered(c, nvs, runs), Modest(c, core'),
         HighFollows(c, nvs, nvs'), UNCHANGED runs, at' \in Resting \cup {"cleared", "verified"}
  PROVE  OnceInv'
<1>1. Numbered(core', nvs', runs) /\ nvs'.highest >= nvs.highest
  BY ModestNumbered, CoreFacts
<1>2. Counted'
  BY <1>1, CountedStays DEF OnceInv, HighFollows
<1>3. Waiting'
  BY DEF Waiting, Resting
<1> QED
  BY <1>1, <1>2, <1>3 DEF OnceInv

LEMMA OnceStops == ASSUME PumpInv, OnceInv, TickStopRead PROVE OnceInv'
<1> DEFINE h == Halted(core)
<1>1. PICK ok \in Verdicts : core' = Saved(h, ok) /\ nvs' = SavedTo(h, ok)
  BY DEF TickStopRead
<1>2. Modest(core, h) /\ core \in Cores /\ nvs \in Journals /\ ok \in BOOLEAN
  BY CoreFacts, HaltedIsModest, VerdictIsBoolean
<1> HIDE DEF h
<1>3. Numbered(h, nvs, runs) /\ h \in Cores
  BY <1>2, ModestStill
<1>4. Modest(h, core') /\ Modest(h, h)
  BY <1>1, <1>2, <1>3, SavedIsModest, ModestAlike
<1>5. HighFollows(h, nvs, nvs')
  BY <1>1, <1>2, <1>3, <1>4, SavesHigh
<1>6. at' \in Resting \cup {"cleared", "verified"} /\ UNCHANGED runs
  BY DEF TickStopRead, Resting
<1> QED
  BY <1>3, <1>4, <1>5, <1>6, OnceMoves

LEMMA OnceVerifies == ASSUME PumpInv, OnceInv, TickVerified PROVE OnceInv'
<1> DEFINE h == IF TypeOf(core, core.pending) = "stop" THEN Halted(core) ELSE core
<1>1. PICK ok \in Verdicts : /\ core' = Finish(h, core.pending, "succeeded", ok)
                             /\ FinishEffects(h, core.pending, "succeeded", ok)
  BY DEF TickVerified
<1>2. core.pending \in Slots /\ CmdOf(core, core.pending) \in Commands
  BY CoreFacts, SoundFacts DEF TickVerified
<1>3. Modest(core, h)
  BY CoreFacts, HaltedIsModest, ModestAlike
<1> HIDE DEF h
<1>4. Numbered(h, nvs, runs) /\ h \in Cores
  BY <1>3, ModestStill
<1>5. CmdOf(h, core.pending) \in Commands
  BY <1>2, <1>3 DEF Modest
<1>6. HighFollows(h, nvs, nvs') /\ Modest(h, core')
  BY <1>1, <1>2, <1>4, <1>5, FinishHigh DEF Outcomes
<1>7. at' \in Resting \cup {"cleared", "verified"} /\ UNCHANGED runs
  BY DEF TickVerified, Resting
<1> QED
  BY <1>4, <1>6, <1>7, OnceMoves

LEMMA OnceCompletes ==
  ASSUME PumpInv, OnceInv, TickCompleteProgram \/ ProgramUnstopped
  PROVE  OnceInv'
<1>1. at' \in Resting /\ UNCHANGED runs
  BY DEF TickCompleteProgram, ProgramUnstopped, Resting
<1>2. core.program # NoSlot
  BY CoreFacts DEF Working, TickCompleteProgram, ProgramUnstopped, InPhase
<1>3. core.program \in Slots /\ CmdOf(core, core.program) \in Commands /\ core \in Cores
  BY <1>2, CoreFacts, SoundFacts
<1>4. PICK stopConfirmed \in BOOLEAN : CompleteProgram(stopConfirmed)
  BY DEF TickCompleteProgram, ProgramUnstopped
<1> DEFINE p == [core EXCEPT !.program = NoSlot, !.phase = "idle", !.cause = "none"]
           d == IF stopConfirmed THEN p ELSE Disarm(p, "physical_result_unconfirmed")
           outcome == ProgramOutcome(core, stopConfirmed)
<1>5. PICK ok \in Verdicts : /\ core' = Finish(d, core.program, outcome, ok)
                             /\ FinishEffects(d, core.program, outcome, ok)
  BY <1>4 DEF CompleteProgram
<1>6. outcome \in Outcomes
  BY DEF ProgramOutcome, Outcomes
<1>7. /\ p \in Cores /\ p.journal = core.journal /\ p.program = NoSlot
      /\ p.writable = core.writable /\ p.storageOk = core.storageOk
  BY <1>3 DEF Cores, Phases
<1> HIDE DEF outcome, p
<1>8. Numbered(p, nvs, runs)
  BY <1>7 DEF OnceInv, Numbered
<1>9. Modest(p, d)
  BY <1>7, ModestAlike, DisarmIsModest
<1> HIDE DEF d
<1>10. d \in Cores /\ CmdOf(d, core.program) \in Commands
  BY <1>3, <1>7, <1>9 DEF Modest, CmdOf
<1>11. Numbered(d, nvs, runs)
  <2>1. nvs \in Journals /\ HighFollows(p, nvs, nvs)
    BY CoreFacts DEF HighFollows
  <2> QED
    BY <1>7, <1>8, <1>9, <2>1, ModestNumbered
<1>12. HighFollows(d, nvs, nvs') /\ Modest(d, core')
  BY <1>3, <1>5, <1>6, <1>10, FinishHigh
<1> QED
  BY <1>1, <1>10, <1>11, <1>12, OnceStep

LEMMA OnceDisplaces ==
  ASSUME PumpInv, OnceInv, NEW cmd \in Commands, ReceiveDisplacing(cmd)
  PROVE  OnceInv'
<1>1. PICK ok \in Verdicts :
        /\ core' = Finish(core, core.pending, "unknown", ok)
        /\ FinishEffects(core, core.pending, "unknown", ok)
        /\ IF ok THEN at' = "displaced" /\ cur' = cmd ELSE at' = "loop" /\ cur' = 0
  BY DEF ReceiveDisplacing
<1>2. core.pending # NoSlot /\ cmd > core.journal.highest /\ UNCHANGED runs
  BY DEF ReceiveDisplacing, Displaces, Fresh
<1>3. core.pending \in Slots /\ CmdOf(core, core.pending) \in Commands /\ core \in Cores
      /\ nvs \in Journals /\ Numbered(core, nvs, runs)
  BY <1>2, CoreFacts, SoundFacts DEF OnceInv
<1>4. HighFollows(core, nvs, nvs') /\ Modest(core, core')
  BY <1>1, <1>3, FinishHigh DEF Outcomes
<1>5. Numbered(core', nvs', runs') /\ nvs'.highest >= nvs.highest
  BY <1>2, <1>3, <1>4, ModestNumbered
<1>6. Counted'
  BY <1>2, <1>4, <1>5, CountedStays DEF OnceInv, HighFollows
<1>7. Waiting'
  BY <1>1, <1>2, <1>4 DEF Waiting, Modest
<1> QED
  BY <1>5, <1>6, <1>7 DEF OnceInv

-----------------------------------------------------------------------------
(* A command is taken, prepared and begun.                                  *)

LEMMA RecordedIsNumbered ==
  ASSUME PumpInv, OnceInv, NEW cmd \in Commands, cmd > core.journal.highest
  PROVE  LET r == WithRecord(core, cmd) IN
         Numbered(r, nvs, runs) /\ r.journal.highest = cmd /\ r.writable = core.writable
<1> DEFINE r == WithRecord(core, cmd)
           new == [cmd |-> cmd, outcome |-> AcceptedOutcome(core, cmd), steps |-> 0]
           recs == [core.journal.records EXCEPT ![Slot(core)] = new]
           rj == [core.journal EXCEPT !.next = (Slot(core) + 1) % LedgerSize, !.highest = cmd,
                                      !.records = recs]
<1>1. core \in Cores /\ core.journal \in Journals /\ core.journal.records \in [Slots -> Records]
      /\ core.journal.highest \in Nat /\ nvs.highest \in Nat /\ cmd \in Nat
  BY CoreFacts DEF Cores, Journals, Commands
<1>2. Slot(core) \in Slots /\ Slot(core) \notin Active(core)
  BY <1>1, SlotIsFree
<1>3. r = [core EXCEPT !.journal = rj]
  BY <1>1 DEF WithRecord
<1>4. rj.highest = cmd /\ rj.records = recs
  BY <1>1 DEF Journals
<1>5. core.program # NoSlot => core.program \in Slots /\ recs[core.program] = core.journal.records[core.program]
  BY <1>1, <1>2 DEF Active, Cores
<1> HIDE DEF rj, recs
<1>6. /\ r.journal = rj /\ r.program = core.program /\ r.phase = core.phase /\ r.cause = core.cause
      /\ r.writable = core.writable /\ r.storageOk = core.storageOk
  BY <1>1, <1>3 DEF Cores
<1> HIDE DEF r
<1>7. core.program # NoSlot => RecordOf(r, core.program) = RecordOf(core, core.program)
  BY <1>4, <1>5, <1>6 DEF RecordOf
<1>8. core.program # NoSlot => CmdOf(r, core.program) = CmdOf(core, core.program)
  BY <1>7 DEF CmdOf, RecordOf
<1>9. /\ core.storageOk => core.writable
      /\ core.writable => core.journal.highest >= nvs.highest
      /\ core.program # NoSlot /\ core.phase # "stopping" =>
            /\ CmdOf(core, core.program) <= nvs.highest
            /\ Unbegun(core) => runs[CmdOf(core, core.program)] = 0
      /\ core.program # NoSlot /\ core.cause = "completed" =>
            /\ core.phase = "stopping"
            /\ RecordOf(core, core.program).steps = StepsOf[CmdOf(core, core.program)]
  BY DEF OnceInv, Numbered
<1>10. core.writable => cmd >= nvs.highest
  BY <1>1, <1>9
<1>11. core.program # NoSlot => (Unbegun(r) <=> Unbegun(core))
  BY <1>6, <1>7 DEF Unbegun
<1>12. Numbered(r, nvs, runs)
  BY <1>4, <1>6, <1>7, <1>8, <1>9, <1>10, <1>11 DEF Numbered
<1> QED
  BY <1>4, <1>6, <1>12 DEF r

LEMMA OnceAccepting ==
  ASSUME PumpInv, OnceInv, NEW cmd \in Commands, cmd > core.journal.highest, Accept(cmd), UNCHANGED runs
  PROVE  OnceInv'
<1> DEFINE r == WithRecord(core, cmd)
           s(ok) == Saved(r, ok)
<1>1. PICK ok \in Verdicts :
        /\ core' = s(ok)
        /\ nvs' = SavedTo(r, ok)
        /\ IF s(ok).storageOk /\ AcceptedOutcome(core, cmd) = "pending"
           THEN at' = "accepted" /\ cur' = Slot(core)
           ELSE at' = "loop" /\ cur' = 0
  BY DEF Accept
<1>2. /\ Numbered(r, nvs, runs) /\ r.journal.highest = cmd /\ r.writable = core.writable
      /\ r \in Cores /\ CmdOf(r, Slot(core)) = cmd /\ Slot(core) \in Slots
  BY RecordedIsNumbered, RecordedIsSafe, CoreFacts
<1>3. core' = Saved(r, ok)
  BY <1>1
<1> HIDE DEF r
<1>4. ok \in BOOLEAN /\ nvs \in Journals /\ Modest(r, r)
  BY <1>2, VerdictIsBoolean, CoreFacts, ModestAlike
<1>5. Modest(r, core') /\ HighFollows(r, nvs, nvs') /\ (core'.storageOk => ok /\ r.writable)
  <2>1. core'.storageOk => ok /\ r.writable
    BY <1>2, <1>3, <1>4, SavedIsCalm
  <2> QED
    BY <1>1, <1>2, <1>3, <1>4, <2>1, SavedIsModest, SavesHigh
<1>6. Numbered(core', nvs', runs') /\ nvs'.highest >= nvs.highest /\ nvs' \in Journals
  BY <1>2, <1>4, <1>5, ModestNumbered DEF HighFollows
<1>7. Counted'
  BY <1>6, CountedStays DEF OnceInv
<1>8. Waiting'
  <2>1. CASE at' = "loop"
    BY <2>1 DEF Waiting
  <2>2. CASE at' # "loop"
    <3>1. core'.storageOk /\ at' = "accepted" /\ cur' = Slot(core)
      BY <1>1, <1>3, <2>2
    <3>2. ok /\ r.writable /\ nvs'.highest = cmd
      BY <1>1, <1>2, <1>5, <3>1 DEF SavedTo
    <3>3. CmdHere' = cmd
      BY <1>2, <1>5, <3>1 DEF CmdHere, Modest
    <3>4. runs[cmd] = 0
      <4>1. nvs.highest \in Nat /\ core.journal.highest \in Nat /\ cmd \in Nat /\ runs[cmd] \in Nat
        BY CoreFacts DEF Cores, Journals, Commands, Shape
      <4>2. core.journal.highest >= nvs.highest
        BY <1>2, <3>2 DEF OnceInv, Numbered
      <4>3. runs[cmd] > 0 => cmd <= nvs.highest
        BY DEF OnceInv, Counted
      <4> QED
        BY <4>1, <4>2, <4>3
    <3>5. cmd <= cmd
      BY DEF Commands
    <3> QED
      BY <3>1, <3>2, <3>3, <3>4, <3>5 DEF Waiting
  <2> QED
    BY <2>1, <2>2
<1> QED
  BY <1>6, <1>7, <1>8 DEF OnceInv

LEMMA OnceAccepts ==
  ASSUME PumpInv, OnceInv, AcceptDisplacing \/ \E cmd \in Commands : ReceiveNew(cmd)
  PROVE  OnceInv'
<1>1. CASE AcceptDisplacing
  <2>1. cur \in Commands /\ cur > core.journal.highest
    BY <1>1, CoreFacts DEF AcceptDisplacing, Working, OnceInv, Waiting
  <2> QED
    BY <1>1, <2>1, OnceAccepting DEF AcceptDisplacing
<1>2. CASE \E cmd \in Commands : ReceiveNew(cmd)
  BY <1>2, OnceAccepting DEF ReceiveNew, Fresh
<1> QED
  BY <1>1, <1>2

\* What a command is about to do begins nothing, a program apart.
LEMMA IntentIsNumbered ==
  ASSUME PumpInv, OnceInv, at = "accepted",
         TypeOf(core, cur) = "program" => ProgramStartable(core)
  PROVE  LET i == Intended(core, cur) IN
         /\ i \in Cores /\ Numbered(i, nvs, runs) /\ CmdOf(i, cur) = CmdHere
         /\ Type[CmdHere] = "start" => i.program = NoSlot
         /\ Type[CmdHere] = "program" => i.program = cur
<1> DEFINE i == Intended(core, cur)
           m == [core EXCEPT !.journal.motionPossible = TRUE]
<1>1. /\ cur \in Slots /\ CmdHere \in Commands
      /\ Type[CmdHere] # "stop" => core.program = NoSlot
      /\ runs[CmdHere] = 0 /\ CmdHere <= nvs.highest
  BY CoreFacts DEF Working, OnceInv, Waiting
<1>2. TypeOf(core, cur) = Type[CmdHere] /\ Type[CmdHere] \in Types
  BY <1>1, CoreAssumption DEF TypeOf, RecordOf, CmdHere, CmdOf
<1>3. core \in Cores /\ Modest(core, core)
  BY CoreFacts, ModestAlike
<1>4. Modest(core, m) /\ m \in Cores
  <2> DEFINE mj == [core.journal EXCEPT !.motionPossible = TRUE]
  <2>1. mj \in Journals /\ mj.highest = core.journal.highest /\ mj.records = core.journal.records
    BY <1>3 DEF Cores, Journals
  <2>2. m = [core EXCEPT !.journal = mj]
    OBVIOUS
  <2> HIDE DEF mj
  <2>3. /\ m \in Cores /\ m.journal = mj /\ m.program = core.program /\ m.phase = core.phase /\ m.cause = core.cause
        /\ m.writable = core.writable /\ m.storageOk = core.storageOk
    BY <1>3, <2>1, <2>2 DEF Cores
  <2> HIDE DEF m
  <2> QED
    BY <2>1, <2>3 DEF Modest, CmdOf, RecordOf
<1>5. CASE Type[CmdHere] # "program"
  <2>1. i = core \/ i = m \/ i = RequestStop(m, "command")
    BY <1>2, <1>5 DEF Intended, Types
  <2> HIDE DEF i, m
  <2>2. Modest(core, i)
    BY <1>3, <1>4, <2>1, RequestStopIsModest, ModestYet
  <2>3. Numbered(i, nvs, runs) /\ i \in Cores
    BY <2>2, ModestStill
  <2>4. CmdOf(i, cur) = CmdHere /\ i.program = core.program
    BY <1>1, <2>2 DEF Modest, CmdHere
  <2> QED
    BY <1>1, <1>5, <2>3, <2>4 DEF i
<1>6. CASE Type[CmdHere] = "program"
  <2>1. i = [m EXCEPT !.program = cur, !.phase = "idle", !.cause = "none"]
    BY <1>2, <1>6 DEF Intended
  <2>2. Numbered(m, nvs, runs)
    BY <1>4, ModestStill
  <2> HIDE DEF i, m
  <2>3. /\ i \in Cores /\ i.journal = m.journal /\ i.program = cur /\ i.phase = "idle" /\ i.cause = "none"
        /\ i.writable = m.writable /\ i.storageOk = m.storageOk
    BY <1>1, <1>4, <2>1 DEF Cores, Phases
  <2>4. CmdOf(i, cur) = CmdHere
    BY <1>1, <1>4, <2>3 DEF Modest, CmdHere, CmdOf
  <2>5. Numbered(i, nvs, runs)
    BY <1>1, <2>2, <2>3, <2>4 DEF Numbered
  <2> QED
    BY <1>6, <2>3, <2>4, <2>5 DEF i
<1> QED
  BY <1>5, <1>6

LEMMA OnceExamines == ASSUME PumpInv, OnceInv, ExaminePasses PROVE OnceInv'
<1> DEFINE i == Intended(core, cur)
<1>1. PICK ok \in Verdicts :
        /\ core' = Saved(i, ok)
        /\ nvs' = SavedTo(i, ok)
        /\ IF core'.storageOk THEN at' = "prepared" /\ cur' = cur ELSE at' = "loop" /\ cur' = 0
  BY DEF ExaminePasses
<1>2. /\ i \in Cores /\ Numbered(i, nvs, runs) /\ CmdOf(i, cur) = CmdHere
      /\ Type[CmdHere] = "start" => i.program = NoSlot
      /\ Type[CmdHere] = "program" => i.program = cur
  BY IntentIsNumbered DEF ExaminePasses
<1> HIDE DEF i
<1>3. ok \in BOOLEAN /\ nvs \in Journals /\ Modest(i, i) /\ UNCHANGED runs
  BY <1>2, VerdictIsBoolean, CoreFacts, ModestAlike DEF ExaminePasses
<1>4. Modest(i, core') /\ HighFollows(i, nvs, nvs')
  BY <1>1, <1>2, <1>3, SavedIsModest, SavesHigh
<1>5. Numbered(core', nvs', runs') /\ nvs'.highest >= nvs.highest /\ nvs' \in Journals
  BY <1>2, <1>3, <1>4, ModestNumbered DEF HighFollows
<1>6. Counted'
  BY <1>3, <1>5, CountedStays DEF OnceInv
<1>7. Waiting'
  <2>1. CASE at' = "loop"
    BY <2>1 DEF Waiting
  <2>2. CASE at' # "loop"
    <3>1. at' = "prepared" /\ cur' = cur
      BY <1>1, <2>2
    <3>2. cur \in Slots /\ CmdHere \in Commands /\ runs[CmdHere] = 0 /\ CmdHere <= nvs.highest
      BY CoreFacts DEF ExaminePasses, Working, OnceInv, Waiting
    <3>3. CmdHere' = CmdHere /\ core'.program = i.program
      BY <1>2, <1>4, <3>1, <3>2 DEF CmdHere, Modest
    <3>4. CmdHere <= nvs'.highest
      BY <1>3, <1>5, <3>2 DEF Journals, Commands
    <3> HIDE DEF CmdHere
    <3> QED
      BY <1>2, <1>3, <3>1, <3>2, <3>3, <3>4 DEF Waiting
  <2> QED
    BY <2>1, <2>2
<1> QED
  BY <1>5, <1>6, <1>7 DEF OnceInv

\* A RUN is written for a command that waited for it.
LEMMA OneMore ==
  ASSUME PumpInv, OnceInv, NEW cmd \in Commands, runs[cmd] = 0, cmd <= nvs.highest,
         runs' = [runs EXCEPT ![cmd] = @ + 1], UNCHANGED nvs
  PROVE  Counted'
<1>1. runs \in [Commands -> Nat]
  BY CoreFacts DEF Shape
<1>2. \A c \in Commands : runs'[c] = IF c = cmd THEN 1 ELSE runs[c]
  BY <1>1
<1> QED
  BY <1>2 DEF OnceInv, Counted

LEMMA OnceActuates == ASSUME PumpInv, OnceInv, Actuate PROVE OnceInv'
<1>1. /\ cur \in Slots /\ CmdHere \in Commands /\ core \in Cores
      /\ runs[CmdHere] = 0 /\ CmdHere <= nvs.highest
      /\ Type[CmdHere] = "start" => core.program = NoSlot
  BY CoreFacts DEF Actuate, Working, OnceInv, Waiting
<1>2. TypeOf(core, cur) = Type[CmdHere] /\ RecordOf(core, cur).cmd = CmdHere
  BY DEF TypeOf, RecordOf, CmdHere, CmdOf
<1>3. core' = [core EXCEPT !.pending = cur] /\ at' \in Resting /\ UNCHANGED nvs
  BY DEF Actuate, Resting
<1>4. /\ core' \in Cores /\ core'.journal = core.journal /\ core'.program = core.program
      /\ core'.phase = core.phase /\ core'.cause = core.cause /\ core'.writable = core.writable /\ core'.storageOk = core.storageOk
  BY <1>1, <1>3 DEF Cores
<1>5. CASE Type[CmdHere] = "start"
  <2>1. runs' = [runs EXCEPT ![CmdHere] = @ + 1]
    BY <1>2, <1>5 DEF Actuate, WriteRun
  <2>2. Counted'
    BY <1>1, <1>3, <2>1, OneMore
  <2>3. core'.program = NoSlot
    BY <1>1, <1>4, <1>5
  <2>4. Numbered(core', nvs', runs')
    BY <1>3, <1>4, <2>3 DEF OnceInv, Numbered
  <2>5. Waiting'
    BY <1>3 DEF Waiting, Resting
  <2> QED
    BY <2>2, <2>4, <2>5 DEF OnceInv
<1>6. CASE Type[CmdHere] # "start"
  <2>1. UNCHANGED runs
    BY <1>2, <1>6 DEF Actuate
  <2> QED
    BY <1>1, <1>3, <1>4, <2>1, ModestAlike, OnceQuiet
<1> QED
  BY <1>5, <1>6

-----------------------------------------------------------------------------
(* A program.                                                              *)

LEMMA OncePhase ==
  ASSUME PumpInv, OnceInv, core.program # NoSlot, core.phase # "stopping",
         NEW ph \in {"starting", "holding"}
  PROVE  LET d == [core EXCEPT !.phase = ph] IN \A r : Numbered(d, nvs, r)
<1> DEFINE d == [core EXCEPT !.phase = ph]
<1>1. /\ d.journal = core.journal /\ d.program = core.program /\ d.phase = ph /\ d.cause = core.cause
      /\ d.writable = core.writable /\ d.storageOk = core.storageOk
  BY CoreFacts DEF Cores
<1> HIDE DEF d
<1>2. ~Unbegun(d)
  BY <1>1 DEF Unbegun
<1>3. \A r : Numbered(d, nvs, r)
  BY <1>1, <1>2 DEF OnceInv, Numbered, CmdOf
<1> QED
  BY <1>3 DEF d

\* The frequency of a step, the first or a later one.
LEMMA StepBegunIsNumbered ==
  ASSUME NEW c \in Cores, NEW j \in Journals, NEW r, Numbered(c, j, r), c.program # NoSlot,
         c.phase # "stopping", NEW fit \in BOOLEAN, NEW linkValid \in BOOLEAN,
         RecordOf(c, c.program).steps = 0 => r[CmdOf(c, c.program)] = 0
  PROVE  Numbered(StepBegun(c, fit, linkValid), j, r)
<1> DEFINE b == [c EXCEPT !.phase = "setting"]
<1>1. /\ b \in Cores /\ b.journal = c.journal /\ b.program = c.program /\ b.phase = "setting" /\ b.cause = c.cause
      /\ b.writable = c.writable /\ b.storageOk = c.storageOk
  BY DEF Cores, Phases
<1>2. StepBegun(c, fit, linkValid) =
         IF ~fit THEN RequestStop(c, "configuration_mismatch")
         ELSE IF linkValid THEN b ELSE Disarm(b, "network_lost")
  BY DEF StepBegun
<1> HIDE DEF b
<1>3. CmdOf(b, b.program) = CmdOf(c, c.program) /\ RecordOf(b, b.program) = RecordOf(c, c.program)
  BY <1>1 DEF CmdOf, RecordOf
<1>4. Numbered(b, j, r)
  BY <1>1, <1>3 DEF Numbered, Unbegun
<1>5. HighFollows(c, j, j) /\ HighFollows(b, j, j)
  BY DEF HighFollows
<1>6. Numbered(RequestStop(c, "configuration_mismatch"), j, r)
  BY <1>5, RequestStopIsModest, ModestNumbered
<1>7. Numbered(Disarm(b, "network_lost"), j, r)
  BY <1>1, <1>4, <1>5, DisarmIsModest, ModestNumbered
<1> QED
  BY <1>2, <1>4, <1>6, <1>7

LEMMA OncePrograms ==
  ASSUME PumpInv, OnceInv, ActuateProgram \/ ProgramHolds \/ ProgramStart
  PROVE  OnceInv'
<1>1. at' \in Resting /\ UNCHANGED nvs
  BY DEF ActuateProgram, ProgramHolds, ProgramStart, Resting
<1>2. nvs' \in Journals /\ nvs'.highest >= nvs.highest /\ core \in Cores
  BY <1>1, CoreFacts DEF Journals
<1>3. CASE ActuateProgram
  <2>1. /\ cur \in Slots /\ core.program = cur /\ core.program # NoSlot /\ core.phase # "stopping"
        /\ runs[CmdOf(core, core.program)] = 0
    BY <1>3, CoreFacts
       DEF ActuateProgram, Working, OnceInv, Waiting, TypeOf, RecordOf, CmdHere, CmdOf
  <2>2. PICK fit \in BOOLEAN, linkValid \in BOOLEAN : core' = StepBegun(core, fit, linkValid)
    BY <1>3 DEF ActuateProgram
  <2>3. Numbered(core', nvs, runs)
    BY <2>1, <2>2, StepBegunIsNumbered, CoreFacts DEF OnceInv
  <2>4. UNCHANGED runs
    BY <1>3 DEF ActuateProgram
  <2> QED
    BY <1>1, <1>2, <2>3, <2>4, OnceRests
<1>4. CASE ProgramHolds
  <2>1. core.program # NoSlot /\ core.phase # "stopping"
    BY <1>4 DEF ProgramHolds, InPhase
  <2>2. core' = [core EXCEPT !.phase = "holding"] /\ UNCHANGED runs
    BY <1>4 DEF ProgramHolds
  <2>3. Numbered(core', nvs, runs)
    BY <2>1, <2>2, OncePhase
  <2> QED
    BY <1>1, <1>2, <2>2, <2>3, OnceRests
<1>5. CASE ProgramStart
  <2> DEFINE cmd == CmdOf(core, core.program)
  <2>1. /\ core.program # NoSlot /\ core.phase = "setting" /\ RecordOf(core, core.program).steps = 0
        /\ core' = [core EXCEPT !.phase = "starting"]
        /\ runs' = [runs EXCEPT ![cmd] = @ + 1]
    BY <1>5 DEF ProgramStart, InPhase, StepsDone, WriteRun, RecordOf, CmdOf
  <2>2. cmd \in Commands
    BY <2>1, CoreFacts, SoundFacts
  <2>3. runs[cmd] = 0 /\ cmd <= nvs.highest
    BY <2>1 DEF OnceInv, Numbered, Unbegun
  <2> HIDE DEF cmd
  <2>4. Counted'
    BY <1>1, <2>1, <2>2, <2>3, OneMore
  <2>5. Numbered(core', nvs, runs')
    BY <2>1, OncePhase
  <2>6. Waiting'
    BY <1>1 DEF Waiting, Resting
  <2> QED
    BY <1>1, <2>4, <2>5, <2>6 DEF OnceInv
<1> QED
  BY <1>3, <1>4, <1>5

LEMMA StepIsNumbered ==
  ASSUME PumpInv, OnceInv, core.program # NoSlot, core.phase = "holding"
  PROVE  LET n == [core EXCEPT !.journal.records[core.program].steps = @ + 1] IN
         /\ n \in Cores /\ Numbered(n, nvs, runs) /\ n.phase = "holding"
         /\ n.program = core.program /\ n.program \in Slots
         /\ CmdOf(n, n.program) = CmdOf(core, core.program)
         /\ RecordOf(n, n.program).steps = StepsDone + 1 /\ RecordOf(n, n.program).steps # 0
<1> DEFINE p == core.program
           recs == [core.journal.records EXCEPT ![p].steps = @ + 1]
           j == [core.journal EXCEPT !.records = recs]
           n == [core EXCEPT !.journal = j]
<1>1. p \in Slots /\ CmdOf(core, p) \in Commands /\ core \in Cores
      /\ core.journal \in Journals /\ core.journal.records \in [Slots -> Records]
  BY CoreFacts, SoundFacts
<1>2. core.journal.records[p] \in [cmd : Commands, outcome : Outcomes, steps : Nat]
  BY <1>1 DEF Records, EmptyRecord, CmdOf, Commands
<1>3. recs[p].cmd = CmdOf(core, p) /\ recs[p].steps = StepsDone + 1 /\ recs[p].steps # 0
  BY <1>1, <1>2 DEF CmdOf, StepsDone, RecordOf
<1>4. n = [core EXCEPT !.journal.records[core.program].steps = @ + 1]
  OBVIOUS
<1>5. j.records = recs /\ j.highest = core.journal.highest
  BY <1>1 DEF Journals
<1>6. n \in Cores
  BY <1>1, <1>4, StepIsCalm
<1> HIDE DEF recs, j
<1>7. /\ n.journal = j /\ n.program = p /\ n.phase = "holding" /\ n.cause = core.cause
      /\ n.writable = core.writable /\ n.storageOk = core.storageOk
  BY <1>1 DEF Cores
<1> HIDE DEF n
<1>8. /\ CmdOf(n, p) = CmdOf(core, p)
      /\ RecordOf(n, p).steps = StepsDone + 1 /\ RecordOf(n, p).steps # 0
  BY <1>3, <1>5, <1>7 DEF CmdOf, RecordOf
<1>9. core.cause # "completed" /\ ~Unbegun(n)
  BY <1>7, <1>8 DEF OnceInv, Numbered, Unbegun
<1>10. Numbered(n, nvs, runs)
  BY <1>5, <1>7, <1>8, <1>9 DEF OnceInv, Numbered
<1> QED
  BY <1>1, <1>4, <1>6, <1>7, <1>8, <1>10

LEMMA OnceStepEnds == ASSUME PumpInv, OnceInv, ProgramStepEnds PROVE OnceInv'
<1> DEFINE n == [core EXCEPT !.journal.records[core.program].steps = @ + 1]
           last == StepsDone + 1 = StepsOf[RecordOf(core, core.program).cmd]
<1>1. PICK ok \in Verdicts, fit \in BOOLEAN, linkValid \in BOOLEAN :
        /\ core' = LET s == Saved(n, ok) IN
                   IF ~s.storageOk THEN s
                   ELSE IF last THEN RequestStop(s, "completed")
                   ELSE StepBegun(s, fit, linkValid)
        /\ nvs' = SavedTo(n, ok)
  BY DEF ProgramStepEnds
<1>2. /\ n \in Cores /\ Numbered(n, nvs, runs) /\ n.phase = "holding"
      /\ n.program \in Slots /\ n.program # NoSlot
      /\ RecordOf(n, n.program).steps # 0
      /\ last => RecordOf(n, n.program).steps = StepsOf[CmdOf(n, n.program)]
  <2>1. core.program # NoSlot /\ core.phase = "holding"
    BY DEF ProgramStepEnds, InPhase
  <2> HIDE DEF n
  <2>2. RecordOf(core, core.program).cmd = CmdOf(core, core.program)
    BY DEF RecordOf, CmdOf
  <2> QED
    BY <2>1, <2>2, SlotFacts, StepIsNumbered DEF n
<1> HIDE DEF n, last
<1>3. ok \in BOOLEAN /\ nvs \in Journals /\ Modest(n, n)
  BY <1>2, VerdictIsBoolean, CoreFacts, ModestAlike
<1> DEFINE t == Saved(n, ok)
<1>4. Modest(n, t) /\ HighFollows(n, nvs, nvs') /\ (t.storageOk => t = [n EXCEPT !.storageOk = TRUE])
  BY <1>1, <1>2, <1>3, SavedIsModest, SavedIsCalm, SavesHigh
<1>5. core' = IF ~t.storageOk THEN t
              ELSE IF last THEN RequestStop(t, "completed") ELSE StepBegun(t, fit, linkValid)
  BY <1>1
<1> HIDE DEF t
<1>6. /\ Numbered(t, nvs', runs) /\ nvs'.highest >= nvs.highest /\ nvs' \in Journals /\ t \in Cores
  BY <1>2, <1>3, <1>4, ModestNumbered DEF HighFollows, Modest
<1>7. last => Numbered(RequestStop(t, "completed"), nvs', runs)
  <2> SUFFICES ASSUME last PROVE Numbered(RequestStop(t, "completed"), nvs', runs)
    OBVIOUS
  <2> DEFINE q == RequestStop(t, "completed")
  <2>1. /\ q.journal = t.journal /\ q.program = t.program /\ q.writable = t.writable
        /\ q.storageOk = t.storageOk /\ (t.program # NoSlot => q.phase = "stopping")
    BY <1>6, RequestStopMakes
  <2>2. t.program = n.program
    BY <1>4 DEF Modest
  <2>3. RecordOf(t, t.program).steps = StepsOf[CmdOf(t, t.program)]
    BY <1>2, <1>4, <2>2 DEF Modest
  <2> HIDE DEF q
  <2>4. CmdOf(q, q.program) = CmdOf(t, t.program) /\ RecordOf(q, q.program) = RecordOf(t, t.program)
    BY <2>1 DEF CmdOf, RecordOf
  <2>5. Numbered(q, nvs', runs)
    BY <1>2, <1>6, <2>1, <2>2, <2>3, <2>4 DEF Numbered
  <2> QED
    BY <2>5 DEF q
<1>8. t.storageOk => Numbered(StepBegun(t, fit, linkValid), nvs', runs)
  <2> SUFFICES ASSUME t.storageOk PROVE Numbered(StepBegun(t, fit, linkValid), nvs', runs)
    OBVIOUS
  <2>1. t.phase = "holding" /\ t.program = n.program
    BY <1>2, <1>4 DEF Cores
  <2>2. n.program \in Slots
    BY <1>2 DEF Cores
  <2>3. RecordOf(t, t.program).steps # 0
    BY <1>2, <1>4, <2>1, <2>2 DEF Modest
  <2> QED
    BY <1>2, <1>6, <2>1, <2>3, StepBegunIsNumbered
<1>9. Numbered(core', nvs', runs)
  BY <1>5, <1>6, <1>7, <1>8
<1>10. at' \in Resting /\ UNCHANGED runs
  BY DEF ProgramStepEnds, Resting
<1> QED
  BY <1>6, <1>9, <1>10, OnceRests

-----------------------------------------------------------------------------
(* Power on, and the theorem.                                              *)

LEMMA LockedIsModest ==
  ASSUME NEW c \in Cores
  PROVE  LET d == [Disarm(c, "storage_failed") EXCEPT !.storageOk = FALSE, !.writable = FALSE] IN
         Modest(c, d) /\ d \in Cores /\ ~d.storageOk /\ ~d.writable
<1> DEFINE b == Disarm(c, "storage_failed")
           d == [b EXCEPT !.storageOk = FALSE, !.writable = FALSE]
<1>1. Modest(c, b) /\ b \in Cores
  BY DisarmIsModest DEF Modest
<1> HIDE DEF b
<1>2. /\ d \in Cores /\ d.journal = b.journal /\ d.program = b.program /\ d.phase = b.phase /\ d.cause = b.cause
      /\ ~d.writable /\ ~d.storageOk
  BY <1>1 DEF Cores
<1> HIDE DEF d
<1>3. Modest(b, d)
  BY <1>2 DEF Modest, CmdOf, RecordOf
<1>4. Modest(c, d)
  BY <1>1, <1>3, ModestYet
<1> QED
  BY <1>2, <1>4 DEF b, d

LEMMA RecoveredIsNumbered ==
  ASSUME NEW b \in Cores, NEW j \in Journals, NEW x
  PROVE  LET r == Recovered(b, j) IN
         /\ r \in Cores /\ r.journal.highest = j.highest /\ Numbered(r, j, x)
<1> DEFINE p == IF PendingPrograms(j) = {} THEN NoSlot
                ELSE CHOOSE s \in PendingPrograms(j) : TRUE
           i == Interrupted(j)
           r == Recovered(b, j)
<1>1. i \in Journals /\ \A s \in PendingPrograms(j) : s \in Slots
  BY InterruptedIsTyped
<1>2. i.highest = j.highest /\ j.highest \in Nat
  BY DEF Interrupted, Journals
<1>3. p \in Slots \cup {NoSlot}
  BY <1>1
<1>4. r = [b EXCEPT !.journal = i, !.writable = TRUE, !.pending = NoSlot, !.program = p,
                    !.phase = IF p = NoSlot THEN "idle" ELSE "stopping",
                    !.cause = IF p = NoSlot THEN "none" ELSE "cut"]
  BY DEF Recovered, RestoredPhase
<1> HIDE DEF p, i, r
<1>5. /\ r \in Cores /\ r.journal = i /\ r.program = p /\ r.writable
      /\ p # NoSlot => r.phase = "stopping" /\ r.cause = "cut"
  BY <1>1, <1>3, <1>4 DEF Cores, Phases
<1>6. Numbered(r, j, x)
  BY <1>2, <1>5 DEF Numbered
<1>7. r \in Cores /\ r.journal.highest = j.highest
  BY <1>2, <1>5
<1> QED
  BY <1>6, <1>7 DEF r

LEMMA OnceBegins ==
  ASSUME PumpInv, OnceInv, NEW c, Sound(c), Numbered(c, nvs, runs), Begin(c)
  PROVE  Numbered(core', nvs', runs) /\ nvs' \in Journals /\ nvs'.highest >= nvs.highest
<1> DEFINE locked == [Disarm(c, "storage_failed") EXCEPT !.storageOk = FALSE, !.writable = FALSE]
           blank == [locked EXCEPT !.journal = EmptyJournal, !.pending = NoSlot,
                                   !.program = NoSlot, !.phase = "idle", !.cause = "none"]
<1>1. c \in Cores /\ nvs \in Journals /\ nvs.highest \in Nat
  BY CoreFacts DEF Sound, Journals
<1>2. Modest(c, locked) /\ locked \in Cores /\ ~locked.storageOk /\ ~locked.writable
  BY <1>1, LockedIsModest
<1>3. CASE Busy(c)
  <2>1. /\ core' = IF c.pending # NoSlot THEN Finish(locked, c.pending, "unknown", FALSE) ELSE locked
        /\ UNCHANGED nvs
    BY <1>3 DEF Begin
  <2> HIDE DEF locked
  <2>2. Modest(c, core')
    <3>1. CASE c.pending = NoSlot
      BY <1>2, <2>1, <3>1
    <3>2. CASE c.pending # NoSlot
      <4>1. c.pending \in Slots /\ CmdOf(locked, c.pending) \in Commands
        BY <1>2, <3>2, SoundFacts DEF Modest
      <4>2. Modest(locked, core')
        BY <1>2, <2>1, <3>2, <4>1, FinishIsModest DEF Outcomes
      <4> QED
        BY <1>2, <4>2, ModestYet
    <3> QED
      BY <3>1, <3>2
  <2>3. HighFollows(c, nvs, nvs')
    BY <1>1, <2>1 DEF HighFollows
  <2> QED
    BY <1>1, <2>2, <2>3, ModestNumbered DEF HighFollows
<1>4. CASE ~Busy(c)
  <2> HIDE DEF locked
  <2>1. EmptyJournal \in Journals
    <3>1. 0 \in Slots
      BY CoreAssumption DEF Slots
    <3> QED
      BY <3>1 DEF EmptyJournal, Journals, Records
  <2>2. /\ blank \in Cores /\ ~blank.storageOk /\ ~blank.writable /\ blank.program = NoSlot
    BY <1>2, <2>1 DEF Cores, Phases
  <2> HIDE DEF blank
  <2>3. \/ core' = blank /\ UNCHANGED nvs
        \/ \E ok \in Verdicts :
             LET r == Recovered(blank, nvs) IN
             /\ core' = IF ok
                        THEN [Saved(r, ok) EXCEPT !.stopping = RecoveryStop(r.journal)]
                        ELSE [Saved(r, ok) EXCEPT !.writable = FALSE]
             /\ nvs' = SavedTo(r, ok)
             /\ Saving(ok)
    BY <1>4, Zenon DEF Begin, blank, locked
  <2>4. CASE core' = blank /\ UNCHANGED nvs
    BY <1>1, <2>2, <2>4 DEF Numbered
  <2>5. CASE ~(core' = blank /\ UNCHANGED nvs)
    <3> DEFINE r == Recovered(blank, nvs)
    <3>1. PICK ok \in Verdicts :
               /\ core' = IF ok
                          THEN [Saved(r, ok) EXCEPT !.stopping = RecoveryStop(r.journal)]
                          ELSE [Saved(r, ok) EXCEPT !.writable = FALSE]
               /\ nvs' = SavedTo(r, ok)
      BY <2>3, <2>5
    <3>2. r \in Cores /\ r.journal.highest = nvs.highest /\ Numbered(r, nvs, runs)
      BY <1>1, <2>2, RecoveredIsNumbered
    <3> DEFINE s == Saved(r, ok)
               stop == RecoveryStop(r.journal)
    <3>3. ok \in BOOLEAN /\ stop \in BOOLEAN
      BY <3>2, VerdictIsBoolean DEF RecoveryStop, Cores, Journals
    <3>4. core' = IF ok THEN [s EXCEPT !.stopping = stop] ELSE [s EXCEPT !.writable = FALSE]
      BY <3>1
    <3> HIDE DEF r
    <3>5. Modest(r, s) /\ s \in Cores /\ (s.storageOk => ok) /\ Modest(r, r)
      BY <3>2, <3>3, SavedIsModest, SavedIsCalm, ModestAlike DEF Modest
    <3> HIDE DEF s, stop
    <3>6. Modest(s, core')
      <4>1. CASE ok
        <5>1. /\ core' \in Cores /\ core'.journal = s.journal /\ core'.program = s.program
              /\ core'.phase = s.phase /\ core'.cause = s.cause /\ core'.writable = s.writable /\ core'.storageOk = s.storageOk
          BY <3>3, <3>4, <3>5, <4>1 DEF Cores
        <5> QED
          BY <5>1, ModestAlike
      <4>2. CASE ~ok
        <5>1. /\ core' \in Cores /\ core'.journal = s.journal /\ core'.program = s.program
              /\ core'.phase = s.phase /\ core'.cause = s.cause /\ ~core'.writable /\ ~core'.storageOk
          BY <3>3, <3>4, <3>5, <4>2 DEF Cores
        <5> QED
          BY <5>1 DEF Modest, CmdOf, RecordOf
      <4> QED
        BY <3>3, <4>1, <4>2
    <3>7. Modest(r, core') /\ HighFollows(r, nvs, nvs')
      BY <1>1, <3>1, <3>2, <3>3, <3>5, <3>6, SavesHigh, ModestYet
    <3> QED
      BY <1>1, <3>2, <3>7, ModestNumbered DEF HighFollows
  <2> QED
    BY <2>4, <2>5
<1> QED
  BY <1>3, <1>4

LEMMA NewCoreIsSound == Sound(NewCore)
<1>1. 0 \in Slots
  BY CoreAssumption DEF Slots
<1>2. EmptyJournal \in Journals
  BY <1>1 DEF EmptyJournal, Journals, Records
<1>3. NewCore \in Cores
  BY <1>2 DEF NewCore, Cores, Phases
<1> QED
  BY <1>3 DEF Sound, NewCore, Active, EmptyJournal

LEMMA OnceBoots == ASSUME PumpInv, OnceInv, PowerOn \/ ConfirmEquipment PROVE OnceInv'
<1>1. Sound(NewCore) /\ Numbered(NewCore, nvs, runs)
  BY NewCoreIsSound DEF NewCore, Numbered
<1>2. Sound(core) /\ Numbered(core, nvs, runs)
  BY CoreFacts DEF OnceInv
<1>3. Begin(NewCore) \/ Begin(core)
  BY DEF PowerOn, ConfirmEquipment
<1>4. Numbered(core', nvs', runs) /\ nvs' \in Journals /\ nvs'.highest >= nvs.highest
  BY <1>1, <1>2, <1>3, OnceBegins
<1>5. UNCHANGED runs /\ at' \in Resting
  BY DEF PowerOn, ConfirmEquipment, Resting
<1> QED
  BY <1>4, <1>5, OnceRests

LEMMA OnceInitially == Init => OnceInv
<1> SUFFICES ASSUME Init PROVE OnceInv
  OBVIOUS
<1>1. Numbered(core, nvs, runs)
  BY DEF Init, NewCore, Numbered
<1>2. Counted
  BY DEF Init, Counted
<1>3. Waiting
  BY DEF Init, Waiting
<1> QED
  BY <1>1, <1>2, <1>3 DEF OnceInv

LEMMA OnceKeeps == ASSUME PumpInv, OnceInv, Next PROVE OnceInv'
<1>1. CASE PowerOn \/ ConfirmEquipment
  BY <1>1, OnceBoots
<1>2. CASE RestorePermission \/ TickGuard \/ LocalArm \/ GrantChanges \/ TickNetwork
  BY <1>2, OncePermissions
<1>3. CASE Crash
  BY <1>3, OnceCrash
<1>4. CASE Issue \/ Refuses \/ MotorStops \/ DriveTrips \/ Replay \/ \E cmd \in Commands : ReceiveKnown(cmd)
  BY <1>4, OnceAnswers
<1>5. CASE AcceptDisplacing \/ \E cmd \in Commands : ReceiveNew(cmd)
  BY <1>5, OnceAccepts
<1>6. CASE \E cmd \in Commands : ReceiveDisplacing(cmd)
  BY <1>6, OnceDisplaces
<1>7. CASE ExamineFails \/ ActuateLate \/ TickVerifyTimedOut
  BY <1>7, OnceFinishes
<1>8. CASE ExaminePasses
  BY <1>8, OnceExamines
<1>9. CASE Actuate
  BY <1>9, OnceActuates
<1>10. CASE ActuateUnlinked
  BY <1>10, OnceUnlinks
<1>11. CASE ActuateProgram \/ ProgramHolds \/ ProgramStart
  BY <1>11, OncePrograms
<1>12. CASE TickStopRead
  BY <1>12, OnceStops
<1>13. CASE TickCompleteProgram \/ ProgramUnstopped
  BY <1>13, OnceCompletes
<1>14. CASE TickVerified
  BY <1>14, OnceVerifies
<1>15. CASE \/ TickVerifyNothing \/ ProgramTrouble \/ ProgramUnlinked \/ ProgramNothing
            \/ SampleTrouble \/ LocalDisarm \/ TickStopUnread
  BY <1>15, OnceWithdrawals
<1>16. CASE ProgramStepEnds
  BY <1>16, OnceStepEnds
<1> QED
  BY <1>1, <1>2, <1>3, <1>4, <1>5, <1>6, <1>7, <1>8, <1>9, <1>10, <1>11, <1>12, <1>13, <1>14,
     <1>15, <1>16 DEF Next, Refuses

\* No command writes more than one RUN, however often and in whatever order it is
\* delivered, whatever saves fail and wherever the power fails: the number of an
\* accepted command is in flash before its RUN, and only a higher one is accepted.
THEOREM CommandsRunOnce == Spec => []RunsOnce
<1>1. OnceInv /\ UNCHANGED vars => OnceInv'
  BY OnceSame DEF vars
<1>2. PumpInv /\ OnceInv /\ [Next]_vars => OnceInv'
  BY <1>1, OnceKeeps
<1>3. OnceInv => RunsOnce
  BY DEF OnceInv, Counted, RunsOnce
<1> QED
  BY <1>2, <1>3, OnceInitially, PumpInvariant, PTL DEF Spec

-----------------------------------------------------------------------------
(* One answer.  A record goes from pending to one final outcome, in RAM and  *)
(* then in flash; what was told is what flash says, for as long as it says   *)
(* anything of the command, and a number is accepted only once.              *)

OutOf(c, slot) == c.journal.records[slot].outcome
Finals == Outcomes \ {"pending"}

\* No command has two records, and none has a number above the highest.
Listed(j) ==
    /\ \A s \in Slots : j.records[s].cmd <= j.highest
    /\ \A s, t \in Slots : j.records[s].cmd = j.records[t].cmd /\ j.records[s].cmd # 0 => s = t

\* Who is active has no answer yet; only a program is active as a program.
Open(c) ==
    /\ c.pending # NoSlot => OutOf(c, c.pending) = "pending" /\ Type[CmdOf(c, c.pending)] # "program"
    /\ c.program # NoSlot => OutOf(c, c.program) = "pending" /\ Type[CmdOf(c, c.program)] = "program"

\* Flash k has, of the commands that core c knows, no answer that c does not have.
Behind(c, k) ==
    \A s \in Slots : CmdOf(c, s) = k.records[s].cmd => k.records[s].outcome \in {OutOf(c, s), "pending"}

\* What was told to the server is what core c and flash k say.
Spoken(c, k, t) ==
    \A cmd \in Commands :
        /\ t[cmd] # {} => cmd <= k.highest
        /\ \A o \in t[cmd] \cap Finals :
              /\ \A s \in Slots : CmdOf(c, s) = cmd => OutOf(c, s) = o
              /\ \A s \in Slots : k.records[s].cmd = cmd => k.records[s].outcome = o
              /\ \A p \in t[cmd] \cap Finals : p = o

Written(c, k, t) == Listed(c.journal) /\ Listed(k) /\ Open(c) /\ Behind(c, k) /\ Spoken(c, k, t)

Recording(c, k, t) == Written(c, k, t) /\ (c.storageOk => k = c.journal)

\* The command in hand is the last one accepted, and flash has its record.
InHand ==
    /\ at = "displaced" => core.storageOk
    /\ at \in {"accepted", "prepared"} =>
          OutOf(core, cur) = "pending" /\ core.storageOk /\ CmdHere = core.journal.highest
    /\ at \in {"cleared", "verified"} => motor = "stopped"

AnswerInv == Recording(core, nvs, told) /\ InHand

LEMMA JournalFacts ==
  ASSUME NEW j \in Journals
  PROVE  /\ j.highest \in Nat
         /\ \A s \in Slots : /\ j.records[s] \in Records /\ j.records[s].cmd \in Nat
                             /\ j.records[s].cmd \in Commands \cup {0}
                             /\ j.records[s].cmd \in Commands => j.records[s].outcome \in Outcomes
<1>1. j.records \in [Slots -> Records] /\ j.highest \in Nat
  BY DEF Journals
<1>2. \A s \in Slots : j.records[s] \in Records
  BY <1>1
<1>3. \A r \in Records : r.cmd \in Nat /\ r.cmd \in Commands \cup {0}
  BY DEF Records, EmptyRecord, Commands
<1>4. \A r \in Records : r.cmd \in Commands => r.outcome \in Outcomes
  BY DEF Records, EmptyRecord, Commands
<1> QED
  BY <1>1, <1>2, <1>3, <1>4

\* d has the records of c, but for the outcomes of the slots in S, which were pending.
Recorded(c, d, S) ==
    /\ d.journal.highest = c.journal.highest
    /\ \A s \in Slots : /\ CmdOf(d, s) = CmdOf(c, s)
                        /\ OutOf(d, s) # OutOf(c, s) => s \in S /\ OutOf(c, s) = "pending"
    /\ d.pending \in {c.pending, NoSlot} \ S /\ d.program \in {c.program, NoSlot} \ S

LEMMA RecordedIsListed ==
  ASSUME NEW c, NEW d, NEW S, Listed(c.journal), Recorded(c, d, S)
  PROVE  Listed(d.journal)
BY DEF Listed, Recorded, CmdOf

LEMMA RecordedIsOpen ==
  ASSUME NEW c, NEW d \in Cores, NEW S, Open(c), Recorded(c, d, S)
  PROVE  Open(d)
<1>1. d.pending \in Slots \cup {NoSlot} /\ d.program \in Slots \cup {NoSlot}
  BY DEF Cores
<1>2. ASSUME d.pending # NoSlot
      PROVE  OutOf(d, d.pending) = "pending" /\ Type[CmdOf(d, d.pending)] # "program"
  BY <1>1, <1>2 DEF Open, Recorded
<1>3. ASSUME d.program # NoSlot
      PROVE  OutOf(d, d.program) = "pending" /\ Type[CmdOf(d, d.program)] = "program"
  BY <1>1, <1>3 DEF Open, Recorded
<1> QED
  BY <1>2, <1>3 DEF Open

LEMMA RecordedIsBehind ==
  ASSUME NEW c, NEW d, NEW S, NEW k, Behind(c, k), Recorded(c, d, S)
  PROVE  Behind(d, k)
BY DEF Behind, Recorded

\* u is what was told before, and perhaps what the records of d say.
Telling(t, u, d) ==
    \A cmd \in Commands : \A o \in u[cmd] :
        o \in t[cmd] \/ \E s \in Slots : CmdOf(d, s) = cmd /\ OutOf(d, s) = o

\* The records go on, saved or not, and what is told now is saved.
LEMMA RecordsGoOn ==
  ASSUME NEW c \in Cores, NEW d \in Cores, NEW j \in Journals, NEW k \in Journals, NEW t, NEW u, NEW S,
         Written(c, j, t), Recorded(c, d, S),
         k = d.journal \/ (k = j /\ u = t), k.highest >= j.highest,
         d.storageOk => k = d.journal,
         Telling(t, u, d)
  PROVE  Recording(d, k, u)
<1>1. Listed(d.journal) /\ Listed(k)
  BY RecordedIsListed DEF Written
<1>2. Open(d)
  BY RecordedIsOpen DEF Written
<1>3. Behind(d, k)
  <2>1. Behind(d, j)
    BY RecordedIsBehind DEF Written
  <2>2. Behind(d, d.journal)
    BY DEF Behind, CmdOf, OutOf
  <2> QED
    BY <2>1, <2>2
<1>4. ASSUME NEW cmd \in Commands, u[cmd] # {}
      PROVE  cmd <= k.highest
  <2>1. j.highest \in Nat /\ k.highest \in Nat /\ cmd \in Nat
    BY JournalFacts DEF Commands
  <2>2. CASE t[cmd] # {}
    BY <2>1, <2>2 DEF Written, Spoken
  <2>3. CASE t[cmd] = {}
    <3>1. k = d.journal
      BY <1>4, <2>3
    <3>2. \E s \in Slots : CmdOf(d, s) = cmd
      BY <1>4, <2>3 DEF Telling
    <3> QED
      BY <1>1, <3>1, <3>2 DEF Listed, CmdOf
  <2> QED
    BY <2>2, <2>3
<1>5. ASSUME NEW cmd \in Commands, NEW o \in u[cmd] \cap Finals
      PROVE  \A s \in Slots : CmdOf(d, s) = cmd => OutOf(d, s) = o
  <2>1. cmd # 0
    BY DEF Commands
  <2>2. CASE o \in t[cmd]
    <3>1. \A s \in Slots : CmdOf(c, s) = cmd => OutOf(c, s) = o
      BY <1>5, <2>2 DEF Written, Spoken
    <3> QED
      BY <1>5, <3>1 DEF Recorded, Finals
  <2>3. CASE o \notin t[cmd]
    BY <1>1, <1>5, <2>1, <2>3 DEF Telling, Listed, CmdOf
  <2> QED
    BY <2>2, <2>3
<1>6. ASSUME NEW cmd \in Commands, NEW o \in u[cmd] \cap Finals
      PROVE  \A s \in Slots : k.records[s].cmd = cmd => k.records[s].outcome = o
  <2>1. CASE k = d.journal
    BY <1>5, <1>6, <2>1 DEF CmdOf, OutOf
  <2>2. CASE k = j /\ u = t
    BY <1>6, <2>2 DEF Written, Spoken
  <2> QED
    BY <2>1, <2>2
<1>7. ASSUME NEW cmd \in Commands, NEW o \in u[cmd] \cap Finals, NEW p \in u[cmd] \cap Finals
      PROVE  p = o
  <2>1. CASE o \in t[cmd] /\ p \in t[cmd]
    BY <1>7, <2>1 DEF Written, Spoken
  <2>2. CASE ~(o \in t[cmd] /\ p \in t[cmd])
    <3>1. \E s \in Slots : CmdOf(d, s) = cmd
      BY <1>7, <2>2 DEF Telling
    <3> QED
      BY <1>5, <1>7, <3>1
  <2> QED
    BY <2>1, <2>2
<1> QED
  BY <1>1, <1>2, <1>3, <1>4, <1>5, <1>6, <1>7 DEF Recording, Written, Spoken

\* d is c but for what it permits, whether it stops and the phase of its program.
Alike(c, d) ==
    /\ d \in Cores /\ d.journal = c.journal
    /\ d.pending = c.pending /\ d.program = c.program
    /\ d.writable = c.writable /\ d.storageOk = c.storageOk

LEMMA RequestStopIsAlike ==
  ASSUME NEW c \in Cores, NEW reason
  PROVE  Alike(c, RequestStop(c, reason))
BY RequestStopMakes DEF Alike

LEMMA DisarmIsAlike ==
  ASSUME NEW c \in Cores, NEW reason
  PROVE  Alike(c, Disarm(c, reason))
<1> DEFINE local == c.inhibited \/ reason = "local_disarm"
           b == [c EXCEPT !.inhibited = local, !.armed = FALSE, !.mode = "bench"]
<1>1. local \in BOOLEAN
  BY DEF Cores
<1>2. Disarm(c, reason) = IF b.journal.motionPossible THEN RequestStop(b, reason) ELSE b
  BY DEF Disarm
<1> HIDE DEF local
<1>3. Alike(c, b)
  BY <1>1 DEF Cores, Alike
<1> HIDE DEF b
<1>4. Alike(b, RequestStop(b, reason))
  BY <1>3, RequestStopIsAlike DEF Alike
<1> QED
  BY <1>2, <1>3, <1>4 DEF Alike

\* What a save leaves in RAM.
LEMMA SavedKeeps ==
  ASSUME NEW c \in Cores, NEW ok \in BOOLEAN
  PROVE  /\ Saved(c, ok) \in Cores /\ Saved(c, ok).journal = c.journal
         /\ Saved(c, ok).pending = c.pending /\ Saved(c, ok).program = c.program
         /\ Saved(c, ok).writable = c.writable
         /\ Saved(c, ok).storageOk = (ok /\ c.writable)
<1>1. CASE ok /\ c.writable
  BY <1>1 DEF Saved, Cores
<1>2. CASE ~(ok /\ c.writable)
  <2> DEFINE b == [c EXCEPT !.storageOk = FALSE]
  <2>1. Saved(c, ok) = Disarm(b, "storage_failed")
    BY <1>2 DEF Saved
  <2>2. /\ b \in Cores /\ b.journal = c.journal /\ b.pending = c.pending /\ b.program = c.program
        /\ b.writable = c.writable /\ b.storageOk = FALSE
    BY DEF Cores
  <2> HIDE DEF b
  <2>3. Alike(b, Disarm(b, "storage_failed"))
    BY <2>2, DisarmIsAlike
  <2>4. (ok /\ c.writable) = FALSE
    BY <1>2 DEF Cores
  <2> QED
    BY <2>1, <2>2, <2>3, <2>4 DEF Alike
<1> QED
  BY <1>1, <1>2

\* The answer to a command changes its own record and nothing else in the journal.
LEMMA OutcomeKeeps ==
  ASSUME NEW c \in Cores, NEW slot \in Slots, NEW outcome \in Outcomes, CmdOf(c, slot) \in Commands
  PROVE  LET w == WithOutcome(c, slot, outcome) IN
         /\ w \in Cores /\ w.journal.highest = c.journal.highest
         /\ \A s \in Slots : /\ CmdOf(w, s) = CmdOf(c, s)
                             /\ RecordOf(w, s).steps = RecordOf(c, s).steps
                             /\ OutOf(w, s) = IF s = slot THEN outcome ELSE OutOf(c, s)
         /\ w.pending = c.pending /\ w.program = c.program
         /\ w.writable = c.writable /\ w.storageOk = c.storageOk
<1> DEFINE w == WithOutcome(c, slot, outcome)
           recs == [c.journal.records EXCEPT ![slot].outcome = outcome]
<1>1. Modest(c, w)
  BY OutcomeIsModest
<1>2. c.journal \in Journals /\ c.journal.records \in [Slots -> Records]
  BY DEF Cores, Journals
<1>3. /\ w.journal = [c.journal EXCEPT !.records = recs]
      /\ w.pending = c.pending /\ w.program = c.program
      /\ w.writable = c.writable /\ w.storageOk = c.storageOk
  BY DEF WithOutcome, Cores, Journals
<1>4. c.journal.records[slot] \in [cmd : Commands, outcome : Outcomes, steps : Nat]
  BY <1>2 DEF Records, EmptyRecord, CmdOf, Commands
<1>5. \A s \in Slots : recs[s].outcome = IF s = slot THEN outcome ELSE c.journal.records[s].outcome
  BY <1>2, <1>4
<1> HIDE DEF w, recs
<1>6. w.journal.records = recs
  BY <1>2, <1>3 DEF Journals
<1>7. \A s \in Slots : OutOf(w, s) = IF s = slot THEN outcome ELSE OutOf(c, s)
  BY <1>5, <1>6 DEF OutOf
<1>8. /\ w \in Cores /\ w.journal.highest = c.journal.highest
      /\ \A s \in Slots : /\ CmdOf(w, s) = CmdOf(c, s)
                          /\ RecordOf(w, s).steps = RecordOf(c, s).steps
  BY <1>1 DEF Modest
<1> QED
  BY <1>3, <1>7, <1>8 DEF w

LEMMA FinishKeeps ==
  ASSUME NEW c \in Cores, NEW slot \in Slots, NEW outcome \in Outcomes, NEW ok \in BOOLEAN,
         CmdOf(c, slot) \in Commands
  PROVE  LET f == Finish(c, slot, outcome, ok) IN
         /\ f \in Cores /\ f.journal = WithOutcome(c, slot, outcome).journal
         /\ f.pending = IF c.pending = slot THEN NoSlot ELSE c.pending
         /\ f.program = c.program
         /\ f.storageOk = (ok /\ c.writable)
<1> DEFINE w == WithOutcome(c, slot, outcome)
           s == Saved(w, ok)
           f == [s EXCEPT !.pending = IF @ = slot THEN NoSlot ELSE @]
<1>1. /\ w \in Cores /\ w.pending = c.pending /\ w.program = c.program /\ w.writable = c.writable
  BY OutcomeKeeps
<1>2. f = Finish(c, slot, outcome, ok)
  BY DEF Finish
<1> HIDE DEF w
<1>3. /\ s \in Cores /\ s.journal = w.journal /\ s.pending = c.pending /\ s.program = c.program
      /\ s.storageOk = (ok /\ c.writable)
  BY <1>1, SavedKeeps
<1> HIDE DEF s
<1>4. /\ f \in Cores /\ f.journal = s.journal /\ f.program = s.program /\ f.storageOk = s.storageOk
      /\ f.pending = IF s.pending = slot THEN NoSlot ELSE s.pending
  BY <1>3 DEF Cores
<1> HIDE DEF f
<1> QED
  BY <1>2, <1>3, <1>4 DEF w

LEMMA AnswerFacts ==
  ASSUME PumpInv, OnceInv, AnswerInv
  PROVE  /\ core \in Cores /\ core.journal \in Journals /\ nvs \in Journals /\ ToldOK
         /\ Recording(core, nvs, told) /\ Written(core, nvs, told) /\ Open(core) /\ InHand /\ Working
         /\ core.storageOk => core.writable /\ nvs = core.journal
         /\ core.writable => core.journal.highest >= nvs.highest
<1>1. core \in Cores /\ nvs \in Journals /\ ToldOK /\ Working
  BY CoreFacts
<1>2. core.journal \in Journals
  BY <1>1 DEF Cores
<1> QED
  BY <1>1, <1>2 DEF AnswerInv, Recording, Written, OnceInv, Numbered

LEMMA RecordedAlike ==
  ASSUME NEW c, NEW d, NEW e, NEW S, Recorded(c, d, S), Alike(d, e)
  PROVE  Recorded(c, e, S)
BY DEF Recorded, Alike, CmdOf, OutOf

LEMMA RecordedItself ==
  ASSUME NEW c \in Cores, NEW d \in Cores, d.journal.highest = c.journal.highest,
         d.journal.records = c.journal.records,
         d.pending \in {c.pending, NoSlot}, d.program \in {c.program, NoSlot}
  PROVE  Recorded(c, d, {})
BY DEF Recorded, CmdOf, OutOf

\* A save of a core that goes on from the present one.
LEMMA SaveGoesOn ==
  ASSUME PumpInv, OnceInv, AnswerInv, NEW d \in Cores, Written(d, nvs, told),
         d.journal.highest = core.journal.highest, d.writable = core.writable,
         NEW ok \in Verdicts, nvs' = SavedTo(d, ok), Alike(Saved(d, ok), core'), told' = told
  PROVE  Recording(core', nvs', told')
<1> DEFINE s == Saved(d, ok)
<1>1. /\ s \in Cores /\ s.journal = d.journal /\ s.pending = d.pending /\ s.program = d.program
      /\ s.storageOk = (ok /\ d.writable)
  BY VerdictIsBoolean, SavedKeeps
<1> HIDE DEF s
<1>2. Alike(s, core')
  BY DEF s
<1>3. core' \in Cores /\ Recorded(d, core', {}) /\ core'.journal = d.journal
  BY <1>1, <1>2, RecordedItself DEF Alike
<1>4. nvs \in Journals /\ d.journal \in Journals /\ nvs' \in Journals
  BY AnswerFacts DEF Cores, SavedTo
<1>5. nvs' = core'.journal \/ nvs' = nvs
  BY <1>3 DEF SavedTo
<1>6. nvs.highest \in Nat /\ nvs'.highest >= nvs.highest
  BY <1>4, AnswerFacts, JournalFacts DEF SavedTo
<1>7. core'.storageOk => nvs' = core'.journal
  BY <1>1, <1>2, <1>3 DEF Alike, SavedTo
<1>8. Telling(told, told', core')
  BY DEF Telling
<1> QED
  BY <1>3, <1>4, <1>5, <1>6, <1>7, <1>8, RecordsGoOn

\* An answer that becomes final.
LEMMA AnswerGoesOn ==
  ASSUME PumpInv, OnceInv, AnswerInv, NEW d \in Cores,
         d.journal.highest = core.journal.highest, d.journal.records = core.journal.records,
         d.pending \in {core.pending, NoSlot}, d.program \in {core.program, NoSlot},
         d.writable = core.writable,
         NEW slot \in Slots, OutOf(core, slot) = "pending", CmdOf(core, slot) \in Commands,
         slot # d.program, NEW outcome \in Outcomes, NEW ok \in Verdicts,
         FinishEffects(d, slot, outcome, ok), Alike(Finish(d, slot, outcome, ok), core')
  PROVE  Recording(core', nvs', told')
<1> DEFINE f == Finish(d, slot, outcome, ok)
           w == WithOutcome(d, slot, outcome)
           cmd == CmdOf(core, slot)
<1>1. ok \in BOOLEAN /\ CmdOf(d, slot) = cmd /\ OutOf(d, slot) = "pending"
  BY VerdictIsBoolean DEF CmdOf, OutOf
<1>2. /\ w \in Cores /\ w.journal.highest = d.journal.highest
      /\ \A s \in Slots : /\ CmdOf(w, s) = CmdOf(d, s)
                          /\ OutOf(w, s) = IF s = slot THEN outcome ELSE OutOf(d, s)
      /\ w.writable = d.writable
  BY <1>1, OutcomeKeeps
<1>3. /\ f \in Cores /\ f.journal = w.journal /\ f.program = d.program
      /\ f.pending = IF d.pending = slot THEN NoSlot ELSE d.pending
      /\ f.storageOk = (ok /\ d.writable)
  BY <1>1, FinishKeeps
<1>4. nvs' = SavedTo(w, ok)
  BY DEF FinishEffects
<1>5. told' = IF ok /\ d.writable THEN [told EXCEPT ![cmd] = @ \cup {outcome}] ELSE told
  BY <1>1 DEF FinishEffects, CmdOf
<1>6. Alike(f, core')
  OBVIOUS
<1> HIDE DEF f, w, cmd
<1>7. \A s \in Slots : CmdOf(d, s) = CmdOf(core, s) /\ OutOf(d, s) = OutOf(core, s)
  BY DEF CmdOf, OutOf
<1>8. NoSlot # slot
  BY SlotFacts
<1>9. f.journal.highest = core.journal.highest
  BY <1>2, <1>3
<1>10. \A s \in Slots : /\ CmdOf(f, s) = CmdOf(core, s)
                        /\ OutOf(f, s) = IF s = slot THEN outcome ELSE OutOf(core, s)
  BY <1>2, <1>3, <1>7 DEF CmdOf, OutOf
<1>11. Recorded(core, f, {slot})
  BY <1>3, <1>8, <1>9, <1>10 DEF Recorded
<1>12. Recorded(core, core', {slot}) /\ core' \in Cores /\ core'.journal = w.journal
  BY <1>3, <1>6, <1>11, RecordedAlike DEF Alike
<1>13. nvs \in Journals /\ w.journal \in Journals /\ nvs' \in Journals
  BY <1>2, <1>4, AnswerFacts DEF Cores, SavedTo
<1>14. nvs' = core'.journal \/ (nvs' = nvs /\ told' = told)
  BY <1>2, <1>4, <1>5, <1>12 DEF SavedTo
<1>15. nvs'.highest >= nvs.highest
  BY <1>2, <1>4, <1>13, AnswerFacts, JournalFacts DEF SavedTo
<1>16. core'.storageOk => nvs' = core'.journal
  BY <1>2, <1>3, <1>4, <1>6, <1>12 DEF Alike, SavedTo
<1>17. Telling(told, told', core')
  <2>1. OutOf(core', slot) = outcome /\ CmdOf(core', slot) = cmd
    BY <1>6, <1>10 DEF Alike, CmdOf, OutOf, cmd
  <2>2. ASSUME NEW x \in Commands, NEW o \in told'[x]
        PROVE  o \in told[x] \/ (x = cmd /\ o = outcome)
    BY <1>5, <2>2, AnswerFacts DEF ToldOK
  <2> QED
    BY <2>1, <2>2 DEF Telling
<1> QED
  BY <1>12, <1>13, <1>14, <1>15, <1>16, <1>17, AnswerFacts, RecordsGoOn

\* Nothing is written.
LEMMA NothingWritten ==
  ASSUME PumpInv, OnceInv, AnswerInv, core' \in Cores, core'.journal = core.journal,
         core'.pending \in {core.pending, NoSlot}, core'.program \in {core.program, NoSlot},
         core'.storageOk => core.storageOk, UNCHANGED <<nvs, told>>
  PROVE  Recording(core', nvs', told')
<1>1. Recorded(core, core', {})
  BY AnswerFacts, RecordedItself
<1>2. Telling(told, told', core')
  BY DEF Telling
<1>3. nvs'.highest >= nvs.highest /\ nvs' \in Journals
  BY AnswerFacts, JournalFacts
<1>4. core'.storageOk => nvs' = core'.journal
  BY AnswerFacts
<1> QED
  BY <1>1, <1>2, <1>3, <1>4, AnswerFacts, RecordsGoOn

LEMMA AlikeYet ==
  ASSUME NEW c, NEW d, NEW e, Alike(c, d), Alike(d, e)
  PROVE  Alike(c, e)
BY DEF Alike

LEMMA PhaseIsAlike ==
  ASSUME NEW c \in Cores, NEW ph \in Phases
  PROVE  Alike(c, [c EXCEPT !.phase = ph])
BY DEF Alike, Cores

LEMMA StepBegunIsAlike ==
  ASSUME NEW c \in Cores, NEW fit \in BOOLEAN, NEW linkValid \in BOOLEAN
  PROVE  Alike(c, StepBegun(c, fit, linkValid))
<1> DEFINE b == [c EXCEPT !.phase = "setting"]
<1>1. Alike(c, b)
  BY PhaseIsAlike DEF Phases
<1>2. StepBegun(c, fit, linkValid) = IF ~fit THEN RequestStop(c, "configuration_mismatch")
                                     ELSE IF linkValid THEN b ELSE Disarm(b, "network_lost")
  BY DEF StepBegun
<1> HIDE DEF b
<1>3. Alike(c, Disarm(b, "network_lost"))
  BY <1>1, DisarmIsAlike, AlikeYet DEF Alike
<1> QED
  BY <1>1, <1>2, <1>3, RequestStopIsAlike

LEMMA ArmedIsAlike ==
  ASSUME NEW c \in Cores, NEW mode \in {"bench", "extended"}, NEW fit \in BOOLEAN, NEW since \in Nat
  PROVE  /\ Alike(c, Armed(c, mode, fit))
         /\ Alike(c, [Armed(c, mode, fit) EXCEPT !.permission = since])
<1> DEFINE a == Armed(c, mode, fit)
           p == [a EXCEPT !.permission = since]
<1>1. Alike(c, a)
  <2>1. CASE fit
    BY <2>1 DEF Armed, Cores, Alike
  <2>2. CASE ~fit
    BY <2>2 DEF Armed, Cores, Alike
  <2> QED
    BY <2>1, <2>2
<1> HIDE DEF a
<1>2. Alike(a, p)
  BY <1>1 DEF Cores, Alike
<1> HIDE DEF p
<1>3. Alike(c, p)
  BY <1>1, <1>2, AlikeYet
<1> QED
  BY <1>1, <1>3 DEF a, p

\* The steps that leave the journal, flash and what was told as they are.
Quiet ==
    \/ TickVerifyNothing \/ ProgramTrouble \/ ProgramUnlinked \/ ProgramNothing
    \/ SampleTrouble \/ LocalDisarm \/ TickStopUnread
    \/ ActuateProgram \/ ProgramHolds \/ ProgramStart
    \/ RestorePermission \/ TickGuard \/ LocalArm \/ GrantChanges \/ TickNetwork

LEMMA QuietIsAlike == ASSUME core \in Cores, issued \in Nat, Quiet PROVE Alike(core, core')
<1>1. \A reason : Alike(core, RequestStop(core, reason)) /\ Alike(core, Disarm(core, reason))
  BY RequestStopIsAlike, DisarmIsAlike
<1>2. Alike(core, core)
  BY DEF Alike
<1>3. CASE \/ TickVerifyNothing \/ ProgramTrouble \/ ProgramUnlinked \/ ProgramNothing
           \/ SampleTrouble \/ LocalDisarm \/ TickStopUnread
  BY <1>1, <1>2, <1>3 DEF TickVerifyNothing, ProgramTrouble, ProgramUnlinked, ProgramNothing,
     SampleTrouble, LocalDisarm, TickStopUnread
<1>4. CASE ActuateProgram \/ ProgramHolds \/ ProgramStart
  <2>1. CASE ActuateProgram
    BY <2>1, StepBegunIsAlike DEF ActuateProgram
  <2>2. CASE ProgramHolds \/ ProgramStart
    BY <2>2, PhaseIsAlike DEF ProgramHolds, ProgramStart, Phases
  <2> QED
    BY <1>4, <2>1, <2>2
<1>5. CASE RestorePermission
  <2>1. core' = [core EXCEPT !.inhibited = FALSE]
    BY <1>5 DEF RestorePermission
  <2> QED
    BY <2>1 DEF Cores, Alike
<1>6. CASE TickGuard
  <2>1. PICK fit \in BOOLEAN, remoteOperation \in BOOLEAN, mode \in {"bench", "extended"} :
           core' = LET rechecked == (~core.journal.motionPossible \/ core.mode = "extended")
                                        /\ core.pending = NoSlot
                       d == IF rechecked /\ ~fit THEN Disarm(core, "configuration_mismatch") ELSE core IN
                   IF remoteOperation /\ RemotelyArmable(d) /\ motor = "stopped"
                   THEN [Armed(d, mode, TRUE) EXCEPT !.permission = issued] ELSE d
    BY <1>6 DEF TickGuard
  <2> DEFINE rechecked == (~core.journal.motionPossible \/ core.mode = "extended") /\ core.pending = NoSlot
             d == IF rechecked /\ ~fit THEN Disarm(core, "configuration_mismatch") ELSE core
             a == [Armed(d, mode, TRUE) EXCEPT !.permission = issued]
  <2>2. core' = d \/ core' = a
    BY <2>1
  <2>3. Alike(core, d)
    BY <1>1, <1>2
  <2> HIDE DEF d
  <2>4. d \in Cores
    BY <2>3 DEF Alike
  <2>5. Alike(d, a)
    BY <2>4, ArmedIsAlike
  <2> HIDE DEF a
  <2> QED
    BY <2>2, <2>3, <2>5, AlikeYet
<1>7. CASE LocalArm
  <2>1. PICK mode \in {"bench", "extended"}, fit \in BOOLEAN :
           core' = Armed(core, mode, fit /\ core.storageOk /\ motor = "stopped")
    BY <1>7 DEF LocalArm
  <2> DEFINE well == fit /\ core.storageOk /\ motor = "stopped"
  <2>2. well \in BOOLEAN /\ core' = Armed(core, mode, well)
    BY <2>1
  <2> HIDE DEF well
  <2> QED
    BY <2>2, ArmedIsAlike
<1>8. CASE GrantChanges
  <2>1. PICK utc \in BOOLEAN :
           core' = [Disarm(core, "configuration_mismatch") EXCEPT !.permission = IF utc THEN issued ELSE @]
    BY <1>8 DEF GrantChanges
  <2> DEFINE d == Disarm(core, "configuration_mismatch")
             since == IF utc THEN issued ELSE d.permission
  <2>2. Alike(core, d) /\ d \in Cores
    BY <1>1 DEF Alike
  <2>3. core' = [d EXCEPT !.permission = since]
    BY <2>1
  <2> HIDE DEF d
  <2>4. since \in Nat
    BY <2>2 DEF Cores
  <2> HIDE DEF since
  <2>5. Alike(d, core')
    BY <2>2, <2>3, <2>4 DEF Cores, Alike
  <2> QED
    BY <2>2, <2>5, AlikeYet
<1>9. CASE TickNetwork
  <2>1. PICK networkConnected \in BOOLEAN, minutePassed \in BOOLEAN :
           core' = LET n == [core EXCEPT !.linked = networkConnected]
                       l == IF networkConnected THEN n ELSE OnNetworkLoss(n) IN
                   IF minutePassed THEN OnTimer(l) ELSE l
    BY <1>9 DEF TickNetwork
  <2> DEFINE n == [core EXCEPT !.linked = networkConnected]
             l == IF networkConnected THEN n ELSE OnNetworkLoss(n)
  <2>2. core' = IF minutePassed THEN OnTimer(l) ELSE l
    BY <2>1
  <2>3. Alike(core, n) /\ n \in Cores
    BY DEF Cores, Alike
  <2> HIDE DEF n
  <2>4. Alike(core, l) /\ l \in Cores
    BY <2>3, DisarmIsAlike, AlikeYet DEF OnNetworkLoss, Alike
  <2> HIDE DEF l
  <2>5. Alike(core, RequestStop(l, "bench_timer"))
    BY <2>4, RequestStopIsAlike, AlikeYet
  <2> QED
    BY <2>2, <2>4, <2>5 DEF OnTimer
<1> QED
  BY <1>3, <1>4, <1>5, <1>6, <1>7, <1>8, <1>9 DEF Quiet

LEMMA RestsInHand == ASSUME at' \in Resting PROVE InHand'
BY DEF Resting, InHand

LEMMA AnswerQuiet == ASSUME PumpInv, OnceInv, AnswerInv, Quiet PROVE AnswerInv'
<1>1. at' \in Resting /\ UNCHANGED <<nvs, told>>
  BY DEF Quiet, TickVerifyNothing, ProgramTrouble, ProgramUnlinked, ProgramNothing, SampleTrouble,
     LocalDisarm, TickStopUnread, ActuateProgram, ProgramHolds, ProgramStart, RestorePermission,
     TickGuard, LocalArm, GrantChanges, TickNetwork, Resting
<1>2. Alike(core, core')
  BY AnswerFacts, QuietIsAlike, CoreFacts, CoreAssumption DEF Shape
<1>3. Recording(core', nvs', told')
  BY <1>1, <1>2, NothingWritten DEF Alike
<1> QED
  BY <1>1, <1>3, RestsInHand DEF AnswerInv

LEMMA AnswerOutside ==
  ASSUME PumpInv, OnceInv, AnswerInv, Issue \/ Refuses \/ MotorStops \/ DriveTrips
  PROVE  AnswerInv'
<1>1. UNCHANGED <<at, cur, core, nvs, told>>
  BY DEF Issue, Refuses, ReceiveRefused, MotorStops, DriveTrips
<1>2. at \in {"cleared", "verified"} => motor' = "stopped"
  BY AnswerFacts DEF Issue, Refuses, ReceiveRefused, MotorStops, DriveTrips, InHand
<1> QED
  BY <1>1, <1>2 DEF AnswerInv, Recording, Written, Listed, Open, Behind, Spoken, InHand, CmdHere, CmdOf, OutOf

\* What is told again is what flash says.
LEMMA AnswerAgain ==
  ASSUME PumpInv, OnceInv, AnswerInv, Replay \/ \E cmd \in Commands : ReceiveKnown(cmd)
  PROVE  AnswerInv'
<1>1. at' = "loop" /\ core' = core /\ nvs' = nvs /\ core.storageOk
  BY DEF Replay, ReceiveKnown
<1>2. Telling(told, told', core)
  <2>1. CASE Replay
    BY <2>1 DEF Replay, Telling, CmdOf, OutOf, RecordOf
  <2>2. CASE \E cmd \in Commands : ReceiveKnown(cmd)
    <3>1. PICK cmd \in Commands, s \in Slots :
            /\ CmdOf(core, s) = cmd
            /\ told' = [told EXCEPT ![cmd] = @ \cup {OutOf(core, s)}]
      BY <2>2 DEF ReceiveKnown, CmdOf, OutOf, RecordOf
    <3>2. ASSUME NEW x \in Commands, NEW o \in told'[x]
          PROVE  o \in told[x] \/ (x = cmd /\ o = OutOf(core, s))
      BY <3>1, <3>2, AnswerFacts DEF ToldOK
    <3> QED
      BY <3>1, <3>2 DEF Telling
  <2> QED
    BY <2>1, <2>2
<1>3. Recorded(core, core, {})
  BY AnswerFacts, RecordedItself
<1>4. nvs = core.journal /\ nvs.highest >= nvs.highest
  BY <1>1, AnswerFacts, JournalFacts
<1>5. Recording(core, nvs, told')
  BY <1>2, <1>3, <1>4, AnswerFacts, RecordsGoOn
<1> QED
  BY <1>1, <1>5, RestsInHand DEF AnswerInv, Resting

\* Handlers that end a command, from a core that differs from the present one at most in
\* what it permits and in whether the motor may move.
LEMMA AnswerFinishes ==
  ASSUME PumpInv, OnceInv, AnswerInv, ExamineFails \/ ActuateLate \/ ActuateUnlinked \/ TickVerifyTimedOut
  PROVE  AnswerInv'
<1>1. at' \in Resting
  BY DEF ExamineFails, ActuateLate, ActuateUnlinked, TickVerifyTimedOut, Resting
<1>2. core \in Cores /\ Open(core) /\ InHand /\ Working
  BY AnswerFacts
<1>3. {"failed", "unknown"} \subseteq Outcomes
  BY DEF Outcomes
<1>4. ASSUME at \in {"accepted", "prepared"}, at = "prepared" => TypeOf(core, cur) # "program"
      PROVE  cur \in Slots /\ CmdOf(core, cur) \in Commands /\ OutOf(core, cur) = "pending" /\ cur # core.program
  <2>1. cur \in Slots /\ CmdOf(core, cur) \in Commands /\ OutOf(core, cur) = "pending"
    BY <1>2, <1>4 DEF Working, InHand, CmdHere
  <2>2. CASE core.program = NoSlot
    BY <2>1, <2>2, SlotFacts
  <2>3. CASE core.program # NoSlot
    <3>1. Type[CmdOf(core, core.program)] = "program"
      BY <1>2, <2>3 DEF Open
    <3>2. Type[CmdOf(core, cur)] # "program"
      BY <1>2, <1>4, <2>3 DEF Working, CmdHere, TypeOf, RecordOf, CmdOf
    <3> QED
      BY <2>1, <3>1, <3>2
  <2> QED
    BY <2>2, <2>3
<1>5. CASE ExamineFails \/ ActuateLate \/ TickVerifyTimedOut
  <2>1. PICK slot \in Slots, outcome \in Outcomes, ok \in Verdicts :
        /\ CmdOf(core, slot) \in Commands /\ OutOf(core, slot) = "pending" /\ slot # core.program
        /\ FinishEffects(core, slot, outcome, ok)
        /\ LET f == Finish(core, slot, outcome, ok) IN
           \/ core' = f
           \/ core' = Disarm(f, "configuration_mismatch")
           \/ core' = RequestStop(f, "physical_result_unconfirmed")
    <3>1. CASE ExamineFails
      BY <1>3, <1>4, <3>1 DEF ExamineFails
    <3>2. CASE ActuateLate
      BY <1>3, <1>4, <3>2 DEF ActuateLate
    <3>3. CASE TickVerifyTimedOut
      <4>1. core.pending \in Slots /\ CmdOf(core, core.pending) \in Commands
        BY <3>3, CoreFacts, SoundFacts DEF TickVerifyTimedOut
      <4>2. OutOf(core, core.pending) = "pending" /\ core.pending # core.program
        BY <1>2, <3>3, <4>1, SlotFacts DEF Open, TickVerifyTimedOut
      <4> QED
        BY <1>3, <3>3, <4>1, <4>2 DEF TickVerifyTimedOut
    <3> QED
      BY <1>5, <3>1, <3>2, <3>3
  <2> DEFINE f == Finish(core, slot, outcome, ok)
  <2>2. f \in Cores
    BY <1>2, <2>1, VerdictIsBoolean, FinishKeeps
  <2>3. \/ core' = f
        \/ core' = Disarm(f, "configuration_mismatch")
        \/ core' = RequestStop(f, "physical_result_unconfirmed")
    BY <2>1
  <2> HIDE DEF f
  <2>4. Alike(f, f) /\ Alike(f, core')
    BY <2>2, <2>3, DisarmIsAlike, RequestStopIsAlike DEF Alike
  <2>5. Recording(core', nvs', told')
    BY <1>2, <2>1, <2>4, AnswerGoesOn DEF f
  <2> QED
    BY <1>1, <2>5, RestsInHand DEF AnswerInv
<1>6. CASE ActuateUnlinked
  <2> DEFINE d == Disarm(core, "network_lost")
  <2>1. PICK ok \in Verdicts : core' = Finish(d, cur, "failed", ok) /\ FinishEffects(d, cur, "failed", ok)
    BY <1>6 DEF ActuateUnlinked
  <2>2. cur \in Slots /\ CmdOf(core, cur) \in Commands /\ OutOf(core, cur) = "pending" /\ cur # core.program
    BY <1>4, <1>6 DEF ActuateUnlinked
  <2>3. Alike(core, d)
    BY <1>2, DisarmIsAlike
  <2> HIDE DEF d
  <2>4. /\ d \in Cores /\ CmdOf(d, cur) \in Commands /\ cur # d.program
        /\ d.journal.highest = core.journal.highest /\ d.journal.records = core.journal.records
        /\ d.pending \in {core.pending, NoSlot} /\ d.program \in {core.program, NoSlot}
        /\ d.writable = core.writable
    BY <2>2, <2>3 DEF Alike, CmdOf
  <2>5. core' \in Cores
    BY <1>3, <2>1, <2>2, <2>4, VerdictIsBoolean, FinishKeeps
  <2>6. Alike(Finish(d, cur, "failed", ok), core')
    BY <2>1, <2>5 DEF Alike
  <2>7. Recording(core', nvs', told')
    BY <1>3, <2>1, <2>2, <2>4, <2>6, AnswerGoesOn
  <2> QED
    BY <1>1, <2>7, RestsInHand DEF AnswerInv
<1> QED
  BY <1>5, <1>6

LEMMA HaltedKeeps ==
  ASSUME NEW c \in Cores
  PROVE  LET h == Halted(c) IN
         /\ h \in Cores /\ h.journal.highest = c.journal.highest /\ h.journal.records = c.journal.records
         /\ h.pending = c.pending /\ h.program = c.program
         /\ h.writable = c.writable /\ h.storageOk = c.storageOk
<1> DEFINE j == [c.journal EXCEPT !.motionPossible = FALSE]
<1>1. j \in Journals /\ j.highest = c.journal.highest /\ j.records = c.journal.records
  BY DEF Cores, Journals
<1>2. Halted(c) = [c EXCEPT !.journal = j, !.stopping = FALSE]
  BY DEF Halted
<1> HIDE DEF j
<1> QED
  BY <1>1, <1>2 DEF Cores

LEMMA AnswerVerifies == ASSUME PumpInv, OnceInv, AnswerInv, TickVerified PROVE AnswerInv'
<1> DEFINE h == IF TypeOf(core, core.pending) = "stop" THEN Halted(core) ELSE core
<1>1. PICK ok \in Verdicts : /\ core' = Finish(h, core.pending, "succeeded", ok)
                             /\ FinishEffects(h, core.pending, "succeeded", ok)
  BY DEF TickVerified
<1>2. core \in Cores /\ Open(core)
  BY AnswerFacts
<1>3. core.pending \in Slots /\ CmdOf(core, core.pending) \in Commands
  BY CoreFacts, SoundFacts DEF TickVerified
<1>4. OutOf(core, core.pending) = "pending" /\ core.pending # core.program
  BY <1>2, <1>3, SlotFacts DEF Open
<1>5. /\ h \in Cores /\ h.journal.highest = core.journal.highest /\ h.journal.records = core.journal.records
      /\ h.pending = core.pending /\ h.program = core.program /\ h.writable = core.writable
  BY <1>2, HaltedKeeps
<1> HIDE DEF h
<1>6. CmdOf(h, core.pending) \in Commands /\ "succeeded" \in Outcomes
  BY <1>3, <1>5 DEF CmdOf, Outcomes
<1>7. Finish(h, core.pending, "succeeded", ok) \in Cores
  BY <1>3, <1>5, <1>6, VerdictIsBoolean, FinishKeeps
<1>8. Alike(Finish(h, core.pending, "succeeded", ok), core')
  BY <1>1, <1>7 DEF Alike
<1>9. Recording(core', nvs', told')
  BY <1>1, <1>3, <1>4, <1>5, <1>6, <1>8, AnswerGoesOn
<1>10. InHand'
  BY DEF TickVerified, Verified, InHand
<1> QED
  BY <1>9, <1>10 DEF AnswerInv

LEMMA AnswerCompletes ==
  ASSUME PumpInv, OnceInv, AnswerInv, TickCompleteProgram \/ ProgramUnstopped
  PROVE  AnswerInv'
<1>1. at' \in Resting
  BY DEF TickCompleteProgram, ProgramUnstopped, Resting
<1>2. core.program # NoSlot
  BY CoreFacts DEF Working, TickCompleteProgram, ProgramUnstopped, InPhase
<1>3. core.program \in Slots /\ CmdOf(core, core.program) \in Commands /\ core \in Cores
  BY <1>2, CoreFacts, SoundFacts
<1>4. OutOf(core, core.program) = "pending"
  BY <1>2, AnswerFacts DEF Open
<1>5. PICK stopConfirmed \in BOOLEAN : CompleteProgram(stopConfirmed)
  BY DEF TickCompleteProgram, ProgramUnstopped
<1> DEFINE p == [core EXCEPT !.program = NoSlot, !.phase = "idle", !.cause = "none"]
           d == IF stopConfirmed THEN p ELSE Disarm(p, "physical_result_unconfirmed")
           outcome == ProgramOutcome(core, stopConfirmed)
<1>6. PICK ok \in Verdicts : /\ core' = Finish(d, core.program, outcome, ok)
                             /\ FinishEffects(d, core.program, outcome, ok)
  BY <1>5 DEF CompleteProgram
<1>7. outcome \in Outcomes
  BY DEF ProgramOutcome, Outcomes
<1>8. /\ p \in Cores /\ p.journal = core.journal /\ p.program = NoSlot /\ p.pending = core.pending
      /\ p.writable = core.writable
  BY <1>3 DEF Cores, Phases
<1> HIDE DEF outcome, p
<1>9. Alike(p, d)
  BY <1>8, DisarmIsAlike DEF Alike
<1> HIDE DEF d
<1>10. /\ d \in Cores /\ d.journal = core.journal /\ d.program = NoSlot /\ d.pending = core.pending
       /\ d.writable = core.writable /\ CmdOf(d, core.program) \in Commands
  BY <1>3, <1>8, <1>9 DEF Alike, CmdOf
<1>11. Alike(Finish(d, core.program, outcome, ok), core')
  BY <1>3, <1>6, <1>7, <1>10, VerdictIsBoolean, FinishKeeps DEF Alike
<1>12. Recording(core', nvs', told')
  BY <1>2, <1>3, <1>4, <1>6, <1>7, <1>10, <1>11, AnswerGoesOn
<1> QED
  BY <1>1, <1>12, RestsInHand DEF AnswerInv

LEMMA AnswerDisplaces ==
  ASSUME PumpInv, OnceInv, AnswerInv, NEW cmd \in Commands, ReceiveDisplacing(cmd)
  PROVE  AnswerInv'
<1>1. PICK ok \in Verdicts :
        /\ core' = Finish(core, core.pending, "unknown", ok)
        /\ FinishEffects(core, core.pending, "unknown", ok)
        /\ IF ok THEN at' = "displaced" /\ cur' = cmd ELSE at' = "loop" /\ cur' = 0
  BY DEF ReceiveDisplacing
<1>2. core.pending # NoSlot /\ core.storageOk
  BY DEF ReceiveDisplacing, Displaces
<1>3. core \in Cores /\ Open(core) /\ core.writable
  BY <1>2, AnswerFacts
<1>4. core.pending \in Slots /\ CmdOf(core, core.pending) \in Commands
  BY <1>2, CoreFacts, SoundFacts
<1>5. OutOf(core, core.pending) = "pending" /\ core.pending # core.program
  BY <1>2, <1>3, <1>4, SlotFacts DEF Open
<1>6. core' \in Cores /\ core'.storageOk = (ok /\ core.writable)
  BY <1>1, <1>3, <1>4, VerdictIsBoolean, FinishKeeps DEF Outcomes
<1>7. Alike(Finish(core, core.pending, "unknown", ok), core')
  BY <1>1, <1>6 DEF Alike
<1>8. Recording(core', nvs', told')
  BY <1>1, <1>3, <1>4, <1>5, <1>7, AnswerGoesOn DEF Outcomes
<1>9. InHand'
  BY <1>1, <1>3, <1>6 DEF InHand
<1> QED
  BY <1>8, <1>9 DEF AnswerInv

LEMMA WrittenOn ==
  ASSUME NEW c, NEW d \in Cores, NEW k, NEW t, Written(c, k, t), Recorded(c, d, {})
  PROVE  Written(d, k, t)
<1>1. Listed(d.journal) /\ Listed(k) /\ Open(d) /\ Behind(d, k)
  BY RecordedIsListed, RecordedIsOpen, RecordedIsBehind DEF Written
<1>2. Spoken(d, k, t)
  BY DEF Written, Spoken, Recorded
<1> QED
  BY <1>1, <1>2 DEF Written

LEMMA AnswerStops == ASSUME PumpInv, OnceInv, AnswerInv, TickStopRead PROVE AnswerInv'
<1> DEFINE h == Halted(core)
<1>1. PICK ok \in Verdicts : core' = Saved(h, ok) /\ nvs' = SavedTo(h, ok)
  BY DEF TickStopRead
<1>2. core \in Cores /\ Written(core, nvs, told)
  BY AnswerFacts
<1>3. /\ h \in Cores /\ h.journal.highest = core.journal.highest /\ h.journal.records = core.journal.records
      /\ h.pending = core.pending /\ h.program = core.program /\ h.writable = core.writable
  BY <1>2, HaltedKeeps
<1> HIDE DEF h
<1>4. Written(h, nvs, told)
  BY <1>2, <1>3, RecordedItself, WrittenOn
<1>5. Alike(Saved(h, ok), core')
  BY <1>1, <1>3, VerdictIsBoolean, SavedKeeps DEF Alike
<1>6. told' = told /\ motor' = "stopped" /\ at' \in {"cleared", "verify"}
  BY DEF TickStopRead, StopConfirmed
<1>7. Recording(core', nvs', told')
  BY <1>1, <1>3, <1>4, <1>5, <1>6, SaveGoesOn
<1>8. InHand'
  BY <1>6 DEF InHand
<1> QED
  BY <1>7, <1>8 DEF AnswerInv

\* What a command is about to do changes no record.
LEMMA IntentIsWritten ==
  ASSUME PumpInv, OnceInv, AnswerInv, at = "accepted"
  PROVE  LET i == Intended(core, cur) IN
         /\ i \in Cores /\ Written(i, nvs, told) /\ i.journal.highest = core.journal.highest
         /\ i.journal.records = core.journal.records /\ i.writable = core.writable
<1> DEFINE i == Intended(core, cur)
           j == [core.journal EXCEPT !.motionPossible = TRUE]
           m == [core EXCEPT !.journal = j]
<1>1. core \in Cores /\ core.journal \in Journals /\ Written(core, nvs, told) /\ InHand /\ Working
  BY AnswerFacts
<1>2. cur \in Slots /\ CmdHere \in Commands /\ OutOf(core, cur) = "pending" /\ core.pending = NoSlot
  BY <1>1 DEF Working, InHand
<1>3. TypeOf(core, cur) = Type[CmdHere] /\ Type[CmdHere] \in Types
  BY <1>2, CoreAssumption DEF TypeOf, RecordOf, CmdHere, CmdOf
<1>4. j \in Journals /\ j.highest = core.journal.highest /\ j.records = core.journal.records
  BY <1>1 DEF Journals
<1>5. m = [core EXCEPT !.journal.motionPossible = TRUE]
  OBVIOUS
<1> HIDE DEF j
<1>6. /\ m \in Cores /\ m.journal = j /\ m.pending = core.pending /\ m.program = core.program
      /\ m.writable = core.writable
  BY <1>1, <1>4 DEF Cores
<1>7. Written(m, nvs, told)
  BY <1>1, <1>4, <1>6, RecordedItself, WrittenOn
<1> HIDE DEF m
<1>8. CASE Type[CmdHere] # "program"
  <2>1. i = core \/ i = m \/ i = RequestStop(m, "command")
    BY <1>3, <1>5, <1>8 DEF Intended, Types
  <2> DEFINE r == RequestStop(m, "command")
  <2>2. Alike(m, r)
    BY <1>6, RequestStopIsAlike
  <2> HIDE DEF r
  <2>3. /\ r \in Cores /\ r.journal = m.journal /\ r.writable = m.writable
        /\ r.pending = m.pending /\ r.program = m.program
    BY <2>2 DEF Alike
  <2>4. Written(r, nvs, told)
    BY <1>6, <1>7, <2>3, RecordedItself, WrittenOn
  <2>5. i = core \/ i = m \/ i = r
    BY <2>1 DEF r
  <2> HIDE DEF i
  <2> QED
    BY <1>1, <1>4, <1>6, <1>7, <2>3, <2>4, <2>5 DEF i
<1>9. CASE Type[CmdHere] = "program"
  <2>1. i = [m EXCEPT !.program = cur, !.phase = "idle", !.cause = "none"]
    BY <1>3, <1>5, <1>9 DEF Intended
  <2> HIDE DEF i
  <2>2. /\ i \in Cores /\ i.journal = m.journal /\ i.program = cur /\ i.pending = m.pending
        /\ i.writable = m.writable
    BY <1>2, <1>6, <2>1 DEF Cores, Phases
  <2>3. \A s \in Slots : CmdOf(i, s) = CmdOf(core, s) /\ OutOf(i, s) = OutOf(core, s)
    BY <1>4, <1>6, <2>2 DEF CmdOf, OutOf
  <2>4. Open(i)
    BY <1>2, <1>6, <1>9, <2>2, <2>3 DEF Open, CmdHere
  <2>5. Listed(i.journal) /\ Behind(i, nvs) /\ Spoken(i, nvs, told)
    <3>1. Listed(i.journal)
      BY <1>6, <1>7, <2>2 DEF Written
    <3>2. Behind(i, nvs)
      BY <1>1, <2>3 DEF Written, Behind
    <3>3. Spoken(i, nvs, told)
      BY <1>1, <2>3 DEF Written, Spoken
    <3> QED
      BY <3>1, <3>2, <3>3
  <2>6. Written(i, nvs, told)
    BY <1>1, <2>4, <2>5 DEF Written
  <2> QED
    BY <1>4, <1>6, <2>2, <2>6 DEF i
<1> QED
  BY <1>8, <1>9

LEMMA AnswerExamines == ASSUME PumpInv, OnceInv, AnswerInv, ExaminePasses PROVE AnswerInv'
<1> DEFINE i == Intended(core, cur)
<1>1. PICK ok \in Verdicts :
        /\ core' = Saved(i, ok)
        /\ nvs' = SavedTo(i, ok)
        /\ IF core'.storageOk THEN at' = "prepared" /\ cur' = cur ELSE at' = "loop" /\ cur' = 0
  BY DEF ExaminePasses
<1>2. /\ i \in Cores /\ Written(i, nvs, told) /\ i.journal.highest = core.journal.highest
      /\ i.journal.records = core.journal.records /\ i.writable = core.writable
  BY IntentIsWritten DEF ExaminePasses
<1> HIDE DEF i
<1>3. told' = told /\ at = "accepted"
  BY DEF ExaminePasses
<1>4. core' \in Cores /\ core'.journal = i.journal
  BY <1>1, <1>2, VerdictIsBoolean, SavedKeeps
<1>5. Alike(Saved(i, ok), core')
  BY <1>1, <1>4 DEF Alike
<1>6. Recording(core', nvs', told')
  BY <1>1, <1>2, <1>3, <1>5, SaveGoesOn
<1>7. InHand'
  <2>1. CASE at' = "loop"
    BY <2>1 DEF InHand
  <2>2. CASE at' # "loop"
    <3>1. at' = "prepared" /\ cur' = cur /\ core'.storageOk
      BY <1>1, <2>2
    <3>2. OutOf(core, cur) = "pending" /\ CmdHere = core.journal.highest
      BY <1>3, AnswerFacts DEF InHand
    <3>3. OutOf(core', cur') = "pending" /\ CmdHere' = core'.journal.highest
      BY <1>2, <1>4, <3>1, <3>2 DEF OutOf, CmdHere, CmdOf
    <3> QED
      BY <3>1, <3>3 DEF InHand
  <2> QED
    BY <2>1, <2>2
<1> QED
  BY <1>6, <1>7 DEF AnswerInv

LEMMA AnswerActuates == ASSUME PumpInv, OnceInv, AnswerInv, Actuate PROVE AnswerInv'
<1>1. core \in Cores /\ Recording(core, nvs, told) /\ InHand /\ Working
  BY AnswerFacts
<1>2. cur \in Slots /\ CmdHere \in Commands /\ OutOf(core, cur) = "pending"
  BY <1>1 DEF Working, InHand, Actuate
<1>3. Type[CmdHere] # "program"
  BY DEF Actuate, TypeOf, RecordOf, CmdHere, CmdOf
<1>4. core' = [core EXCEPT !.pending = cur] /\ at' \in Resting /\ UNCHANGED <<nvs, told>>
  BY DEF Actuate, Resting
<1>5. /\ core' \in Cores /\ core'.journal = core.journal /\ core'.program = core.program
      /\ core'.pending = cur /\ core'.storageOk = core.storageOk
  BY <1>1, <1>2, <1>4 DEF Cores
<1>6. \A s \in Slots : CmdOf(core', s) = CmdOf(core, s) /\ OutOf(core', s) = OutOf(core, s)
  BY <1>5 DEF CmdOf, OutOf
<1>7. Open(core')
  <2>1. core.program \in Slots \cup {NoSlot} /\ Open(core)
    BY <1>1, AnswerFacts DEF Cores
  <2> QED
    BY <1>2, <1>3, <1>5, <1>6, <2>1 DEF Open, CmdHere
<1>8. Behind(core', nvs) /\ Spoken(core', nvs, told)
  BY <1>1, <1>6 DEF Recording, Written, Behind, Spoken
<1>9. Recording(core', nvs', told')
  BY <1>1, <1>4, <1>5, <1>7, <1>8 DEF Recording, Written
<1> QED
  BY <1>4, <1>9, RestsInHand DEF AnswerInv

LEMMA StepKeeps ==
  ASSUME NEW c \in Cores, NEW slot \in Slots, CmdOf(c, slot) \in Commands
  PROVE  LET n == [c EXCEPT !.journal.records[slot].steps = @ + 1] IN
         /\ n \in Cores /\ Recorded(c, n, {}) /\ n.journal.highest = c.journal.highest
         /\ n.writable = c.writable /\ n.pending = c.pending /\ n.program = c.program
<1> DEFINE recs == [c.journal.records EXCEPT ![slot].steps = @ + 1]
           j == [c.journal EXCEPT !.records = recs]
           n == [c EXCEPT !.journal = j]
<1>1. c.journal \in Journals /\ c.journal.records \in [Slots -> Records]
  BY DEF Cores, Journals
<1>2. c.journal.records[slot] \in [cmd : Commands, outcome : Outcomes, steps : Nat]
  BY <1>1 DEF Records, EmptyRecord, CmdOf, Commands
<1>3. \A s \in Slots : recs[s].cmd = c.journal.records[s].cmd /\ recs[s].outcome = c.journal.records[s].outcome
  BY <1>1, <1>2
<1>4. n = [c EXCEPT !.journal.records[slot].steps = @ + 1]
  OBVIOUS
<1>5. j.records = recs /\ j.highest = c.journal.highest
  BY <1>1 DEF Journals
<1>6. n \in Cores
  BY <1>4, StepIsCalm
<1> HIDE DEF recs, j
<1>7. /\ n.journal = j /\ n.writable = c.writable /\ n.pending = c.pending /\ n.program = c.program
  BY DEF Cores
<1> HIDE DEF n
<1>8. Recorded(c, n, {})
  BY <1>3, <1>5, <1>7 DEF Recorded, CmdOf, OutOf
<1> QED
  BY <1>4, <1>5, <1>6, <1>7, <1>8

LEMMA AnswerStepEnds == ASSUME PumpInv, OnceInv, AnswerInv, ProgramStepEnds PROVE AnswerInv'
<1> DEFINE n == [core EXCEPT !.journal.records[core.program].steps = @ + 1]
           last == StepsDone + 1 = StepsOf[RecordOf(core, core.program).cmd]
<1>1. PICK ok \in Verdicts, fit \in BOOLEAN, linkValid \in BOOLEAN :
        /\ core' = LET s == Saved(n, ok) IN
                   IF ~s.storageOk THEN s
                   ELSE IF last THEN RequestStop(s, "completed")
                   ELSE StepBegun(s, fit, linkValid)
        /\ nvs' = SavedTo(n, ok)
  BY DEF ProgramStepEnds
<1>2. core \in Cores /\ Written(core, nvs, told) /\ at' \in Resting /\ told' = told
  BY AnswerFacts DEF ProgramStepEnds, Resting
<1>3. core.program \in Slots /\ CmdOf(core, core.program) \in Commands
  BY CoreFacts, SoundFacts DEF ProgramStepEnds, InPhase
<1>4. n \in Cores /\ Recorded(core, n, {}) /\ n.journal.highest = core.journal.highest
      /\ n.writable = core.writable
  BY <1>2, <1>3, StepKeeps
<1> HIDE DEF n, last
<1>5. Written(n, nvs, told)
  BY <1>2, <1>4, WrittenOn
<1> DEFINE t == Saved(n, ok)
<1>6. t \in Cores
  BY <1>4, VerdictIsBoolean, SavedKeeps
<1>7. core' = t \/ core' = RequestStop(t, "completed") \/ core' = StepBegun(t, fit, linkValid)
  BY <1>1
<1> HIDE DEF t
<1>8. Alike(t, core')
  BY <1>6, <1>7, RequestStopIsAlike, StepBegunIsAlike DEF Alike
<1>9. Recording(core', nvs', told')
  BY <1>1, <1>2, <1>4, <1>5, <1>8, SaveGoesOn DEF t
<1> QED
  BY <1>2, <1>9, RestsInHand DEF AnswerInv

\* The record of a new command, in the slot of one that is not active.
LEMMA RecordIsNew ==
  ASSUME NEW c \in Cores, NEW cmd \in Commands
  PROVE  LET r == WithRecord(c, cmd) IN
         /\ Slot(c) \in Slots /\ Slot(c) \notin Active(c)
         /\ \A s \in Slots : /\ CmdOf(r, s) = IF s = Slot(c) THEN cmd ELSE CmdOf(c, s)
                             /\ OutOf(r, s) = IF s = Slot(c) THEN AcceptedOutcome(c, cmd) ELSE OutOf(c, s)
         /\ r.journal.highest = cmd /\ r.journal.motionPossible = c.journal.motionPossible
         /\ r.pending = c.pending /\ r.program = c.program /\ r.writable = c.writable
<1> DEFINE r == WithRecord(c, cmd)
           new == [cmd |-> cmd, outcome |-> AcceptedOutcome(c, cmd), steps |-> 0]
           recs == [c.journal.records EXCEPT ![Slot(c)] = new]
           rj == [c.journal EXCEPT !.next = (Slot(c) + 1) % LedgerSize, !.highest = cmd, !.records = recs]
<1>1. c.journal \in Journals /\ c.journal.records \in [Slots -> Records]
  BY DEF Cores, Journals
<1>2. Slot(c) \in Slots /\ Slot(c) \notin Active(c)
  BY SlotIsFree
<1>3. r = [c EXCEPT !.journal = rj]
  BY <1>1 DEF WithRecord
<1>4. rj.highest = cmd /\ rj.records = recs /\ rj.motionPossible = c.journal.motionPossible
  BY <1>1 DEF Journals
<1>5. \A s \in Slots : recs[s] = IF s = Slot(c) THEN new ELSE c.journal.records[s]
  BY <1>1, <1>2
<1> HIDE DEF rj, recs, new
<1>6. /\ r.journal = rj /\ r.pending = c.pending /\ r.program = c.program /\ r.writable = c.writable
  BY <1>3 DEF Cores
<1> HIDE DEF r
<1>7. \A s \in Slots : /\ CmdOf(r, s) = IF s = Slot(c) THEN cmd ELSE CmdOf(c, s)
                       /\ OutOf(r, s) = IF s = Slot(c) THEN AcceptedOutcome(c, cmd) ELSE OutOf(c, s)
  BY <1>4, <1>5, <1>6 DEF CmdOf, OutOf, new
<1> QED
  BY <1>2, <1>4, <1>6, <1>7 DEF r

\* A number above all that were accepted is new to core, flash and server.
LEMMA RecordIsWritten ==
  ASSUME PumpInv, OnceInv, AnswerInv, core.writable, NEW cmd \in Commands, cmd > core.journal.highest
  PROVE  Written(WithRecord(core, cmd), nvs, told)
<1> DEFINE r == WithRecord(core, cmd)
           new == Slot(core)
<1>1. /\ core \in Cores /\ core.journal \in Journals /\ nvs \in Journals /\ Written(core, nvs, told)
      /\ core.journal.highest >= nvs.highest
  BY AnswerFacts
<1>2. /\ new \in Slots /\ new \notin Active(core)
      /\ \A s \in Slots : /\ CmdOf(r, s) = IF s = new THEN cmd ELSE CmdOf(core, s)
                          /\ OutOf(r, s) = IF s = new THEN AcceptedOutcome(core, cmd) ELSE OutOf(core, s)
      /\ r.journal.highest = cmd
      /\ r.pending = core.pending /\ r.program = core.program
  BY <1>1, RecordIsNew
<1> HIDE DEF r, new
<1>3. /\ core.journal.highest \in Nat /\ nvs.highest \in Nat /\ cmd \in Nat /\ cmd > nvs.highest /\ cmd # 0
      /\ \A s \in Slots : CmdOf(core, s) \in Nat /\ nvs.records[s].cmd \in Nat
  <2>1. cmd \in Nat /\ cmd # 0
    BY DEF Commands
  <2> QED
    BY <1>1, <2>1, JournalFacts DEF CmdOf
<1>4. \A s \in Slots : CmdOf(core, s) < cmd /\ nvs.records[s].cmd < cmd
  BY <1>1, <1>3 DEF Written, Listed, CmdOf
<1>5. Listed(r.journal)
  <2>1. \A s \in Slots : CmdOf(r, s) <= r.journal.highest
    BY <1>2, <1>3, <1>4
  <2>2. \A s, t \in Slots : CmdOf(core, s) = CmdOf(core, t) /\ CmdOf(core, s) # 0 => s = t
    BY <1>1 DEF Written, Listed, CmdOf
  <2>3. \A s, t \in Slots : CmdOf(r, s) = CmdOf(r, t) /\ CmdOf(r, s) # 0 => s = t
    BY <1>2, <1>3, <1>4, <2>2
  <2> QED
    BY <2>1, <2>3 DEF Listed, CmdOf
<1>6. Open(r)
  <2>1. core.pending \in Slots \cup {NoSlot} /\ core.program \in Slots \cup {NoSlot} /\ Open(core)
    BY <1>1 DEF Cores, Written
  <2> QED
    BY <1>2, <2>1 DEF Open, Active
<1>7. Behind(r, nvs)
  <2>1. \A s \in Slots : CmdOf(core, s) = nvs.records[s].cmd => nvs.records[s].outcome \in {OutOf(core, s), "pending"}
    BY <1>1 DEF Written, Behind
  <2> QED
    BY <1>2, <1>3, <1>4, <2>1 DEF Behind
<1>8. Spoken(r, nvs, told)
  <2>1. told[cmd] = {}
    BY <1>1, <1>3 DEF Written, Spoken
  <2> QED
    BY <1>1, <1>2, <2>1 DEF Written, Spoken
<1>9. Listed(nvs)
  BY <1>1 DEF Written
<1> QED
  BY <1>5, <1>6, <1>7, <1>8, <1>9 DEF Written, r

LEMMA AnswerAccepting ==
  ASSUME PumpInv, OnceInv, AnswerInv, core.storageOk, NEW cmd \in Commands, cmd > core.journal.highest,
         Accept(cmd)
  PROVE  AnswerInv'
<1> DEFINE r == WithRecord(core, cmd)
           outcome == AcceptedOutcome(core, cmd)
           s(ok) == Saved(r, ok)
<1>1. PICK ok \in Verdicts :
        /\ core' = s(ok)
        /\ nvs' = SavedTo(r, ok)
        /\ told' = IF s(ok).storageOk THEN [told EXCEPT ![cmd] = @ \cup {outcome}] ELSE told
        /\ IF s(ok).storageOk /\ outcome = "pending"
           THEN at' = "accepted" /\ cur' = Slot(core)
           ELSE at' = "loop" /\ cur' = 0
  BY DEF Accept
<1>2. core \in Cores /\ core.writable /\ nvs \in Journals /\ core.journal.highest >= nvs.highest
      /\ core.journal \in Journals
  BY AnswerFacts
<1>3. Written(r, nvs, told)
  BY <1>2, RecordIsWritten
<1>4. /\ Slot(core) \in Slots
      /\ CmdOf(r, Slot(core)) = cmd /\ OutOf(r, Slot(core)) = outcome
      /\ r.journal.highest = cmd /\ r.writable
  BY <1>2, RecordIsNew
<1>5. r \in Cores
  BY RecordedIsSafe, CoreFacts
<1>6. core' = Saved(r, ok)
  BY <1>1
<1> HIDE DEF r, outcome
<1>7. ok \in BOOLEAN
  BY VerdictIsBoolean
<1>8. /\ core' \in Cores /\ core'.journal = r.journal /\ core'.storageOk = (ok /\ r.writable)
      /\ core'.pending = r.pending /\ core'.program = r.program
  BY <1>5, <1>6, <1>7, SavedKeeps
<1>9. Recorded(r, core', {})
  BY <1>5, <1>8, RecordedItself
<1>10. nvs' = IF ok THEN core'.journal ELSE nvs
  BY <1>1, <1>4, <1>8 DEF SavedTo
<1>11. nvs' \in Journals /\ nvs'.highest >= nvs.highest
  <2>1. core'.journal \in Journals /\ core'.journal.highest = cmd
    BY <1>4, <1>8 DEF Cores
  <2>2. cmd \in Nat /\ core.journal.highest \in Nat /\ nvs.highest \in Nat
    BY <1>2, JournalFacts DEF Commands
  <2> QED
    BY <1>2, <1>10, <2>1, <2>2
<1>12. told' = IF ok THEN [told EXCEPT ![cmd] = @ \cup {outcome}] ELSE told
  BY <1>1, <1>4, <1>6, <1>8
<1>13. Telling(told, told', core')
  <2>1. CmdOf(core', Slot(core)) = cmd /\ OutOf(core', Slot(core)) = outcome
    BY <1>4, <1>8 DEF CmdOf, OutOf
  <2>2. ASSUME NEW x \in Commands, NEW o \in told'[x]
        PROVE  o \in told[x] \/ (x = cmd /\ o = outcome)
    BY <1>12, <2>2, AnswerFacts DEF ToldOK
  <2> QED
    BY <1>4, <2>1, <2>2 DEF Telling
<1>14. nvs' = core'.journal \/ (nvs' = nvs /\ told' = told)
  BY <1>10, <1>12
<1>15. core'.storageOk => nvs' = core'.journal
  BY <1>8, <1>10
<1>16. Recording(core', nvs', told')
  BY <1>2, <1>3, <1>5, <1>8, <1>9, <1>11, <1>13, <1>14, <1>15, RecordsGoOn
<1>17. InHand'
  <2>1. CASE at' = "loop"
    BY <2>1 DEF InHand
  <2>2. CASE at' # "loop"
    <3>1. at' = "accepted" /\ cur' = Slot(core) /\ outcome = "pending" /\ core'.storageOk
      BY <1>1, <1>6, <2>2
    <3>2. OutOf(core', cur') = "pending" /\ CmdHere' = core'.journal.highest
      BY <1>4, <1>8, <3>1 DEF OutOf, CmdHere, CmdOf
    <3> QED
      BY <3>1, <3>2 DEF InHand
  <2> QED
    BY <2>1, <2>2
<1> QED
  BY <1>16, <1>17 DEF AnswerInv

LEMMA AnswerAccepts ==
  ASSUME PumpInv, OnceInv, AnswerInv, AcceptDisplacing \/ \E cmd \in Commands : ReceiveNew(cmd)
  PROVE  AnswerInv'
<1>1. CASE AcceptDisplacing
  <2>1. cur \in Commands /\ cur > core.journal.highest /\ core.storageOk
    BY <1>1, CoreFacts DEF AcceptDisplacing, Working, OnceInv, Waiting, AnswerInv, InHand
  <2> QED
    BY <1>1, <2>1, AnswerAccepting DEF AcceptDisplacing
<1>2. CASE \E cmd \in Commands : ReceiveNew(cmd)
  BY <1>2, AnswerAccepting DEF ReceiveNew, Fresh
<1> QED
  BY <1>1, <1>2

\* What reading the journal again, or not, makes of a core.
BeginsBusy(c) ==
    /\ core'.journal.highest = c.journal.highest
    /\ core'.journal.motionPossible = c.journal.motionPossible
    /\ \A s \in Slots : /\ CmdOf(core', s) = CmdOf(c, s)
                        /\ OutOf(core', s) = IF s = c.pending THEN "unknown" ELSE OutOf(c, s)
    /\ core'.pending = NoSlot /\ core'.program = c.program
    /\ ~core'.storageOk /\ nvs' = nvs

BeginsBlank ==
    /\ LoadsFail \/ Cardinality(PendingPrograms(nvs)) > 1
    /\ core'.journal = EmptyJournal /\ core'.pending = NoSlot /\ core'.program = NoSlot
    /\ ~core'.storageOk /\ nvs' = nvs

BeginsAgain ==
    /\ core'.journal = Interrupted(nvs)
    /\ core'.pending = NoSlot /\ core'.program \in PendingPrograms(nvs) \cup {NoSlot}
    /\ nvs' \in {nvs, core'.journal}
    /\ core'.storageOk => nvs' = core'.journal

LEMMA BeginCases ==
  ASSUME NEW c, Sound(c), nvs \in Journals, Begin(c)
  PROVE  core' \in Cores /\ ~core'.armed /\ IF Busy(c) THEN BeginsBusy(c) ELSE BeginsBlank \/ BeginsAgain
<1> DEFINE locked == [Disarm(c, "storage_failed") EXCEPT !.storageOk = FALSE, !.writable = FALSE]
           blank == [locked EXCEPT !.journal = EmptyJournal, !.pending = NoSlot,
                                   !.program = NoSlot, !.phase = "idle", !.cause = "none"]
<1>1. c \in Cores /\ c.pending \in Slots \cup {NoSlot}
  BY SoundFacts
<1>2. /\ locked \in Cores /\ locked.journal = c.journal /\ locked.pending = c.pending
      /\ locked.program = c.program /\ ~locked.storageOk /\ ~locked.writable /\ ~locked.armed
  <2> DEFINE b == Disarm(c, "storage_failed")
  <2>1. Alike(c, b)
    BY <1>1, DisarmIsAlike
  <2> HIDE DEF b
  <2>2. b \in Cores /\ b.journal = c.journal /\ b.pending = c.pending /\ b.program = c.program
    BY <2>1 DEF Alike
  <2>3. locked = [b EXCEPT !.storageOk = FALSE, !.writable = FALSE]
    BY DEF b
  <2>4. ~locked.armed
    BY <1>1, LockedIsCalm
  <2> HIDE DEF locked
  <2> QED
    BY <2>2, <2>3, <2>4 DEF Cores
<1>3. CASE Busy(c)
  <2>1. /\ core' = IF c.pending # NoSlot THEN Finish(locked, c.pending, "unknown", FALSE) ELSE locked
        /\ nvs' = nvs
    BY <1>3 DEF Begin
  <2> HIDE DEF locked
  <2>2. CASE c.pending = NoSlot
    <3>1. \A s \in Slots : s # c.pending
      BY <2>2, SlotFacts
    <3> QED
      BY <1>2, <1>3, <2>1, <2>2, <3>1 DEF BeginsBusy, CmdOf, OutOf
  <2>3. CASE c.pending # NoSlot
    <3> DEFINE w == WithOutcome(locked, c.pending, "unknown")
    <3>1. c.pending \in Slots /\ CmdOf(locked, c.pending) \in Commands /\ "unknown" \in Outcomes
      BY <1>2, <2>3, SoundFacts DEF CmdOf, Outcomes
    <3>2. core' = Finish(locked, c.pending, "unknown", FALSE)
      BY <2>1, <2>3
    <3>3. /\ core' \in Cores /\ core'.journal = w.journal
          /\ core'.pending = NoSlot /\ core'.program = c.program /\ ~core'.storageOk
      BY <1>2, <3>1, <3>2, FinishKeeps
    <3>4. /\ w.journal.highest = locked.journal.highest
          /\ \A s \in Slots : /\ CmdOf(w, s) = CmdOf(locked, s)
                              /\ OutOf(w, s) = IF s = c.pending THEN "unknown" ELSE OutOf(locked, s)
      BY <1>2, <3>1, OutcomeKeeps
    <3>5. w.journal.motionPossible = locked.journal.motionPossible
      BY <1>2, <3>1, OutcomeIsCalm DEF Calmer
    <3> HIDE DEF w
    <3>6. Calmer(locked, core')
      BY <1>2, <3>1, <3>2, FinishIsCalm
    <3>7. ~core'.armed
      BY <1>2, <3>6 DEF Calmer
    <3>8. \A s \in Slots : /\ CmdOf(core', s) = CmdOf(c, s)
                           /\ OutOf(core', s) = IF s = c.pending THEN "unknown" ELSE OutOf(c, s)
      BY <1>2, <3>3, <3>4 DEF CmdOf, OutOf
    <3> QED
      BY <1>2, <1>3, <2>1, <3>3, <3>4, <3>5, <3>7, <3>8 DEF BeginsBusy
  <2> QED
    BY <2>2, <2>3
<1>4. CASE ~Busy(c)
  <2> HIDE DEF locked
  <2>1. EmptyJournal \in Journals
    <3>1. 0 \in Slots
      BY CoreAssumption DEF Slots
    <3> QED
      BY <3>1 DEF EmptyJournal, Journals, Records
  <2>2. /\ blank \in Cores /\ blank.journal = EmptyJournal /\ blank.pending = NoSlot
        /\ blank.program = NoSlot /\ ~blank.storageOk /\ ~blank.armed
    BY <1>2, <2>1 DEF Cores, Phases
  <2> HIDE DEF blank
  <2>3. \/ /\ LoadsFail \/ Cardinality(PendingPrograms(nvs)) > 1
           /\ core' = blank /\ nvs' = nvs
        \/ \E ok \in Verdicts :
             LET r == Recovered(blank, nvs) IN
             /\ core' = IF ok
                        THEN [Saved(r, ok) EXCEPT !.stopping = RecoveryStop(r.journal)]
                        ELSE [Saved(r, ok) EXCEPT !.writable = FALSE]
             /\ nvs' = SavedTo(r, ok)
             /\ Saving(ok)
    BY <1>4, Zenon DEF Begin, blank, locked
  <2>4. CASE /\ LoadsFail \/ Cardinality(PendingPrograms(nvs)) > 1
             /\ core' = blank /\ nvs' = nvs
    BY <1>4, <2>2, <2>4 DEF BeginsBlank
  <2>5. CASE ~(/\ LoadsFail \/ Cardinality(PendingPrograms(nvs)) > 1
               /\ core' = blank /\ nvs' = nvs)
    <3> DEFINE r == Recovered(blank, nvs)
               p == IF PendingPrograms(nvs) = {} THEN NoSlot
                    ELSE CHOOSE s \in PendingPrograms(nvs) : TRUE
    <3>1. PICK ok \in Verdicts :
               /\ core' = IF ok
                          THEN [Saved(r, ok) EXCEPT !.stopping = RecoveryStop(r.journal)]
                          ELSE [Saved(r, ok) EXCEPT !.writable = FALSE]
               /\ nvs' = SavedTo(r, ok)
      BY <2>3, <2>5
    <3>2. p \in PendingPrograms(nvs) \cup {NoSlot}
      OBVIOUS
    <3>3. r \in Cores
      BY <2>2, RecoveredIsNumbered
    <3>4. r = [blank EXCEPT !.journal = Interrupted(nvs), !.writable = TRUE, !.pending = NoSlot,
                            !.program = p,
                            !.phase = IF p = NoSlot THEN "idle" ELSE RestoredPhase,
                            !.cause = IF p = NoSlot THEN "none" ELSE "cut"]
      BY DEF Recovered
    <3> HIDE DEF p, r
    <3>5. r.journal = Interrupted(nvs) /\ r.pending = NoSlot /\ r.program = p /\ r.writable /\ ~r.armed
      BY <2>2, <3>4 DEF Cores
    <3> DEFINE s == Saved(r, ok)
               stop == RecoveryStop(r.journal)
    <3>6. ok \in BOOLEAN /\ stop \in BOOLEAN
      BY <3>3, VerdictIsBoolean DEF RecoveryStop, Cores, Journals
    <3>7. core' = IF ok THEN [s EXCEPT !.stopping = stop] ELSE [s EXCEPT !.writable = FALSE]
      BY <3>1
    <3>8. /\ s \in Cores /\ s.journal = r.journal /\ s.pending = NoSlot /\ s.program = p
          /\ s.storageOk = ok /\ ~s.armed
      BY <3>3, <3>5, <3>6, SavedKeeps, SavedIsCalm DEF Calmer
    <3> HIDE DEF s, stop
    <3>9. /\ core' \in Cores /\ ~core'.armed /\ core'.journal = r.journal /\ core'.pending = NoSlot
          /\ core'.program = p /\ core'.storageOk = ok
      <4>1. CASE ok
        BY <3>6, <3>7, <3>8, <4>1 DEF Cores
      <4>2. CASE ~ok
        BY <3>6, <3>7, <3>8, <4>2 DEF Cores
      <4> QED
        BY <4>1, <4>2
    <3>10. nvs' = IF ok THEN core'.journal ELSE nvs
      BY <3>1, <3>5, <3>9 DEF SavedTo
    <3> QED
      BY <1>4, <3>2, <3>5, <3>9, <3>10 DEF BeginsAgain
  <2> QED
    BY <2>4, <2>5
<1> QED
  BY <1>3, <1>4

\* The journal of a power failure has what flash had, and unknown for what was pending.
LEMMA InterruptedRecords ==
  ASSUME NEW j \in Journals
  PROVE  /\ Interrupted(j) \in Journals /\ Interrupted(j).highest = j.highest
         /\ j.motionPossible => Interrupted(j).motionPossible
         /\ \A s \in Slots :
               /\ Interrupted(j).records[s].cmd = j.records[s].cmd
               /\ Interrupted(j).records[s].outcome =
                     IF j.records[s].outcome = "pending" /\ s \notin PendingPrograms(j)
                     THEN "unknown" ELSE j.records[s].outcome
<1> DEFINE recs == [s \in Slots |-> IF j.records[s].outcome = "pending" /\ s \notin PendingPrograms(j)
                                    THEN [j.records[s] EXCEPT !.outcome = "unknown"]
                                    ELSE j.records[s]]
           i == Interrupted(j)
<1>1. i \in Journals /\ (j.motionPossible => i.motionPossible)
  BY InterruptedIsTyped
<1>2. i.highest = j.highest /\ i.records = recs
  BY DEF Interrupted, Journals
<1>3. \A s \in Slots : j.records[s] \in Records
  BY JournalFacts
<1>4. \A r \in Records : r.outcome = "pending" =>
          [r EXCEPT !.outcome = "unknown"].cmd = r.cmd /\ [r EXCEPT !.outcome = "unknown"].outcome = "unknown"
  BY DEF Records, EmptyRecord
<1>5. \A s \in Slots :
        /\ recs[s].cmd = j.records[s].cmd
        /\ recs[s].outcome = IF j.records[s].outcome = "pending" /\ s \notin PendingPrograms(j)
                             THEN "unknown" ELSE j.records[s].outcome
  BY <1>3, <1>4
<1> QED
  BY <1>1, <1>2, <1>5

LEMMA EmptyIsWritten ==
  ASSUME NEW d, NEW k \in Journals, NEW c, NEW t, Written(c, k, t),
         d.journal = EmptyJournal, d.pending = NoSlot, d.program = NoSlot
  PROVE  Written(d, k, t)
<1>1. \A s \in Slots : CmdOf(d, s) = 0 /\ OutOf(d, s) = "empty"
  BY DEF EmptyJournal, EmptyRecord, CmdOf, OutOf
<1>2. Listed(d.journal)
  BY DEF EmptyJournal, EmptyRecord, Listed
<1>3. Behind(d, k)
  <2>1. \A s \in Slots : k.records[s] \in Records
    BY JournalFacts
  <2>2. \A r \in Records : r.cmd = 0 => r.outcome = "empty"
    BY DEF Records, EmptyRecord, Commands
  <2> QED
    BY <1>1, <2>1, <2>2 DEF Behind
<1>4. Spoken(d, k, t)
  BY <1>1 DEF Written, Spoken, Commands
<1> QED
  BY <1>2, <1>3, <1>4 DEF Written, Open

LEMMA AnswerBegins ==
  ASSUME PumpInv, OnceInv, NEW c, Sound(c), Written(c, nvs, told), Begin(c), told' = told
  PROVE  Recording(core', nvs', told')
<1>1. c \in Cores /\ nvs \in Journals /\ nvs.highest \in Nat /\ c.pending \in Slots \cup {NoSlot}
      /\ c.program \in Slots \cup {NoSlot}
  BY CoreFacts, JournalFacts, SoundFacts
<1>2. core' \in Cores /\ (BeginsBusy(c) \/ BeginsBlank \/ BeginsAgain)
  BY <1>1, BeginCases
<1>3. Open(c)
  BY DEF Written
<1>4. Telling(told, told', core')
  BY DEF Telling
<1>5. CASE BeginsBusy(c)
  <2>1. c.pending = NoSlot \/ c.program = NoSlot \/ c.pending # c.program
    BY <1>3 DEF Open
  <2>2. Recorded(c, core', {c.pending} \ {NoSlot})
    <3>1. \A s \in Slots : OutOf(core', s) # OutOf(c, s) => s = c.pending /\ OutOf(c, s) = "pending" /\ s # NoSlot
      BY <1>3, <1>5, SlotFacts DEF BeginsBusy, Open
    <3> QED
      BY <1>5, <2>1, <3>1 DEF BeginsBusy, Recorded
  <2>3. nvs' = nvs /\ ~core'.storageOk
    BY <1>5 DEF BeginsBusy
  <2>4. nvs'.highest >= nvs.highest
    BY <1>1, <2>3
  <2> QED
    BY <1>1, <1>2, <1>4, <2>2, <2>3, <2>4, RecordsGoOn
<1>6. CASE BeginsBlank
  <2>1. Written(core', nvs, told)
    BY <1>1, <1>6, EmptyIsWritten DEF BeginsBlank
  <2> QED
    BY <1>6, <2>1 DEF BeginsBlank, Recording
<1>7. CASE BeginsAgain
  <2> DEFINE i == Interrupted(nvs)
  <2>1. /\ i \in Journals /\ i.highest = nvs.highest
        /\ \A s \in Slots :
               /\ i.records[s].cmd = nvs.records[s].cmd
               /\ i.records[s].outcome =
                     IF nvs.records[s].outcome = "pending" /\ s \notin PendingPrograms(nvs)
                     THEN "unknown" ELSE nvs.records[s].outcome
    BY <1>1, InterruptedRecords
  <2>2. core'.journal = i /\ core'.pending = NoSlot
    BY <1>7 DEF BeginsAgain
  <2> HIDE DEF i
  <2>3. Listed(i)
    BY <2>1 DEF Written, Listed
  <2>4. Open(core')
    <3>1. core'.program # NoSlot => core'.program \in PendingPrograms(nvs)
      BY <1>7 DEF BeginsAgain
    <3>2. core'.program # NoSlot =>
             /\ core'.program \in Slots
             /\ OutOf(core', core'.program) = "pending"
             /\ CmdOf(core', core'.program) = nvs.records[core'.program].cmd
             /\ Type[nvs.records[core'.program].cmd] = "program"
      BY <2>1, <2>2, <3>1 DEF PendingPrograms, OutOf, CmdOf
    <3> QED
      BY <2>2, <3>2 DEF Open
  <2>5. Behind(core', nvs)
    BY <2>1, <2>2 DEF Behind, CmdOf, OutOf
  <2>6. Spoken(core', nvs, told)
    BY <2>1, <2>2 DEF Written, Spoken, CmdOf, OutOf, Finals
  <2>7. Written(core', nvs, told)
    BY <2>2, <2>3, <2>4, <2>5, <2>6 DEF Written
  <2>8. Recorded(core', core', {})
    BY <1>2, RecordedItself
  <2>9. nvs' \in {nvs, core'.journal} /\ (core'.storageOk => nvs' = core'.journal)
    BY <1>7 DEF BeginsAgain
  <2>10. nvs' \in Journals /\ nvs'.highest >= nvs.highest
    BY <1>1, <2>1, <2>2, <2>9
  <2> QED
    BY <1>1, <1>2, <1>4, <2>7, <2>8, <2>9, <2>10, RecordsGoOn
<1> QED
  BY <1>2, <1>5, <1>6, <1>7

LEMMA NewCoreIsWritten ==
  ASSUME PumpInv, OnceInv, AnswerInv
  PROVE  Written(NewCore, nvs, told)
<1>1. NewCore.journal = EmptyJournal /\ NewCore.pending = NoSlot /\ NewCore.program = NoSlot
  BY DEF NewCore
<1> QED
  BY <1>1, AnswerFacts, EmptyIsWritten

LEMMA AnswerBoots ==
  ASSUME PumpInv, OnceInv, AnswerInv, PowerOn \/ ConfirmEquipment
  PROVE  AnswerInv'
<1>1. Sound(NewCore) /\ Written(NewCore, nvs, told)
  BY NewCoreIsSound, NewCoreIsWritten
<1>2. Sound(core) /\ Written(core, nvs, told)
  BY CoreFacts, AnswerFacts
<1>3. Begin(NewCore) \/ Begin(core)
  BY DEF PowerOn, ConfirmEquipment
<1>4. told' = told /\ at' \in Resting
  BY DEF PowerOn, ConfirmEquipment, Resting
<1>5. Recording(core', nvs', told')
  BY <1>1, <1>2, <1>3, <1>4, AnswerBegins
<1> QED
  BY <1>4, <1>5, RestsInHand DEF AnswerInv

LEMMA AnswerCrash == ASSUME PumpInv, OnceInv, AnswerInv, Crash PROVE AnswerInv'
<1>1. core' = NewCore /\ UNCHANGED <<nvs, told>> /\ at' \in Resting
  BY DEF Crash, Resting
<1>2. ~NewCore.storageOk
  BY DEF NewCore
<1>3. Recording(core', nvs', told')
  BY <1>1, <1>2, NewCoreIsWritten DEF Recording
<1> QED
  BY <1>1, <1>3, RestsInHand DEF AnswerInv

LEMMA AnswerInitially == ASSUME Init PROVE AnswerInv
<1>1. core = NewCore /\ nvs = EmptyJournal /\ told = [c \in Commands |-> {}] /\ at = "off"
  BY DEF Init
<1>2. \A s \in Slots : nvs.records[s].cmd = 0 /\ CmdOf(core, s) = 0 /\ nvs.records[s].outcome = OutOf(core, s)
  BY <1>1 DEF NewCore, EmptyJournal, EmptyRecord, CmdOf, OutOf
<1>3. nvs.highest = 0 /\ core.journal = nvs /\ core.pending = NoSlot /\ core.program = NoSlot
  BY <1>1 DEF NewCore, EmptyJournal
<1>4. Listed(nvs) /\ Listed(core.journal)
  BY <1>2, <1>3 DEF Listed
<1>5. Open(core) /\ Behind(core, nvs)
  BY <1>2, <1>3 DEF Open, Behind
<1>6. Spoken(core, nvs, told)
  BY <1>1 DEF Spoken
<1>7. InHand
  BY <1>1 DEF InHand
<1> QED
  BY <1>3, <1>4, <1>5, <1>6, <1>7 DEF AnswerInv, Recording, Written

LEMMA AnswerKeeps == ASSUME PumpInv, OnceInv, AnswerInv, Next PROVE AnswerInv'
<1>1. CASE PowerOn \/ ConfirmEquipment
  BY <1>1, AnswerBoots
<1>2. CASE Crash
  BY <1>2, AnswerCrash
<1>3. CASE Issue \/ Refuses \/ MotorStops \/ DriveTrips
  BY <1>3, AnswerOutside
<1>4. CASE Replay \/ \E cmd \in Commands : ReceiveKnown(cmd)
  BY <1>4, AnswerAgain
<1>5. CASE AcceptDisplacing \/ \E cmd \in Commands : ReceiveNew(cmd)
  BY <1>5, AnswerAccepts
<1>6. CASE \E cmd \in Commands : ReceiveDisplacing(cmd)
  BY <1>6, AnswerDisplaces
<1>7. CASE ExamineFails \/ ActuateLate \/ ActuateUnlinked \/ TickVerifyTimedOut
  BY <1>7, AnswerFinishes
<1>8. CASE ExaminePasses
  BY <1>8, AnswerExamines
<1>9. CASE Actuate
  BY <1>9, AnswerActuates
<1>10. CASE TickStopRead
  BY <1>10, AnswerStops
<1>11. CASE TickCompleteProgram \/ ProgramUnstopped
  BY <1>11, AnswerCompletes
<1>12. CASE TickVerified
  BY <1>12, AnswerVerifies
<1>13. CASE ProgramStepEnds
  BY <1>13, AnswerStepEnds
<1>14. CASE Quiet
  BY <1>14, AnswerQuiet
<1> QED
  BY <1>1, <1>2, <1>3, <1>4, <1>5, <1>6, <1>7, <1>8, <1>9, <1>10, <1>11, <1>12, <1>13, <1>14
  DEF Next, Refuses, Quiet

LEMMA AnswerStutters == ASSUME AnswerInv, UNCHANGED vars PROVE AnswerInv'
BY DEF AnswerInv, Recording, Written, Listed, Open, Behind, Spoken, InHand, CmdHere, CmdOf, OutOf, vars

\* The inductive invariant of the three parts: what the drive may do, what has run and
\* what was answered.
CoreInv == PumpInv /\ OnceInv /\ AnswerInv

\* Whatever saves fail and wherever the power fails, RAM, flash and the answers of the
\* records that left agree: no record has two final answers, flash is never ahead of RAM,
\* and what a record told is what flash says for as long as it knows the command.  The
\* refusals, which no record keeps, are not among these answers.
THEOREM CoreInvariant == Spec => []CoreInv
<1>1. Init => CoreInv
  BY Initially, OnceInitially, AnswerInitially DEF CoreInv
<1>2. CoreInv /\ [Next]_vars => CoreInv'
  <2>1. CoreInv /\ Next => CoreInv'
    BY NextKeeps, OnceKeeps, AnswerKeeps DEF CoreInv
  <2>2. CoreInv /\ UNCHANGED vars => CoreInv'
    BY Stutters, OnceSame, AnswerStutters DEF CoreInv, vars
  <2> QED
    BY <2>1, <2>2
<1> QED
  BY <1>1, <1>2, PTL DEF Spec

\* The ledger gives no command two different final answers, not across a failed save, a
\* power failure, a repeated delivery or a replay.  A refusal is not of the ledger: it may
\* come before its answer, or after it when the record was evicted.
THEOREM AnswersAreFinal == Spec => []OneSavedAnswer
<1>1. ASSUME CoreInv, NEW c \in Commands
      PROVE  Cardinality(told[c] \ {"pending"}) <= 1
  <2> DEFINE said == told[c] \ {"pending"}
  <2>1. said = told[c] \cap Finals
    BY <1>1, AnswerFacts DEF CoreInv, ToldOK, Finals
  <2>2. \A o, p \in said : o = p
    BY <1>1, <2>1 DEF CoreInv, AnswerInv, Recording, Written, Spoken
  <2>3. CASE said = {}
    BY <2>3, FS_EmptySet
  <2>4. CASE said # {}
    <3>1. PICK o \in said : TRUE
      BY <2>4
    <3>2. said = {o}
      BY <2>2, <3>1
    <3> QED
      BY <3>2, FS_Singleton
  <2> QED
    BY <2>3, <2>4
<1>2. CoreInv => OneSavedAnswer
  BY <1>1 DEF OneSavedAnswer
<1> QED
  BY <1>2, CoreInvariant, PTL

-----------------------------------------------------------------------------
(* A program that succeeds.                                                *)

\* No record becomes a success.
Unrewarded ==
    \A s \in Slots : OutOf(core', s) = "succeeded" /\ CmdOf(core', s) = CmdOf(core, s) /\ CmdOf(core, s) # 0
                        => OutOf(core, s) = "succeeded"

Wholly ==
    \A s \in Slots :
        /\ CmdOf(core, s) # 0 /\ CmdOf(core', s) = CmdOf(core, s) /\ Type[CmdOf(core, s)] = "program"
        /\ OutOf(core, s) = "pending" /\ OutOf(core', s) = "succeeded"
        => RecordOf(core, s).steps = StepsOf[CmdOf(core, s)] /\ motor = "stopped"

LEMMA UnrewardedIsWhole == ASSUME Unrewarded PROVE Wholly
BY DEF Unrewarded, Wholly

LEMMA AlikeIsUnrewarded == ASSUME Alike(core, core') PROVE Unrewarded
BY DEF Alike, Unrewarded, OutOf

\* Finish settles one record.
LEMMA FinishSettles ==
  ASSUME NEW d \in Cores, d.journal.records = core.journal.records,
         NEW slot \in Slots, CmdOf(core, slot) \in Commands, NEW outcome \in Outcomes, NEW ok \in Verdicts,
         Alike(Finish(d, slot, outcome, ok), core')
  PROVE  \A s \in Slots : OutOf(core', s) = IF s = slot THEN outcome ELSE OutOf(core, s)
<1> DEFINE w == WithOutcome(d, slot, outcome)
           f == Finish(d, slot, outcome, ok)
<1>1. CmdOf(d, slot) \in Commands /\ ok \in BOOLEAN
  BY VerdictIsBoolean DEF CmdOf
<1>2. \A s \in Slots : OutOf(w, s) = IF s = slot THEN outcome ELSE OutOf(d, s)
  BY <1>1, OutcomeKeeps
<1>3. f.journal = w.journal /\ core'.journal = f.journal
  BY <1>1, FinishKeeps DEF Alike
<1> HIDE DEF w, f
<1>4. \A s \in Slots : OutOf(core', s) = OutOf(w, s) /\ OutOf(d, s) = OutOf(core, s)
  BY <1>3 DEF OutOf
<1> QED
  BY <1>2, <1>4

\* A command in hand that is given up: how its record ends, and from which core.
Given(d, slot, outcome, ok) ==
    /\ Modest(core, d) /\ d.journal = core.journal
    /\ CmdOf(core, slot) \in Commands
    /\ FinishEffects(d, slot, outcome, ok)
    /\ LET f == Finish(d, slot, outcome, ok) IN Alike(f, core') /\ Modest(f, core')

LEMMA GivenUp ==
  ASSUME PumpInv,
         \/ ExamineFails \/ ActuateLate \/ ActuateUnlinked \/ TickVerifyTimedOut
         \/ \E cmd \in Commands : ReceiveDisplacing(cmd)
  PROVE  \E d \in Cores, slot \in Slots, outcome \in {"failed", "unknown"}, ok \in Verdicts : Given(d, slot, outcome, ok)
<1>1. core \in Cores /\ Working
  BY CoreFacts
<1>2. at \in {"accepted", "prepared"} => cur \in Slots /\ CmdOf(core, cur) \in Commands
  BY <1>1 DEF Working, CmdHere
<1>3. core.pending # NoSlot => core.pending \in Slots /\ CmdOf(core, core.pending) \in Commands
  BY CoreFacts, SoundFacts
<1>4. PICK d \in {core, Disarm(core, "network_lost")}, slot \in {cur, core.pending},
           outcome \in {"failed", "unknown"}, ok \in Verdicts :
        /\ slot \in Slots /\ CmdOf(core, slot) \in Commands
        /\ FinishEffects(d, slot, outcome, ok)
        /\ LET f == Finish(d, slot, outcome, ok) IN
           \/ core' = f
           \/ core' = Disarm(f, "configuration_mismatch")
           \/ core' = RequestStop(f, "physical_result_unconfirmed")
  <2>1. CASE ExamineFails
    BY <1>2, <2>1 DEF ExamineFails
  <2>2. CASE ActuateLate
    BY <1>2, <2>2 DEF ActuateLate
  <2>3. CASE ActuateUnlinked
    BY <1>2, <2>3 DEF ActuateUnlinked
  <2>4. CASE TickVerifyTimedOut
    BY <1>3, <2>4 DEF TickVerifyTimedOut
  <2>5. CASE \E cmd \in Commands : ReceiveDisplacing(cmd)
    BY <1>3, <2>5 DEF ReceiveDisplacing, Displaces
  <2> QED
    BY <2>1, <2>2, <2>3, <2>4, <2>5
<1> DEFINE e == Disarm(core, "network_lost")
<1>5. Alike(core, e) /\ Modest(core, e) /\ Modest(core, core)
  BY <1>1, DisarmIsAlike, DisarmIsModest, ModestAlike
<1> HIDE DEF e
<1>6. d = core \/ d = e
  BY <1>4 DEF e
<1>7. Modest(core, d) /\ d.journal = core.journal /\ d \in Cores
  BY <1>1, <1>5, <1>6 DEF Alike
<1>8. CmdOf(d, slot) \in Commands /\ outcome \in Outcomes /\ ok \in BOOLEAN
  BY <1>4, <1>7, VerdictIsBoolean DEF CmdOf, Outcomes
<1> DEFINE f == Finish(d, slot, outcome, ok)
<1>9. f \in Cores
  BY <1>4, <1>7, <1>8, FinishKeeps
<1>10. \/ core' = f
       \/ core' = Disarm(f, "configuration_mismatch")
       \/ core' = RequestStop(f, "physical_result_unconfirmed")
  BY <1>4
<1> HIDE DEF f
<1>11. Alike(f, core')
  BY <1>9, <1>10, DisarmIsAlike, RequestStopIsAlike DEF Alike
<1>12. Modest(f, core')
  BY <1>9, <1>10, DisarmIsModest, RequestStopIsModest, ModestAlike
<1>13. Given(d, slot, outcome, ok)
  BY <1>4, <1>7, <1>11, <1>12 DEF Given, f
<1> QED
  BY <1>4, <1>7, <1>13

LEMMA FailureIsUnrewarded ==
  ASSUME PumpInv,
         \/ ExamineFails \/ ActuateLate \/ ActuateUnlinked \/ TickVerifyTimedOut
         \/ \E cmd \in Commands : ReceiveDisplacing(cmd)
  PROVE  Unrewarded
<1>1. PICK d \in Cores, slot \in Slots, outcome \in {"failed", "unknown"}, ok \in Verdicts : Given(d, slot, outcome, ok)
  BY GivenUp
<1>2. \A s \in Slots : OutOf(core', s) = IF s = slot THEN outcome ELSE OutOf(core, s)
  BY <1>1, FinishSettles DEF Given, Modest, Outcomes
<1> QED
  BY <1>2 DEF Unrewarded

\* Steps that save the journal, or write the drive, and settle no record.
LEMMA SavingIsUnrewarded ==
  ASSUME PumpInv, OnceInv, AnswerInv, TickStopRead \/ ExaminePasses \/ ProgramStepEnds \/ Actuate
  PROVE  Unrewarded
<1>1. core \in Cores
  BY AnswerFacts
<1>2. CASE TickStopRead
  <2> DEFINE h == Halted(core)
  <2>1. PICK ok \in Verdicts : core' = Saved(h, ok)
    BY <1>2 DEF TickStopRead
  <2>2. h \in Cores /\ h.journal.records = core.journal.records
    BY <1>1, HaltedKeeps
  <2> HIDE DEF h
  <2>3. core'.journal = h.journal
    BY <2>1, <2>2, VerdictIsBoolean, SavedKeeps
  <2> QED
    BY <2>2, <2>3 DEF Unrewarded, OutOf
<1>3. CASE ExaminePasses
  <2> DEFINE i == Intended(core, cur)
  <2>1. PICK ok \in Verdicts : core' = Saved(i, ok)
    BY <1>3 DEF ExaminePasses
  <2>2. i \in Cores /\ i.journal.records = core.journal.records
    BY <1>3, IntentIsWritten DEF ExaminePasses
  <2> HIDE DEF i
  <2>3. core'.journal = i.journal
    BY <2>1, <2>2, VerdictIsBoolean, SavedKeeps
  <2> QED
    BY <2>2, <2>3 DEF Unrewarded, OutOf
<1>4. CASE ProgramStepEnds
  <2> DEFINE n == [core EXCEPT !.journal.records[core.program].steps = @ + 1]
             last == StepsDone + 1 = StepsOf[RecordOf(core, core.program).cmd]
  <2>1. PICK ok \in Verdicts, fit \in BOOLEAN, linkValid \in BOOLEAN :
          core' = LET s == Saved(n, ok) IN
                  IF ~s.storageOk THEN s
                  ELSE IF last THEN RequestStop(s, "completed")
                  ELSE StepBegun(s, fit, linkValid)
    BY <1>4 DEF ProgramStepEnds
  <2>2. core.program \in Slots /\ CmdOf(core, core.program) \in Commands
    BY <1>4, CoreFacts, SoundFacts DEF ProgramStepEnds, InPhase
  <2>3. n \in Cores /\ Recorded(core, n, {})
    BY <1>1, <2>2, StepKeeps
  <2> HIDE DEF n, last
  <2> DEFINE t == Saved(n, ok)
  <2>4. t \in Cores /\ t.journal = n.journal
    BY <2>3, VerdictIsBoolean, SavedKeeps
  <2>5. core' = t \/ core' = RequestStop(t, "completed") \/ core' = StepBegun(t, fit, linkValid)
    BY <2>1
  <2> HIDE DEF t
  <2>6. core'.journal = n.journal
    BY <2>4, <2>5, RequestStopIsAlike, StepBegunIsAlike DEF Alike
  <2> QED
    BY <2>3, <2>6 DEF Recorded, Unrewarded, OutOf
<1>5. CASE Actuate
  <2>1. core'.journal = core.journal
    BY <1>1, <1>5 DEF Actuate, Cores
  <2> QED
    BY <2>1 DEF Unrewarded, OutOf
<1> QED
  BY <1>2, <1>3, <1>4, <1>5

\* A record that is accepted is pending or failed.
LEMMA AcceptedIsUnrewarded ==
  ASSUME PumpInv, OnceInv, AnswerInv, AcceptDisplacing \/ \E cmd \in Commands : ReceiveNew(cmd)
  PROVE  Unrewarded
<1>1. PICK cmd \in Commands : Accept(cmd)
  <2>1. CASE AcceptDisplacing
    BY <2>1, CoreFacts DEF AcceptDisplacing, Working
  <2>2. CASE \E cmd \in Commands : ReceiveNew(cmd)
    BY <2>2 DEF ReceiveNew
  <2> QED
    BY <2>1, <2>2
<1> DEFINE r == WithRecord(core, cmd)
<1>2. PICK ok \in Verdicts : core' = Saved(r, ok)
  BY <1>1 DEF Accept
<1>3. core \in Cores
  BY AnswerFacts
<1>4. r \in Cores
  BY RecordedIsSafe, CoreFacts
<1>5. \A s \in Slots : OutOf(r, s) = IF s = Slot(core) THEN AcceptedOutcome(core, cmd) ELSE OutOf(core, s)
  BY <1>3, RecordIsNew
<1> HIDE DEF r
<1>6. core'.journal = r.journal
  BY <1>2, <1>4, VerdictIsBoolean, SavedKeeps
<1> QED
  BY <1>5, <1>6 DEF Unrewarded, OutOf, AcceptedOutcome

\* Reading the journal again: what flash calls a success is one in RAM.
LEMMA BeginIsUnrewarded ==
  ASSUME PumpInv, OnceInv, AnswerInv, PowerOn \/ ConfirmEquipment
  PROVE  Unrewarded
<1>1. /\ core \in Cores /\ nvs \in Journals /\ Behind(core, nvs) /\ Sound(core) /\ Sound(NewCore)
  BY CoreFacts, AnswerFacts, NewCoreIsSound DEF Written
<1>2. PICK c \in {core, NewCore} : BeginsBusy(c) \/ BeginsBlank \/ BeginsAgain
  BY <1>1, BeginCases DEF PowerOn, ConfirmEquipment
<1>3. CASE BeginsBusy(c)
  <2>1. \A s \in Slots : CmdOf(NewCore, s) = 0
    BY DEF CmdOf, NewCore, EmptyJournal, EmptyRecord
  <2> QED
    BY <1>2, <1>3, <2>1 DEF BeginsBusy, Unrewarded
<1>4. CASE BeginsBlank
  <2>1. \A s \in Slots : CmdOf(core', s) = 0
    BY <1>4 DEF BeginsBlank, CmdOf, EmptyJournal, EmptyRecord
  <2> QED
    BY <2>1 DEF Unrewarded
<1>5. CASE BeginsAgain
  <2>1. \A s \in Slots : CmdOf(core', s) = nvs.records[s].cmd
                         /\ (OutOf(core', s) = "succeeded" => nvs.records[s].outcome = "succeeded")
    BY <1>1, <1>5, InterruptedRecords DEF BeginsAgain, CmdOf, OutOf
  <2> QED
    BY <1>1, <2>1 DEF Behind, Unrewarded
<1> QED
  BY <1>2, <1>3, <1>4, <1>5


\* What is verified is a command of its own, never a program.
LEMMA VerifiedIsWhole == ASSUME PumpInv, OnceInv, AnswerInv, TickVerified PROVE Wholly
<1> DEFINE h == IF TypeOf(core, core.pending) = "stop" THEN Halted(core) ELSE core
<1>1. PICK ok \in Verdicts : core' = Finish(h, core.pending, "succeeded", ok)
  BY DEF TickVerified
<1>2. core \in Cores /\ Open(core) /\ core.pending # NoSlot
  BY AnswerFacts DEF TickVerified
<1>3. core.pending \in Slots /\ CmdOf(core, core.pending) \in Commands
  BY CoreFacts, SoundFacts DEF TickVerified
<1>4. h \in Cores /\ h.journal.records = core.journal.records
  BY <1>2, HaltedKeeps
<1> HIDE DEF h
<1>5. CmdOf(h, core.pending) \in Commands /\ "succeeded" \in Outcomes
  BY <1>3, <1>4 DEF CmdOf, Outcomes
<1>6. Alike(Finish(h, core.pending, "succeeded", ok), core')
  BY <1>1, <1>3, <1>4, <1>5, VerdictIsBoolean, FinishKeeps DEF Alike
<1>7. \A s \in Slots : OutOf(core', s) = IF s = core.pending THEN "succeeded" ELSE OutOf(core, s)
  BY <1>3, <1>4, <1>5, <1>6, FinishSettles
<1> QED
  BY <1>2, <1>7 DEF Open, Wholly

\* A program succeeds when it has come to its end by itself, after its last step, and its
\* STOP was read back.
LEMMA CompletedIsWhole ==
  ASSUME PumpInv, OnceInv, AnswerInv, TickCompleteProgram \/ ProgramUnstopped
  PROVE  Wholly
<1>1. core.program # NoSlot
  BY CoreFacts DEF Working, TickCompleteProgram, ProgramUnstopped, InPhase
<1>2. core.program \in Slots /\ CmdOf(core, core.program) \in Commands /\ core \in Cores
  BY <1>1, CoreFacts, SoundFacts
<1>3. PICK stopConfirmed \in BOOLEAN : CompleteProgram(stopConfirmed) /\ (stopConfirmed => at \in {"cleared", "verified"})
  BY DEF TickCompleteProgram, ProgramUnstopped
<1> DEFINE p == [core EXCEPT !.program = NoSlot, !.phase = "idle", !.cause = "none"]
           d == IF stopConfirmed THEN p ELSE Disarm(p, "physical_result_unconfirmed")
           outcome == ProgramOutcome(core, stopConfirmed)
<1>4. PICK ok \in Verdicts : core' = Finish(d, core.program, outcome, ok)
  BY <1>3 DEF CompleteProgram
<1>5. /\ outcome \in Outcomes
      /\ outcome = "succeeded" => stopConfirmed /\ core.cause = "completed"
  BY DEF ProgramOutcome, Succeeds, Outcomes
<1>6. p \in Cores /\ p.journal = core.journal
  BY <1>2 DEF Cores, Phases
<1> HIDE DEF outcome, p
<1>7. d \in Cores /\ d.journal.records = core.journal.records
  BY <1>6, DisarmIsAlike DEF Alike
<1> HIDE DEF d
<1>8. CmdOf(d, core.program) \in Commands
  BY <1>2, <1>7 DEF CmdOf
<1>9. Alike(Finish(d, core.program, outcome, ok), core')
  BY <1>2, <1>4, <1>5, <1>7, <1>8, VerdictIsBoolean, FinishKeeps DEF Alike
<1>10. \A s \in Slots : OutOf(core', s) = IF s = core.program THEN outcome ELSE OutOf(core, s)
  BY <1>2, <1>5, <1>7, <1>9, FinishSettles
<1>11. outcome = "succeeded" =>
          /\ RecordOf(core, core.program).steps = StepsOf[CmdOf(core, core.program)]
          /\ motor = "stopped"
  BY <1>1, <1>3, <1>5, AnswerFacts DEF OnceInv, Numbered, InHand
<1> QED
  BY <1>10, <1>11 DEF Wholly

LEMMA StepsAreWhole == ASSUME PumpInv, OnceInv, AnswerInv, Next PROVE Wholly
<1>1. core \in Cores /\ issued \in Nat
  BY AnswerFacts, CoreFacts, CoreAssumption DEF Shape
<1>2. CASE \/ ExamineFails \/ ActuateLate \/ ActuateUnlinked \/ TickVerifyTimedOut
           \/ \E cmd \in Commands : ReceiveDisplacing(cmd)
  BY <1>2, FailureIsUnrewarded, UnrewardedIsWhole
<1>3. CASE TickStopRead \/ ExaminePasses \/ ProgramStepEnds \/ Actuate
  BY <1>3, SavingIsUnrewarded, UnrewardedIsWhole
<1>4. CASE AcceptDisplacing \/ \E cmd \in Commands : ReceiveNew(cmd)
  BY <1>4, AcceptedIsUnrewarded, UnrewardedIsWhole
<1>5. CASE PowerOn \/ ConfirmEquipment
  BY <1>5, BeginIsUnrewarded, UnrewardedIsWhole
<1>6. CASE Quiet
  BY <1>1, <1>6, QuietIsAlike, AlikeIsUnrewarded, UnrewardedIsWhole
<1>7. CASE TickVerified
  BY <1>7, VerifiedIsWhole
<1>8. CASE TickCompleteProgram \/ ProgramUnstopped
  BY <1>8, CompletedIsWhole
<1>9. CASE Crash
  <2>1. \A s \in Slots : CmdOf(core', s) = 0
    BY <1>9 DEF Crash, CmdOf, NewCore, EmptyJournal, EmptyRecord
  <2> QED
    BY <2>1 DEF Wholly
<1>10. CASE Issue \/ Refuses \/ MotorStops \/ DriveTrips \/ Replay \/ \E cmd \in Commands : ReceiveKnown(cmd)
  <2>1. core' = core
    BY <1>10 DEF Issue, Refuses, ReceiveRefused, MotorStops, DriveTrips, Replay, ReceiveKnown
  <2> QED
    BY <2>1 DEF Wholly, OutOf
<1> QED
  BY <1>2, <1>3, <1>4, <1>5, <1>6, <1>7, <1>8, <1>9, <1>10 DEF Next, Refuses, Quiet

\* A program is reported as succeeded only when every step was held and the motor was read
\* to be at rest: not one that was cut short and stopped, not one found after a power failure.
THEOREM ProgramsSucceedWhole == Spec => SuccessIsWhole
<1>1. CoreInv /\ [Next]_vars => [Wholly]_vars
  BY StepsAreWhole DEF CoreInv
<1>2. Spec => [][Wholly]_vars
  BY <1>1, CoreInvariant, PTL DEF Spec
<1>3. Wholly => \A s \in Slots :
        LET old == RecordOf(core, s)
            new == RecordOf(core', s) IN
        /\ old.cmd # 0 /\ new.cmd = old.cmd /\ Type[old.cmd] = "program"
        /\ old.outcome = "pending" /\ new.outcome = "succeeded"
        => old.steps = StepsOf[old.cmd] /\ motor = "stopped"
  BY DEF Wholly, RecordOf, CmdOf, OutOf
<1> QED
  BY <1>2, <1>3, PTL DEF SuccessIsWhole


-----------------------------------------------------------------------------
(* A Stop outranks the commands with a lower number.                       *)

\* While a program has not come to its end, no Stop above it is acknowledged or recorded as
\* pending but the one that receive is about to carry out.
RankInv ==
    core.program # NoSlot /\ core.phase # "stopping" =>
        \A s \in Commands : Type[s] = "stop" /\ s > CmdOf(core, core.program) =>
            /\ told[s] \cap {"pending", "failed"} = {"pending"} => at = "accepted" /\ CmdHere = s
            /\ \A x \in Slots : CmdOf(core, x) = s /\ OutOf(core, x) = "pending" => at = "accepted" /\ x = cur

\* What was told stays told, and pending is told of a record that is pending.
Repeats ==
    \A c \in Commands :
        /\ told[c] \subseteq told'[c]
        /\ "pending" \in told'[c] =>
              "pending" \in told[c] \/ \E x \in Slots : CmdOf(core, x) = c /\ OutOf(core, x) = "pending"

\* A step that takes no command and begins no program.
Onwards ==
    /\ core'.program = core.program
    /\ core'.program # NoSlot /\ core'.phase # "stopping" => core.phase # "stopping"
    /\ \A s \in Slots : /\ CmdOf(core', s) = CmdOf(core, s)
                        /\ OutOf(core', s) = "pending" => OutOf(core, s) = "pending"
    /\ Repeats

\* The Stop that is being taken is carried out, or is answered as failed.
LEMMA RankStays ==
  ASSUME PumpInv, RankInv, Onwards,
         at = "accepted" => "failed" \in told'[CmdHere] /\ OutOf(core', cur) # "pending"
  PROVE  RankInv'
<1> SUFFICES ASSUME core'.program # NoSlot, core'.phase # "stopping",
                    NEW s \in Commands, Type[s] = "stop", s > CmdOf(core', core'.program)
             PROVE  /\ told'[s] \cap {"pending", "failed"} # {"pending"}
                    /\ \A x \in Slots : CmdOf(core', x) = s => OutOf(core', x) # "pending"
  BY DEF RankInv
<1>1. /\ core.program # NoSlot /\ core.phase # "stopping" /\ core'.program = core.program
      /\ \A x \in Slots : /\ CmdOf(core', x) = CmdOf(core, x)
                          /\ OutOf(core', x) = "pending" => OutOf(core, x) = "pending"
  BY DEF Onwards
<1>2. core.program \in Slots
  BY <1>1, SoundFacts, CoreFacts
<1>3. CmdOf(core', core'.program) = CmdOf(core, core.program)
  BY <1>1, <1>2
<1>4. /\ told[s] \cap {"pending", "failed"} = {"pending"} => at = "accepted" /\ CmdHere = s
      /\ \A x \in Slots : CmdOf(core, x) = s /\ OutOf(core, x) = "pending" => at = "accepted" /\ x = cur
  BY <1>1, <1>3 DEF RankInv
<1>5. \A x \in Slots : CmdOf(core', x) = s => OutOf(core', x) # "pending"
  BY <1>1, <1>4
<1>6. ASSUME told'[s] \cap {"pending", "failed"} = {"pending"}
      PROVE  FALSE
  <2>1. "pending" \in told'[s] /\ "failed" \notin told'[s]
    BY <1>6
  <2>2. at = "accepted" => CmdHere # s
    BY <2>1
  <2>3. CASE "pending" \in told[s]
    <3>1. "failed" \notin told[s]
      BY <2>1 DEF Onwards, Repeats
    <3> QED
      BY <1>4, <2>2, <2>3, <3>1
  <2>4. CASE "pending" \notin told[s]
    <3>1. PICK x \in Slots : CmdOf(core, x) = s /\ OutOf(core, x) = "pending"
      BY <2>1, <2>4 DEF Onwards, Repeats
    <3> QED
      BY <1>4, <2>2, <3>1 DEF CmdHere
  <2> QED
    BY <2>3, <2>4
<1> QED
  BY <1>5, <1>6

\* A program without a permission is being stopped.
LEMMA UnarmedIsRanked == ASSUME PumpInv', ~core'.armed PROVE RankInv'
BY DEF PumpInv, Safe, Sound, RankInv

LEMMA SilenceRepeats == ASSUME told' = told PROVE Repeats
BY DEF Repeats

LEMMA FinishRepeats ==
  ASSUME ToldOK, NEW d, NEW slot, NEW outcome, outcome # "pending", NEW ok, FinishEffects(d, slot, outcome, ok)
  PROVE  Repeats
<1>1. told' = told \/ told' = [told EXCEPT ![CmdOf(d, slot)] = @ \cup {outcome}]
  BY DEF FinishEffects, CmdOf
<1> QED
  BY <1>1 DEF Repeats, ToldOK

LEMMA ModestGoesOn ==
  ASSUME core \in Cores, Modest(core, core'), Repeats,
         \A s \in Slots : OutOf(core', s) = "pending" => OutOf(core, s) = "pending"
  PROVE  Onwards
BY DEF Modest, Onwards

\* A command that ends, with the answer in the slot.
LEMMA FinishGoesOn ==
  ASSUME core \in Cores, ToldOK, NEW d, Modest(core, d), d.journal.records = core.journal.records,
         NEW slot \in Slots, CmdOf(core, slot) \in Commands,
         NEW outcome \in Outcomes, outcome # "pending", NEW ok \in Verdicts,
         FinishEffects(d, slot, outcome, ok),
         Alike(Finish(d, slot, outcome, ok), core'), Modest(Finish(d, slot, outcome, ok), core')
  PROVE  Onwards
<1> DEFINE f == Finish(d, slot, outcome, ok)
<1>1. d \in Cores /\ CmdOf(d, slot) \in Commands /\ ok \in BOOLEAN
  BY VerdictIsBoolean DEF Modest, CmdOf
<1>2. Modest(d, f)
  BY <1>1, FinishIsModest
<1>3. Modest(core, core')
  BY <1>2, ModestYet
<1>4. \A s \in Slots : OutOf(core', s) = IF s = slot THEN outcome ELSE OutOf(core, s)
  BY <1>1, FinishSettles
<1>5. Repeats
  BY FinishRepeats
<1> QED
  BY <1>3, <1>4, <1>5, ModestGoesOn


LEMMA FailureGoesOn ==
  ASSUME PumpInv,
         \/ ExamineFails \/ ActuateLate \/ ActuateUnlinked \/ TickVerifyTimedOut
         \/ \E cmd \in Commands : ReceiveDisplacing(cmd)
  PROVE  Onwards
<1>1. PICK d \in Cores, slot \in Slots, outcome \in {"failed", "unknown"}, ok \in Verdicts : Given(d, slot, outcome, ok)
  BY GivenUp
<1>2. outcome \in Outcomes /\ outcome # "pending" /\ core \in Cores /\ ToldOK
  BY CoreFacts DEF Outcomes
<1> QED
  BY <1>1, <1>2, FinishGoesOn DEF Given

LEMMA VerifiedGoesOn == ASSUME PumpInv, TickVerified PROVE Onwards
<1> DEFINE h == IF TypeOf(core, core.pending) = "stop" THEN Halted(core) ELSE core
           f(ok) == Finish(h, core.pending, "succeeded", ok)
<1>1. PICK ok \in Verdicts : core' = f(ok) /\ FinishEffects(h, core.pending, "succeeded", ok)
  BY DEF TickVerified
<1>2. core \in Cores /\ ToldOK /\ core.pending \in Slots /\ CmdOf(core, core.pending) \in Commands
  BY CoreFacts, SoundFacts DEF TickVerified
<1>3. Modest(core, h) /\ h.journal.records = core.journal.records
  BY <1>2, HaltedKeeps, HaltedIsModest, ModestAlike
<1> HIDE DEF h
<1>4. h \in Cores /\ CmdOf(h, core.pending) \in Commands /\ ok \in BOOLEAN /\ "succeeded" \in Outcomes
  BY <1>2, <1>3, VerdictIsBoolean DEF Modest, Outcomes
<1>5. f(ok) \in Cores
  BY <1>2, <1>4, FinishKeeps
<1>6. Alike(f(ok), core') /\ Modest(f(ok), core')
  BY <1>1, <1>5, ModestAlike DEF Alike
<1> QED
  BY <1>1, <1>2, <1>3, <1>4, <1>6, FinishGoesOn

LEMMA StopReadGoesOn == ASSUME PumpInv, TickStopRead PROVE Onwards
<1> DEFINE h == Halted(core)
<1>1. PICK ok \in Verdicts : core' = Saved(h, ok)
  BY DEF TickStopRead
<1>2. core \in Cores /\ told' = told
  BY CoreFacts DEF TickStopRead
<1>3. Modest(core, h) /\ h \in Cores /\ h.journal.records = core.journal.records
  BY <1>2, HaltedKeeps, HaltedIsModest
<1> HIDE DEF h
<1>4. Modest(h, core') /\ core'.journal = h.journal
  BY <1>1, <1>3, VerdictIsBoolean, SavedIsModest, SavedKeeps
<1>5. Modest(core, core')
  BY <1>3, <1>4, ModestYet
<1> QED
  BY <1>2, <1>3, <1>4, <1>5, SilenceRepeats, ModestGoesOn DEF OutOf

LEMMA StepGoesOn == ASSUME PumpInv, ProgramStepEnds PROVE Onwards
<1> DEFINE n == [core EXCEPT !.journal.records[core.program].steps = @ + 1]
           last == StepsDone + 1 = StepsOf[RecordOf(core, core.program).cmd]
<1>1. PICK ok \in Verdicts, fit \in BOOLEAN, linkValid \in BOOLEAN :
        core' = LET s == Saved(n, ok) IN
                IF ~s.storageOk THEN s
                ELSE IF last THEN RequestStop(s, "completed")
                ELSE StepBegun(s, fit, linkValid)
  BY DEF ProgramStepEnds
<1>2. core.program \in Slots /\ CmdOf(core, core.program) \in Commands /\ core \in Cores
  BY CoreFacts, SoundFacts DEF ProgramStepEnds, InPhase
<1>3. n \in Cores /\ Recorded(core, n, {}) /\ n.program = core.program
  BY <1>2, StepKeeps
<1> HIDE DEF n, last
<1> DEFINE t == Saved(n, ok)
<1>4. t \in Cores /\ t.journal = n.journal /\ t.program = n.program
  BY <1>3, VerdictIsBoolean, SavedKeeps
<1>5. core' = t \/ core' = RequestStop(t, "completed") \/ core' = StepBegun(t, fit, linkValid)
  BY <1>1
<1> HIDE DEF t
<1>6. core'.journal = n.journal /\ core'.program = core.program
  BY <1>3, <1>4, <1>5, RequestStopIsAlike, StepBegunIsAlike DEF Alike
<1>7. core.phase # "stopping" /\ told' = told
  BY DEF ProgramStepEnds, InPhase
<1> QED
  BY <1>3, <1>6, <1>7, SilenceRepeats DEF Recorded, Onwards, CmdOf, OutOf

LEMMA ActuateGoesOn == ASSUME PumpInv, Actuate PROVE Onwards
<1>1. core' = [core EXCEPT !.pending = cur] /\ told' = told /\ core \in Cores
  BY CoreFacts DEF Actuate
<1>2. core'.journal = core.journal /\ core'.program = core.program /\ core'.phase = core.phase
  BY <1>1 DEF Cores
<1> QED
  BY <1>1, <1>2, SilenceRepeats DEF Onwards, CmdOf, OutOf

LEMMA QuietGoesOn == ASSUME PumpInv, Quiet PROVE Onwards /\ at # "accepted"
<1>1. core \in Cores /\ issued \in Nat
  BY CoreFacts, CoreAssumption DEF Shape
<1>2. core'.journal = core.journal /\ core'.program = core.program
  BY <1>1, QuietIsAlike DEF Alike
<1>3. core'.program # NoSlot /\ core'.phase # "stopping" => core.phase # "stopping"
  <2>1. CASE \/ TickVerifyNothing \/ ProgramTrouble \/ ProgramUnlinked \/ ProgramNothing
             \/ SampleTrouble \/ LocalDisarm \/ TickStopUnread
    BY <2>1, WithdrawalsAreModest DEF Modest
  <2>2. CASE RestorePermission \/ TickGuard \/ LocalArm \/ GrantChanges \/ TickNetwork
    BY <2>2, PermissionsAreModest DEF Modest
  <2>3. CASE ActuateProgram
    BY <2>3, CoreFacts DEF ActuateProgram, Working, TypeOf, RecordOf, CmdHere, CmdOf
  <2>4. CASE ProgramHolds \/ ProgramStart
    BY <2>4 DEF ProgramHolds, ProgramStart, InPhase
  <2> QED
    BY <2>1, <2>2, <2>3, <2>4 DEF Quiet
<1>4. told' = told /\ at # "accepted"
  BY DEF Quiet, TickVerifyNothing, ProgramTrouble, ProgramUnlinked, ProgramNothing, SampleTrouble,
     LocalDisarm, TickStopUnread, ActuateProgram, ProgramHolds, ProgramStart, RestorePermission,
     TickGuard, LocalArm, GrantChanges, TickNetwork, InPhase
<1> QED
  BY <1>2, <1>3, <1>4, SilenceRepeats DEF Onwards, CmdOf, OutOf

LEMMA AgainGoesOn ==
  ASSUME PumpInv, Replay \/ \E cmd \in Commands : ReceiveKnown(cmd)
  PROVE  Onwards /\ at # "accepted"
<1>1. core' = core /\ at = "loop" /\ ToldOK
  BY CoreFacts DEF Replay, ReceiveKnown
<1>2. Repeats
  <2>1. CASE Replay
    BY <2>1 DEF Replay, Repeats, CmdOf, OutOf, RecordOf
  <2>2. CASE \E cmd \in Commands : ReceiveKnown(cmd)
    <3>1. PICK cmd \in Commands, s \in Slots :
            /\ CmdOf(core, s) = cmd
            /\ told' = [told EXCEPT ![cmd] = @ \cup {OutOf(core, s)}]
      BY <2>2 DEF ReceiveKnown, CmdOf, OutOf, RecordOf
    <3>2. ASSUME NEW c \in Commands
          PROVE  told'[c] = IF c = cmd THEN told[c] \cup {OutOf(core, s)} ELSE told[c]
      BY <1>1, <3>1 DEF ToldOK
    <3> QED
      BY <3>1, <3>2 DEF Repeats
  <2> QED
    BY <2>1, <2>2
<1> QED
  BY <1>1, <1>2 DEF Onwards, CmdOf, OutOf


\* What a command prepares: only the program that begins is not being stopped.
LEMMA IntentIsRanked ==
  ASSUME PumpInv, OnceInv, AnswerInv, at = "accepted"
  PROVE  LET i == Intended(core, cur) IN i.program # NoSlot /\ i.phase # "stopping" => i.program = cur
<1> DEFINE i == Intended(core, cur)
           m == [core EXCEPT !.journal.motionPossible = TRUE]
<1>1. /\ core \in Cores /\ cur \in Slots /\ CmdHere \in Commands
      /\ Type[CmdHere] # "stop" => core.program = NoSlot
  BY CoreFacts DEF Working
<1>2. TypeOf(core, cur) = Type[CmdHere] /\ Type[CmdHere] \in Types
  BY <1>1, CoreAssumption DEF TypeOf, RecordOf, CmdHere, CmdOf
<1>3. m \in Cores /\ m.program = core.program
  <2> DEFINE j == [core.journal EXCEPT !.motionPossible = TRUE]
  <2>1. j \in Journals
    BY <1>1 DEF Cores, Journals
  <2>2. m = [core EXCEPT !.journal = j]
    OBVIOUS
  <2> HIDE DEF j
  <2> QED
    BY <1>1, <2>1, <2>2 DEF Cores
<1>4. CASE Type[CmdHere] \in {"start", "frequency"}
  <2>1. i = core \/ i = m
    BY <1>2, <1>4 DEF Intended
  <2> HIDE DEF i, m
  <2> QED
    BY <1>1, <1>3, <1>4, <2>1 DEF i
<1>5. CASE Type[CmdHere] = "stop"
  <2>1. i = RequestStop(m, "command")
    BY <1>2, <1>5 DEF Intended
  <2> HIDE DEF i, m
  <2> QED
    BY <1>3, <2>1, RequestStopMakes DEF i
<1>6. CASE Type[CmdHere] = "program"
  <2>1. i = [m EXCEPT !.program = cur, !.phase = "idle", !.cause = "none"]
    BY <1>2, <1>6 DEF Intended
  <2> HIDE DEF i, m
  <2>2. i.program = cur
    BY <1>3, <2>1 DEF Cores
  <2> QED
    BY <2>2 DEF i
<1> QED
  BY <1>2, <1>4, <1>5, <1>6 DEF Types

\* A program that begins has the highest number there is.
LEMMA RankExamines ==
  ASSUME PumpInv, OnceInv, AnswerInv, ExaminePasses, PumpInv'
  PROVE  RankInv'
<1> DEFINE i == Intended(core, cur)
<1>1. PICK ok \in Verdicts : core' = Saved(i, ok)
  BY DEF ExaminePasses
<1>2. at = "accepted" /\ told' = told
  BY DEF ExaminePasses
<1>3. /\ i \in Cores /\ i.journal.records = core.journal.records
      /\ i.program # NoSlot /\ i.phase # "stopping" => i.program = cur
  BY <1>2, IntentIsWritten, IntentIsRanked
<1> HIDE DEF i
<1>4. CASE ~core'.armed
  BY <1>4, UnarmedIsRanked
<1>5. CASE core'.armed
  <2>1. ok /\ i.writable
    BY <1>1, <1>3, <1>5, SaveOrDisarm, VerdictIsBoolean
  <2>2. core' = [i EXCEPT !.storageOk = TRUE]
    BY <1>1, <2>1 DEF Saved
  <2>3. core'.journal = i.journal /\ core'.program = i.program /\ core'.phase = i.phase
    BY <1>3, <2>2 DEF Cores
  <2>4. \A x \in Slots : CmdOf(core', x) = CmdOf(core, x)
    BY <1>3, <2>3 DEF CmdOf
  <2>5. /\ CmdHere = nvs.highest /\ CmdHere = core.journal.highest /\ cur \in Slots
        /\ CmdHere \in Nat /\ core.journal \in Journals
    BY <1>2, AnswerFacts DEF InHand, Working, Commands
  <2>6. \A x \in Slots : CmdOf(core, x) <= CmdHere /\ CmdOf(core, x) \in Nat
    BY <2>5, AnswerFacts, JournalFacts DEF Written, Listed, CmdOf
  <2>7. \A s \in Commands : s \in Nat /\ (s > CmdHere => told[s] = {})
    BY <2>5, AnswerFacts DEF Written, Spoken, Commands
  <2>8. core'.program # NoSlot /\ core'.phase # "stopping" => CmdOf(core', core'.program) = CmdHere
    BY <1>3, <2>3, <2>4, <2>5 DEF CmdHere
  <2>9. ASSUME NEW s \in Commands, s > CmdHere
        PROVE  told'[s] = {} /\ \A x \in Slots : CmdOf(core', x) # s
    BY <1>2, <2>4, <2>5, <2>6, <2>7, <2>9
  <2> QED
    BY <2>8, <2>9 DEF RankInv
<1> QED
  BY <1>4, <1>5

LEMMA RankAccepting ==
  ASSUME PumpInv, OnceInv, AnswerInv, RankInv, core.storageOk, at # "accepted",
         NEW cmd \in Commands, cmd > core.journal.highest, Accept(cmd), PumpInv'
  PROVE  RankInv'
<1> DEFINE r == WithRecord(core, cmd)
           outcome == AcceptedOutcome(core, cmd)
           slot == Slot(core)
<1>1. PICK ok \in Verdicts :
        /\ core' = Saved(r, ok)
        /\ told' = IF Saved(r, ok).storageOk THEN [told EXCEPT ![cmd] = @ \cup {outcome}] ELSE told
        /\ Saved(r, ok).storageOk /\ outcome = "pending" => at' = "accepted" /\ cur' = slot
  BY DEF Accept
<1>2. core \in Cores /\ core.writable /\ ToldOK /\ core.journal.highest \in Nat
      /\ nvs.highest \in Nat /\ core.journal.highest >= nvs.highest
  BY AnswerFacts, JournalFacts
<1>3. r \in Cores
  BY RecordedIsSafe, CoreFacts
<1>4. /\ slot \in Slots /\ slot \notin Active(core)
      /\ \A s \in Slots : /\ CmdOf(r, s) = IF s = slot THEN cmd ELSE CmdOf(core, s)
                          /\ OutOf(r, s) = IF s = slot THEN outcome ELSE OutOf(core, s)
      /\ r.program = core.program /\ r.writable = core.writable
  BY <1>2, RecordIsNew
<1>5. r.phase = core.phase
  BY <1>2 DEF WithRecord, Cores
<1> HIDE DEF r, slot, outcome
<1>6. CASE ~core'.armed
  BY <1>6, UnarmedIsRanked
<1>7. CASE core'.armed
  <2>1. ok /\ core'.storageOk
    BY <1>1, <1>3, <1>7, SaveOrDisarm, VerdictIsBoolean, SavedKeeps
  <2>2. core' = [r EXCEPT !.storageOk = TRUE]
    BY <1>1, <1>3, <2>1, VerdictIsBoolean, SavedIsCalm
  <2>3. core'.journal = r.journal /\ core'.program = core.program /\ core'.phase = core.phase
    BY <1>3, <1>4, <1>5, <2>2 DEF Cores
  <2>4. \A x \in Slots : /\ CmdOf(core', x) = IF x = slot THEN cmd ELSE CmdOf(core, x)
                         /\ OutOf(core', x) = IF x = slot THEN outcome ELSE OutOf(core, x)
    BY <1>4, <2>3 DEF CmdOf, OutOf
  <2>5. told' = [told EXCEPT ![cmd] = @ \cup {outcome}] /\ (outcome = "pending" => at' = "accepted" /\ cur' = slot)
    BY <1>1, <2>1
  <2>6. cmd \in Nat /\ told[cmd] = {} /\ \A x \in Slots : CmdOf(core, x) # cmd
    <3>1. cmd \in Nat /\ cmd > nvs.highest
      BY <1>2 DEF Commands
    <3>2. told[cmd] = {}
      BY <1>2, <3>1, AnswerFacts DEF Written, Spoken
    <3>3. \A x \in Slots : CmdOf(core, x) \in Nat /\ CmdOf(core, x) <= core.journal.highest
      BY AnswerFacts, JournalFacts DEF Written, Listed, CmdOf
    <3> QED
      BY <1>2, <3>1, <3>2, <3>3
  <2> SUFFICES ASSUME core'.program # NoSlot, core'.phase # "stopping",
                      NEW s \in Commands, Type[s] = "stop", s > CmdOf(core', core'.program)
               PROVE  /\ told'[s] \cap {"pending", "failed"} = {"pending"} => at' = "accepted" /\ CmdHere' = s
                      /\ \A x \in Slots : CmdOf(core', x) = s /\ OutOf(core', x) = "pending"
                                             => at' = "accepted" /\ x = cur'
    BY DEF RankInv
  <2>7. core.program \in Slots /\ core.program # slot
    BY <1>2, <1>4, <2>3 DEF Active, Cores
  <2>8. CmdOf(core', core'.program) = CmdOf(core, core.program)
    BY <2>3, <2>4, <2>7
  <2>9. /\ told[s] \cap {"pending", "failed"} # {"pending"}
        /\ \A x \in Slots : CmdOf(core, x) = s => OutOf(core, x) # "pending"
    BY <2>3, <2>8 DEF RankInv
  <2>10. CASE s = cmd
    <3>1. told'[s] = {outcome}
      BY <1>2, <2>5, <2>6, <2>10 DEF ToldOK
    <3>2. outcome = "pending" => CmdHere' = cmd
      BY <1>4, <2>4, <2>5 DEF CmdHere
    <3> QED
      BY <2>4, <2>5, <2>6, <2>10, <3>1, <3>2
  <2>11. CASE s # cmd
    <3>1. told'[s] = told[s]
      BY <1>2, <2>5, <2>11 DEF ToldOK
    <3> QED
      BY <2>4, <2>9, <2>11, <3>1
  <2> QED
    BY <2>10, <2>11
<1> QED
  BY <1>6, <1>7


\* A failed save takes the permission with it.
LEMMA UnsavedIsUnarmed ==
  ASSUME NEW c \in Cores, NEW slot \in Slots, NEW outcome \in Outcomes, NEW ok \in BOOLEAN,
         CmdOf(c, slot) \in Commands, ~ok
  PROVE  ~Finish(c, slot, outcome, ok).armed
<1> DEFINE w == WithOutcome(c, slot, outcome)
           s == Saved(w, ok)
           f == [s EXCEPT !.pending = IF @ = slot THEN NoSlot ELSE @]
<1>1. w \in Cores
  BY OutcomeKeeps
<1>2. f = Finish(c, slot, outcome, ok)
  BY DEF Finish
<1> HIDE DEF w
<1>3. s \in Cores /\ ~s.armed
  BY <1>1, SavedKeeps, SaveOrDisarm
<1> HIDE DEF s
<1>4. ~f.armed
  BY <1>3 DEF Cores
<1> QED
  BY <1>2, <1>4

LEMMA RankExamineFails ==
  ASSUME PumpInv, OnceInv, AnswerInv, RankInv, ExamineFails, PumpInv'
  PROVE  RankInv'
<1> DEFINE f(ok) == Finish(core, cur, "failed", ok)
<1>1. PICK ok \in Verdicts, revokes \in BOOLEAN :
        /\ core' = IF revokes THEN Disarm(f(ok), "configuration_mismatch") ELSE f(ok)
        /\ FinishEffects(core, cur, "failed", ok)
  BY DEF ExamineFails
<1>2. at = "accepted" /\ core \in Cores /\ core.writable /\ ToldOK
  BY AnswerFacts DEF ExamineFails, InHand
<1>3. cur \in Slots /\ CmdHere \in Commands /\ CmdOf(core, cur) = CmdHere
  BY <1>2, CoreFacts DEF Working, CmdHere
<1>4. f(ok) \in Cores /\ ok \in BOOLEAN /\ "failed" \in Outcomes
  BY <1>2, <1>3, VerdictIsBoolean, FinishKeeps DEF Outcomes
<1>5. CASE ~core'.armed
  BY <1>5, UnarmedIsRanked
<1>6. CASE core'.armed
  <2>1. core' = f(ok)
    BY <1>1, <1>4, <1>6, DisarmIsCalm DEF Withdrawing
  <2>2. ok
    BY <1>2, <1>3, <1>4, <1>6, <2>1, UnsavedIsUnarmed
  <2>3. told' = [told EXCEPT ![CmdHere] = @ \cup {"failed"}]
    BY <1>1, <1>2, <1>3, <2>2 DEF FinishEffects, CmdOf
  <2>4. "failed" \in told'[CmdHere]
    BY <1>2, <1>3, <2>3 DEF ToldOK
  <2>5. Alike(f(ok), core')
    BY <1>4, <2>1 DEF Alike
  <2>6. OutOf(core', cur) = "failed"
    BY <1>2, <1>3, <1>4, <2>5, FinishSettles
  <2>7. Onwards
    BY FailureGoesOn
  <2> QED
    BY <2>4, <2>6, <2>7, RankStays
<1> QED
  BY <1>5, <1>6

LEMMA RankAccepts ==
  ASSUME PumpInv, OnceInv, AnswerInv, RankInv, PumpInv',
         AcceptDisplacing \/ \E cmd \in Commands : ReceiveNew(cmd)
  PROVE  RankInv'
<1>1. CASE AcceptDisplacing
  <2>1. cur \in Commands /\ cur > core.journal.highest /\ core.storageOk
    BY <1>1, CoreFacts DEF AcceptDisplacing, Working, OnceInv, Waiting, AnswerInv, InHand
  <2> QED
    BY <1>1, <2>1, RankAccepting DEF AcceptDisplacing
<1>2. CASE \E cmd \in Commands : ReceiveNew(cmd)
  BY <1>2, RankAccepting DEF ReceiveNew, Fresh
<1> QED
  BY <1>1, <1>2

LEMMA RankCompletes ==
  ASSUME PumpInv, TickCompleteProgram \/ ProgramUnstopped
  PROVE  RankInv'
<1>1. core.program # NoSlot
  BY CoreFacts DEF Working, TickCompleteProgram, ProgramUnstopped, InPhase
<1>2. core.program \in Slots /\ CmdOf(core, core.program) \in Commands /\ core \in Cores
  BY <1>1, CoreFacts, SoundFacts
<1>3. PICK stopConfirmed \in BOOLEAN : CompleteProgram(stopConfirmed)
  BY DEF TickCompleteProgram, ProgramUnstopped
<1> DEFINE p == [core EXCEPT !.program = NoSlot, !.phase = "idle", !.cause = "none"]
           d == IF stopConfirmed THEN p ELSE Disarm(p, "physical_result_unconfirmed")
           outcome == ProgramOutcome(core, stopConfirmed)
<1>4. PICK ok \in Verdicts : core' = Finish(d, core.program, outcome, ok)
  BY <1>3 DEF CompleteProgram
<1>5. outcome \in Outcomes
  BY DEF ProgramOutcome, Outcomes
<1>6. p \in Cores /\ p.journal = core.journal /\ p.program = NoSlot
  BY <1>2 DEF Cores, Phases
<1> HIDE DEF outcome, p
<1>7. d \in Cores /\ d.journal = core.journal /\ d.program = NoSlot
  BY <1>6, DisarmIsAlike DEF Alike
<1> HIDE DEF d
<1>8. CmdOf(d, core.program) \in Commands
  BY <1>2, <1>7 DEF CmdOf
<1>9. core'.program = NoSlot
  BY <1>2, <1>4, <1>5, <1>7, <1>8, VerdictIsBoolean, FinishKeeps
<1> QED
  BY <1>9 DEF RankInv

LEMMA RankBoots ==
  ASSUME PumpInv, PumpInv', PowerOn \/ ConfirmEquipment \/ Crash
  PROVE  RankInv'
<1>1. CASE PowerOn \/ ConfirmEquipment
  <2>1. Sound(NewCore) /\ Sound(core) /\ nvs \in Journals
    BY NewCoreIsSound, CoreFacts
  <2>2. Begin(NewCore) \/ Begin(core)
    BY <1>1 DEF PowerOn, ConfirmEquipment
  <2>3. ~core'.armed
    BY <2>1, <2>2, BeginCases
  <2> QED
    BY <2>3, UnarmedIsRanked
<1>2. CASE Crash
  <2>1. core'.program = NoSlot
    BY <1>2 DEF Crash, NewCore
  <2> QED
    BY <2>1 DEF RankInv
<1> QED
  BY <1>1, <1>2

LEMMA RankOutside ==
  ASSUME RankInv, UNCHANGED <<at, cur, core, told>>
  PROVE  RankInv'
BY DEF RankInv, CmdHere, CmdOf, OutOf

LEMMA RankKeeps == ASSUME PumpInv, OnceInv, AnswerInv, RankInv, Next PROVE RankInv'
<1>1. PumpInv'
  BY NextKeeps
<1>2. CASE PowerOn \/ ConfirmEquipment \/ Crash
  BY <1>1, <1>2, RankBoots
<1>3. CASE Issue \/ Refuses \/ MotorStops \/ DriveTrips
  <2>1. UNCHANGED <<at, cur, core, told>>
    BY <1>3 DEF Issue, Refuses, ReceiveRefused, MotorStops, DriveTrips
  <2> QED
    BY <2>1, RankOutside
<1>4. CASE Replay \/ \E cmd \in Commands : ReceiveKnown(cmd)
  BY <1>4, AgainGoesOn, RankStays
<1>5. CASE AcceptDisplacing \/ \E cmd \in Commands : ReceiveNew(cmd)
  BY <1>1, <1>5, RankAccepts
<1>6. CASE ActuateLate \/ ActuateUnlinked \/ TickVerifyTimedOut \/ \E cmd \in Commands : ReceiveDisplacing(cmd)
  <2>1. at # "accepted"
    BY <1>6 DEF ActuateLate, ActuateUnlinked, TickVerifyTimedOut, ReceiveDisplacing
  <2> QED
    BY <1>6, <2>1, FailureGoesOn, RankStays
<1>7. CASE ExamineFails
  BY <1>1, <1>7, RankExamineFails
<1>8. CASE ExaminePasses
  BY <1>1, <1>8, RankExamines
<1>9. CASE Actuate
  <2>1. at # "accepted"
    BY <1>9 DEF Actuate
  <2> QED
    BY <1>9, <2>1, ActuateGoesOn, RankStays
<1>10. CASE TickStopRead
  <2>1. at # "accepted"
    BY <1>10 DEF TickStopRead
  <2> QED
    BY <1>10, <2>1, StopReadGoesOn, RankStays
<1>11. CASE TickVerified
  <2>1. at # "accepted"
    BY <1>11 DEF TickVerified
  <2> QED
    BY <1>11, <2>1, VerifiedGoesOn, RankStays
<1>12. CASE TickCompleteProgram \/ ProgramUnstopped
  BY <1>12, RankCompletes
<1>13. CASE ProgramStepEnds
  <2>1. at # "accepted"
    BY <1>13 DEF ProgramStepEnds, InPhase
  <2> QED
    BY <1>13, <2>1, StepGoesOn, RankStays
<1>14. CASE Quiet
  BY <1>14, QuietGoesOn, RankStays
<1> QED
  BY <1>2, <1>3, <1>4, <1>5, <1>6, <1>7, <1>8, <1>9, <1>10, <1>11, <1>12, <1>13, <1>14 DEF Next, Refuses, Quiet

\* As long as a program may still begin, every Stop above it was refused, or is being taken.
THEOREM RankInvariant == Spec => []RankInv
<1>1. Init => RankInv
  BY DEF Init, NewCore, RankInv
<1>2. RankInv /\ UNCHANGED vars => RankInv'
  BY RankOutside DEF vars
<1>3. CoreInv /\ RankInv /\ [Next]_vars => RankInv'
  BY <1>2, RankKeeps DEF CoreInv
<1> QED
  BY <1>1, <1>3, CoreInvariant, PTL DEF Spec

\* A step that writes a RUN for a command no acknowledged Stop is above.
Outranked ==
    \A c, s \in Commands :
        runs'[c] > runs[c] /\ Type[s] = "stop" /\ told[s] \cap {"pending", "failed"} = {"pending"}
            => s < c

LEMMA RunsAreOutranked == ASSUME PumpInv, OnceInv, AnswerInv, RankInv, Next PROVE Outranked
<1> SUFFICES ASSUME NEW c \in Commands, NEW s \in Commands, runs'[c] > runs[c], Type[s] = "stop",
                    told[s] \cap {"pending", "failed"} = {"pending"}
             PROVE  s < c
  BY DEF Outranked
<1>1. runs \in [Commands -> Nat] /\ c \in Nat /\ s \in Nat
  BY CoreFacts DEF Shape, Commands
<1>2. Actuate \/ ProgramStart
  BY <1>1, OnlyTheseRun
<1>3. CASE Actuate
  <2>1. TypeOf(core, cur) = Type[CmdHere] /\ RecordOf(core, cur).cmd = CmdHere
    BY DEF TypeOf, RecordOf, CmdHere, CmdOf
  <2>2. Type[CmdHere] = "start"
    BY <1>1, <1>3, <2>1 DEF Actuate
  <2>3. c = CmdHere
    <3>1. runs' = [runs EXCEPT ![CmdHere] = @ + 1]
      BY <1>3, <2>1, <2>2 DEF Actuate, WriteRun
    <3> QED
      BY <1>1, <3>1
  <2>4. CmdHere = core.journal.highest /\ nvs = core.journal
    BY <1>3, AnswerFacts DEF Actuate, InHand
  <2>5. s <= nvs.highest
    BY AnswerFacts DEF Written, Spoken
  <2>6. s # c
    BY <2>2, <2>3
  <2> QED
    BY <1>1, <2>3, <2>4, <2>5, <2>6
<1>4. CASE ProgramStart
  <2>1. /\ core.program # NoSlot /\ core.phase # "stopping" /\ at # "accepted"
        /\ runs' = [runs EXCEPT ![CmdOf(core, core.program)] = @ + 1]
    BY <1>4 DEF ProgramStart, InPhase, WriteRun, RecordOf, CmdOf
  <2>2. c = CmdOf(core, core.program)
    BY <1>1, <2>1
  <2>3. ~(s > c)
    BY <2>1, <2>2 DEF RankInv
  <2>4. Type[c] = "program"
    BY <2>1, <2>2, AnswerFacts DEF Open
  <2> QED
    BY <1>1, <2>3, <2>4
<1> QED
  BY <1>2, <1>3, <1>4

\* Once a Stop is acknowledged and was not refused, no command with a lower number turns
\* the motor: not one that arrives late, not a program that had begun, and not after a
\* power failure.
THEOREM StopsOutrank == Spec => StopOutranks
<1>1. CoreInv /\ RankInv /\ [Next]_vars => [Outranked]_vars
  BY RunsAreOutranked DEF CoreInv
<1>2. Spec => [][Outranked]_vars
  BY <1>1, CoreInvariant, RankInvariant, PTL DEF Spec
<1> QED
  BY <1>2 DEF StopOutranks, Outranked

-----------------------------------------------------------------------------
(* A refusal for the number is final.  No journal, in RAM or in flash, names *)
(* the command, and only a command with a higher number gets a record.      *)

\* The commands refused for their number are at or below the highest number in flash and
\* have no record anywhere.
Gone ==
    \A c \in Commands : <<c, "stale">> \in refused =>
        /\ c <= nvs.highest
        /\ \A s \in Slots : nvs.records[s].cmd # c /\ CmdOf(core, s) # c

\* A step that tells them nothing and runs none of them.
Ignores == \A c \in Commands : <<c, "stale">> \in refused => told'[c] = told[c] /\ runs'[c] = runs[c]

\* Only commands with a record are answered or run.
OfRecords ==
    \A c \in Commands : told'[c] # told[c] \/ runs'[c] # runs[c] => \E s \in Slots : CmdOf(core, s) = c

\* A step that takes no command; what it saves is the journal it leaves in RAM.
Keeping ==
    /\ core'.journal.highest = core.journal.highest
    /\ \A s \in Slots : CmdOf(core', s) = CmdOf(core, s)
    /\ nvs' = nvs \/ (core.writable /\ nvs' = core'.journal)
    /\ OfRecords

LEMMA KeepingStaysGone ==
  ASSUME CoreInv, Gone, Keeping, refused' = refused
  PROVE  Gone' /\ Ignores
<1>1. /\ core.journal.highest \in Nat /\ nvs.highest \in Nat
      /\ core.writable => core.journal.highest >= nvs.highest
  BY AnswerFacts, JournalFacts DEF CoreInv
<1>2. ASSUME NEW c \in Commands, <<c, "stale">> \in refused
      PROVE  /\ c \in Nat /\ c <= nvs.highest
             /\ \A s \in Slots : nvs.records[s].cmd # c /\ CmdOf(core, s) # c
  BY <1>2 DEF Gone, Commands
<1>3. Ignores
  BY <1>2 DEF Ignores, Keeping, OfRecords
<1>4. ASSUME NEW c \in Commands, <<c, "stale">> \in refused
      PROVE  c <= nvs'.highest /\ \A s \in Slots : nvs'.records[s].cmd # c /\ CmdOf(core', s) # c
  <2>1. \A s \in Slots : CmdOf(core', s) # c
    BY <1>2, <1>4 DEF Keeping
  <2>2. CASE nvs' = nvs
    BY <1>2, <1>4, <2>1, <2>2
  <2>3. CASE core.writable /\ nvs' = core'.journal
    <3>1. nvs'.highest = core.journal.highest /\ \A s \in Slots : nvs'.records[s].cmd = CmdOf(core', s)
      BY <2>3 DEF Keeping, CmdOf
    <3>2. c \in Nat /\ c <= nvs.highest
      BY <1>2, <1>4
    <3>3. c <= nvs'.highest
      BY <1>1, <2>3, <3>1, <3>2
    <3> QED
      BY <2>1, <3>1, <3>3
  <2> QED
    BY <2>2, <2>3 DEF Keeping
<1>5. Gone'
  BY <1>4 DEF Gone
<1> QED
  BY <1>3, <1>5

LEMMA SilenceIsOfRecords == ASSUME told' = told, runs' = runs PROVE OfRecords
BY DEF OfRecords

LEMMA SaveIsKeeping ==
  ASSUME NEW d, d.journal.highest = core.journal.highest, \A s \in Slots : CmdOf(d, s) = CmdOf(core, s),
         d.writable => core.writable, NEW ok, nvs' = SavedTo(d, ok), core'.journal = d.journal,
         told' = told, runs' = runs
  PROVE  Keeping
<1>1. nvs' = nvs \/ (core.writable /\ nvs' = core'.journal)
  BY DEF SavedTo
<1>2. \A s \in Slots : CmdOf(core', s) = CmdOf(core, s)
  BY DEF CmdOf
<1> QED
  BY <1>1, <1>2, SilenceIsOfRecords DEF Keeping

LEMMA FinishIsKeeping ==
  ASSUME ToldOK, NEW d \in Cores, d.journal.highest = core.journal.highest,
         d.journal.records = core.journal.records, d.writable => core.writable,
         NEW slot \in Slots, CmdOf(core, slot) \in Commands, NEW outcome \in Outcomes, NEW ok \in Verdicts,
         FinishEffects(d, slot, outcome, ok), Alike(Finish(d, slot, outcome, ok), core'), runs' = runs
  PROVE  Keeping
<1> DEFINE w == WithOutcome(d, slot, outcome)
           f == Finish(d, slot, outcome, ok)
<1>1. ok \in BOOLEAN /\ CmdOf(d, slot) = CmdOf(core, slot)
  BY VerdictIsBoolean DEF CmdOf
<1>2. /\ w.journal.highest = d.journal.highest /\ w.writable = d.writable
      /\ \A s \in Slots : CmdOf(w, s) = CmdOf(d, s)
  BY <1>1, OutcomeKeeps
<1>3. f.journal = w.journal
  BY <1>1, FinishKeeps
<1>4. nvs' = SavedTo(w, ok)
  BY DEF FinishEffects
<1>5. core'.journal = f.journal
  BY DEF Alike
<1>6. OfRecords
  <2>1. told' = told \/ told' = [told EXCEPT ![CmdOf(d, slot)] = @ \cup {outcome}]
    BY DEF FinishEffects, CmdOf
  <2>2. \A c \in Commands : told'[c] # told[c] => c = CmdOf(core, slot)
    BY <1>1, <2>1 DEF ToldOK
  <2> QED
    BY <2>2 DEF OfRecords
<1> HIDE DEF w, f
<1>7. core'.journal = w.journal
  BY <1>3, <1>5
<1>8. nvs' = nvs \/ (core.writable /\ nvs' = core'.journal)
  BY <1>2, <1>4, <1>7 DEF SavedTo
<1>9. \A s \in Slots : CmdOf(core', s) = CmdOf(core, s)
  BY <1>2, <1>7 DEF CmdOf
<1> QED
  BY <1>2, <1>6, <1>7, <1>8, <1>9 DEF Keeping

LEMMA FailureIsKeeping ==
  ASSUME PumpInv,
         \/ ExamineFails \/ ActuateLate \/ ActuateUnlinked \/ TickVerifyTimedOut
         \/ \E cmd \in Commands : ReceiveDisplacing(cmd)
  PROVE  Keeping
<1>1. PICK d \in Cores, slot \in Slots, outcome \in {"failed", "unknown"}, ok \in Verdicts : Given(d, slot, outcome, ok)
  BY GivenUp
<1>2. outcome \in Outcomes /\ ToldOK
  BY CoreFacts DEF Outcomes
<1>3. runs' = runs
  BY DEF ExamineFails, ActuateLate, ActuateUnlinked, TickVerifyTimedOut, ReceiveDisplacing
<1> QED
  BY <1>1, <1>2, <1>3, FinishIsKeeping DEF Given, Modest

LEMMA VerifiedIsKeeping == ASSUME PumpInv, TickVerified PROVE Keeping
<1> DEFINE h == IF TypeOf(core, core.pending) = "stop" THEN Halted(core) ELSE core
           f(ok) == Finish(h, core.pending, "succeeded", ok)
<1>1. PICK ok \in Verdicts : core' = f(ok) /\ FinishEffects(h, core.pending, "succeeded", ok)
  BY DEF TickVerified
<1>2. /\ core \in Cores /\ ToldOK /\ core.pending \in Slots /\ CmdOf(core, core.pending) \in Commands
      /\ runs' = runs
  BY CoreFacts, SoundFacts DEF TickVerified
<1>3. /\ h \in Cores /\ h.journal.highest = core.journal.highest /\ h.journal.records = core.journal.records
      /\ h.writable = core.writable
  BY <1>2, HaltedKeeps
<1> HIDE DEF h
<1>4. CmdOf(h, core.pending) \in Commands /\ ok \in BOOLEAN /\ "succeeded" \in Outcomes
  BY <1>2, <1>3, VerdictIsBoolean DEF CmdOf, Outcomes
<1>5. f(ok) \in Cores
  BY <1>2, <1>3, <1>4, FinishKeeps
<1>6. Alike(f(ok), core')
  BY <1>1, <1>5 DEF Alike
<1> QED
  BY <1>1, <1>2, <1>3, <1>4, <1>6, FinishIsKeeping

LEMMA StopReadIsKeeping == ASSUME PumpInv, TickStopRead PROVE Keeping
<1> DEFINE h == Halted(core)
<1>1. PICK ok \in Verdicts : core' = Saved(h, ok) /\ nvs' = SavedTo(h, ok)
  BY DEF TickStopRead
<1>2. core \in Cores /\ told' = told /\ runs' = runs
  BY CoreFacts DEF TickStopRead
<1>3. /\ h \in Cores /\ h.journal.highest = core.journal.highest /\ h.journal.records = core.journal.records
      /\ h.writable = core.writable
  BY <1>2, HaltedKeeps
<1> HIDE DEF h
<1>4. core'.journal = h.journal
  BY <1>1, <1>3, VerdictIsBoolean, SavedKeeps
<1>5. \A s \in Slots : CmdOf(h, s) = CmdOf(core, s)
  BY <1>3 DEF CmdOf
<1> QED
  BY <1>1, <1>2, <1>3, <1>4, <1>5, SaveIsKeeping

LEMMA StepIsKeeping == ASSUME PumpInv, ProgramStepEnds PROVE Keeping
<1> DEFINE n == [core EXCEPT !.journal.records[core.program].steps = @ + 1]
           last == StepsDone + 1 = StepsOf[RecordOf(core, core.program).cmd]
<1>1. PICK ok \in Verdicts, fit \in BOOLEAN, linkValid \in BOOLEAN :
        /\ core' = LET s == Saved(n, ok) IN
                   IF ~s.storageOk THEN s
                   ELSE IF last THEN RequestStop(s, "completed")
                   ELSE StepBegun(s, fit, linkValid)
        /\ nvs' = SavedTo(n, ok)
  BY DEF ProgramStepEnds
<1>2. /\ core.program \in Slots /\ CmdOf(core, core.program) \in Commands /\ core \in Cores
      /\ told' = told /\ runs' = runs
  BY CoreFacts, SoundFacts DEF ProgramStepEnds, InPhase
<1>3. n \in Cores /\ Recorded(core, n, {}) /\ n.writable = core.writable
  BY <1>2, StepKeeps
<1> HIDE DEF n, last
<1> DEFINE t == Saved(n, ok)
<1>4. t \in Cores /\ t.journal = n.journal
  BY <1>3, VerdictIsBoolean, SavedKeeps
<1>5. core' = t \/ core' = RequestStop(t, "completed") \/ core' = StepBegun(t, fit, linkValid)
  BY <1>1
<1> HIDE DEF t
<1>6. core'.journal = n.journal
  BY <1>4, <1>5, RequestStopIsAlike, StepBegunIsAlike DEF Alike
<1>7. n.journal.highest = core.journal.highest /\ \A s \in Slots : CmdOf(n, s) = CmdOf(core, s)
  BY <1>3 DEF Recorded
<1> QED
  BY <1>1, <1>2, <1>3, <1>6, <1>7, SaveIsKeeping

LEMMA ExamineIsKeeping == ASSUME CoreInv, ExaminePasses PROVE Keeping
<1> DEFINE i == Intended(core, cur)
<1>1. PICK ok \in Verdicts : core' = Saved(i, ok) /\ nvs' = SavedTo(i, ok)
  BY DEF ExaminePasses
<1>2. at = "accepted" /\ told' = told /\ runs' = runs
  BY DEF ExaminePasses
<1>3. /\ i \in Cores /\ i.journal.highest = core.journal.highest
      /\ i.journal.records = core.journal.records /\ i.writable = core.writable
  BY <1>2, IntentIsWritten DEF CoreInv
<1> HIDE DEF i
<1>4. core'.journal = i.journal
  BY <1>1, <1>3, VerdictIsBoolean, SavedKeeps
<1>5. \A s \in Slots : CmdOf(i, s) = CmdOf(core, s)
  BY <1>3 DEF CmdOf
<1> QED
  BY <1>1, <1>2, <1>3, <1>4, <1>5, SaveIsKeeping

LEMMA CompletedIsKeeping ==
  ASSUME PumpInv, TickCompleteProgram \/ ProgramUnstopped
  PROVE  Keeping
<1>1. core.program # NoSlot /\ runs' = runs
  BY CoreFacts DEF Working, TickCompleteProgram, ProgramUnstopped, InPhase
<1>2. core.program \in Slots /\ CmdOf(core, core.program) \in Commands /\ core \in Cores /\ ToldOK
  BY <1>1, CoreFacts, SoundFacts
<1>3. PICK stopConfirmed \in BOOLEAN : CompleteProgram(stopConfirmed)
  BY DEF TickCompleteProgram, ProgramUnstopped
<1> DEFINE p == [core EXCEPT !.program = NoSlot, !.phase = "idle", !.cause = "none"]
           d == IF stopConfirmed THEN p ELSE Disarm(p, "physical_result_unconfirmed")
           outcome == ProgramOutcome(core, stopConfirmed)
<1>4. PICK ok \in Verdicts : /\ core' = Finish(d, core.program, outcome, ok)
                             /\ FinishEffects(d, core.program, outcome, ok)
  BY <1>3 DEF CompleteProgram
<1>5. outcome \in Outcomes
  BY DEF ProgramOutcome, Outcomes
<1>6. p \in Cores /\ p.journal = core.journal /\ p.writable = core.writable
  BY <1>2 DEF Cores, Phases
<1> HIDE DEF outcome, p
<1>7. Alike(p, d)
  BY <1>6, DisarmIsAlike DEF Alike
<1> HIDE DEF d
<1>8. d \in Cores /\ d.journal = core.journal /\ d.writable = core.writable /\ CmdOf(d, core.program) \in Commands
  BY <1>2, <1>6, <1>7 DEF Alike, CmdOf
<1>9. Alike(Finish(d, core.program, outcome, ok), core')
  BY <1>2, <1>4, <1>5, <1>8, VerdictIsBoolean, FinishKeeps DEF Alike
<1> QED
  BY <1>1, <1>2, <1>4, <1>5, <1>8, <1>9, FinishIsKeeping

LEMMA ActuateIsKeeping == ASSUME PumpInv, Actuate PROVE Keeping
<1>1. core' = [core EXCEPT !.pending = cur] /\ nvs' = nvs /\ told' = told /\ core \in Cores
  BY CoreFacts DEF Actuate
<1>2. core'.journal = core.journal
  BY <1>1 DEF Cores
<1>3. cur \in Slots /\ runs \in [Commands -> Nat]
  BY CoreFacts DEF Actuate, Working, Shape
<1>4. runs' = runs \/ runs' = [runs EXCEPT ![CmdOf(core, cur)] = @ + 1]
  BY DEF Actuate, WriteRun, RecordOf, CmdOf
<1>5. \A c \in Commands : runs'[c] # runs[c] => c = CmdOf(core, cur)
  BY <1>3, <1>4
<1> QED
  BY <1>1, <1>2, <1>3, <1>5 DEF Keeping, OfRecords, CmdOf

LEMMA QuietIsKeeping == ASSUME PumpInv, Quiet PROVE Keeping
<1>1. core \in Cores /\ issued \in Nat /\ runs \in [Commands -> Nat]
  BY CoreFacts, CoreAssumption DEF Shape
<1>2. core'.journal = core.journal
  BY <1>1, QuietIsAlike DEF Alike
<1>3. nvs' = nvs /\ told' = told
  BY DEF Quiet, TickVerifyNothing, ProgramTrouble, ProgramUnlinked, ProgramNothing, SampleTrouble,
     LocalDisarm, TickStopUnread, ActuateProgram, ProgramHolds, ProgramStart, RestorePermission,
     TickGuard, LocalArm, GrantChanges, TickNetwork
<1>4. CASE ProgramStart
  <2>1. core.program \in Slots /\ runs' = [runs EXCEPT ![CmdOf(core, core.program)] = @ + 1]
    BY <1>4, CoreFacts, SoundFacts DEF ProgramStart, InPhase, WriteRun, RecordOf, CmdOf
  <2>2. \A c \in Commands : runs'[c] # runs[c] => c = CmdOf(core, core.program)
    BY <1>1, <2>1
  <2> QED
    BY <1>2, <1>3, <2>1, <2>2 DEF Keeping, OfRecords, CmdOf
<1>5. CASE ~ProgramStart
  <2>1. runs' = runs
    BY <1>5 DEF Quiet, TickVerifyNothing, ProgramTrouble, ProgramUnlinked, ProgramNothing, SampleTrouble,
     LocalDisarm, TickStopUnread, ActuateProgram, ProgramHolds, RestorePermission,
     TickGuard, LocalArm, GrantChanges, TickNetwork
  <2> QED
    BY <1>2, <1>3, <2>1, SilenceIsOfRecords DEF Keeping, CmdOf
<1> QED
  BY <1>4, <1>5

LEMMA AgainIsKeeping ==
  ASSUME PumpInv, \/ Issue \/ MotorStops \/ DriveTrips
                  \/ Replay \/ \E cmd \in Commands : ReceiveKnown(cmd)
  PROVE  Keeping
<1>1. core' = core /\ nvs' = nvs /\ runs' = runs
  BY DEF Issue, MotorStops, DriveTrips, Replay, ReceiveKnown
<1>2. \A c \in Commands : told'[c] # told[c] => \E s \in Slots : CmdOf(core, s) = c
  <2>1. CASE Issue \/ MotorStops \/ DriveTrips
    BY <2>1 DEF Issue, MotorStops, DriveTrips
  <2>2. CASE Replay
    <3>1. ASSUME NEW c \in Commands, \A s \in Slots : CmdOf(core, s) # c
          PROVE  told'[c] = told[c]
      BY <2>2, <3>1 DEF Replay, RecordOf, CmdOf
    <3> QED
      BY <3>1
  <2>3. CASE \E cmd \in Commands : ReceiveKnown(cmd)
    <3>1. PICK cmd \in Commands, s \in Slots :
            CmdOf(core, s) = cmd /\ told' = [told EXCEPT ![cmd] = @ \cup {OutOf(core, s)}]
      BY <2>3 DEF ReceiveKnown, CmdOf, OutOf, RecordOf
    <3>2. \A c \in Commands : told'[c] # told[c] => c = cmd
      BY <3>1, CoreFacts DEF ToldOK
    <3> QED
      BY <3>1, <3>2
  <2> QED
    BY <2>1, <2>2, <2>3
<1> QED
  BY <1>1, <1>2 DEF Keeping, OfRecords, CmdOf

\* A journal that is read again names what flash names, and what it saves too.
LEMMA GoneBoots ==
  ASSUME CoreInv, Gone, PowerOn \/ ConfirmEquipment, refused' = refused
  PROVE  Gone' /\ Ignores
<1>1. told' = told /\ runs' = runs /\ nvs \in Journals
  BY CoreFacts DEF PowerOn, ConfirmEquipment, CoreInv
<1>2. PICK c \in {NewCore, core} : Begin(c)
  BY DEF PowerOn, ConfirmEquipment
<1>3. Sound(c)
  BY <1>2, NewCoreIsSound, CoreFacts DEF CoreInv
<1>4. IF Busy(c) THEN BeginsBusy(c) ELSE BeginsBlank \/ BeginsAgain
  BY <1>1, <1>2, <1>3, BeginCases
<1>5. \A s \in Slots : CmdOf(NewCore, s) = 0 /\ EmptyJournal.records[s].cmd = 0
  BY DEF NewCore, EmptyJournal, EmptyRecord, CmdOf
<1>6. /\ Interrupted(nvs).highest = nvs.highest
      /\ \A s \in Slots : Interrupted(nvs).records[s].cmd = nvs.records[s].cmd
  BY <1>1, InterruptedRecords
<1>7. \A s \in Slots : CmdOf(core', s) \in {0, CmdOf(core, s), nvs.records[s].cmd}
  <2>1. CASE BeginsBusy(c)
    BY <1>2, <1>5, <2>1 DEF BeginsBusy
  <2>2. CASE BeginsBlank
    BY <1>5, <2>2 DEF BeginsBlank, CmdOf
  <2>3. CASE BeginsAgain
    BY <1>6, <2>3 DEF BeginsAgain, CmdOf
  <2> QED
    BY <1>4, <2>1, <2>2, <2>3
<1>8. nvs'.highest = nvs.highest /\ \A s \in Slots : nvs'.records[s].cmd = nvs.records[s].cmd
  BY <1>4, <1>6 DEF BeginsBusy, BeginsBlank, BeginsAgain
<1>9. ASSUME NEW x \in Commands, <<x, "stale">> \in refused
      PROVE  x <= nvs'.highest /\ \A s \in Slots : nvs'.records[s].cmd # x /\ CmdOf(core', s) # x
  <2>1. x # 0
    BY DEF Commands
  <2> QED
    BY <1>7, <1>8, <1>9, <2>1 DEF Gone
<1>10. Gone'
  BY <1>1, <1>9 DEF Gone
<1> QED
  BY <1>1, <1>10 DEF Ignores

LEMMA GoneCrashes == ASSUME Gone, Crash PROVE Gone' /\ Ignores
<1>1. core' = NewCore /\ UNCHANGED <<nvs, told, runs, refused>>
  BY DEF Crash
<1>2. \A s \in Slots : CmdOf(NewCore, s) = 0
  BY DEF NewCore, EmptyJournal, EmptyRecord, CmdOf
<1>3. \A c \in Commands : c # 0
  BY DEF Commands
<1>4. Gone'
  BY <1>1, <1>2, <1>3 DEF Gone
<1> QED
  BY <1>1, <1>4 DEF Ignores

\* A command that has no record and no new number is gone.
LEMMA GoneRefuses == ASSUME CoreInv, Gone, Refuses PROVE Gone' /\ Ignores
<1>1. PICK cmd \in Commands : ReceiveRefused(cmd)
  BY DEF Refuses
<1>2. UNCHANGED <<core, nvs, told, runs>> /\ core.storageOk /\ ~Known(core, cmd)
  BY <1>1 DEF ReceiveRefused
<1>3. PICK why \in Refusals : /\ why = "stale" => ~Fresh(cmd)
                              /\ refused' = refused \cup {<<cmd, why>>}
  BY <1>1 DEF ReceiveRefused
<1>4. nvs = core.journal /\ core.journal.highest \in Nat /\ cmd \in Nat
  BY <1>2, AnswerFacts, JournalFacts DEF CoreInv, Commands
<1>5. \A s \in Slots : nvs.records[s].cmd # cmd /\ CmdOf(core, s) # cmd
  BY <1>2, <1>4 DEF Known, CmdOf
<1>6. ASSUME NEW c \in Commands, <<c, "stale">> \in refused'
      PROVE  c <= nvs.highest /\ \A s \in Slots : nvs.records[s].cmd # c /\ CmdOf(core, s) # c
  <2>1. CASE <<c, "stale">> \in refused
    BY <2>1 DEF Gone
  <2>2. CASE <<c, "stale">> \notin refused
    <3>1. c = cmd /\ why = "stale"
      BY <1>3, <1>6, <2>2
    <3>2. cmd <= nvs.highest
      BY <1>3, <1>4, <3>1 DEF Fresh
    <3> QED
      BY <1>5, <3>1, <3>2
  <2> QED
    BY <2>1, <2>2
<1>7. Gone'
  BY <1>2, <1>6 DEF Gone, CmdOf
<1> QED
  BY <1>2, <1>7 DEF Ignores

LEMMA GoneAccepting ==
  ASSUME CoreInv, Gone, core.storageOk, refused' = refused, runs' = runs,
         NEW cmd \in Commands, cmd > core.journal.highest, Accept(cmd)
  PROVE  Gone' /\ Ignores
<1> DEFINE r == WithRecord(core, cmd)
<1>1. PICK ok \in Verdicts :
        /\ core' = Saved(r, ok) /\ nvs' = SavedTo(r, ok)
        /\ told' = told \/ told' = [told EXCEPT ![cmd] = @ \cup {AcceptedOutcome(core, cmd)}]
  BY DEF Accept
<1>2. /\ core \in Cores /\ ToldOK /\ nvs = core.journal /\ cmd \in Nat /\ nvs.highest \in Nat
      /\ cmd > nvs.highest
  BY AnswerFacts, JournalFacts DEF CoreInv, Commands
<1>3. r \in Cores
  BY RecordedIsSafe, CoreFacts DEF CoreInv
<1>4. /\ \A s \in Slots : CmdOf(r, s) \in {cmd, CmdOf(core, s)}
      /\ r.journal.highest = cmd
  BY <1>2, RecordIsNew
<1> HIDE DEF r
<1>5. core'.journal = r.journal /\ (nvs' = nvs \/ nvs' = r.journal)
  BY <1>1, <1>3, VerdictIsBoolean, SavedKeeps DEF SavedTo
<1>6. \A c \in Commands : told'[c] # told[c] => c = cmd
  BY <1>1, <1>2 DEF ToldOK
<1>7. ASSUME NEW c \in Commands, <<c, "stale">> \in refused
      PROVE  /\ c # cmd /\ c <= nvs.highest
             /\ \A s \in Slots : nvs.records[s].cmd # c /\ CmdOf(core, s) # c
  BY <1>2, <1>7 DEF Gone, Commands
<1>8. ASSUME NEW c \in Commands, <<c, "stale">> \in refused
      PROVE  c <= nvs'.highest /\ \A s \in Slots : nvs'.records[s].cmd # c /\ CmdOf(core', s) # c
  <2>1. \A s \in Slots : CmdOf(r, s) # c
    BY <1>4, <1>7, <1>8
  <2>2. c <= nvs'.highest
    <3>1. c \in Nat /\ c <= nvs.highest
      BY <1>7, <1>8 DEF Commands
    <3> QED
      BY <1>2, <1>4, <1>5, <3>1
  <2>3. \A s \in Slots : nvs'.records[s].cmd # c
    BY <1>5, <1>7, <1>8, <2>1 DEF CmdOf
  <2> QED
    BY <1>5, <2>1, <2>2, <2>3 DEF CmdOf
<1>9. Gone'
  BY <1>8 DEF Gone
<1> QED
  BY <1>6, <1>7, <1>9 DEF Ignores

LEMMA GoneAccepts ==
  ASSUME CoreInv, Gone, refused' = refused, AcceptDisplacing \/ \E cmd \in Commands : ReceiveNew(cmd)
  PROVE  Gone' /\ Ignores
<1>1. CASE AcceptDisplacing
  <2>1. cur \in Commands /\ cur > core.journal.highest /\ core.storageOk /\ runs' = runs
    BY <1>1, CoreFacts DEF CoreInv, AcceptDisplacing, Working, OnceInv, Waiting, AnswerInv, InHand
  <2> QED
    BY <1>1, <2>1, GoneAccepting DEF AcceptDisplacing
<1>2. CASE \E cmd \in Commands : ReceiveNew(cmd)
  BY <1>2, GoneAccepting DEF ReceiveNew, Fresh
<1> QED
  BY <1>1, <1>2

LEMMA OnlyRefusesRefuse == ASSUME Next, ~Refuses PROVE refused' = refused
<1>1. CASE PowerOn \/ ConfirmEquipment
  BY <1>1 DEF PowerOn, ConfirmEquipment, Begin, Saving, env
<1>2. CASE RestorePermission \/ Crash \/ Issue
  BY <1>2 DEF RestorePermission, Crash, Issue, env
<1>3. CASE \E cmd \in Commands : ReceiveKnown(cmd) \/ ReceiveNew(cmd) \/ ReceiveDisplacing(cmd)
  BY <1>3 DEF ReceiveKnown, ReceiveNew, ReceiveDisplacing, Accept, Saving, env
<1>4. CASE AcceptDisplacing \/ ExamineFails \/ ExaminePasses
  BY <1>4 DEF AcceptDisplacing, Accept, ExamineFails, ExaminePasses, Saving, env
<1>5. CASE Actuate \/ ActuateLate \/ ActuateUnlinked \/ ActuateProgram
  BY <1>5 DEF Actuate, ActuateLate, ActuateUnlinked, ActuateProgram, Saving, env
<1>6. CASE \/ TickNetwork \/ TickStopRead \/ TickStopUnread \/ TickCompleteProgram \/ TickVerified
           \/ TickVerifyTimedOut \/ TickVerifyNothing
  BY <1>6 DEF TickNetwork, TickStopRead, TickStopUnread, TickCompleteProgram, CompleteProgram,
              TickVerified, TickVerifyTimedOut, TickVerifyNothing, Saving, env
<1>7. CASE \/ ProgramUnstopped \/ ProgramTrouble \/ ProgramStart \/ ProgramUnlinked \/ ProgramHolds
           \/ ProgramStepEnds \/ ProgramNothing \/ TickGuard
  BY <1>7 DEF ProgramUnstopped, CompleteProgram, ProgramTrouble, ProgramStart, ProgramUnlinked,
              ProgramHolds, ProgramStepEnds, ProgramNothing, TickGuard, Saving, env
<1>8. CASE SampleTrouble \/ Replay \/ LocalArm \/ LocalDisarm \/ GrantChanges \/ MotorStops \/ DriveTrips
  BY <1>8 DEF SampleTrouble, Replay, LocalArm, LocalDisarm, GrantChanges, MotorStops, DriveTrips, env
<1> QED
  BY <1>1, <1>2, <1>3, <1>4, <1>5, <1>6, <1>7, <1>8 DEF Next, Refuses

LEMMA GoneStays == ASSUME CoreInv, Gone, Next PROVE Gone' /\ Ignores
<1>1. PumpInv
  BY DEF CoreInv
<1>2. CASE Refuses
  BY <1>2, GoneRefuses
<1>3. CASE ~Refuses
  <2>1. refused' = refused
    BY <1>3, OnlyRefusesRefuse
  <2>2. CASE PowerOn \/ ConfirmEquipment
    BY <2>1, <2>2, GoneBoots
  <2>3. CASE Crash
    BY <2>3, GoneCrashes
  <2>4. CASE AcceptDisplacing \/ \E cmd \in Commands : ReceiveNew(cmd)
    BY <2>1, <2>4, GoneAccepts
  <2>5. ASSUME Keeping
        PROVE  Gone' /\ Ignores
    BY <2>1, <2>5, KeepingStaysGone
  <2>6. CASE Issue \/ MotorStops \/ DriveTrips \/ Replay \/ \E cmd \in Commands : ReceiveKnown(cmd)
    BY <1>1, <2>5, <2>6, AgainIsKeeping
  <2>7. CASE \/ ExamineFails \/ ActuateLate \/ ActuateUnlinked \/ TickVerifyTimedOut
             \/ \E cmd \in Commands : ReceiveDisplacing(cmd)
    BY <1>1, <2>5, <2>7, FailureIsKeeping
  <2>8. CASE ExaminePasses
    BY <2>5, <2>8, ExamineIsKeeping
  <2>9. CASE Actuate
    BY <1>1, <2>5, <2>9, ActuateIsKeeping
  <2>10. CASE TickStopRead
    BY <1>1, <2>5, <2>10, StopReadIsKeeping
  <2>11. CASE TickVerified
    BY <1>1, <2>5, <2>11, VerifiedIsKeeping
  <2>12. CASE TickCompleteProgram \/ ProgramUnstopped
    BY <1>1, <2>5, <2>12, CompletedIsKeeping
  <2>13. CASE ProgramStepEnds
    BY <1>1, <2>5, <2>13, StepIsKeeping
  <2>14. CASE Quiet
    BY <1>1, <2>5, <2>14, QuietIsKeeping
  <2> QED
    BY <1>3, <2>2, <2>3, <2>4, <2>6, <2>7, <2>8, <2>9, <2>10, <2>11, <2>12, <2>13, <2>14
    DEF Next, Refuses, Quiet
<1> QED
  BY <1>2, <1>3

\* A command refused for its number has no record and never gets one again, over every
\* eviction, failed save, power failure and reading of the journal: it is told no other
\* outcome and runs nothing.
THEOREM StaleStaysFinal == Spec => StaleIsFinal
<1>1. Init => Gone
  BY DEF Init, Gone
<1>2. Gone /\ UNCHANGED vars => Gone'
  BY DEF Gone, CmdOf, vars, env
<1>3. CoreInv /\ Gone /\ [Next]_vars => Gone' /\ [Ignores]_vars
  BY <1>2, GoneStays
<1>4. Spec => []Gone
  BY <1>1, <1>3, CoreInvariant, PTL DEF Spec
<1>5. Spec => [][Ignores]_vars
  BY <1>3, <1>4, CoreInvariant, PTL DEF Spec
<1> QED
  BY <1>5 DEF StaleIsFinal, Ignores


-----------------------------------------------------------------------------
(* The motor is known.  A controller forgets a motor that moves only when it *)
(* rejects its journal: it cannot read it, or it finds two pending programs. *)

Readable == ~LoadsFail /\ Cardinality(PendingPrograms(nvs)) <= 1

\* A step that starts no motor and forgets none.
Remembers ==
    /\ motor' # "stopped" => motor # "stopped"
    /\ core.journal.motionPossible => core'.journal.motionPossible
    /\ at # "off"

LEMMA RememberedIsKnown == ASSUME MotionIsKnown, Remembers PROVE MotionIsKnown'
BY DEF MotionIsKnown, Remembers

LEMMA FinishRemembers ==
  ASSUME NEW d \in Cores, NEW slot \in Slots, CmdOf(d, slot) \in Commands, NEW outcome \in Outcomes,
         NEW ok \in Verdicts, Alike(Finish(d, slot, outcome, ok), core')
  PROVE  core'.journal.motionPossible = d.journal.motionPossible
BY FinishIsCalm, VerdictIsBoolean DEF Alike, Calmer

LEMMA FailureRemembers ==
  ASSUME PumpInv,
         \/ ExamineFails \/ ActuateLate \/ ActuateUnlinked \/ TickVerifyTimedOut
         \/ \E cmd \in Commands : ReceiveDisplacing(cmd)
  PROVE  Remembers
<1>1. PICK d \in Cores, slot \in Slots, outcome \in {"failed", "unknown"}, ok \in Verdicts : Given(d, slot, outcome, ok)
  BY GivenUp
<1>2. /\ d.journal = core.journal /\ CmdOf(d, slot) \in Commands /\ outcome \in Outcomes
      /\ Alike(Finish(d, slot, outcome, ok), core')
  BY <1>1 DEF Given, CmdOf, Outcomes
<1>3. core'.journal.motionPossible = core.journal.motionPossible
  BY <1>2, FinishRemembers
<1>4. motor' = motor /\ at # "off"
  BY DEF ExamineFails, ActuateLate, ActuateUnlinked, TickVerifyTimedOut, ReceiveDisplacing
<1> QED
  BY <1>3, <1>4 DEF Remembers

LEMMA VerifiedIsKnown == ASSUME PumpInv, MotionIsKnown, TickVerified PROVE MotionIsKnown'
<1>1. CASE TypeOf(core, core.pending) = "stop"
  <2>1. motor' = "stopped"
    BY <1>1 DEF TickVerified, Verified
  <2> QED
    BY <2>1 DEF MotionIsKnown
<1>2. CASE TypeOf(core, core.pending) # "stop"
  <2>1. PICK ok \in Verdicts : core' = Finish(core, core.pending, "succeeded", ok)
    BY <1>2 DEF TickVerified
  <2>2. core \in Cores /\ core.pending \in Slots /\ CmdOf(core, core.pending) \in Commands /\ "succeeded" \in Outcomes
    BY CoreFacts, SoundFacts DEF TickVerified, Outcomes
  <2>3. core'.journal.motionPossible = core.journal.motionPossible
    BY <2>1, <2>2, VerdictIsBoolean, FinishIsCalm DEF Calmer
  <2>4. motor' = motor /\ at # "off"
    BY DEF TickVerified
  <2> QED
    BY <2>3, <2>4, RememberedIsKnown DEF Remembers
<1> QED
  BY <1>1, <1>2

LEMMA CompletedRemembers ==
  ASSUME PumpInv, TickCompleteProgram \/ ProgramUnstopped
  PROVE  Remembers
<1>1. core.program # NoSlot
  BY CoreFacts DEF Working, TickCompleteProgram, ProgramUnstopped, InPhase
<1>2. core.program \in Slots /\ CmdOf(core, core.program) \in Commands /\ core \in Cores
  BY <1>1, CoreFacts, SoundFacts
<1>3. PICK stopConfirmed \in BOOLEAN : CompleteProgram(stopConfirmed)
  BY DEF TickCompleteProgram, ProgramUnstopped
<1> DEFINE p == [core EXCEPT !.program = NoSlot, !.phase = "idle", !.cause = "none"]
           d == IF stopConfirmed THEN p ELSE Disarm(p, "physical_result_unconfirmed")
           outcome == ProgramOutcome(core, stopConfirmed)
<1>4. PICK ok \in Verdicts : core' = Finish(d, core.program, outcome, ok)
  BY <1>3 DEF CompleteProgram
<1>5. outcome \in Outcomes
  BY DEF ProgramOutcome, Outcomes
<1>6. p \in Cores /\ p.journal = core.journal
  BY <1>2 DEF Cores, Phases
<1> HIDE DEF outcome, p
<1>7. d \in Cores /\ d.journal = core.journal
  BY <1>6, DisarmIsAlike DEF Alike
<1> HIDE DEF d
<1>8. CmdOf(d, core.program) \in Commands
  BY <1>2, <1>7 DEF CmdOf
<1>9. core'.journal.motionPossible = core.journal.motionPossible
  BY <1>2, <1>4, <1>5, <1>7, <1>8, VerdictIsBoolean, FinishIsCalm DEF Calmer
<1>10. motor' = motor /\ at # "off"
  BY DEF TickCompleteProgram, ProgramUnstopped, InPhase
<1> QED
  BY <1>9, <1>10 DEF Remembers

LEMMA AcceptedRemembers ==
  ASSUME PumpInv, AcceptDisplacing \/ \E cmd \in Commands : ReceiveNew(cmd)
  PROVE  Remembers
<1>1. PICK cmd \in Commands : Accept(cmd)
  BY CoreFacts DEF AcceptDisplacing, ReceiveNew, Working
<1> DEFINE r == WithRecord(core, cmd)
<1>2. PICK ok \in Verdicts : core' = Saved(r, ok)
  BY <1>1 DEF Accept
<1>3. r \in Cores /\ r.journal.motionPossible = core.journal.motionPossible
  BY RecordedIsSafe, RecordIsNew, CoreFacts
<1> HIDE DEF r
<1>4. core'.journal = r.journal
  BY <1>2, <1>3, VerdictIsBoolean, SavedKeeps
<1>5. motor' = motor /\ at # "off"
  BY DEF AcceptDisplacing, ReceiveNew
<1> QED
  BY <1>3, <1>4, <1>5 DEF Remembers

LEMMA IntentRemembers ==
  ASSUME PumpInv, at = "accepted"
  PROVE  LET i == Intended(core, cur) IN
         i \in Cores /\ (core.journal.motionPossible => i.journal.motionPossible)
<1> DEFINE i == Intended(core, cur)
           j == [core.journal EXCEPT !.motionPossible = TRUE]
           m == [core EXCEPT !.journal = j]
<1>1. core \in Cores /\ cur \in Slots /\ CmdHere \in Commands
  BY CoreFacts DEF Working
<1>2. TypeOf(core, cur) = Type[CmdHere] /\ Type[CmdHere] \in Types
  BY <1>1, CoreAssumption DEF TypeOf, RecordOf, CmdHere, CmdOf
<1>3. j \in Journals /\ j.motionPossible
  BY <1>1 DEF Cores, Journals
<1>4. m = [core EXCEPT !.journal.motionPossible = TRUE]
  OBVIOUS
<1> HIDE DEF j
<1>5. m \in Cores /\ m.journal.motionPossible
  BY <1>1, <1>3 DEF Cores
<1> HIDE DEF m
<1>6. CASE Type[CmdHere] # "program"
  <2>1. i = core \/ i = m \/ i = RequestStop(m, "command")
    BY <1>2, <1>4, <1>6 DEF Intended, Types
  <2> HIDE DEF i
  <2>2. i \in Cores /\ (core.journal.motionPossible => i.journal.motionPossible)
    BY <1>1, <1>5, <2>1, RequestStopIsAlike DEF Alike
  <2> QED
    BY <2>2 DEF i
<1>7. CASE Type[CmdHere] = "program"
  <2>1. i = [m EXCEPT !.program = cur, !.phase = "idle", !.cause = "none"]
    BY <1>2, <1>4, <1>7 DEF Intended
  <2> HIDE DEF i
  <2>2. i \in Cores /\ i.journal = m.journal
    BY <1>1, <1>5, <2>1 DEF Cores, Phases
  <2> QED
    BY <1>5, <2>2 DEF i
<1> QED
  BY <1>6, <1>7

LEMMA SavingRemembers ==
  ASSUME PumpInv, ExaminePasses \/ ProgramStepEnds
  PROVE  Remembers
<1>1. CASE ExaminePasses
  <2> DEFINE i == Intended(core, cur)
  <2>1. PICK ok \in Verdicts : core' = Saved(i, ok)
    BY <1>1 DEF ExaminePasses
  <2>2. at = "accepted" /\ motor' = motor
    BY <1>1 DEF ExaminePasses
  <2>3. i \in Cores /\ (core.journal.motionPossible => i.journal.motionPossible)
    BY <2>2, IntentRemembers
  <2> HIDE DEF i
  <2>4. core'.journal = i.journal
    BY <2>1, <2>3, VerdictIsBoolean, SavedKeeps
  <2> QED
    BY <2>2, <2>3, <2>4 DEF Remembers
<1>2. CASE ProgramStepEnds
  <2> DEFINE n == [core EXCEPT !.journal.records[core.program].steps = @ + 1]
             last == StepsDone + 1 = StepsOf[RecordOf(core, core.program).cmd]
  <2>1. PICK ok \in Verdicts, fit \in BOOLEAN, linkValid \in BOOLEAN :
          core' = LET s == Saved(n, ok) IN
                  IF ~s.storageOk THEN s
                  ELSE IF last THEN RequestStop(s, "completed")
                  ELSE StepBegun(s, fit, linkValid)
    BY <1>2 DEF ProgramStepEnds
  <2>2. core.program \in Slots /\ CmdOf(core, core.program) \in Commands /\ core \in Cores
    BY <1>2, CoreFacts, SoundFacts DEF ProgramStepEnds, InPhase
  <2>3. n \in Cores /\ n.journal.motionPossible = core.journal.motionPossible
    BY <2>2, StepIsCalm DEF Calmer
  <2> HIDE DEF n, last
  <2> DEFINE t == Saved(n, ok)
  <2>4. t \in Cores /\ t.journal = n.journal
    BY <2>3, VerdictIsBoolean, SavedKeeps
  <2>5. core' = t \/ core' = RequestStop(t, "completed") \/ core' = StepBegun(t, fit, linkValid)
    BY <2>1
  <2> HIDE DEF t
  <2>6. core'.journal = n.journal
    BY <2>4, <2>5, RequestStopIsAlike, StepBegunIsAlike DEF Alike
  <2>7. motor' = motor /\ at # "off"
    BY <1>2 DEF ProgramStepEnds, InPhase
  <2> QED
    BY <2>3, <2>6, <2>7 DEF Remembers
<1> QED
  BY <1>1, <1>2

\* A RUN is written only when motion is on record.
LEMMA ActuateIsKnown == ASSUME PumpInv, MotionIsKnown, Actuate PROVE MotionIsKnown'
<1>1. core' = [core EXCEPT !.pending = cur] /\ at = "prepared" /\ core \in Cores /\ Working
  BY CoreFacts DEF Actuate
<1>2. core'.journal = core.journal
  BY <1>1 DEF Cores
<1>3. TypeOf(core, cur) = Type[CmdHere]
  BY DEF TypeOf, RecordOf, CmdHere, CmdOf
<1>4. CASE Type[CmdHere] = "start"
  BY <1>1, <1>2, <1>4 DEF Working, MotionIsKnown
<1>5. CASE Type[CmdHere] # "start"
  <2>1. motor' # "stopped" => motor # "stopped"
    BY <1>3, <1>5 DEF Actuate, WriteStop
  <2> QED
    BY <1>1, <1>2, <2>1 DEF MotionIsKnown
<1> QED
  BY <1>4, <1>5

LEMMA QuietIsKnown == ASSUME PumpInv, MotionIsKnown, Quiet PROVE MotionIsKnown'
<1>1. core \in Cores /\ issued \in Nat
  BY CoreFacts, CoreAssumption DEF Shape
<1>2. core'.journal = core.journal
  BY <1>1, QuietIsAlike DEF Alike
<1>3. at # "off"
  BY DEF Quiet, TickVerifyNothing, ProgramTrouble, ProgramUnlinked, ProgramNothing, SampleTrouble,
     LocalDisarm, TickStopUnread, ActuateProgram, ProgramHolds, ProgramStart, RestorePermission,
     TickGuard, LocalArm, GrantChanges, TickNetwork, InPhase
<1>4. CASE ProgramStart
  <2>1. core.journal.motionPossible
    BY <1>4, CoreFacts DEF ProgramStart, InPhase, Sound
  <2> QED
    BY <1>2, <2>1 DEF MotionIsKnown
<1>5. CASE ~ProgramStart
  <2>1. motor' # "stopped" => motor # "stopped"
    BY <1>5 DEF Quiet, TickVerifyNothing, ProgramTrouble, ProgramUnlinked, ProgramNothing, SampleTrouble,
       LocalDisarm, TickStopUnread, ActuateProgram, ProgramHolds, RestorePermission,
       TickGuard, LocalArm, GrantChanges, TickNetwork, WriteStop
  <2> QED
    BY <1>2, <1>3, <2>1 DEF MotionIsKnown
<1> QED
  BY <1>4, <1>5

\* A boot takes the possibility of motion from flash, where it always is.
LEMMA BootIsKnown ==
  ASSUME PumpInv, Readable, PowerOn \/ ConfirmEquipment \/ Crash
  PROVE  MotionIsKnown'
<1>1. CASE PowerOn
  <2>1. Sound(NewCore) /\ nvs \in Journals /\ Begin(NewCore)
    BY <1>1, NewCoreIsSound, CoreFacts DEF PowerOn
  <2>2. ~Busy(NewCore)
    BY DEF NewCore, EmptyJournal, Busy, Active
  <2>3. Cardinality(PendingPrograms(nvs)) \in Nat
    <3>1. IsFiniteSet(Slots)
      BY CoreAssumption, FS_Interval DEF Slots
    <3>2. PendingPrograms(nvs) \subseteq Slots
      BY DEF PendingPrograms
    <3> QED
      BY <3>1, <3>2, FS_Subset, FS_CardinalityType
  <2>4. ~BeginsBlank
    BY <2>3 DEF BeginsBlank, Readable
  <2>5. core'.journal = Interrupted(nvs)
    BY <2>1, <2>2, <2>4, BeginCases DEF BeginsAgain
  <2>6. motor # "stopped" => core'.journal.motionPossible
    BY <2>1, <2>5, InterruptedRecords, CoreFacts DEF Safe
  <2> QED
    BY <1>1, <2>6 DEF PowerOn, MotionIsKnown
<1>2. CASE ConfirmEquipment
  BY <1>2 DEF ConfirmEquipment, MotionIsKnown
<1>3. CASE Crash
  BY <1>3 DEF Crash, MotionIsKnown
<1> QED
  BY <1>1, <1>2, <1>3

LEMMA MotionStaysKnown == ASSUME PumpInv, MotionIsKnown, Readable, Next PROVE MotionIsKnown'
<1>1. CASE PowerOn \/ ConfirmEquipment \/ Crash
  BY <1>1, BootIsKnown
<1>2. CASE Issue \/ Refuses \/ MotorStops \/ DriveTrips
  <2>1. UNCHANGED <<at, core>> /\ (motor' # "stopped" => motor # "stopped")
    BY <1>2 DEF Issue, Refuses, ReceiveRefused, MotorStops, DriveTrips
  <2> QED
    BY <2>1 DEF MotionIsKnown
<1>3. CASE Replay \/ \E cmd \in Commands : ReceiveKnown(cmd)
  <2>1. UNCHANGED <<at, core, motor>>
    BY <1>3 DEF Replay, ReceiveKnown
  <2> QED
    BY <2>1 DEF MotionIsKnown
<1>4. CASE AcceptDisplacing \/ \E cmd \in Commands : ReceiveNew(cmd)
  BY <1>4, AcceptedRemembers, RememberedIsKnown
<1>5. CASE \/ ExamineFails \/ ActuateLate \/ ActuateUnlinked \/ TickVerifyTimedOut
           \/ \E cmd \in Commands : ReceiveDisplacing(cmd)
  BY <1>5, FailureRemembers, RememberedIsKnown
<1>6. CASE ExaminePasses \/ ProgramStepEnds
  BY <1>6, SavingRemembers, RememberedIsKnown
<1>7. CASE Actuate
  BY <1>7, ActuateIsKnown
<1>8. CASE TickStopRead
  BY <1>8 DEF TickStopRead, StopConfirmed, MotionIsKnown
<1>9. CASE TickVerified
  BY <1>9, VerifiedIsKnown
<1>10. CASE TickCompleteProgram \/ ProgramUnstopped
  BY <1>10, CompletedRemembers, RememberedIsKnown
<1>11. CASE Quiet
  BY <1>11, QuietIsKnown
<1> QED
  BY <1>1, <1>2, <1>3, <1>4, <1>5, <1>6, <1>7, <1>8, <1>9, <1>10, <1>11 DEF Next, Refuses, Quiet

\* As long as flash can be read and never holds two pending programs, whoever is powered
\* while the motor turns knows it.
THEOREM MotionKnownWhileReadable == Spec /\ []Readable => []MotionIsKnown
<1>1. Init => MotionIsKnown
  BY DEF Init, MotionIsKnown
<1>2. MotionIsKnown /\ UNCHANGED vars => MotionIsKnown'
  BY DEF MotionIsKnown, vars
<1>3. PumpInv /\ MotionIsKnown /\ Readable /\ [Next]_vars => MotionIsKnown'
  BY <1>2, MotionStaysKnown
<1> QED
  BY <1>1, <1>3, PumpInvariant, PTL DEF Spec

\* A flash that lists no command twice holds one pending program if only one was issued.
LEMMA OneIsPending ==
  ASSUME NEW j \in Journals, Listed(j),
         \A c, d \in Commands : Type[c] = "program" /\ Type[d] = "program" => c = d
  PROVE  Cardinality(PendingPrograms(j)) <= 1
<1> DEFINE S == PendingPrograms(j)
<1>1. \A s \in S : s \in Slots /\ j.records[s].cmd \in Commands /\ Type[j.records[s].cmd] = "program"
  <2>1. \A s \in Slots : j.records[s] \in Records
    BY JournalFacts
  <2>2. \A r \in Records : r.outcome = "pending" => r.cmd \in Commands
    BY DEF Records, EmptyRecord
  <2> QED
    BY <2>1, <2>2 DEF PendingPrograms
<1>2. \A s, t \in S : s = t
  BY <1>1 DEF Listed, Commands
<1> HIDE DEF S
<1>3. CASE S = {}
  BY <1>3, FS_EmptySet DEF S
<1>4. CASE S # {}
  <2>1. PICK s \in S : TRUE
    BY <1>4
  <2>2. S = {s}
    BY <1>2, <2>1
  <2>3. Cardinality(S) = 1
    BY <2>2, FS_Singleton
  <2> QED
    BY <2>3 DEF S
<1> QED
  BY <1>3, <1>4

\* Whoever is powered while the motor turns knows it, whatever was saved or lost before: where
\* flash can always be read and at most one command is a program.
THEOREM MotionKnown ==
  ASSUME ~LoadsFail, \A c, d \in Commands : Type[c] = "program" /\ Type[d] = "program" => c = d
  PROVE  Spec => []MotionIsKnown
<1>1. CoreInv => Readable
  BY AnswerFacts, OneIsPending DEF CoreInv, Written, Readable
<1> QED
  BY <1>1, CoreInvariant, MotionKnownWhileReadable, PTL

=============================================================================
