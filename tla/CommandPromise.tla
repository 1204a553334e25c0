---------------------------- MODULE CommandPromise ----------------------------
(***************************************************************************)
(* What the backend promises about the commands of one device, whatever    *)
(* threads, retries, late answers and crashes do (docs/command-safety-v2.md,*)
(* table of statuses): a command reported as withdrawn has never left and  *)
(* never will; one that may have left is settled only by the device's      *)
(* result, and is shown as unknown once nobody waits for it; no outcome is *)
(* ever taken back.                                                        *)
(***************************************************************************)
CONSTANT Requests
VARIABLES outcome, wire

Open == {"waiting", "tried", "accepted"}
MayHaveRun == {"tried", "accepted", "unknown", "succeeded", "failed"}
Outcomes == {"absent", "withdrawn"} \cup Open \cup MayHaveRun

Init == outcome = [r \in Requests |-> "absent"] /\ wire = {}

Halted(o) == IF o = "waiting" THEN "withdrawn" ELSE "unknown"

\* A request is registered; a Stop takes the deliverable ones in S out of delivery.
Register(r, S) ==
    /\ outcome[r] = "absent"
    /\ \A q \in S : outcome[q] \in {"waiting", "tried"}
    /\ outcome' = [q \in Requests |-> IF q = r THEN "waiting"
                                      ELSE IF q \in S THEN Halted(outcome[q])
                                      ELSE outcome[q]]
    /\ UNCHANGED wire

\* A request that arrives after its own Stop.
Withhold(r) ==
    /\ outcome[r] = "absent"
    /\ outcome' = [outcome EXCEPT ![r] = "withdrawn"]
    /\ UNCHANGED wire

Halt(r) ==
    /\ outcome[r] \in Open
    /\ outcome' = [outcome EXCEPT ![r] = Halted(@)]
    /\ UNCHANGED wire

Try(r) ==
    /\ outcome[r] = "waiting"
    /\ outcome' = [outcome EXCEPT ![r] = "tried"]
    /\ UNCHANGED wire

Transmit(r) ==
    /\ outcome[r] \in MayHaveRun
    /\ wire' = wire \cup {r}
    /\ UNCHANGED outcome

Accept(r) ==
    /\ r \in wire /\ outcome[r] = "tried"
    /\ outcome' = [outcome EXCEPT ![r] = "accepted"]
    /\ UNCHANGED wire

Settle(r) ==
    /\ r \in wire /\ outcome[r] \in {"tried", "accepted", "unknown"}
    /\ \E o \in {"succeeded", "failed"} : outcome' = [outcome EXCEPT ![r] = o]
    /\ UNCHANGED wire

Next == \E r \in Requests :
    \/ \E S \in SUBSET Requests : Register(r, S)
    \/ Withhold(r) \/ Halt(r) \/ Try(r) \/ Transmit(r) \/ Accept(r) \/ Settle(r)

Close(r) == outcome[r] \in Open /\ (Halt(r) \/ Settle(r))

\* No command stays open for ever; one of unknown fate may never be settled.
Spec == Init /\ [][Next]_<<outcome, wire>>
             /\ \A r \in Requests : WF_<<outcome, wire>>(Close(r))
=============================================================================
