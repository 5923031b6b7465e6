----------------------------- MODULE CollectorCall -----------------------------
(***************************************************************************)
(* What a Collector promises the goroutines that call it, with nothing of  *)
(* its connection: a call runs one operation on the device, alone, and     *)
(* returns what it did; it fails only if something excuses the failure.    *)
(* Collector implements it.                                                *)
(***************************************************************************)
CONSTANTS Users,      \* callers of CollectPoints, ReadSinglePoint, WritePoint
          Closers     \* callers of Close and Reconnect

VARIABLES
    phase,     \* out, in (not yet at the device), operating, or over
    outcome,   \* what the last call of each caller returned
    excused    \* did something that excuses a failure happen during the call

callVars == <<phase, outcome, excused>>

AllCallers == Users \cup Closers

Init ==
    /\ phase = [c \in AllCallers |-> "out"]
    /\ outcome = [c \in AllCallers |-> "none"]
    /\ excused = [c \in AllCallers |-> FALSE]

(* What happens during a step can excuse any call that is under way, and   *)
(* an excuse lasts as long as the call.                                    *)
Excusing ==
    /\ excused' \in [AllCallers -> BOOLEAN]
    /\ \A c \in AllCallers :
          /\ excused[c] => excused'[c]
          /\ phase[c] = "out" => (excused'[c] <=> excused[c])

Begin(c) ==
    /\ phase[c] = "out"
    /\ phase' = [phase EXCEPT ![c] = "in"]
    /\ outcome' = [outcome EXCEPT ![c] = "none"]
    /\ \E e \in BOOLEAN : excused' = [excused EXCEPT ![c] = e]

(* The operation proper begins while nobody else is inside his.            *)
Operate(c) ==
    /\ c \in Users
    /\ phase[c] = "in"
    /\ \A d \in AllCallers : phase[d] # "operating"
    /\ phase' = [phase EXCEPT ![c] = "operating"]
    /\ UNCHANGED <<outcome, excused>>

(* The result is there.  A poller has still to read the statistics.        *)
Answer(c, r) ==
    /\ outcome' = [outcome EXCEPT ![c] = r]
    /\ \E p \in {"out", "over"} : phase' = [phase EXCEPT ![c] = p]
    /\ Excusing
    /\ r = "BAD" => excused'[c]

Finish(c) ==
    /\ phase[c] = "operating"
    /\ \E r \in {"GOOD", "BAD", "REJECTED"} : Answer(c, r)

(* No connection: the call ends before the device was asked.               *)
GiveUp(c) ==
    /\ phase[c] = "in"
    /\ Answer(c, "BAD")

CloserDone(c) ==
    /\ c \in Closers
    /\ phase[c] = "in"
    /\ Answer(c, "GOOD")

Leave(c) ==
    /\ phase[c] = "over"
    /\ phase' = [phase EXCEPT ![c] = "out"]
    /\ UNCHANGED <<outcome, excused>>

Excuse == Excusing /\ UNCHANGED <<phase, outcome>>

Next ==
    \/ \E c \in AllCallers :
          Begin(c) \/ Operate(c) \/ Finish(c) \/ GiveUp(c) \/ CloserDone(c)
             \/ Leave(c)
    \/ Excuse

Spec == Init /\ [][Next]_callVars
=============================================================================
