--------------------------- MODULE CollectorProofs ---------------------------
(***************************************************************************)
(* Proofs about Collector for any number of goroutines, any set of         *)
(* descriptors and any number of retries and requests.                     *)
(***************************************************************************)
EXTENDS Collector, TLAPS

(* A caller inside Connect holds stateMutex, a caller inside its operation *)
(* holds opMutex, and nobody else does.                                    *)
LockInv ==
    \A c \in Callers : /\ pc[c] \in HoldsState <=> stateMutex = c
                       /\ pc[c] = "request" <=> opMutex = c

(* A call that may still call Connect has an attempt left.                 *)
BudgetInv ==
    \A c \in Callers :
        pc[c] \in HoldsState \cup {"check", "test", "lost", "connect"}
            => tries[c] >= 1

(* Flag, transport and counter agree; Connect holds the flag down.         *)
TransportInv ==
    /\ ConnectedStateConsistent
    /\ \A c \in Callers :
          /\ pc[c] \in HoldsState => ~connected
          /\ pc[c] \in {"test", "lost", "probe", "abort", "lockOp", "request"}
                => sock \in Sockets

(* Where a call waits for stateMutex before it has looked at anything.     *)
Waiting == {"idle", "check", "disconnect", "stats"}

(* A call without excuse finds the device reachable, is past its           *)
(* connection phase only with a live transport, and has looked at nothing  *)
(* yet when another caller's Connect is about to give its socket up.       *)
CauseInv ==
    /\ FailsOnlyForCause
    /\ \A c \in Callers : ~cause[c] =>
          /\ pc[c] # "idle" => up
          /\ pc[c] \in {"lockOp", "request", "probe"} => link[sock] = "live"
          /\ pc[c] = "connect" /\ connected => link[sock] = "live"
          /\ \A d \in Callers :
                \/ pc[d] = "abort"
                \/ pc[d] = "probe" /\ link[sock] # "live"
                => pc[c] \in Waiting

IInv == TypeOK /\ LockInv /\ BudgetInv /\ TransportInv /\ CauseInv

-----------------------------------------------------------------------------
(* The conjuncts of the invariant hold initially.                          *)
LEMMA InitInv == Init => IInv
  <1> SUFFICES ASSUME Init PROVE IInv
    OBVIOUS
  <1> USE CollectorAssumption DEF Init, NewCollector
  <1>1. TypeOK
    <2>1. connected \in BOOLEAN /\ up \in BOOLEAN
      OBVIOUS
    <2>2. cause \in [Callers -> BOOLEAN]
      BY Zenon
    <2>3. link \in [Sockets -> {"free", "live", "dead"}]
      OBVIOUS
    <2> QED
      BY <2>1, <2>2, <2>3 DEF TypeOK, Labels, HoldsState
  <1>2. LockInv /\ BudgetInv
    BY DEF LockInv, BudgetInv, HoldsState
  <1>3. TransportInv
    BY DEF TransportInv, ConnectedStateConsistent, HoldsState
  <1>4. CauseInv
    BY DEF CauseInv, FailsOnlyForCause, Waiting
  <1> QED
    BY <1>1, <1>2, <1>3, <1>4 DEF IInv

(* A step keeps the types: the count of attempts never goes below zero.    *)
LEMMA TypeStep ==
  ASSUME IInv, [Next]_vars
  PROVE  TypeOK'
  <1> USE CollectorAssumption DEF IInv, TypeOK, BudgetInv, HoldsState, Labels
  <1>1. ASSUME NEW c \in Callers, Begin(c) \/ Step(c)
        PROVE  TypeOK'
    <2>1. CASE Begin(c)
      <3>1. PICK l \in Labels, n \in 0..MaxRetries : BeginAt(c, l, n)
        BY <2>1 DEF Begin, CollectPoints, ReadOrWritePoint, Close, Reconnect
      <3>2. cause' \in [Callers -> BOOLEAN]
        BY <3>1, Zenon DEF BeginAt
      <3> QED
        BY <3>1, <3>2 DEF BeginAt, Goto, clientVars
    <2>2. CASE IsConnected(c)
      BY <2>2 DEF IsConnected, Goto, clientVars
    <2>3. CASE TestConnection(c)
      BY <2>3 DEF TestConnection, Reachable, Goto, clientVars
    <2>4. CASE MarkLost(c)
      BY <2>4 DEF MarkLost, Goto
    <2>5. CASE ConnectEnter(c)
      BY <2>5 DEF ConnectEnter, Connected, Return, Goto
    <2>6. CASE ConnectOpen(c)
      BY <2>6 DEF ConnectOpen, ConnectFailed, Return, Goto
    <2>7. CASE ConnectTest(c)
      <3>1. connected' \in BOOLEAN
        BY <2>7 DEF ConnectTest
      <3>2. /\ pc' \in [Callers -> Labels]
            /\ result' \in [Callers -> {"none", "GOOD", "BAD", "REJECTED"}]
        BY <2>7 DEF ConnectTest, Connected, Return, Goto
      <3> QED
        BY <2>7, <3>1, <3>2 DEF ConnectTest
    <2>8. CASE ConnectAbort(c)
      <3>1. link' \in [Sockets -> {"free", "live", "dead"}]
        BY <2>8 DEF ConnectAbort
      <3>2. /\ pc' \in [Callers -> Labels]
            /\ result' \in [Callers -> {"none", "GOOD", "BAD", "REJECTED"}]
            /\ tries' \in [Callers -> 0..MaxRetries]
        BY <2>8 DEF ConnectAbort, ConnectFailed, Return, Goto
      <3> QED
        BY <2>8, <3>1, <3>2 DEF ConnectAbort, ConnectFailed
    <2>9. CASE LockOp(c)
      BY <2>9 DEF LockOp, Goto, clientVars
    <2>10. CASE NoRequest(c)
      BY <2>10 DEF NoRequest, Finish, Return, Goto, clientVars
    <2>11. CASE ClientRequest(c)
      BY <2>11 DEF ClientRequest, Reachable, Finish, Return, Goto, clientVars
    <2>12. CASE GetConnectionStats(c)
      BY <2>12 DEF GetConnectionStats, Goto, clientVars
    <2>13. CASE Disconnect(c)
      BY <2>13 DEF Disconnect, Return, Goto
    <2> QED
      BY <1>1, <2>1, <2>2, <2>3, <2>4, <2>5, <2>6, <2>7, <2>8, <2>9, <2>10, <2>11, <2>12, <2>13 DEF Step
  <1>2. ASSUME NEW s \in Sockets, Finalize(s)
        PROVE  TypeOK'
    BY <1>2 DEF Finalize, callerVars
  <1>3. CASE LinkDown
    BY <1>3 DEF LinkDown
  <1>4. CASE LinkUp
    BY <1>4 DEF LinkUp, clientVars, callerVars
  <1>5. CASE UNCHANGED vars
    BY <1>5 DEF vars
  <1> QED
    BY <1>1, <1>2, <1>3, <1>4, <1>5 DEF Next

(* A step keeps each mutex with the caller that is inside its section.     *)
LEMMA LockStep ==
  ASSUME IInv, [Next]_vars
  PROVE  LockInv'
  <1> USE CollectorAssumption DEF IInv, TypeOK, LockInv, HoldsState, Labels
  <1>1. ASSUME NEW c \in Callers, Begin(c) \/ Step(c)
        PROVE  LockInv'
    <2>1. CASE Begin(c)
      BY <2>1 DEF Begin, CollectPoints, ReadOrWritePoint, Close, Reconnect, BeginAt, Goto, clientVars
    <2>2. CASE IsConnected(c)
      BY <2>2 DEF IsConnected, Goto, clientVars
    <2>3. CASE TestConnection(c)
      BY <2>3 DEF TestConnection, Reachable, Goto, clientVars
    <2>4. CASE MarkLost(c)
      BY <2>4 DEF MarkLost, Goto
    <2>5. CASE ConnectEnter(c)
      BY <2>5 DEF ConnectEnter, Connected, Return, Goto
    <2>6. CASE ConnectOpen(c)
      BY <2>6 DEF ConnectOpen, ConnectFailed, Return, Goto
    <2>7. CASE ConnectTest(c)
      BY <2>7 DEF ConnectTest, Reachable, Connected, Return, Goto
    <2>8. CASE ConnectAbort(c)
      BY <2>8 DEF ConnectAbort, ConnectFailed, Return, Goto
    <2>9. CASE LockOp(c)
      BY <2>9 DEF LockOp, Goto, clientVars
    <2>10. CASE NoRequest(c)
      BY <2>10 DEF NoRequest, Finish, Return, Goto, clientVars
    <2>11. CASE ClientRequest(c)
      BY <2>11 DEF ClientRequest, Reachable, Finish, Return, Goto, clientVars
    <2>12. CASE GetConnectionStats(c)
      BY <2>12 DEF GetConnectionStats, Goto, clientVars
    <2>13. CASE Disconnect(c)
      BY <2>13 DEF Disconnect, Return, Goto
    <2> QED
      BY <1>1, <2>1, <2>2, <2>3, <2>4, <2>5, <2>6, <2>7, <2>8, <2>9, <2>10, <2>11, <2>12, <2>13 DEF Step
  <1>2. ASSUME NEW s \in Sockets, Finalize(s)
        PROVE  LockInv'
    BY <1>2 DEF Finalize, callerVars
  <1>3. CASE LinkDown
    BY <1>3 DEF LinkDown
  <1>4. CASE LinkUp
    BY <1>4 DEF LinkUp, clientVars, callerVars
  <1>5. CASE UNCHANGED vars
    BY <1>5 DEF vars
  <1> QED
    BY <1>1, <1>2, <1>3, <1>4, <1>5 DEF Next

(* A step keeps an attempt for every call that may still connect.          *)
LEMMA BudgetStep ==
  ASSUME IInv, [Next]_vars
  PROVE  BudgetInv'
  <1> USE CollectorAssumption DEF IInv, TypeOK, BudgetInv, HoldsState
  <1>1. ASSUME NEW c \in Callers, Begin(c) \/ Step(c)
        PROVE  BudgetInv'
    <2>1. CASE Begin(c)
      BY <2>1 DEF Begin, CollectPoints, ReadOrWritePoint, Close, Reconnect, BeginAt, Goto, clientVars
    <2>2. CASE IsConnected(c)
      BY <2>2 DEF IsConnected, Goto, clientVars
    <2>3. CASE TestConnection(c)
      BY <2>3 DEF TestConnection, Reachable, Goto, clientVars
    <2>4. CASE MarkLost(c)
      BY <2>4 DEF MarkLost, Goto
    <2>5. CASE ConnectEnter(c)
      BY <2>5 DEF ConnectEnter, Connected, Return, Goto
    <2>6. CASE ConnectOpen(c)
      BY <2>6 DEF ConnectOpen, ConnectFailed, Return, Goto
    <2>7. CASE ConnectTest(c)
      BY <2>7 DEF ConnectTest, Reachable, Connected, Return, Goto
    <2>8. CASE ConnectAbort(c)
      BY <2>8 DEF ConnectAbort, ConnectFailed, Return, Goto
    <2>9. CASE LockOp(c)
      BY <2>9 DEF LockOp, Goto, clientVars
    <2>10. CASE NoRequest(c)
      BY <2>10 DEF NoRequest, Finish, Return, Goto, clientVars
    <2>11. CASE ClientRequest(c)
      BY <2>11 DEF ClientRequest, Reachable, Finish, Return, Goto, clientVars
    <2>12. CASE GetConnectionStats(c)
      BY <2>12 DEF GetConnectionStats, Goto, clientVars
    <2>13. CASE Disconnect(c)
      BY <2>13 DEF Disconnect, Return, Goto
    <2> QED
      BY <1>1, <2>1, <2>2, <2>3, <2>4, <2>5, <2>6, <2>7, <2>8, <2>9, <2>10, <2>11, <2>12, <2>13 DEF Step
  <1>2. ASSUME NEW s \in Sockets, Finalize(s)
        PROVE  BudgetInv'
    BY <1>2 DEF Finalize, callerVars
  <1>3. CASE LinkDown
    BY <1>3 DEF LinkDown
  <1>4. CASE LinkUp
    BY <1>4 DEF LinkUp, clientVars, callerVars
  <1>5. CASE UNCHANGED vars
    BY <1>5 DEF vars
  <1> QED
    BY <1>1, <1>2, <1>3, <1>4, <1>5 DEF Next

(* A step keeps flag, transport and counter together.                      *)
LEMMA TransportStep ==
  ASSUME IInv, [Next]_vars
  PROVE  TransportInv'
  <1> USE CollectorAssumption DEF IInv, TypeOK, LockInv, TransportInv, ConnectedStateConsistent, HoldsState
  <1>1. ASSUME NEW c \in Callers, Begin(c) \/ Step(c)
        PROVE  TransportInv'
    <2>1. CASE Begin(c)
      BY <2>1 DEF Begin, CollectPoints, ReadOrWritePoint, Close, Reconnect, BeginAt, Goto, clientVars
    <2>2. CASE IsConnected(c)
      BY <2>2 DEF IsConnected, Goto, clientVars
    <2>3. CASE TestConnection(c)
      BY <2>3 DEF TestConnection, Reachable, Goto, clientVars
    <2>4. CASE MarkLost(c)
      BY <2>4 DEF MarkLost, Goto
    <2>5. CASE ConnectEnter(c)
      BY <2>5 DEF ConnectEnter, Connected, Return, Goto
    <2>6. CASE ConnectOpen(c)
      BY <2>6 DEF ConnectOpen, ConnectFailed, Return, Goto
    <2>7. CASE ConnectTest(c)
      BY <2>7 DEF ConnectTest, Reachable, Connected, Return, Goto
    <2>8. CASE ConnectAbort(c)
      BY <2>8 DEF ConnectAbort, ConnectFailed, Return, Goto
    <2>9. CASE LockOp(c)
      BY <2>9 DEF LockOp, Goto, clientVars
    <2>10. CASE NoRequest(c)
      BY <2>10 DEF NoRequest, Finish, Return, Goto, clientVars
    <2>11. CASE ClientRequest(c)
      BY <2>11 DEF ClientRequest, Reachable, Finish, Return, Goto, clientVars
    <2>12. CASE GetConnectionStats(c)
      BY <2>12 DEF GetConnectionStats, Goto, clientVars
    <2>13. CASE Disconnect(c)
      BY <2>13 DEF Disconnect, Return, Goto
    <2> QED
      BY <1>1, <2>1, <2>2, <2>3, <2>4, <2>5, <2>6, <2>7, <2>8, <2>9, <2>10, <2>11, <2>12, <2>13 DEF Step
  <1>2. ASSUME NEW s \in Sockets, Finalize(s)
        PROVE  TransportInv'
    BY <1>2 DEF Finalize, callerVars
  <1>3. CASE LinkDown
    BY <1>3 DEF LinkDown
  <1>4. CASE LinkUp
    BY <1>4 DEF LinkUp, clientVars, callerVars
  <1>5. CASE UNCHANGED vars
    BY <1>5 DEF vars
  <1> QED
    BY <1>1, <1>2, <1>3, <1>4, <1>5 DEF Next

(* A step fails no call that has no excuse.                                *)
LEMMA CauseStep ==
  ASSUME IInv, [Next]_vars
  PROVE  CauseInv'
  <1> USE CollectorAssumption DEF IInv, TypeOK, LockInv, TransportInv, ConnectedStateConsistent, CauseInv, FailsOnlyForCause, Waiting, HoldsState
  <1>1. ASSUME NEW c \in Callers, Begin(c) \/ Step(c)
        PROVE  CauseInv'
    <2>1. CASE Begin(c)
      <3>1. PICK l \in {"check", "disconnect"}, n \in 0..MaxRetries :
                BeginAt(c, l, n)
        BY <2>1 DEF Begin, CollectPoints, ReadOrWritePoint, Close, Reconnect
      <3>2. /\ pc[c] = "idle" /\ pc' = [pc EXCEPT ![c] = l]
            /\ cause' = [cause EXCEPT ![c] = ~up]
            /\ result' = [result EXCEPT ![c] = "none"]
            /\ UNCHANGED <<up, sock, link, connected>>
        BY <3>1 DEF BeginAt, Goto, clientVars
      <3>3. FailsOnlyForCause'
        BY <3>2
      <3>4. /\ pc'[c] \in {"check", "disconnect"} /\ cause'[c] = ~up
            /\ \A d \in Callers \ {c} : pc'[d] = pc[d] /\ cause'[d] = cause[d]
        BY <3>2
      <3>5. ASSUME NEW d \in Callers, ~cause'[d]
            PROVE  /\ pc'[d] # "idle" => up'
                   /\ pc'[d] \in {"lockOp", "request", "probe"} =>
                         link'[sock'] = "live"
                   /\ pc'[d] = "connect" /\ connected' => link'[sock'] = "live"
                   /\ \A e \in Callers :
                         \/ pc'[e] = "abort"
                         \/ pc'[e] = "probe" /\ link'[sock'] # "live"
                         => pc'[d] \in Waiting
        <4>1. CASE d = c
          BY <3>2, <3>4, <3>5, <4>1
        <4>2. CASE d # c
          BY <3>2, <3>4, <3>5, <4>2
        <4> QED
          BY <4>1, <4>2
      <3> QED
        BY <3>3, <3>5
    <2>2. CASE IsConnected(c)
      BY <2>2 DEF IsConnected, Goto, clientVars
    <2>3. CASE TestConnection(c)
      BY <2>3 DEF TestConnection, Reachable, Goto, clientVars
    <2>4. CASE MarkLost(c)
      BY <2>4 DEF MarkLost, Goto
    <2>5. CASE ConnectEnter(c)
      BY <2>5 DEF ConnectEnter, Connected, Return, Goto
    <2>6. CASE ConnectOpen(c)
      BY <2>6 DEF ConnectOpen, ConnectFailed, Return, Goto
    <2>7. CASE ConnectTest(c)
      BY <2>7 DEF ConnectTest, Reachable, Connected, Return, Goto
    <2>8. CASE ConnectAbort(c)
      BY <2>8 DEF ConnectAbort, ConnectFailed, Return, Goto
    <2>9. CASE LockOp(c)
      BY <2>9 DEF LockOp, Goto, clientVars
    <2>10. CASE NoRequest(c)
      BY <2>10 DEF NoRequest, Finish, Return, Goto, clientVars
    <2>11. CASE ClientRequest(c)
      BY <2>11 DEF ClientRequest, Reachable, Finish, Return, Goto, clientVars
    <2>12. CASE GetConnectionStats(c)
      BY <2>12 DEF GetConnectionStats, Goto, clientVars
    <2>13. CASE Disconnect(c)
      BY <2>13 DEF Disconnect, Return, Goto
    <2> QED
      BY <1>1, <2>1, <2>2, <2>3, <2>4, <2>5, <2>6, <2>7, <2>8, <2>9, <2>10, <2>11, <2>12, <2>13 DEF Step
  <1>2. ASSUME NEW s \in Sockets, Finalize(s)
        PROVE  CauseInv'
    BY <1>2 DEF Finalize, callerVars
  <1>3. CASE LinkDown
    BY <1>3 DEF LinkDown
  <1>4. CASE LinkUp
    BY <1>4 DEF LinkUp, clientVars, callerVars
  <1>5. CASE UNCHANGED vars
    BY <1>5 DEF vars
  <1> QED
    BY <1>1, <1>2, <1>3, <1>4, <1>5 DEF Next

-----------------------------------------------------------------------------
(* IInv is inductive.                                                      *)
LEMMA InvStep == IInv /\ [Next]_vars => IInv'
  BY TypeStep, LockStep, BudgetStep, TransportStep, CauseStep DEF IInv

LEMMA Invariance == Spec => []IInv
  BY InitInv, InvStep, PTL DEF Spec

(* The variables keep their types; in particular no call makes more than   *)
(* maxRetries attempts to connect, the bound of ensureConnected's loop.    *)
THEOREM TypeCorrect == Spec => []TypeOK
  <1>1. IInv => TypeOK
    BY DEF IInv
  <1> QED
    BY <1>1, Invariance, PTL

(* A set connected flag means an opened transport that nobody has closed   *)
(* and a reset failure counter, in Connect, Disconnect and ensureConnected.*)
THEOREM FlagMatchesTransport == Spec => []ConnectedStateConsistent
  <1>1. IInv => ConnectedStateConsistent
    BY DEF IInv, TransportInv
  <1> QED
    BY <1>1, Invariance, PTL

(* No goroutine calls the client before some Open has succeeded: the test, *)
(* the probe of Connect and the operations have a transport.               *)
THEOREM NoRequestWithoutTransport == Spec => []RequestsHaveTransport
  <1>1. IInv => RequestsHaveTransport
    BY DEF IInv, TransportInv, RequestsHaveTransport
  <1> QED
    BY <1>1, Invariance, PTL

(* A poll, read or write fails only if the device was unreachable, the     *)
(* collector was closed or no descriptor was left while it ran, however    *)
(* many goroutines mark, close and reopen the connection meanwhile.        *)
THEOREM FailuresAreExcused == Spec => []FailsOnlyForCause
  <1>1. IInv => FailsOnlyForCause
    BY DEF IInv, CauseInv
  <1> QED
    BY <1>1, Invariance, PTL

(* Connect (collector.go): between its check of the flag and its Open no   *)
(* other goroutine gets the flag up, so it never opens a second transport  *)
(* over a connection that counts as good.                                  *)
THEOREM OpensWhileFlagIsDown == Spec => OpensOnlyWhenDisconnected
  <1> DEFINE Opens == \A s \in Sockets :
                         link[s] = "free" /\ link'[s] = "live" => ~connected
  <1>1. ASSUME IInv, [Next]_vars
        PROVE  [Opens]_vars
    <2> USE <1>1 DEF IInv, TypeOK, LockInv, TransportInv, HoldsState
    <2>1. ASSUME NEW c \in Callers, ConnectOpen(c)
          PROVE  Opens
      BY <2>1 DEF ConnectOpen
    <2>2. ASSUME NEW c \in Callers, Begin(c) \/ Step(c), ~ConnectOpen(c)
          PROVE  Opens
      <3>1. CASE Begin(c)
        BY <3>1 DEF Begin, CollectPoints, ReadOrWritePoint, Close, Reconnect,
                    BeginAt, clientVars
      <3>2. CASE UNCHANGED link
        BY <3>2
      <3>3. CASE ConnectAbort(c) \/ Disconnect(c)
        BY <3>3 DEF ConnectAbort, Disconnect
      <3> QED
        BY <2>2, <3>1, <3>2, <3>3
           DEF Step, IsConnected, TestConnection, MarkLost, ConnectEnter,
               ConnectTest, LockOp, NoRequest, ClientRequest,
               GetConnectionStats, clientVars
    <2>3. ASSUME NEW s \in Sockets, Finalize(s)
          PROVE  Opens
      BY <2>3 DEF Finalize
    <2>4. CASE LinkDown \/ LinkUp
      BY <2>4 DEF LinkDown, LinkUp, clientVars
    <2> QED
      BY <1>1, <2>1, <2>2, <2>3, <2>4 DEF Next
  <1> QED
    BY <1>1, Invariance, PTL DEF Spec, OpensOnlyWhenDisconnected

-----------------------------------------------------------------------------
(* Excuses are never withdrawn and only calls under way are excused.       *)
CauseGrows ==
    \A c \in Callers : /\ cause[c] => cause'[c]
                       /\ pc[c] = "idle" => (cause'[c] <=> cause[c])

(* The labels of a call that has not returned.                             *)
Inside == Labels \ {"idle", "stats"}

(* The phases of the labels.                                               *)
LEMMA Phases ==
  /\ PhaseOf("idle") = "out"
  /\ PhaseOf("request") = "operating"
  /\ PhaseOf("stats") = "over"
  /\ \A l \in Labels : /\ PhaseOf(l) = "out" <=> l = "idle"
                       /\ PhaseOf(l) = "operating" <=> l = "request"
                       /\ PhaseOf(l) = "over" <=> l = "stats"
                       /\ l \in Inside \ {"request"} => PhaseOf(l) = "in"
  BY DEF PhaseOf, Labels, HoldsState, Inside

(* A growing cause is an excuse of the abstract collector.                 *)
LEMMA GrowingExcuses ==
  ASSUME TypeOK, TypeOK', CauseGrows
  PROVE  Calls!Excusing
  <1>1. \A c \in Callers : callPhase[c] = "out" => pc[c] = "idle"
    BY Phases DEF TypeOK, callPhase
  <1>2. Calls!AllCallers = Callers
    BY DEF Calls!AllCallers, Callers
  <1>3. cause' \in [Callers -> BOOLEAN]
    BY DEF TypeOK
  <1> QED
    BY <1>1, <1>2, <1>3, Zenon DEF CauseGrows, Calls!Excusing

(* A step inside a call is at most an excuse.                              *)
LEMMA InnerStep ==
  ASSUME TypeOK, TypeOK', CauseGrows, NEW c \in Callers,
         NEW l \in Inside, Goto(c, l), pc[c] \in Inside,
         l = "request" <=> pc[c] = "request",
         \A d \in Callers : d # c => result'[d] = result[d]
  PROVE  Calls!Excuse
  <1>1. callPhase' = callPhase
    BY Phases DEF TypeOK, Goto, callPhase, Inside
  <1>2. callOutcome' = callOutcome
    BY DEF TypeOK, Goto, callOutcome, Inside
  <1> QED
    BY <1>1, <1>2, GrowingExcuses DEF Calls!Excuse

(* A call that returns answers the abstract collector's call.              *)
LEMMA AnswerStep ==
  ASSUME TypeOK, TypeOK', CauseGrows, NEW c \in Callers,
         NEW r \in {"GOOD", "BAD", "REJECTED"}, Return(c, r),
         r = "BAD" => cause'[c]
  PROVE  Calls!Answer(c, r)
  <1>1. callOutcome' = [callOutcome EXCEPT ![c] = r]
    BY DEF TypeOK, Return, Goto, callOutcome
  <1>2. \E p \in {"out", "over"} : callPhase' = [callPhase EXCEPT ![c] = p]
    <2>1. CASE c \in Pollers
      <3>1. callPhase' = [callPhase EXCEPT ![c] = "over"]
        BY <2>1, Phases DEF TypeOK, Return, Goto, callPhase
      <3> QED
        BY <3>1
    <2>2. CASE c \notin Pollers
      <3>1. callPhase' = [callPhase EXCEPT ![c] = "out"]
        BY <2>2, Phases DEF TypeOK, Return, Goto, callPhase
      <3> QED
        BY <3>1
    <2> QED
      BY <2>1, <2>2
  <1> QED
    BY <1>1, <1>2, GrowingExcuses DEF Calls!Answer

(* Initially nobody has called.                                            *)
LEMMA CallsInit == Init => Calls!Init
  BY DEF Init, Calls!Init, Calls!AllCallers, Callers, callPhase, callOutcome,
         PhaseOf

(* The excuses of one step: ConnectOpen without a descriptor and the       *)
(* network's failure add some, Disconnect those of the others.             *)
LEMMA StepGrowsCause ==
  ASSUME TypeOK, NEW c \in Callers, Step(c)
  PROVE  CauseGrows
  <1>1. CASE ConnectOpen(c)
    BY <1>1 DEF ConnectOpen, CauseGrows, TypeOK
  <1>2. CASE Disconnect(c)
    BY <1>2 DEF Disconnect, CauseGrows
  <1>3. CASE UNCHANGED cause
    BY <1>3 DEF CauseGrows
  <1> QED
    BY <1>1, <1>2, <1>3
       DEF Step, IsConnected, TestConnection, MarkLost, ConnectEnter,
           ConnectTest, ConnectAbort, LockOp, NoRequest, ClientRequest,
           GetConnectionStats

(* A failed attempt to connect is an inner step or gives the call up.      *)
LEMMA ConnectFails ==
  ASSUME IInv, IInv', CauseGrows, NEW c \in Callers, ConnectFailed(c),
         pc[c] \in HoldsState
  PROVE  Calls!Excuse \/ Calls!GiveUp(c)
  <1> USE DEF IInv
  <1>1. CASE tries[c] > 1
    <2>1. Goto(c, "connect") /\ UNCHANGED result
      BY <1>1 DEF ConnectFailed
    <2> QED
      BY <2>1, InnerStep DEF Inside, Labels, HoldsState
  <1>2. CASE ~(tries[c] > 1)
    <2>1. Return(c, "BAD")
      BY <1>2 DEF ConnectFailed
    <2>2. cause'[c]
      <3>1. result'[c] = "BAD"
        BY <2>1 DEF Return, TypeOK
      <3> QED
        BY <3>1 DEF CauseInv, FailsOnlyForCause
    <2>3. callPhase[c] = "in"
      BY Phases DEF TypeOK, callPhase, HoldsState, Inside, Labels
    <2> QED
      BY <2>1, <2>2, <2>3, AnswerStep DEF Calls!GiveUp
  <1> QED
    BY <1>1, <1>2

(* A connection that stands is an inner step or all a closer wanted.       *)
LEMMA ConnectSucceeds ==
  ASSUME TypeOK, TypeOK', CauseGrows, NEW c \in Callers, Connected(c),
         pc[c] \in {"connect", "probe"}
  PROVE  Calls!Excuse \/ Calls!CloserDone(c)
  <1>1. CASE c \in Closers
    <2>1. Calls!Answer(c, "GOOD")
      BY <1>1, AnswerStep DEF Connected
    <2>2. callPhase[c] = "in"
      BY Phases DEF TypeOK, callPhase, HoldsState, Inside, Labels
    <2> QED
      BY <1>1, <2>1, <2>2 DEF Calls!CloserDone
  <1>2. CASE c \notin Closers
    BY <1>2, InnerStep DEF Connected, Inside, Labels, HoldsState
  <1> QED
    BY <1>1, <1>2

(* Closers never come to the labels of an operation, and nobody else comes *)
(* to theirs.                                                              *)
RoleInv ==
    \A c \in Callers :
        /\ pc[c] \in {"check", "test", "lost", "lockOp", "request"}
              => c \notin Closers
        /\ pc[c] = "disconnect" => c \in Closers

LEMMA RoleStep ==
  ASSUME TypeOK, RoleInv, [Next]_vars
  PROVE  RoleInv'
  <1> USE CollectorAssumption DEF RoleInv, TypeOK, Goto
  <1>1. ASSUME NEW c \in Callers, Begin(c)
        PROVE  RoleInv'
    BY <1>1 DEF Begin, CollectPoints, ReadOrWritePoint, Close, Reconnect,
                BeginAt
  <1>2. ASSUME NEW c \in Callers, Step(c)
        PROVE  RoleInv'
    <2>1. CASE IsConnected(c) \/ TestConnection(c) \/ MarkLost(c)
      BY <2>1 DEF IsConnected, TestConnection, MarkLost
    <2>2. CASE ConnectEnter(c) \/ ConnectTest(c)
      BY <2>2 DEF ConnectEnter, ConnectTest, Connected, Return
    <2>3. CASE ConnectOpen(c) \/ ConnectAbort(c)
      BY <2>3 DEF ConnectOpen, ConnectAbort, ConnectFailed, Return
    <2>4. CASE LockOp(c) \/ GetConnectionStats(c) \/ Disconnect(c)
      BY <2>4 DEF LockOp, GetConnectionStats, Disconnect, Return
    <2>5. CASE NoRequest(c) \/ ClientRequest(c)
      BY <2>5 DEF NoRequest, ClientRequest, Finish, Return
    <2> QED
      BY <1>2, <2>1, <2>2, <2>3, <2>4, <2>5 DEF Step
  <1>3. CASE UNCHANGED pc
    BY <1>3
  <1> QED
    BY <1>1, <1>2, <1>3
       DEF Next, LinkDown, LinkUp, Finalize, callerVars, vars

LEMMA Roles == Spec => []RoleInv
  <1>1. Init => RoleInv
    BY DEF Init, RoleInv
  <1>2. IInv /\ RoleInv /\ [Next]_vars => RoleInv'
    BY RoleStep DEF IInv
  <1> QED
    BY <1>1, <1>2, Invariance, PTL DEF Spec

(* A caller that goes to another label goes to that label's phase.         *)
LEMMA PhaseMove ==
  ASSUME TypeOK, NEW c \in Callers, NEW l \in Labels, Goto(c, l)
  PROVE  /\ callPhase[c] = PhaseOf(pc[c])
         /\ callPhase' = [callPhase EXCEPT ![c] = PhaseOf(l)]
  BY DEF TypeOK, Goto, callPhase

(* An operation that ends is the abstract operation's end.                 *)
LEMMA OperationEnds ==
  ASSUME IInv, IInv', CauseGrows, NEW c \in Callers,
         NEW r \in {"GOOD", "BAD", "REJECTED"}, Finish(c, r),
         pc[c] = "request"
  PROVE  Calls!Finish(c)
  <1>1. r = "BAD" => cause'[c]
    <2>1. result'[c] = r
      BY DEF IInv, Finish, Return, TypeOK
    <2> QED
      BY <2>1 DEF IInv, CauseInv, FailsOnlyForCause
  <1>2. Calls!Answer(c, r)
    BY <1>1, AnswerStep DEF IInv, Finish
  <1>3. callPhase[c] = "operating"
    BY Phases DEF callPhase
  <1> QED
    BY <1>2, <1>3 DEF Calls!Finish

(* A caller's step is a step of the abstract collector or invisible.       *)
LEMMA CallerStep ==
  ASSUME IInv, IInv', RoleInv, NEW c \in Callers, Begin(c) \/ Step(c)
  PROVE  Calls!Next \/ UNCHANGED Calls!callVars
  <1> USE DEF IInv
  <1> c \in Calls!AllCallers
    BY DEF Calls!AllCallers, Callers
  <1>1. CASE Begin(c)
    <2>1. PICK l \in {"check", "disconnect"}, n \in 0..MaxRetries :
             BeginAt(c, l, n)
      BY <1>1, CollectorAssumption
         DEF Begin, CollectPoints, ReadOrWritePoint, Close, Reconnect
    <2>2. callPhase[c] = "out" /\ callPhase' = [callPhase EXCEPT ![c] = "in"]
      <3>1. l \in Labels /\ PhaseOf(l) = "in" /\ pc[c] = "idle"
        BY <2>1, Phases DEF BeginAt, Labels, HoldsState, Inside
      <3> QED
        BY <2>1, <3>1, Phases, PhaseMove DEF BeginAt
    <2>3. callOutcome' = [callOutcome EXCEPT ![c] = "none"]
      BY <2>1 DEF BeginAt, Goto, TypeOK, callOutcome
    <2>4. /\ cause' = [cause EXCEPT ![c] = ~up]
          /\ (~up) \in BOOLEAN
      BY <2>1, Zenon DEF BeginAt
    <2>5. Calls!Begin(c)
      BY <2>2, <2>3, <2>4, Zenon DEF Calls!Begin
    <2> QED
      BY <2>5 DEF Calls!Next
  <1>2. ASSUME Step(c) PROVE Calls!Next \/ UNCHANGED Calls!callVars
    <2> CauseGrows
      BY <1>2, StepGrowsCause
    <2>1. CASE IsConnected(c)
      BY <2>1, InnerStep DEF IsConnected, Inside, Labels, HoldsState, Calls!Next
    <2>2. CASE TestConnection(c)
      BY <2>2, InnerStep
         DEF TestConnection, Inside, Labels, HoldsState, Calls!Next
    <2>3. CASE MarkLost(c)
      BY <2>3, InnerStep DEF MarkLost, Inside, Labels, HoldsState, Calls!Next
    <2>4. CASE ConnectEnter(c)
      BY <2>4, InnerStep, ConnectSucceeds
         DEF ConnectEnter, Inside, Labels, HoldsState, Calls!Next
    <2>5. CASE ConnectOpen(c)
      BY <2>5, InnerStep, ConnectFails
         DEF ConnectOpen, Inside, Labels, HoldsState, Calls!Next
    <2>6. CASE ConnectTest(c)
      BY <2>6, InnerStep, ConnectSucceeds
         DEF ConnectTest, Inside, Labels, HoldsState, Calls!Next
    <2>7. CASE ConnectAbort(c)
      BY <2>7, ConnectFails DEF ConnectAbort, HoldsState, Calls!Next
    <2>8. CASE LockOp(c)
      <3>1. c \in Pollers \cup Handlers
        BY <2>8 DEF LockOp, RoleInv, Callers
      <3>2. callPhase[c] = "in"
            /\ callPhase' = [callPhase EXCEPT ![c] = "operating"]
        BY <2>8, Phases, PhaseMove DEF LockOp, Labels, HoldsState, Inside
      <3>3. \A d \in Callers : callPhase[d] # "operating"
        <4>1. \A d \in Callers : pc[d] # "request"
          BY <2>8, CollectorAssumption DEF LockOp, LockInv
        <4> QED
          BY <4>1, Phases DEF TypeOK, callPhase
      <3>4. UNCHANGED <<callOutcome, cause>>
        BY <2>8 DEF LockOp, Goto, TypeOK, callOutcome
      <3>5. Calls!Operate(c)
        BY <3>1, <3>2, <3>3, <3>4 DEF Calls!Operate, Calls!AllCallers, Callers
      <3> QED
        BY <3>5 DEF Calls!Next
    <2>9. CASE NoRequest(c)
      BY <2>9, OperationEnds DEF NoRequest, Calls!Next
    <2>10. CASE ClientRequest(c)
      BY <2>10, OperationEnds, InnerStep
         DEF ClientRequest, Goto, TypeOK, Inside, Labels, HoldsState, Calls!Next
    <2>11. CASE GetConnectionStats(c)
      <3>1. callPhase[c] = "over"
            /\ callPhase' = [callPhase EXCEPT ![c] = "out"]
        BY <2>11, Phases, PhaseMove DEF GetConnectionStats, Labels
      <3>2. UNCHANGED <<callOutcome, cause>>
        BY <2>11 DEF GetConnectionStats, Goto, TypeOK, callOutcome
      <3> QED
        BY <3>1, <3>2 DEF Calls!Leave, Calls!Next
    <2>12. CASE Disconnect(c)
      <3>1. CASE tries[c] = 0
        <4>1. Calls!Answer(c, "GOOD")
          BY <2>12, <3>1, AnswerStep DEF Disconnect
        <4>2. callPhase[c] = "in"
          BY <2>12, Phases
             DEF Disconnect, TypeOK, callPhase, Labels, HoldsState, Inside
        <4>3. c \in Closers
          BY <2>12 DEF Disconnect, RoleInv
        <4> QED
          BY <4>1, <4>2, <4>3 DEF Calls!CloserDone, Calls!Next
      <3>2. CASE tries[c] # 0
        BY <2>12, <3>2, InnerStep
           DEF Disconnect, Inside, Labels, HoldsState, Calls!Next
      <3> QED
        BY <3>1, <3>2
    <2> QED
      BY <1>2, <2>1, <2>2, <2>3, <2>4, <2>5, <2>6, <2>7, <2>8, <2>9, <2>10,
         <2>11, <2>12 DEF Step
  <1> QED
    BY <1>1, <1>2

(* The network's steps excuse calls; a closed descriptor is not seen.      *)
LEMMA NetworkStep ==
  ASSUME TypeOK, TypeOK', LinkDown \/ LinkUp \/ \E s \in Sockets : Finalize(s)
  PROVE  Calls!Next \/ UNCHANGED Calls!callVars
  <1>1. CASE LinkDown
    <2>1. callPhase' = callPhase /\ callOutcome' = callOutcome
      BY <1>1 DEF LinkDown, callPhase, callOutcome
    <2>2. CauseGrows
      BY <1>1 DEF LinkDown, CauseGrows, TypeOK
    <2> QED
      BY <2>1, <2>2, GrowingExcuses DEF Calls!Excuse, Calls!Next
  <1>2. CASE UNCHANGED callerVars
    BY <1>2 DEF callerVars, callPhase, callOutcome, Calls!callVars
  <1> QED
    BY <1>1, <1>2 DEF LinkUp, Finalize

(* Whatever the connection does, the collector is one that runs operations *)
(* one at a time and fails only when excused: every behaviour of Collector *)
(* is one of CollectorCall.                                                *)
THEOREM CollectorIsACollector == Spec => ImplementsCalls
  <1>1. IInv /\ IInv' /\ RoleInv /\ [Next]_vars
           => [Calls!Next]_(Calls!callVars)
    <2> SUFFICES ASSUME IInv, IInv', RoleInv, [Next]_vars
                 PROVE  Calls!Next \/ UNCHANGED Calls!callVars
      OBVIOUS
    <2>1. CASE \E c \in Callers : Begin(c) \/ Step(c)
      BY <2>1, CallerStep
    <2>2. CASE LinkDown \/ LinkUp \/ \E s \in Sockets : Finalize(s)
      BY <2>2, NetworkStep DEF IInv
    <2>3. CASE UNCHANGED vars
      BY <2>3 DEF vars, callPhase, callOutcome, Calls!callVars
    <2> QED
      BY <2>1, <2>2, <2>3 DEF Next
  <1> QED
    BY <1>1, CallsInit, Invariance, Roles, PTL
       DEF Spec, ImplementsCalls, Calls!Spec
=============================================================================
