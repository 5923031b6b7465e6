----------------------------- MODULE ServiceProofs -----------------------------
(***************************************************************************)
(* Safety of Service's shutdown, for any number of devices and handlers.   *)
(* The wait group is a number: that it counts the living pollers has to be *)
(* an invariant before wg = 0 can mean that none is left.                  *)
(***************************************************************************)
EXTENDS Service, FiniteSetTheorems, TLAPS

-----------------------------------------------------------------------------
LiveStates == {"starting", "select", "collect", "send"}

Live == {d \in Devices : poller[d] \in LiveStates}

(* The wait group counts the living pollers.                               *)
CountInv == wg = Cardinality(Live)

(* Start adds pollers one by one: those from device on are not started.    *)
StartInv ==
    /\ main \in {"init", "failed"} => \A d \in Devices : poller[d] = "none"
    /\ main = "start" =>
          \A d \in Devices : d >= device => poller[d] = "none"

(* Whatever has a collector finds one under its device's name.             *)
EntryInv ==
    /\ \A d \in created : collectors[deviceName[d]] # None
    /\ \A d \in Devices : poller[d] # "none" => collectors[deviceName[d]] # None

(* The producer is closed at the end of Stop.                              *)
ProducerInv == producer = "closed" => main \in {"sync", "done"}

(* Handlers that outlive the HTTP server were inside when it was stopped.  *)
LateInv ==
    main \in Stopping =>
        \A h \in Handlers : handler[h] # None => handler[h] \in late

(* What is connected while Stop closes is still to be closed or excused.   *)
ClosingInv ==
    /\ main \in {"kafka", "sync", "done"} => toClose = {}
    /\ main \in Closing /\ ~timedOut =>
          \A d \in connected : \/ d \in late
                               \/ collectors[deviceName[d]] # d
                               \/ deviceName[d] \in toClose

IInv ==
    /\ TypeOK /\ CountInv /\ StartInv /\ EntryInv /\ ProducerInv /\ LateInv
    /\ ClosingInv /\ PollersEndBeforeClosing /\ SendsWhileProducerOpen

-----------------------------------------------------------------------------
LEMMA DevicesFinite ==
    /\ IsFiniteSet(Devices) /\ Cardinality(Devices) = NumDevices
    /\ NumDevices \in Nat /\ 1 \in Devices /\ Devices \subseteq Nat
    /\ None \notin Devices
<1>1. NumDevices \in Nat /\ NumDevices >= 1 /\ None \notin Devices
  BY ServiceAssumption DEF Users
<1>2. IsFiniteSet(1..NumDevices) /\ Cardinality(1..NumDevices) = NumDevices
  BY <1>1, FS_Interval
<1> QED  BY <1>1, <1>2 DEF Devices

LEMMA LiveFinite ==
    /\ IsFiniteSet(Live) /\ Cardinality(Live) \in 0..NumDevices
    /\ Cardinality(Live) = 0 <=> Live = {}
<1>1. Live \in SUBSET Devices
  BY DEF Live
<1>2. IsFiniteSet(Live) /\ Cardinality(Live) <= Cardinality(Devices)
  BY <1>1, DevicesFinite, FS_Subset
<1>3. Cardinality(Live) \in Nat
  BY <1>2, FS_CardinalityType
<1> QED  BY <1>2, <1>3, DevicesFinite, FS_EmptySet

LEMMA InitIInv == Init => IInv
<1> SUFFICES ASSUME Init PROVE IInv
  OBVIOUS
<1>1. Live = {}
  BY DEF Init, Live, LiveStates
<1>2. CountInv
  BY <1>1, FS_EmptySet DEF Init, CountInv
<1>3. interval \in [Devices -> Nat]
  BY ServiceAssumption DEF Init, Validated
<1>4. TypeOK
  <2>1. timedOut \in BOOLEAN /\ http \in BOOLEAN
    BY DEF Init
  <2>2. wg \in 0..NumDevices /\ device \in 1..NumDevices + 1
    BY DevicesFinite DEF Init
  <2>3. deviceName \in [Devices -> Names]
    BY ServiceAssumption DEF Init
  <2>4. /\ poller \in [Devices -> {"none", "starting", "select", "collect", "send",
                                   "ended"}]
        /\ handler \in [Handlers -> created \cup {None}]
        /\ collectors \in [Names -> created \cup {None}]
    BY DEF Init
  <2>5. /\ main \in {"init", "start", "run", "failed"} \cup Stopping
        /\ producer \in {"none", "open", "closed"}
        /\ crash \in {"none", "ticker", "list", "send"}
        /\ created \subseteq Devices /\ connected \subseteq created
        /\ toClose \subseteq Names /\ late \subseteq created
    BY DEF Init
  <2>6. /\ file \in [Devices -> FileKinds]
        /\ stateMutex \in [Devices -> Users \cup {Stopper, None}]
        /\ client \in [Devices -> Users \cup {None}]
    BY ServiceAssumption DEF Init
  <2> QED  BY <1>3, <2>1, <2>2, <2>3, <2>4, <2>5, <2>6 DEF TypeOK
<1> QED
  BY <1>2, <1>4 DEF Init, IInv, StartInv, EntryInv, ProducerInv, LateInv,
     ClosingInv, PollersEndBeforeClosing, SendsWhileProducerOpen, Stopping,
     Cancelled, Closing

-----------------------------------------------------------------------------
(* What the steps of a polling goroutine have in common: it lives, it goes *)
(* on or ends, and it panics in a send only on a closed producer.          *)
LEMMA PollerEffect ==
    ASSUME TypeOK, NEW d \in Devices,
           PollerStep(d), crash = "none"
    PROVE  /\ poller[d] \in LiveStates
           /\ \/ UNCHANGED <<poller, wg>>
              \/ /\ \E s \in LiveStates : poller' = [poller EXCEPT ![d] = s]
                 /\ wg' = wg
              \/ /\ poller' = [poller EXCEPT ![d] = "ended"]
                 /\ wg' = wg - 1
           /\ crash' \in {"none", "ticker", "list", "send"}
           /\ crash' = "send" => poller[d] = "send" /\ producer = "closed"
           /\ UNCHANGED <<linkVars, pollerFrame>>
<1> USE DEF LiveStates
<1>1. CASE NewTicker(d)
  BY <1>1 DEF NewTicker, Moves, Panics, pollerVars
<1>2. CASE Tick(d)
  BY <1>2 DEF Tick, Moves
<1>3. CASE ContextDone(d)
  BY <1>3 DEF ContextDone, Moves, Done
<1>4. CASE Collected(d)
  <2>1. CASE poller[d] = "collect" /\ Panics("list")
    BY <1>4, <2>1 DEF Collected, Panics, pollerVars
  <2>2. CASE /\ Moves(d, "collect", IF producer = "none" THEN "select" ELSE "send")
             /\ UNCHANGED <<wg, crash>>
    BY <1>4, <2>2 DEF Collected, Moves
  <2> QED  BY <1>4, <2>1, <2>2 DEF Collected
<1>5. CASE SendPointValues(d)
  <2>1. CASE poller[d] = "send" /\ producer = "closed" /\ Panics("send")
    BY <1>5, <2>1 DEF SendPointValues, Panics, pollerVars
  <2>2. CASE Moves(d, "send", "select") /\ UNCHANGED <<wg, crash>>
    BY <1>5, <2>2 DEF SendPointValues, Moves
  <2> QED  BY <1>5, <2>1, <2>2 DEF SendPointValues, SendFailed
<1> QED  BY <1>1, <1>2, <1>3, <1>4, <1>5 DEF PollerStep

(* The wait group keeps counting: a poller that goes on lives on, one that *)
(* ends is one less.                                                       *)
LEMMA PollerCounts ==
    ASSUME TypeOK, CountInv, NEW d \in Devices, poller[d] \in LiveStates,
           \/ UNCHANGED <<poller, wg>>
           \/ /\ \E s \in LiveStates : poller' = [poller EXCEPT ![d] = s]
              /\ wg' = wg
           \/ /\ poller' = [poller EXCEPT ![d] = "ended"]
              /\ wg' = wg - 1
    PROVE  /\ CountInv' /\ wg' \in 0..NumDevices
           /\ poller' \in [Devices -> LiveStates \cup {"none", "ended"}]
           /\ \A e \in Devices : poller'[e] \in LiveStates => poller[e] \in LiveStates
           /\ \A e \in Devices : poller'[e] = "none" <=> poller[e] = "none"
<1>0. poller \in [Devices -> LiveStates \cup {"none", "ended"}]
  BY DEF TypeOK, LiveStates
<1>1. CASE UNCHANGED <<poller, wg>>
  BY <1>0, <1>1 DEF CountInv, Live, TypeOK
<1>2. CASE /\ \E s \in LiveStates : poller' = [poller EXCEPT ![d] = s]
           /\ wg' = wg
  <2>1. Live' = Live
    BY <1>0, <1>2 DEF Live
  <2> QED  BY <1>0, <1>2, <2>1 DEF CountInv, TypeOK, LiveStates
<1>3. CASE poller' = [poller EXCEPT ![d] = "ended"] /\ wg' = wg - 1
  <2>1. Live' = Live \ {d} /\ d \in Live
    BY <1>0, <1>3 DEF Live, LiveStates
  <2>2. Cardinality(Live') = Cardinality(Live) - 1
    BY <2>1, LiveFinite, FS_RemoveElement
  <2>3. Cardinality(Live) # 0
    BY <2>1, LiveFinite
  <2>4. CountInv' /\ wg' \in 0..NumDevices
    BY <1>3, <2>2, <2>3, LiveFinite, DevicesFinite DEF CountInv
  <2> QED  BY <1>0, <1>3, <2>4 DEF LiveStates
<1> QED  BY <1>1, <1>2, <1>3

LEMMA PollerKeeps ==
    ASSUME IInv, crash = "none", NEW d \in Devices, PollerStep(d)
    PROVE  IInv'
<1> USE DEF IInv
<1>1. /\ poller[d] \in LiveStates
      /\ \/ UNCHANGED <<poller, wg>>
         \/ /\ \E s \in LiveStates : poller' = [poller EXCEPT ![d] = s]
            /\ wg' = wg
         \/ /\ poller' = [poller EXCEPT ![d] = "ended"]
            /\ wg' = wg - 1
      /\ crash' \in {"none", "ticker", "list", "send"}
      /\ crash' = "send" => poller[d] = "send" /\ producer = "closed"
      /\ UNCHANGED <<linkVars, pollerFrame>>
  BY PollerEffect
<1>2. /\ CountInv' /\ wg' \in 0..NumDevices
      /\ poller' \in [Devices -> LiveStates \cup {"none", "ended"}]
      /\ \A e \in Devices : poller'[e] \in LiveStates => poller[e] \in LiveStates
      /\ \A e \in Devices : poller'[e] = "none" <=> poller[e] = "none"
  BY <1>1, PollerCounts
<1>3. UNCHANGED <<deviceName, interval, file, http, main, device, collectors,
                  created, connected, stateMutex, client, producer, handler,
                  toClose, timedOut, late>>
  BY <1>1 DEF pollerFrame, configVars, collectorVars, linkVars, stopVars
<1>4. poller[d] # "none" /\ poller[d] # "ended"
  BY <1>1 DEF LiveStates
<1>5. TypeOK'
  <2> HIDE DEF IInv
  <2>1. /\ poller' \in [Devices -> {"none", "starting", "select", "collect",
                                    "send", "ended"}]
    BY <1>2 DEF LiveStates
  <2> QED  BY <1>1, <1>2, <1>3, <2>1 DEF IInv, TypeOK
<1>6. StartInv' /\ EntryInv' /\ ProducerInv' /\ LateInv'
  BY <1>2, <1>3 DEF StartInv, EntryInv, ProducerInv, LateInv
<1>7. main \in Closing => timedOut
  BY <1>4 DEF PollersEndBeforeClosing
<1>8. ClosingInv' /\ PollersEndBeforeClosing'
  BY <1>3, <1>7 DEF ClosingInv, PollersEndBeforeClosing
<1>9. SendsWhileProducerOpen'
  BY <1>1, <1>3, <1>7 DEF SendsWhileProducerOpen, ProducerInv, Closing
<1> QED  BY <1>2, <1>5, <1>6, <1>8, <1>9

-----------------------------------------------------------------------------
(* Steps that touch neither pollers nor wait group.                        *)
LEMMA SameCount ==
    ASSUME CountInv, UNCHANGED <<poller, wg>>
    PROVE  CountInv'
BY DEF CountInv, Live

LEMMA HandlerKeeps ==
    ASSUME IInv, crash = "none", NEW h \in Handlers,
           Request(h) \/ HandlerReturns(h)
    PROVE  IInv'
<1> USE DEF IInv
<1>1. UNCHANGED <<deviceName, interval, file, http, main, device, collectors,
                  created, connected, stateMutex, client, poller, wg, producer,
                  toClose, timedOut, late, crash>>
  BY DEF Request, HandlerReturns, handlerFrame, configVars, collectorVars,
         linkVars, pollerVars, stopVars
<1>2. CountInv'
  BY <1>1, SameCount
<1>3. StartInv' /\ EntryInv' /\ ProducerInv' /\ PollersEndBeforeClosing'
      /\ SendsWhileProducerOpen' /\ ClosingInv'
  BY <1>1 DEF StartInv, EntryInv, ProducerInv, PollersEndBeforeClosing,
              SendsWhileProducerOpen, ClosingInv
<1>4. CASE Request(h)
  <2>1. PICK d \in created : handler' = [handler EXCEPT ![h] = Polled(d)]
    BY <1>4 DEF Request
  <2>2. Polled(d) \in created
    BY <2>1 DEF Polled, EntryInv, TypeOK
  <2>3. main \notin Stopping
    BY <1>4 DEF Request
  <2>4. TypeOK'
    BY <1>1, <2>1, <2>2, <2>3 DEF TypeOK
  <2>5. LateInv'
    BY <1>1, <2>3 DEF LateInv
  <2> QED  BY <1>2, <1>3, <2>4, <2>5
<1>5. CASE HandlerReturns(h)
  <2>1. handler' = [handler EXCEPT ![h] = None]
    BY <1>5 DEF HandlerReturns
  <2>2. TypeOK'
    BY <1>1, <2>1 DEF TypeOK
  <2>3. LateInv'
    BY <1>1, <2>1 DEF LateInv, TypeOK
  <2> QED  BY <1>2, <1>3, <2>2, <2>3
<1> QED  BY <1>4, <1>5

-----------------------------------------------------------------------------
(* What a goroutine does inside a call: the flag of the collector it calls *)
(* is all that the invariant could lose, and after the wait only a handler *)
(* that was late is inside a call.                                         *)
LEMMA CalledIsCreated ==
    ASSUME IInv, NEW u \in Users, NEW c \in Devices, Inside(u, c)
    PROVE  /\ c \in created
           /\ main \in Closing /\ ~timedOut => c \in late
<1> USE DEF IInv
<1>1. CASE u \in Handlers
  <2>1. handler[u] = c /\ c # None
    BY <1>1 DEF Inside, CalledBy
  <2> QED  BY <1>1, <2>1 DEF TypeOK, LateInv, Stopping, Cancelled
<1>2. CASE u \notin Handlers
  <2>1. u \in Devices /\ poller[u] = "collect" /\ collectors[deviceName[u]] = c
        /\ c # None
    BY <1>2 DEF Inside, CalledBy, Polled, Users
  <2> QED  BY <2>1 DEF TypeOK, PollersEndBeforeClosing
<1> QED  BY <1>1, <1>2

LEMMA UserKeeps ==
    ASSUME IInv, NEW u \in Users, NEW c \in Devices, UserStep(u, c)
    PROVE  IInv'
<1> USE DEF IInv
<1>1. UNCHANGED <<deviceName, interval, file, http, main, device, collectors,
                  created, poller, wg, producer, handler, toClose, timedOut,
                  late, crash>>
  BY DEF UserStep, MarkLost, Connect, ConnectEnds, ClientCall, ClientReturns,
         userFrame, configVars, collectorVars, pollerVars, stopVars
<1>2. Inside(u, c)
  BY DEF UserStep, MarkLost, Connect, ConnectEnds, ClientCall, ClientReturns
<1>3. /\ connected' \in {connected, connected \ {c}, connected \cup {c}}
      /\ stateMutex' \in [Devices -> Users \cup {Stopper, None}]
      /\ client' \in [Devices -> Users \cup {None}]
  BY DEF UserStep, MarkLost, Connect, ConnectEnds, ClientCall, ClientReturns,
         TypeOK
<1>4. connected' \subseteq created
  BY <1>2, <1>3, CalledIsCreated DEF TypeOK
<1>5. TypeOK'
  BY <1>1, <1>3, <1>4 DEF TypeOK
<1>6. ClosingInv'
  BY <1>1, <1>2, <1>3, CalledIsCreated DEF ClosingInv
<1>7. CountInv'
  BY <1>1, SameCount
<1>8. StartInv' /\ EntryInv' /\ ProducerInv' /\ LateInv'
      /\ PollersEndBeforeClosing' /\ SendsWhileProducerOpen'
  BY <1>1 DEF StartInv, EntryInv, ProducerInv, LateInv,
              PollersEndBeforeClosing, SendsWhileProducerOpen
<1> QED  BY <1>5, <1>6, <1>7, <1>8

-----------------------------------------------------------------------------
(* The steps of Run that only go on, in Init, Start and Stop.              *)
LEMMA NewCollectorKeeps ==
    ASSUME IInv, NewCollector
    PROVE  IInv'
<1> USE DEF IInv
<1>1. /\ UNCHANGED <<deviceName, interval, file, http, main, stateMutex, client,
                     poller, wg, producer, handler, toClose, timedOut, late,
                     crash>>
      /\ main = "init" /\ device \in Devices /\ device' = device + 1
  BY DEF NewCollector, configVars, pollerVars, stopVars
<1>2. main \notin Stopping /\ main \notin Closing
  BY <1>1 DEF Stopping, Cancelled, Closing
<1>3. CountInv'
  BY <1>1, SameCount
<1>4. StartInv' /\ ProducerInv' /\ LateInv' /\ PollersEndBeforeClosing'
      /\ SendsWhileProducerOpen' /\ ClosingInv'
  BY <1>1, <1>2 DEF StartInv, ProducerInv, LateInv, PollersEndBeforeClosing,
                    SendsWhileProducerOpen, ClosingInv, Closing
<1>5. device' \in 1..NumDevices + 1
  BY <1>1, DevicesFinite DEF Devices
<1>6. CASE /\ collectors' = [collectors EXCEPT ![deviceName[device]] = device]
           /\ created' = created \cup {device}
           /\ connected' \in {connected, connected \cup {device}}
  <2>1. deviceName[device] \in Names
    BY <1>1 DEF TypeOK
  <2>2. collectors' \in [Names -> created' \cup {None}]
    BY <1>6, <2>1 DEF TypeOK
  <2>3. /\ created' \subseteq Devices /\ connected' \subseteq created'
        /\ handler' \in [Handlers -> created' \cup {None}]
        /\ late' \subseteq created'
    BY <1>1, <1>6 DEF TypeOK
  <2>4. TypeOK'
    BY <1>1, <1>5, <2>2, <2>3 DEF TypeOK
  <2>5. EntryInv'
    <3>1. \A d \in created' : collectors'[deviceName[d]] # None
      BY <1>1, <1>6, <2>1, DevicesFinite DEF EntryInv, TypeOK
    <3>2. \A d \in Devices : poller[d] = "none"
      BY <1>1 DEF StartInv
    <3> QED  BY <1>1, <3>1, <3>2 DEF EntryInv
  <2> QED  BY <1>3, <1>4, <2>4, <2>5
<1>7. CASE UNCHANGED <<collectorVars, connected>>
  <2>1. TypeOK' /\ EntryInv'
    BY <1>1, <1>5, <1>7 DEF TypeOK, EntryInv, collectorVars
  <2> QED  BY <1>3, <1>4, <2>1
<1> QED  BY <1>6, <1>7 DEF NewCollector

(* A started poller is one more, and was none before.                      *)
LEMMA StartPollerKeeps ==
    ASSUME IInv, StartPoller
    PROVE  IInv'
<1> USE DEF IInv
<1>1. /\ UNCHANGED <<deviceName, interval, file, http, main, collectors, created,
                     connected, stateMutex, client, producer, handler, toClose,
                     timedOut, late, crash>>
      /\ main = "start" /\ device \in Devices /\ device' = device + 1
  BY DEF StartPoller, configVars, collectorVars, linkVars, stopVars
<1>2. main \notin Stopping /\ main \notin Closing
  BY <1>1 DEF Stopping, Cancelled, Closing
<1>3. device' \in 1..NumDevices + 1 /\ device \in Nat
  BY <1>1, DevicesFinite DEF Devices
<1>4. ProducerInv' /\ LateInv' /\ PollersEndBeforeClosing' /\ ClosingInv'
      /\ SendsWhileProducerOpen'
  BY <1>1, <1>2 DEF ProducerInv, LateInv, PollersEndBeforeClosing, ClosingInv,
                    SendsWhileProducerOpen
<1>5. \A d \in Devices : d >= device => poller[d] = "none"
  BY <1>1 DEF StartInv
<1>6. CASE /\ Polled(device) # None
           /\ poller' = [poller EXCEPT ![device] = "starting"]
           /\ wg' = wg + 1
  <2>1. /\ poller[device] = "none" /\ device \notin Live
        /\ Live' = Live \cup {device}
    BY <1>1, <1>3, <1>5, <1>6 DEF Live, LiveStates, TypeOK
  <2>2. Cardinality(Live') = Cardinality(Live) + 1
    BY <2>1, LiveFinite, FS_AddElement
  <2>3. Live' \in SUBSET Devices
    BY DEF Live
  <2>4. Cardinality(Live') <= NumDevices
    BY <2>3, DevicesFinite, FS_Subset
  <2>5. CountInv' /\ wg' \in 0..NumDevices
    BY <1>6, <2>2, <2>4, LiveFinite, DevicesFinite DEF CountInv
  <2>6. TypeOK'
    BY <1>1, <1>3, <1>6, <2>5 DEF TypeOK
  <2>7. StartInv'
    <3>1. \A d \in Devices : d >= device' => poller'[d] = "none"
      BY <1>1, <1>3, <1>5, <1>6, DevicesFinite DEF TypeOK
    <3> QED  BY <1>1, <3>1 DEF StartInv
  <2>8. EntryInv'
    BY <1>1, <1>6 DEF EntryInv, Polled, TypeOK
  <2> QED  BY <1>4, <2>5, <2>6, <2>7, <2>8
<1>7. CASE UNCHANGED pollerVars
  <2>1. UNCHANGED <<poller, wg>>
    BY <1>7 DEF pollerVars
  <2>2. CountInv'
    BY <2>1, SameCount
  <2>3. TypeOK' /\ EntryInv'
    BY <1>1, <1>3, <2>1 DEF TypeOK, EntryInv
  <2>4. StartInv'
    <3>1. \A d \in Devices : d >= device' => poller'[d] = "none"
      BY <1>1, <1>3, <1>5, <2>1, DevicesFinite
    <3> QED  BY <1>1, <3>1 DEF StartInv
  <2> QED  BY <1>4, <2>2, <2>3, <2>4
<1> QED  BY <1>6, <1>7 DEF StartPoller

(* The ends of Init and Start change nothing but where Run is.             *)
LEMMA ReturnKeeps ==
    ASSUME IInv, InitReturns \/ StartReturns
    PROVE  IInv'
<1> USE DEF IInv
<1>1. UNCHANGED <<deviceName, interval, file, http, collectors, created,
                  connected, stateMutex, client, poller, wg, producer, handler,
                  toClose, timedOut, late, crash>>
  BY DEF InitReturns, StartReturns, configVars, collectorVars, linkVars,
         pollerVars, stopVars
<1>2. /\ main \in {"init", "start"}
      /\ main' \in {"failed", "start", "run"}
      /\ main' \in {"failed", "start"} => main = "init"
      /\ device' \in 1..NumDevices + 1
  BY DevicesFinite DEF InitReturns, StartReturns, TypeOK, Devices
<1>3. main \notin Stopping /\ main' \notin Stopping /\ main' \notin Closing
  BY <1>2 DEF Stopping, Cancelled, Closing
<1>4. TypeOK'
  BY <1>1, <1>2 DEF TypeOK
<1>5. StartInv'
  BY <1>1, <1>2 DEF StartInv
<1>6. CountInv' /\ EntryInv'
  BY <1>1, SameCount DEF EntryInv
<1>7. ProducerInv'
  BY <1>1, <1>2 DEF ProducerInv
<1>8. LateInv' /\ ClosingInv' /\ PollersEndBeforeClosing'
      /\ SendsWhileProducerOpen'
  BY <1>1, <1>2, <1>3 DEF LateInv, ClosingInv, PollersEndBeforeClosing,
                          SendsWhileProducerOpen, Stopping, Cancelled, Closing
<1> QED  BY <1>4, <1>5, <1>6, <1>7, <1>8

(* What all steps of Stop keep.                                            *)
LEMMA StopStepKeeps ==
    ASSUME IInv, UNCHANGED stopFrame,
           main \in {"run"} \cup Stopping, main' \in Stopping
    PROVE  /\ UNCHANGED <<deviceName, interval, file, http, device, collectors,
                          created, poller, wg, handler, crash>>
           /\ CountInv' /\ StartInv' /\ EntryInv'
<1>1. UNCHANGED <<deviceName, interval, file, http, device, collectors, created,
                  poller, wg, handler, crash>>
  BY DEF stopFrame, configVars, collectorVars, pollerVars
<1>2. CountInv'
  BY <1>1, SameCount DEF IInv
<1>3. StartInv'
  BY DEF StartInv, Stopping, Cancelled, Closing
<1>4. EntryInv'
  BY <1>1 DEF IInv, EntryInv
<1> QED  BY <1>1, <1>2, <1>3, <1>4

LEMMA StopHTTPKeeps ==
    ASSUME IInv, StopHTTP
    PROVE  IInv'
<1> USE DEF IInv
<1>1. /\ main = "run" /\ main' = "cancel"
      /\ late' = {handler[h] : h \in {h \in Handlers : handler[h] # None}}
      /\ UNCHANGED <<connected, stateMutex, client, producer, toClose, timedOut>>
      /\ UNCHANGED stopFrame
  BY DEF StopHTTP, Goes, linkVars
<1>2. /\ UNCHANGED <<deviceName, interval, file, http, device, collectors, created,
                     poller, wg, handler, crash>>
      /\ CountInv' /\ StartInv' /\ EntryInv'
  BY <1>1, StopStepKeeps DEF Stopping
<1>3. late' \subseteq created
  BY <1>1 DEF TypeOK
<1>4. TypeOK'
  BY <1>1, <1>2, <1>3 DEF TypeOK, Stopping
<1>5. LateInv'
  BY <1>1, <1>2 DEF LateInv
<1>6. ProducerInv' /\ ClosingInv' /\ PollersEndBeforeClosing'
      /\ SendsWhileProducerOpen'
  BY <1>1, <1>2 DEF ProducerInv, ClosingInv, PollersEndBeforeClosing,
                    SendsWhileProducerOpen, Closing
<1> QED  BY <1>2, <1>4, <1>5, <1>6

LEMMA CancelKeeps ==
    ASSUME IInv, Cancel
    PROVE  IInv'
<1> USE DEF IInv
<1>1. /\ main = "cancel" /\ main' = "wait"
      /\ UNCHANGED <<connected, stateMutex, client, producer, toClose, timedOut, late>>
      /\ UNCHANGED stopFrame
  BY DEF Cancel, Goes, linkVars, stopVars
<1>2. /\ UNCHANGED <<deviceName, interval, file, http, device, collectors, created,
                     poller, wg, handler, crash>>
      /\ CountInv' /\ StartInv' /\ EntryInv'
  BY <1>1, StopStepKeeps DEF Stopping, Cancelled
<1>3. TypeOK'
  BY <1>1, <1>2 DEF TypeOK, Stopping, Cancelled
<1>4. LateInv' /\ ProducerInv' /\ ClosingInv' /\ PollersEndBeforeClosing'
      /\ SendsWhileProducerOpen'
  BY <1>1, <1>2 DEF LateInv, ProducerInv, ClosingInv, PollersEndBeforeClosing,
                    SendsWhileProducerOpen, Stopping, Cancelled, Closing
<1> QED  BY <1>2, <1>3, <1>4

(* The wait ends without the timeout only when the count is zero, that is, *)
(* when no poller lives; and then all that is connected has its entry.     *)
LEMMA WaitKeeps ==
    ASSUME IInv, WaitEnds
    PROVE  IInv'
<1> USE DEF IInv
<1>1. /\ main = "wait" /\ main' = "close"
      /\ \/ wg = 0 /\ timedOut' = timedOut
         \/ timedOut' = TRUE
      /\ toClose' = {n \in Names : collectors[n] # None}
      /\ UNCHANGED <<connected, stateMutex, client, producer, late>>
      /\ UNCHANGED stopFrame
  BY DEF WaitEnds, Goes, PollersEnded, ThirtySeconds, linkVars
<1>2. /\ UNCHANGED <<deviceName, interval, file, http, device, collectors, created,
                     poller, wg, handler, crash>>
      /\ CountInv' /\ StartInv' /\ EntryInv'
  BY <1>1, StopStepKeeps DEF Stopping, Cancelled, Closing
<1>3. timedOut' \in BOOLEAN
  BY <1>1 DEF TypeOK
<1>4. TypeOK'
  BY <1>1, <1>2, <1>3 DEF TypeOK, Stopping, Cancelled, Closing
<1>5. PollersEndBeforeClosing'
  <2>1. wg = 0 => \A d \in Devices : poller[d] \in {"none", "ended"}
    BY LiveFinite DEF CountInv, Live, LiveStates, TypeOK
  <2> QED  BY <1>1, <1>2, <2>1 DEF PollersEndBeforeClosing
<1>6. ClosingInv'
  <2>1. \A d \in connected : d \in Devices /\ collectors[deviceName[d]] # None
                       /\ deviceName[d] \in Names
    BY DEF TypeOK, EntryInv
  <2> QED  BY <1>1, <1>2, <2>1 DEF ClosingInv
<1>7. LateInv' /\ ProducerInv' /\ SendsWhileProducerOpen'
  BY <1>1, <1>2 DEF LateInv, ProducerInv, SendsWhileProducerOpen, Stopping,
                    Cancelled, Closing
<1> QED  BY <1>2, <1>4, <1>5, <1>6, <1>7

LEMMA CloseKeeps ==
    ASSUME IInv, CloseCollector \/ ClientClosed
    PROVE  IInv'
<1> USE DEF IInv
<1>1. PICK n \in toClose :
         \/ UNCHANGED <<connected, toClose>>
         \/ /\ connected' = connected \ {collectors[n]}
            /\ toClose' = toClose \ {n}
  BY DEF CloseCollector, ClientClosed, Remaining
<1>2. /\ main \in {"close", "closing"} /\ main' \in {"close", "closing"}
      /\ UNCHANGED <<client, producer, timedOut, late>>
      /\ UNCHANGED stopFrame
  BY DEF CloseCollector, ClientClosed, Goes
<1>3. /\ UNCHANGED <<deviceName, interval, file, http, device, collectors, created,
                     poller, wg, handler, crash>>
      /\ CountInv' /\ StartInv' /\ EntryInv'
  BY <1>2, StopStepKeeps DEF Stopping, Cancelled, Closing
<1>4. stateMutex' \in [Devices -> Users \cup {Stopper, None}]
  BY DEF CloseCollector, ClientClosed, TypeOK
<1>5. TypeOK'
  BY <1>1, <1>2, <1>3, <1>4 DEF TypeOK, Stopping, Cancelled, Closing
<1>6. ClosingInv'
  BY <1>1, <1>2, <1>3 DEF ClosingInv, Closing
<1>7. LateInv' /\ ProducerInv' /\ PollersEndBeforeClosing'
      /\ SendsWhileProducerOpen'
  BY <1>2, <1>3 DEF LateInv, ProducerInv, PollersEndBeforeClosing,
                    SendsWhileProducerOpen, Stopping, Cancelled, Closing
<1> QED  BY <1>3, <1>5, <1>6, <1>7

LEMMA EndKeeps ==
    ASSUME IInv, CollectorsClosed \/ StopKafka \/ StopReturns
    PROVE  IInv'
<1> USE DEF IInv
<1>1. /\ \/ main = "close" /\ main' = "kafka" /\ toClose = {} /\ producer' = producer
         \/ /\ main = "kafka" /\ main' = "sync"
            /\ producer' \in {"none", "closed"}
         \/ main = "sync" /\ main' = "done" /\ producer' = producer
      /\ UNCHANGED <<connected, stateMutex, client, toClose, timedOut, late>>
      /\ UNCHANGED stopFrame
  BY DEF CollectorsClosed, StopKafka, StopReturns, Goes, linkVars,
     stopVars
<1>2. main \in Closing /\ main' \in Closing
      /\ main' \in Stopping /\ main \in Stopping
  BY <1>1 DEF Stopping, Cancelled, Closing
<1>3. /\ UNCHANGED <<deviceName, interval, file, http, device, collectors, created,
                     poller, wg, handler, crash>>
      /\ CountInv' /\ StartInv' /\ EntryInv'
  BY <1>1, <1>2, StopStepKeeps
<1>4. TypeOK'
  BY <1>1, <1>2, <1>3 DEF TypeOK
<1>5. LateInv' /\ PollersEndBeforeClosing' /\ SendsWhileProducerOpen'
  BY <1>1, <1>2, <1>3 DEF LateInv, PollersEndBeforeClosing, SendsWhileProducerOpen
<1>6. ClosingInv'
  BY <1>1, <1>2, <1>3 DEF ClosingInv
<1>7. ProducerInv'
  BY <1>1 DEF ProducerInv
<1> QED  BY <1>3, <1>4, <1>5, <1>6, <1>7

LEMMA StutterKeeps ==
    ASSUME IInv, UNCHANGED vars
    PROVE  IInv'
<1> USE DEF IInv
<1>1. UNCHANGED <<deviceName, interval, file, http, main, device, collectors,
                  created, connected, stateMutex, client, poller, wg, producer,
                  handler, toClose, timedOut, late, crash>>
  BY DEF vars, configVars, collectorVars, linkVars, pollerVars, stopVars
<1>2. CountInv'
  BY <1>1, SameCount
<1>3. TypeOK'
  BY <1>1 DEF TypeOK
<1>4. StartInv' /\ EntryInv' /\ ProducerInv' /\ LateInv' /\ ClosingInv'
      /\ PollersEndBeforeClosing' /\ SendsWhileProducerOpen'
  BY <1>1 DEF StartInv, EntryInv, ProducerInv, LateInv, ClosingInv,
              PollersEndBeforeClosing, SendsWhileProducerOpen
<1> QED  BY <1>2, <1>3, <1>4

LEMMA Inductive == IInv /\ [Next]_vars => IInv'
<1> SUFFICES ASSUME IInv, [Next]_vars PROVE IInv'
  OBVIOUS
<1>1. CASE UNCHANGED vars
  BY <1>1, StutterKeeps
<1>2. CASE Next
  <2>1. crash = "none"
    BY <1>2 DEF Next, Alive
  <2>2. CASE MainStep
    BY <2>2, NewCollectorKeeps, StartPollerKeeps, ReturnKeeps, CancelKeeps,
       WaitKeeps, CloseKeeps, EndKeeps DEF MainStep
  <2>3. CASE StopHTTP
    BY <2>3, StopHTTPKeeps
  <2>4. CASE \E d \in Devices : PollerStep(d)
    BY <2>1, <2>4, PollerKeeps
  <2>5. CASE \E h \in Handlers : Request(h) \/ HandlerReturns(h)
    BY <2>1, <2>5, HandlerKeeps
  <2>6. CASE \E u \in Users, c \in Devices : UserStep(u, c)
    BY <2>6, UserKeeps
  <2> QED  BY <1>2, <2>2, <2>3, <2>4, <2>5, <2>6 DEF Next
<1> QED  BY <1>1, <1>2

-----------------------------------------------------------------------------
(* Types and bounds, of the wait group too: Done is never called more      *)
(* often than Add, which would panic.                                      *)
THEOREM TypeCorrect == Spec => []TypeOK
<1>1. IInv => TypeOK
  BY DEF IInv
<1> QED  BY <1>1, InitIInv, Inductive, PTL DEF Spec

(* ModbusService.Stop: without the timeout it closes nothing while a       *)
(* polling goroutine is left, however many devices there are.              *)
THEOREM PollersAreWaitedFor == Spec => []PollersEndBeforeClosing
<1>1. IInv => PollersEndBeforeClosing
  BY DEF IInv
<1> QED  BY <1>1, InitIInv, Inductive, PTL DEF Spec

(* ModbusService.Stop: a send can panic only after the timeout.            *)
THEOREM ProducerOutlivesPollers == Spec => []SendsWhileProducerOpen
<1>1. IInv => SendsWhileProducerOpen
  BY DEF IInv
<1> QED  BY <1>1, InitIInv, Inductive, PTL DEF Spec

(* ModbusService.Stop: a collector that counts as connected when it        *)
(* returns without the timeout was in the hands of a handler or had lost   *)
(* its entry to another device of its name.                                *)
THEOREM StopDisconnects == Spec => []NoneLeftConnected
<1>1. IInv => NoneLeftConnected
  BY DEF IInv, ClosingInv, NoneLeftConnected, Closing
<1> QED  BY <1>1, InitIInv, Inductive, PTL DEF Spec
=============================================================================
