------------------------------- MODULE Service -------------------------------
(***************************************************************************)
(* The life of ModbusService (pkg/service/service.go): Init creates the    *)
(* collectors, Start one polling goroutine per device, Stop ends HTTP      *)
(* server, pollers, collectors and Kafka producer in that order, waiting   *)
(* at most 30 seconds for the pollers.  Of a collector there are its flag  *)
(* and its two locks, which Stop waits for; when a call connects and when  *)
(* it loses the connection, and which transports stay open, is Collector's *)
(* subject, and the registry between handlers and collectors is Registry's.*)
(***************************************************************************)
EXTENDS Naturals

CONSTANTS NumDevices,   \* devices of the configuration, in its order
          Names,        \* names of devices
          Namings,      \* what the devices may be called
          Intervals,    \* what intervals they may have, 0 for none
          Files,        \* what their points files may be
          Handlers,     \* goroutines that serve an HTTP request
          Stopper,      \* the goroutine that runs Stop
          None          \* no collector, nobody

Devices == 1..NumDevices

(* The goroutines that call collectors: a poller goes by its device.       *)
Users == Devices \cup Handlers

FileKinds == {"missing", "valid", "refused", "fatal"}

ASSUME ServiceAssumption ==
    /\ NumDevices \in Nat \ {0}
    /\ Namings \subseteq [Devices -> Names]
    /\ Intervals \subseteq [Devices -> Nat]
    /\ Files \subseteq [Devices -> FileKinds]
    /\ Devices \cap Handlers = {}
    /\ None \notin Users
    /\ Stopper \notin Users \cup {None}

VARIABLES
    deviceName,   \* every device's name
    interval,     \* every device's interval after LoadConfig
    file,         \* its points file: missing, valid, or refused by
                  \* ValidatePoints; fatal if a poll of it may panic
    http,         \* is there an HTTP server
    main,         \* where Run is
    device,       \* the device Init or Start is at
    collectors,   \* ModbusService.collectors
    created,      \* the collectors NewCollector made, by device
    connected,    \* those whose flag connected is set
    stateMutex,   \* who is in Connect or Disconnect of each collector
    client,       \* whose request each collector's client is serving
    poller,       \* where the polling goroutine of each device is
    wg,           \* ModbusService.wg
    producer,     \* the Kafka producer: none, open or closed
    handler,      \* the collector each handler is calling
    toClose,      \* names whose collector Stop has still to close
    timedOut,     \* did Stop give up waiting for the pollers
    late,         \* history: collectors a handler was calling when the HTTP
                  \* server was stopped
    crash         \* what panicked outside a handler and ended the process

configVars == <<deviceName, interval, file, http>>
collectorVars == <<collectors, created>>
linkVars == <<connected, stateMutex, client>>
pollerVars == <<poller, wg>>
stopVars == <<toClose, timedOut, late>>
vars == <<configVars, main, device, collectorVars, linkVars, pollerVars,
          producer, handler, stopVars, crash>>

(* Where Run is, from the call of cancel and from the end of the wait on.  *)
Closing == {"close", "closing", "kafka", "sync", "done"}
Cancelled == {"wait"} \cup Closing
Stopping == {"cancel"} \cup Cancelled

TypeOK ==
    /\ deviceName \in [Devices -> Names]
    /\ interval \in [Devices -> Nat]
    /\ file \in [Devices -> FileKinds]
    /\ main \in {"init", "start", "run", "failed"} \cup Stopping
    /\ device \in 1..NumDevices + 1
    /\ collectors \in [Names -> created \cup {None}]
    /\ created \subseteq Devices
    /\ connected \subseteq created
    /\ stateMutex \in [Devices -> Users \cup {Stopper, None}]
    /\ client \in [Devices -> Users \cup {None}]
    /\ poller \in [Devices -> {"none", "starting", "select", "collect", "send",
                               "ended"}]
    /\ wg \in 0..NumDevices
    /\ producer \in {"none", "open", "closed"}
    /\ http \in BOOLEAN /\ timedOut \in BOOLEAN
    /\ handler \in [Handlers -> created \cup {None}]
    /\ toClose \subseteq Names
    /\ late \subseteq created
    /\ crash \in {"none", "ticker", "list", "send"}

(* LoadConfig: Validate assigns the default interval to the loop's copy of *)
(* the device, so the configuration keeps what the file says.              *)
Validated(i) == i

Init ==
    /\ deviceName \in Namings
    /\ \E configured \in Intervals :
          interval = [d \in Devices |-> Validated(configured[d])]
    /\ file \in Files
    /\ http \in BOOLEAN
    /\ producer \in {"none", "open"}
    /\ main = "init" /\ device = 1
    /\ collectors = [n \in Names |-> None]
    /\ created = {} /\ connected = {}
    /\ stateMutex = [c \in Devices |-> None]
    /\ client = [c \in Devices |-> None]
    /\ poller = [d \in Devices |-> "none"] /\ wg = 0
    /\ handler = [h \in Handlers |-> None]
    /\ toClose = {} /\ timedOut = FALSE /\ late = {}
    /\ crash = "none"

(* The process lives until Run returns or a goroutine panics.              *)
Alive == crash = "none" /\ main \notin {"done", "failed"}

-----------------------------------------------------------------------------
(* Init and Start.  HTTP server and producer, both optional, are there     *)
(* from the first device on.  NewCollector tries to connect and keeps the  *)
(* collector if that fails.                                                *)
NewCollector ==
    /\ main = "init" /\ device \in Devices
    /\ device' = device + 1
    /\ \/ /\ collectors' = [collectors EXCEPT ![deviceName[device]] = device]
          /\ created' = created \cup {device}
          /\ connected' \in {connected, connected \cup {device}}
       \/ UNCHANGED <<collectorVars, connected>>
    /\ UNCHANGED <<configVars, main, stateMutex, client, pollerVars, producer,
                   handler, stopVars, crash>>

InitReturns ==
    /\ main = "init" /\ device = NumDevices + 1
    /\ main' = IF created = {} THEN "failed" ELSE "start"
    /\ device' = 1
    /\ UNCHANGED <<configVars, collectorVars, linkVars, pollerVars, producer,
                   handler, stopVars, crash>>

(* Start loads the points file again and does not validate it.  The poller *)
(* gets the collector that has the device's name.                          *)
Polled(d) == collectors[deviceName[d]]

StartPoller ==
    /\ main = "start" /\ device \in Devices
    /\ device' = device + 1
    /\ \/ /\ Polled(device) # None /\ file[device] # "missing"
          /\ poller' = [poller EXCEPT ![device] = "starting"]
          /\ wg' = wg + 1
       \/ /\ Polled(device) = None \/ file[device] = "missing"
          /\ UNCHANGED pollerVars
    /\ UNCHANGED <<configVars, main, collectorVars, linkVars, producer, handler,
                   stopVars, crash>>

StartReturns ==
    /\ main = "start" /\ device = NumDevices + 1
    /\ main' = "run"
    /\ UNCHANGED <<configVars, device, collectorVars, linkVars, pollerVars,
                   producer, handler, stopVars, crash>>

-----------------------------------------------------------------------------
(* A step of the polling goroutine that concerns itself only.              *)
pollerFrame == <<configVars, main, device, collectorVars, producer, handler,
                 stopVars>>

Moves(d, from, to) ==
    /\ poller[d] = from
    /\ poller' = [poller EXCEPT ![d] = to]

Panics(what) == crash' = what /\ UNCHANGED pollerVars

(* startCollector.  NewTicker panics for an interval of 0.                 *)
NewTicker(d) ==
    /\ poller[d] = "starting"
    /\ IF interval[d] > 0
       THEN Moves(d, "starting", "select") /\ UNCHANGED <<wg, crash>>
       ELSE Panics("ticker")
    /\ UNCHANGED <<linkVars, pollerFrame>>

(* The select takes either branch when both are ready.                     *)
Tick(d) ==
    /\ Moves(d, "select", "collect")
    /\ UNCHANGED <<wg, crash, linkVars, pollerFrame>>

\* Mutant: Done is called once more than it is deferred.
Done_Twice == wg' = wg - 2

Done == wg' = wg - 1

ContextDone(d) ==
    /\ main \in Cancelled
    /\ Moves(d, "select", "ended")
    /\ Done
    /\ UNCHANGED <<crash, linkVars, pollerFrame>>

(* CollectPoints returns, with every value BAD if need be, and             *)
(* collectDeviceData reads the statistics, for which it waits out another  *)
(* goroutine's Connect.  With a fatal list whose registers were read it    *)
(* panics instead.                                                         *)
Holds(u, c) == u \in {stateMutex[c], client[c]}

Collected(d) ==
    /\ \/ /\ Moves(d, "collect", IF producer = "none" THEN "select" ELSE "send")
          /\ stateMutex[Polled(d)] = None /\ ~Holds(d, Polled(d))
          /\ UNCHANGED <<wg, crash>>
       \/ /\ poller[d] = "collect" /\ file[d] = "fatal"
          /\ ~Holds(d, Polled(d))
          /\ Panics("list")
    /\ UNCHANGED <<linkVars, pollerFrame>>

(* What collectDeviceData does with a message that was not sent: log it.   *)
\* Mutant: the poller ends.
SendFailed_Ends(d) == Moves(d, "send", "ended") /\ wg' = wg - 1

SendFailed(d) == Moves(d, "send", "select") /\ UNCHANGED wg

(* SendPointValues.  It fails on a value that JSON cannot express and when *)
(* the brokers do.  A send on a closed producer panics.                    *)
SendPointValues(d) ==
    /\ \/ Moves(d, "send", "select") /\ UNCHANGED <<wg, crash>>
       \/ SendFailed(d) /\ UNCHANGED crash
       \/ poller[d] = "send" /\ producer = "closed" /\ Panics("send")
    /\ UNCHANGED <<linkVars, pollerFrame>>

PollerStep(d) ==
    \/ NewTicker(d) \/ Tick(d) \/ ContextDone(d)
    \/ Collected(d) \/ SendPointValues(d)

-----------------------------------------------------------------------------
(* HTTP handlers.  A point of a valid list is registered with the name of  *)
(* its device, and the name leads to a collector.  A panic of theirs is    *)
(* recovered by gin.                                                       *)
handlerFrame == <<configVars, main, device, collectorVars, pollerVars, producer,
                  stopVars, crash>>

Request(h) ==
    /\ http /\ main \notin Stopping
    /\ handler[h] = None
    /\ \E d \in created : /\ file[d] = "valid"
                          /\ handler' = [handler EXCEPT ![h] = Polled(d)]
    /\ UNCHANGED <<linkVars, handlerFrame>>

HandlerReturns(h) ==
    /\ handler[h] # None
    /\ ~Holds(h, handler[h])
    /\ handler' = [handler EXCEPT ![h] = None]
    /\ UNCHANGED <<linkVars, handlerFrame>>

-----------------------------------------------------------------------------
(* Inside a call of a collector: the collector goroutine u is calling.     *)
CalledBy(u) ==
    IF u \in Handlers THEN handler[u]
    ELSE IF poller[u] = "collect" THEN Polled(u) ELSE None

userFrame == <<configVars, main, device, collectorVars, pollerVars, producer,
               handler, stopVars, crash>>

Inside(u, c) == CalledBy(u) = c /\ c # None

(* A connection test has failed: the flag is cleared and the transport     *)
(* left as it is.                                                          *)
MarkLost(u, c) ==
    /\ Inside(u, c) /\ ~Holds(u, c)
    /\ stateMutex[c] = None
    /\ connected' = connected \ {c}
    /\ UNCHANGED <<stateMutex, client, userFrame>>

(* Connect has work to do when the flag is down.  Its Open, test and Close *)
(* wait for the request another goroutine has under way.                   *)
Connect(u, c) ==
    /\ Inside(u, c) /\ ~Holds(u, c)
    /\ stateMutex[c] = None /\ c \notin connected
    /\ stateMutex' = [stateMutex EXCEPT ![c] = u]
    /\ UNCHANGED <<connected, client, userFrame>>

ConnectEnds(u, c) ==
    /\ Inside(u, c)
    /\ stateMutex[c] = u /\ client[c] = None
    /\ connected' \in {connected, connected \cup {c}}
    /\ stateMutex' = [stateMutex EXCEPT ![c] = None]
    /\ UNCHANGED <<client, userFrame>>

ClientCall(u, c) ==
    /\ Inside(u, c) /\ ~Holds(u, c)
    /\ client[c] = None
    /\ client' = [client EXCEPT ![c] = u]
    /\ UNCHANGED <<connected, stateMutex, userFrame>>

ClientReturns(u, c) ==
    /\ Inside(u, c)
    /\ client[c] = u
    /\ client' = [client EXCEPT ![c] = None]
    /\ UNCHANGED <<connected, stateMutex, userFrame>>

UserStep(u, c) ==
    \/ MarkLost(u, c) \/ Connect(u, c) \/ ConnectEnds(u, c)
    \/ ClientCall(u, c) \/ ClientReturns(u, c)

-----------------------------------------------------------------------------
(* Stop, after a signal.  The HTTP server's Stop closes the listener and   *)
(* does not wait for handlers.                                             *)
stopFrame == <<configVars, device, collectorVars, pollerVars, handler, crash>>

Goes(from, to) == main = from /\ main' = to

StopHTTP ==
    /\ Goes("run", "cancel")
    /\ late' = {handler[h] : h \in {h \in Handlers : handler[h] # None}}
    /\ UNCHANGED <<linkVars, producer, toClose, timedOut, stopFrame>>

\* Mutant: the Kafka producer is closed before the pollers have ended.
Cancel_ClosesProducer ==
    /\ Goes("cancel", "wait")
    /\ producer' = IF producer = "none" THEN "none" ELSE "closed"
    /\ UNCHANGED <<linkVars, stopVars, stopFrame>>

Cancel ==
    /\ Goes("cancel", "wait")
    /\ UNCHANGED <<linkVars, producer, stopVars, stopFrame>>

\* Mutant: the wait is over at once.
PollersEnded_AtOnce == UNCHANGED timedOut

PollersEnded == wg = 0 /\ UNCHANGED timedOut

\* Mutant: the wait has no time limit.
ThirtySeconds_Never == FALSE

ThirtySeconds == timedOut' = TRUE

WaitEnds ==
    /\ Goes("wait", "close")
    /\ PollersEnded \/ ThirtySeconds
    /\ toClose' = {n \in Names : collectors[n] # None}
    /\ UNCHANGED <<linkVars, producer, late, stopFrame>>

\* Mutant: the loop over the collectors ends with the first.
Remaining_None(n) == {}

Remaining(n) == toClose \ {n}

(* Disconnect takes stateMutex.  With the flag down it returns and closes  *)
(* nothing; otherwise it waits for the client, with stateMutex held.       *)
CloseCollector ==
    /\ main = "close"
    /\ \E n \in toClose :
          /\ stateMutex[collectors[n]] = None
          /\ \/ /\ collectors[n] \in connected
                /\ stateMutex' = [stateMutex EXCEPT ![collectors[n]] = Stopper]
                /\ main' = "closing"
                /\ UNCHANGED toClose
             \/ /\ collectors[n] \notin connected
                /\ toClose' = Remaining(n)
                /\ UNCHANGED <<main, stateMutex>>
    /\ UNCHANGED <<connected, client, producer, timedOut, late, stopFrame>>

ClientClosed ==
    /\ Goes("closing", "close")
    /\ \E n \in toClose :
          /\ stateMutex[collectors[n]] = Stopper
          /\ client[collectors[n]] = None
          /\ connected' = connected \ {collectors[n]}
          /\ stateMutex' = [stateMutex EXCEPT ![collectors[n]] = None]
          /\ toClose' = Remaining(n)
    /\ UNCHANGED <<client, producer, timedOut, late, stopFrame>>

CollectorsClosed ==
    /\ toClose = {}
    /\ Goes("close", "kafka")
    /\ UNCHANGED <<linkVars, producer, stopVars, stopFrame>>

StopKafka ==
    /\ Goes("kafka", "sync")
    /\ producer' = IF producer = "none" THEN "none" ELSE "closed"
    /\ UNCHANGED <<linkVars, stopVars, stopFrame>>

(* The log is flushed, Stop and Run return, the process exits.             *)
StopReturns ==
    /\ Goes("sync", "done")
    /\ UNCHANGED <<linkVars, producer, stopVars, stopFrame>>

MainStep ==
    \/ NewCollector \/ InitReturns \/ StartPoller \/ StartReturns
    \/ Cancel \/ WaitEnds \/ CloseCollector \/ ClientClosed
    \/ CollectorsClosed \/ StopKafka \/ StopReturns

-----------------------------------------------------------------------------
Next ==
    /\ Alive
    /\ \/ MainStep
       \/ StopHTTP
       \/ \E d \in Devices : PollerStep(d)
       \/ \E h \in Handlers : Request(h) \/ HandlerReturns(h)
       \/ \E u \in Users, c \in Devices : UserStep(u, c)

Spec == Init /\ [][Next]_vars

(* What goroutine u has under way in a collector ends.                     *)
CallEnds(u) == \E c \in Devices : ConnectEnds(u, c) \/ ClientReturns(u, c)

(* A lock that is freed again and again is obtained in the end:            *)
(* sync.Mutex goes to the one that has waited too long, hence the strong   *)
(* fairness.  A request of the client has a timeout.                       *)
LockFairness == \A u \in Users : SF_vars(Alive /\ CallEnds(u))

(* The statements of Run, http.Server.Close and the close of the producer  *)
(* return.  Nothing is assumed of polls, sends, handlers, signals, or the  *)
(* branch that a select takes.                                             *)
FairSpec == Spec /\ LockFairness /\ SF_vars(Alive /\ MainStep)

-----------------------------------------------------------------------------
(* Unless it gave up after 30 seconds, Stop closes collectors and producer *)
(* only when no polling goroutine is left that could use them: none is in  *)
(* a poll or between its start and its first tick.                         *)
PollersEndBeforeClosing ==
    main \in Closing /\ ~timedOut =>
        \A d \in Devices : poller[d] \in {"none", "ended"}

(* No message is sent on a closed producer, which would end the process in *)
(* the middle of its shutdown, unless Stop gave up waiting.                *)
SendsWhileProducerOpen == crash = "send" => timedOut

(* When Stop returns no collector counts as connected, but for three       *)
(* causes: a poller outlived the 30 seconds, a handler was inside a call   *)
(* when the HTTP server was stopped, or a device of the same name took the *)
(* entry.  In particular no poll reconnects what Stop has disconnected.    *)
(* Nothing is said of the transports of lost connections: Close returns    *)
(* early and leaves them open.                                             *)
NoneLeftConnected ==
    main = "done" /\ ~timedOut =>
        \A d \in connected : d \in late \/ collectors[deviceName[d]] # d

(* Stop returns although a poll or a send may take for ever, select may    *)
(* prefer the ticker to the cancelled context, and the collectors that it  *)
(* closes may be in use by handlers and by pollers that outlived the wait. *)
StopTerminates == main = "cancel" ~> ~Alive

(* A device is polled as long as the service runs: neither a poll nor a    *)
(* message that was not sent ends it, with and without Kafka, also when    *)
(* another poller or a handler uses the collector.  This takes polls that  *)
(* end (BatchRead's Terminates and Collector's CallsReturn) and a Kafka    *)
(* client that answers.                                                    *)
PollersGoOn == \A d \in Devices : SF_vars(Alive /\ PollerStep(d))

Over == main \in Cancelled \/ ~Alive

PollsAgain ==
    PollersGoOn =>
        \A d \in Devices :
            /\ poller[d] \in {"collect", "send"} ~> (poller[d] = "select" \/ Over)
            /\ poller[d] = "select" ~> (poller[d] = "collect" \/ Over)

-----------------------------------------------------------------------------
(* What comments, documents and messages say and the code does not.        *)

(* "Configuration Management: TOML-based configuration with comprehensive  *)
(* validation" (README.md): what is polled has been validated.             *)
PolledListsAreValid ==
    \A d \in Devices : poller[d] = "collect" => file[d] = "valid"

(* The comment at "device.Interval = 10" (Validate): a device without an   *)
(* interval is polled every 10 seconds, so its ticker can be made.         *)
IntervalHasDefault == crash # "ticker"
=============================================================================
