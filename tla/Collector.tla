------------------------------ MODULE Collector ------------------------------
(***************************************************************************)
(* The connection management of one Collector (pkg/modbus/collector.go)    *)
(* shared by the goroutines that use it: the polling goroutine of the      *)
(* device (CollectPoints), the HTTP handlers (ReadSinglePoint and          *)
(* WritePoint) and the callers of Close and Reconnect.  A step is one      *)
(* critical section or one call of the Modbus client; the client           *)
(* serialises its calls, so a call is one step.  What a request carries is *)
(* the subject of BatchRead and ByteOrder; here it succeeds or fails.      *)
(***************************************************************************)
EXTENDS Naturals

CONSTANTS Pollers,      \* goroutines running collectDeviceData
          Handlers,     \* goroutines running ReadSinglePoint or WritePoint
          Closers,      \* goroutines running Close or Reconnect
          NoCaller,     \* the holder of a free mutex
          Sockets,      \* the descriptors the process may have open
          NoSocket,     \* the transport of a client never opened
          MaxRetries,   \* Collector.maxRetries
          MaxRequests,  \* bound: client requests of one operation
          RetryCap      \* bound: where the model stops counting retryCount

Callers == Pollers \cup Handlers \cup Closers

ASSUME CollectorAssumption ==
    /\ Pollers \cap Handlers = {}
    /\ Pollers \cap Closers = {}
    /\ Handlers \cap Closers = {}
    /\ NoCaller \notin Callers
    /\ NoSocket \notin Sockets
    /\ MaxRetries \in Nat \ {0}
    /\ MaxRequests \in Nat \ {0}
    /\ RetryCap \in Nat \ {0}

VARIABLES
    connected,    \* Collector.connected
    retryCount,   \* Collector.retryCount
    stateMutex,   \* the caller that holds stateMutex for writing
    opMutex,      \* the caller that holds opMutex
    sock,         \* the client's transport: the socket of the last Open
    link,         \* every descriptor: free, live, or dead (the peer is gone)
    up,           \* is the device reachable
    pc,           \* where each caller is
    tries,        \* Connect calls a caller may still make
    left,         \* requests its operation has still to make
    result,       \* what its last call returned
    tested,       \* history: the socket its connection test failed on
    cause         \* history: something happened that excuses a failure

clientVars == <<connected, retryCount, stateMutex, sock, link>>
callerVars == <<pc, tries, left, result, tested, cause>>
vars == <<connected, retryCount, stateMutex, opMutex, sock, link, up,
          pc, tries, left, result, tested, cause>>

HoldsState == {"open", "probe", "abort"}
Labels == HoldsState \cup {"idle", "check", "test", "lost", "connect",
                           "lockOp", "request", "disconnect", "stats"}

TypeOK ==
    /\ connected \in BOOLEAN
    /\ retryCount \in 0..RetryCap
    /\ stateMutex \in Callers \cup {NoCaller}
    /\ opMutex \in Callers \cup {NoCaller}
    /\ sock \in Sockets \cup {NoSocket}
    /\ link \in [Sockets -> {"free", "live", "dead"}]
    /\ up \in BOOLEAN
    /\ pc \in [Callers -> Labels]
    /\ tries \in [Callers -> 0..MaxRetries]
    /\ left \in [Callers -> 0..MaxRequests]
    /\ result \in [Callers -> {"none", "GOOD", "BAD", "REJECTED"}]
    /\ tested \in [Callers -> Sockets \cup {NoSocket}]
    /\ cause \in [Callers -> BOOLEAN]

Goto(c, l) == pc' = [pc EXCEPT ![c] = l]

(* A client request is answered: the transport is open, its peer is alive  *)
(* and the network carries the request and the answer.  The device is one  *)
(* that serves the registers it is asked for, holding register 0 included. *)
Reachable == up /\ sock \in Sockets /\ link[sock] = "live"

(* The call is over.  A poll goes on to collectDeviceData's read of the    *)
(* connection statistics; the other callers are done.                      *)
Return(c, r) ==
    /\ result' = [result EXCEPT ![c] = r]
    /\ Goto(c, IF c \in Pollers THEN "stats" ELSE "idle")

-----------------------------------------------------------------------------
(* NewCollector connects once, before any other goroutine knows the        *)
(* collector, and keeps it when the connection fails.                      *)
NewCollector ==
    \/ /\ up = TRUE
       /\ connected = TRUE
       /\ retryCount = 0
       /\ sock \in Sockets
       /\ link = [s \in Sockets |-> IF s = sock THEN "live" ELSE "free"]
    \/ /\ up \in BOOLEAN
       /\ connected = FALSE
       /\ retryCount = 1
       /\ sock \in Sockets \cup {NoSocket}
       /\ link = [s \in Sockets |-> "free"]

Init ==
    /\ NewCollector
    /\ stateMutex = NoCaller
    /\ opMutex = NoCaller
    /\ pc = [c \in Callers |-> "idle"]
    /\ tries = [c \in Callers |-> 0]
    /\ left = [c \in Callers |-> 0]
    /\ result = [c \in Callers |-> "none"]
    /\ tested = [c \in Callers |-> NoSocket]
    /\ cause = [c \in Callers |-> FALSE]

-----------------------------------------------------------------------------
(* A call begins with n attempts to Connect at label l.                    *)
BeginAt(c, l, n) ==
    /\ pc[c] = "idle"
    /\ Goto(c, l)
    /\ tries' = [tries EXCEPT ![c] = n]
    /\ result' = [result EXCEPT ![c] = "none"]
    /\ cause' = [cause EXCEPT ![c] = ~up]
    /\ UNCHANGED <<left, tested, opMutex, up, clientVars>>

(* CollectPoints, ReadSinglePoint and WritePoint start with                *)
(* ensureConnected, which makes maxRetries attempts.                       *)
CollectPoints(c) == c \in Pollers /\ BeginAt(c, "check", MaxRetries)
ReadOrWritePoint(c) == c \in Handlers /\ BeginAt(c, "check", MaxRetries)
Close(c) == c \in Closers /\ BeginAt(c, "disconnect", 0)
Reconnect(c) == c \in Closers /\ BeginAt(c, "disconnect", 1)

Begin(c) ==
    CollectPoints(c) \/ ReadOrWritePoint(c) \/ Close(c) \/ Reconnect(c)

-----------------------------------------------------------------------------
(* ensureConnected.  The flag is read under RLock, the connection is then  *)
(* tested under no lock at all, and a failed test clears the flag under a  *)
(* second, separate lock.                                                  *)
\* Mutant: the flag is not looked at.
IsConnected_Ignored(c) ==
    /\ pc[c] = "check"
    /\ stateMutex = NoCaller
    /\ Goto(c, "test")
    /\ UNCHANGED <<tries, left, result, tested, cause, opMutex, up, clientVars>>

IsConnected(c) ==
    /\ pc[c] = "check"
    /\ stateMutex = NoCaller
    /\ Goto(c, IF connected THEN "test" ELSE "connect")
    /\ UNCHANGED <<tries, left, result, tested, cause, opMutex, up, clientVars>>

TestConnection(c) ==
    /\ pc[c] = "test"
    /\ \/ /\ Reachable
          /\ Goto(c, "lockOp")
          /\ UNCHANGED tested
       \/ /\ ~Reachable
          /\ Goto(c, "lost")
          /\ tested' = [tested EXCEPT ![c] = sock]
    /\ UNCHANGED <<tries, left, result, cause, opMutex, up, clientVars>>

\* Mutant: a failed test leaves the flag set.
MarkLost_KeepsFlag(c) ==
    /\ pc[c] = "lost"
    /\ stateMutex = NoCaller
    /\ Goto(c, "connect")
    /\ tested' = [tested EXCEPT ![c] = NoSocket]
    /\ UNCHANGED <<tries, left, result, cause, opMutex, up, clientVars>>

MarkLost(c) ==
    /\ pc[c] = "lost"
    /\ stateMutex = NoCaller
    /\ connected' = FALSE
    /\ Goto(c, "connect")
    /\ tested' = [tested EXCEPT ![c] = NoSocket]
    /\ UNCHANGED <<retryCount, stateMutex, opMutex, sock, link, up,
                   tries, left, result, cause>>

-----------------------------------------------------------------------------
(* Connect, with stateMutex held from the check of the flag to the end.    *)
(* An attempt that fails leaves the loop of ensureConnected after the      *)
(* last try; the delay between two tries is the time spent in "connect".   *)
Connected(c) ==
    IF c \in Closers
    THEN Return(c, "GOOD")
    ELSE Goto(c, "lockOp") /\ UNCHANGED result

\* Mutant: the loop of ensureConnected makes one attempt too many.
ConnectFailed_OneMore(c) ==
    /\ retryCount' = IF retryCount < RetryCap THEN retryCount + 1
                                              ELSE RetryCap
    /\ stateMutex' = NoCaller
    /\ tries' = [tries EXCEPT ![c] = @ - 1]
    /\ IF tries[c] > 0
       THEN Goto(c, "connect") /\ UNCHANGED result
       ELSE Return(c, "BAD")

\* Mutant: the early return of a failed attempt does not unlock.
ConnectFailed_NoUnlock(c) ==
    /\ retryCount' = IF retryCount < RetryCap THEN retryCount + 1
                                              ELSE RetryCap
    /\ tries' = [tries EXCEPT ![c] = @ - 1]
    /\ IF tries[c] > 1
       THEN Goto(c, "connect") /\ UNCHANGED result
       ELSE Return(c, "BAD")
    /\ UNCHANGED stateMutex

ConnectFailed(c) ==
    /\ retryCount' = IF retryCount < RetryCap THEN retryCount + 1
                                              ELSE RetryCap
    /\ stateMutex' = NoCaller
    /\ tries' = [tries EXCEPT ![c] = @ - 1]
    /\ IF tries[c] > 1
       THEN Goto(c, "connect") /\ UNCHANGED result
       ELSE Return(c, "BAD")

\* Mutant: Connect does not check the flag under the lock.
ConnectEnter_Unchecked(c) ==
    /\ pc[c] = "connect"
    /\ stateMutex = NoCaller
    /\ stateMutex' = c
    /\ Goto(c, "open")
    /\ UNCHANGED <<connected, retryCount, opMutex, sock, link, up,
                   tries, left, result, tested, cause>>

ConnectEnter(c) ==
    /\ pc[c] = "connect"
    /\ stateMutex = NoCaller
    /\ \/ /\ connected
          /\ Connected(c)
          /\ UNCHANGED stateMutex
       \/ /\ ~connected
          /\ stateMutex' = c
          /\ Goto(c, "open")
          /\ UNCHANGED result
    /\ UNCHANGED <<connected, retryCount, opMutex, sock, link, up,
                   tries, left, tested, cause>>

(* client.Open makes a new socket the transport and leaves the old one     *)
(* open.  Running out of descriptors makes it fail, and excuses a failure. *)
ConnectOpen(c) ==
    /\ pc[c] = "open"
    /\ \/ \E s \in Sockets :
             /\ up
             /\ link[s] = "free"
             /\ link' = [link EXCEPT ![s] = "live"]
             /\ sock' = s
             /\ Goto(c, "probe")
             /\ UNCHANGED <<retryCount, stateMutex, tries, result, cause>>
       \/ /\ ~up \/ \A s \in Sockets : link[s] # "free"
          /\ ConnectFailed(c)
          /\ cause' = [cause EXCEPT ![c] = @ \/ up]
          /\ UNCHANGED <<link, sock>>
    /\ UNCHANGED <<connected, opMutex, up, left, tested>>

ConnectTest(c) ==
    /\ pc[c] = "probe"
    /\ \/ /\ Reachable
          /\ connected' = TRUE
          /\ retryCount' = 0
          /\ stateMutex' = NoCaller
          /\ Connected(c)
       \/ /\ ~Reachable
          /\ Goto(c, "abort")
          /\ UNCHANGED <<connected, retryCount, stateMutex, result>>
    /\ UNCHANGED <<opMutex, sock, link, up, tries, left, tested, cause>>

ConnectAbort(c) ==
    /\ pc[c] = "abort"
    /\ link' = [link EXCEPT ![sock] = "free"]
    /\ ConnectFailed(c)
    /\ UNCHANGED <<connected, opMutex, sock, up, left, tested, cause>>

-----------------------------------------------------------------------------
(* The operation proper, under opMutex: some requests, of which a poll     *)
(* makes every one and a handler stops at the first that fails.            *)
\* Mutant: the operation does not wait for the one under way.
LockOp_Shared(c) ==
    /\ pc[c] = "lockOp"
    /\ opMutex' = c
    /\ Goto(c, "request")
    /\ \E n \in 0..MaxRequests : left' = [left EXCEPT ![c] = n]
    /\ UNCHANGED <<tries, result, tested, cause, up, clientVars>>

LockOp(c) ==
    /\ pc[c] = "lockOp"
    /\ opMutex = NoCaller
    /\ opMutex' = c
    /\ Goto(c, "request")
    /\ \E n \in 0..MaxRequests : left' = [left EXCEPT ![c] = n]
    /\ UNCHANGED <<tries, result, tested, cause, up, clientVars>>

Finish(c, r) ==
    /\ Return(c, r)
    /\ opMutex' = NoCaller
    /\ left' = [left EXCEPT ![c] = 0]

(* No request at all: the points have length zero, or the type of the      *)
(* handler's point is refused.                                             *)
NoRequest(c) ==
    /\ pc[c] = "request"
    /\ left[c] = 0
    /\ \E r \in {"GOOD"} \cup (IF c \in Handlers THEN {"REJECTED"} ELSE {}) :
          Finish(c, r)
    /\ UNCHANGED <<tries, tested, cause, up, clientVars>>

ClientRequest(c) ==
    /\ pc[c] = "request"
    /\ left[c] > 0
    /\ LET r == IF Reachable /\ result[c] # "BAD" THEN "GOOD" ELSE "BAD"
       IN  IF left[c] = 1 \/ (c \in Handlers /\ ~Reachable)
           THEN Finish(c, r)
           ELSE /\ left' = [left EXCEPT ![c] = @ - 1]
                /\ result' = [result EXCEPT ![c] = IF r = "BAD" THEN r ELSE @]
                /\ UNCHANGED <<pc, opMutex>>
    /\ UNCHANGED <<tries, tested, cause, up, clientVars>>

(* GetConnectionStats, which collectDeviceData calls after every poll and  *)
(* which waits for a Connect in progress.                                  *)
GetConnectionStats(c) ==
    /\ pc[c] = "stats"
    /\ stateMutex = NoCaller
    /\ Goto(c, "idle")
    /\ UNCHANGED <<tries, left, result, tested, cause, opMutex, up, clientVars>>

-----------------------------------------------------------------------------
(* Disconnect closes the transport only while the flag is set.  It excuses *)
(* the failure of the other calls under way.  Reconnect goes on to Connect.*)
\* Mutant: the transport is closed and the flag forgotten.
Disconnect_KeepsFlag(c) ==
    /\ pc[c] = "disconnect"
    /\ stateMutex = NoCaller
    /\ connected
    /\ link' = [link EXCEPT ![sock] = "free"]
    /\ IF tries[c] = 0 THEN Return(c, "GOOD")
                       ELSE Goto(c, "connect") /\ UNCHANGED result
    /\ UNCHANGED <<connected, retryCount, stateMutex, opMutex, sock, up,
                   tries, left, tested, cause>>

Disconnect(c) ==
    /\ pc[c] = "disconnect"
    /\ stateMutex = NoCaller
    /\ \/ /\ connected
          /\ link' = [link EXCEPT ![sock] = "free"]
          /\ connected' = FALSE
          /\ cause' = [d \in Callers |->
                          cause[d] \/ (d # c /\ pc[d] # "idle")]
       \/ /\ ~connected
          /\ UNCHANGED <<link, connected, cause>>
    /\ IF tries[c] = 0 THEN Return(c, "GOOD")
                       ELSE Goto(c, "connect") /\ UNCHANGED result
    /\ UNCHANGED <<retryCount, stateMutex, opMutex, sock, up,
                   tries, left, tested>>

-----------------------------------------------------------------------------
(* The network and the device.  An outage may or may not kill the sockets. *)
LinkDown ==
    /\ up
    /\ up' = FALSE
    /\ \/ link' = [s \in Sockets |-> IF link[s] = "live" THEN "dead"
                                                         ELSE link[s]]
       \/ UNCHANGED link
    /\ cause' = [c \in Callers |-> cause[c] \/ pc[c] # "idle"]
    /\ UNCHANGED <<connected, retryCount, stateMutex, opMutex, sock,
                   pc, tries, left, result, tested>>

LinkUp ==
    /\ ~up
    /\ up' = TRUE
    /\ UNCHANGED <<opMutex, clientVars, callerVars>>

(* The Go runtime closes, some time, a socket the client has dropped.      *)
Finalize(s) ==
    /\ s # sock
    /\ link[s] # "free"
    /\ link' = [link EXCEPT ![s] = "free"]
    /\ UNCHANGED <<connected, retryCount, stateMutex, opMutex, sock, up,
                   callerVars>>

-----------------------------------------------------------------------------
Step(c) ==
    \/ IsConnected(c) \/ TestConnection(c) \/ MarkLost(c)
    \/ ConnectEnter(c) \/ ConnectOpen(c) \/ ConnectTest(c) \/ ConnectAbort(c)
    \/ LockOp(c) \/ NoRequest(c) \/ ClientRequest(c)
    \/ GetConnectionStats(c) \/ Disconnect(c)

Next ==
    \/ \E c \in Callers : Begin(c) \/ Step(c)
    \/ \E s \in Sockets : Finalize(s)
    \/ LinkDown
    \/ LinkUp

Spec == Init /\ [][Next]_vars

(* A goroutine inside a call keeps running and, because Go's mutexes hand  *)
(* the lock to a waiter that has waited long enough, is not starved of a   *)
(* mutex: strong fairness.  The ticker keeps a poller polling.  Nothing is *)
(* assumed of the device, the network, the handlers or the closers.        *)
Fairness ==
    /\ \A c \in Callers : SF_vars(Step(c))
    /\ \A c \in Pollers : WF_vars(CollectPoints(c))
    /\ \A s \in Sockets : WF_vars(Finalize(s))

FairSpec == Spec /\ Fairness

-----------------------------------------------------------------------------
(* Whenever no Connect is under way, a set connected flag means that the   *)
(* client's transport has been opened and not been closed by this process, *)
(* and that the count of failed attempts has been reset: Connect and       *)
(* Disconnect keep flag, transport and counter in step.                    *)
ConnectedStateConsistent ==
    connected => /\ sock \in Sockets /\ link[sock] # "free"
                 /\ retryCount = 0

(* No request is made through a client that was never opened, which would  *)
(* dereference a nil transport: whoever tests, probes, closes or reads     *)
(* does so after some Open succeeded.                                      *)
RequestsHaveTransport ==
    \A c \in Callers :
        pc[c] \in {"test", "probe", "abort", "lockOp", "request"}
            => sock \in Sockets

(* ensureConnected heals what can be healed: a poll, a read or a write     *)
(* fails only if, while it ran, the device was unreachable, somebody       *)
(* closed the collector or the process ran out of descriptors.  A stale    *)
(* connected flag, a dead socket or the reconnection of another goroutine  *)
(* is never a reason to fail.                                              *)
FailsOnlyForCause ==
    \A c \in Callers : result[c] = "BAD" => cause[c]

(* Connect opens a transport only while the flag is down: a goroutine that *)
(* waited for stateMutex behind a Connect that succeeded opens none.  That *)
(* several reconnect one after the other is possible: a stale mark between *)
(* them clears the flag.                                                   *)
OpensOnlyWhenDisconnected ==
    [][\A s \in Sockets :
          link[s] = "free" /\ link'[s] = "live" => ~connected]_vars

(* Every call returns, whatever the device and the network do: no caller   *)
(* waits for a mutex or retries for ever.                                  *)
CallsReturn == \A c \in Callers : pc[c] # "idle" ~> pc[c] = "idle"

(* Once the device stays reachable the polling brings a working connection *)
(* back, also when a handler reconnects in between and when descriptors    *)
(* have run out.                                                           *)
Recovers == <>[]up => []<>(connected /\ Reachable)

-----------------------------------------------------------------------------
(* What callers see of the collector: whether they are in a call, whether  *)
(* their operation runs, and what the finished call returned.              *)
PhaseOf(l) ==
    CASE l = "idle"    -> "out"
      [] l = "request" -> "operating"
      [] l = "stats"   -> "over"
      [] OTHER         -> "in"

callPhase == [c \in Callers |-> PhaseOf(pc[c])]
callOutcome == [c \in Callers |-> IF pc[c] \in {"idle", "stats"}
                                  THEN result[c] ELSE "none"]

Calls == INSTANCE CollectorCall WITH
    Users <- Pollers \cup Handlers,
    phase <- callPhase, outcome <- callOutcome, excused <- cause

(* The collector, with its connection, its two mutexes and its retries, is *)
(* a collector of CollectorCall: operations run one at a time whoever      *)
(* reconnects meanwhile, every result is that of an operation or an        *)
(* excused failure, and a result does not change after it is returned.     *)
ImplementsCalls == Calls!Spec

-----------------------------------------------------------------------------
(* What the repository's documents and comments say and the code does not. *)

(* "the connection is broken, mark it as not connected" (the comment in    *)
(* ensureConnected): the connection that is marked lost is the connection  *)
(* whose test failed.                                                      *)
MarksTheConnectionItTested ==
    [][\A c \in Callers :
          pc[c] = "lost" /\ pc'[c] # "lost" => tested[c] = sock]_vars
=============================================================================
