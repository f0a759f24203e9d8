---------------------------- MODULE ServiceProcess ----------------------------
(***************************************************************************)
(* The process of one or more RPC services: ProcessMonitor retries the     *)
(* start and stops on signals, RpcServiceManager starts and stops the      *)
(* services and their HTTP and REPL servers, and each service connects its *)
(* repository, one connection for writing and one for reading, under the   *)
(* lock of its ConnectionManager.  An attempt to start fails when the      *)
(* first of its connections does; the others carry on and meet those of    *)
(* the next attempt at the lock.                                           *)
(***************************************************************************)
EXTENDS Naturals, Sequences

CONSTANTS
  Services,      \* services managed by the process
  Retries,       \* retries of the start after the first attempt
  UseRepl,       \* options.repl is set
  MaxSignals,    \* bound on the signals delivered
  MaxFaults      \* bound on the connections that fail

ASSUME ConstantsOK ==
  /\ Retries \in Nat /\ MaxSignals \in Nat /\ MaxFaults \in Nat
  /\ UseRepl \in BOOLEAN

VARIABLES
  exit,        \* "running", or how the process ended
  stopped,     \* a signal was received
  timer,       \* the interval that keeps the process alive
  loop,        \* where ProcessMonitor is
  attempt,     \* attempts to start so far
  failed,      \* the attempts that were rejected
  queue,       \* of a service: who holds (the first) or awaits the lock
  busy,        \* the holder initializes or destroys its connection
  connected,   \* connections that are initialized
  server, repl,
  stop,        \* where the stop that closed the server is
  late,        \* another stop awaits the close of the server
  signals, faults

servers == <<server, repl, stop, late>>
locks == <<queue, busy, connected>>
monitor == <<stopped, timer, loop, attempt, failed>>
budget == <<signals, faults>>
vars == <<exit, monitor, locks, servers, budget>>

Modes == {"rw", "ro"}
Connections == Services \X Modes

Client == [op : {"connect"}, by : 1 .. Retries + 1, mode : Modes]
            \cup [op : {"disconnect"}, by : {0}, mode : Modes]

Connect(n, m) == [op |-> "connect", by |-> n, mode |-> m]
Disconnect(m) == [op |-> "disconnect", by |-> 0, mode |-> m]

Waiting(s) == {queue[s][i] : i \in DOMAIN queue[s]}
StillStarting(n) == \E s \in Services : \E c \in Waiting(s) : c.by = n
StillStopping == \E s \in Services : \E c \in Waiting(s) : c.op = "disconnect"

Running == exit = "running"

(***************************************************************************)
(* ProcessMonitor: an attempt calls onStart of every service, and each     *)
(* repository connects for writing and for reading.  A process that was    *)
(* stopped while it waited makes no further attempt; its controller.stop() *)
(* finds no server.                                                        *)
(***************************************************************************)
Begin ==
  /\ Running /\ loop = "backoff" /\ ~stopped
  /\ attempt' = attempt + 1
  /\ loop' = "onStart"
  /\ queue' = [s \in Services |->
                 queue[s] \o <<Connect(attempt', "rw"), Connect(attempt', "ro")>>]
  /\ UNCHANGED <<exit, stopped, timer, failed, busy, connected, servers, budget>>

Abort ==
  /\ Running /\ loop = "backoff" /\ stopped
  /\ exit' = "aborted"
  /\ UNCHANGED <<monitor, locks, servers, budget>>

(* Mutant: an attempt too many.                                            *)
RejectedOnceMore ==
  /\ Running /\ loop = "onStart" /\ attempt \in failed
  /\ IF attempt <= Retries + 1 THEN loop' = "backoff" /\ exit' = exit
     ELSE exit' = "aborted" /\ loop' = loop
  /\ UNCHANGED <<stopped, timer, attempt, failed, locks, servers, budget>>

(* The start was rejected: retry, or exit after the last attempt.          *)
Rejected ==
  /\ Running /\ loop = "onStart" /\ attempt \in failed
  /\ IF attempt <= Retries THEN loop' = "backoff" /\ exit' = exit
     ELSE exit' = "aborted" /\ loop' = loop
  /\ UNCHANGED <<stopped, timer, attempt, failed, locks, servers, budget>>

(* Mutant: the services are started, and not awaited.                      *)
ListenEarly ==
  /\ Running /\ loop = "onStart" /\ attempt \notin failed
  /\ server' = "listening"
  /\ IF UseRepl THEN loop' = "repl" /\ repl' = "starting"
     ELSE loop' = "monitoring" /\ repl' = repl
  /\ UNCHANGED <<exit, stopped, timer, attempt, failed, locks, stop, late, budget>>

(* All services have started: the server listens, and the REPL is begun.   *)
Listen ==
  /\ Running /\ loop = "onStart" /\ attempt \notin failed
  /\ ~StillStarting(attempt)
  /\ server' = "listening"
  /\ IF UseRepl THEN loop' = "repl" /\ repl' = "starting"
     ELSE loop' = "monitoring" /\ repl' = repl
  /\ UNCHANGED <<exit, stopped, timer, attempt, failed, locks, stop, late, budget>>

ReplListens ==
  /\ Running /\ loop = "repl"
  /\ repl' = "listening"
  /\ loop' = "monitoring"
  /\ UNCHANGED <<exit, stopped, timer, attempt, failed, locks, server, stop, late, budget>>

(***************************************************************************)
(* ConnectionManager: a client that gets the lock looks whether there is   *)
(* anything left to do.  A connection that cannot be made rejects the      *)
(* attempt of its client; one that cannot be closed rejects stop(), which  *)
(* no handler catches.                                                     *)
(***************************************************************************)
Needed(s, c) == (c.op = "connect") = (<<s, c.mode>> \notin connected)

Acquire(s) ==
  /\ Running /\ queue[s] # << >> /\ ~busy[s]
  /\ IF Needed(s, Head(queue[s])) THEN busy' = [busy EXCEPT ![s] = TRUE] /\ queue' = queue
     ELSE queue' = [queue EXCEPT ![s] = Tail(@)] /\ busy' = busy
  /\ UNCHANGED <<exit, monitor, connected, servers, budget>>

Done(s) ==
  /\ Running /\ busy[s]
  /\ LET c == Head(queue[s]) IN
     connected' = IF c.op = "connect" THEN connected \cup {<<s, c.mode>>}
                  ELSE connected \ {<<s, c.mode>>}
  /\ busy' = [busy EXCEPT ![s] = FALSE]
  /\ queue' = [queue EXCEPT ![s] = Tail(@)]
  /\ UNCHANGED <<exit, monitor, servers, budget>>

Fail(s) ==
  /\ Running /\ busy[s] /\ faults < MaxFaults
  /\ faults' = faults + 1
  /\ LET c == Head(queue[s]) IN
     IF c.op = "connect" THEN failed' = failed \cup {c.by} /\ exit' = exit
     ELSE exit' = "crashed" /\ failed' = failed
  /\ busy' = [busy EXCEPT ![s] = FALSE]
  /\ queue' = [queue EXCEPT ![s] = Tail(@)]
  /\ UNCHANGED <<stopped, timer, loop, attempt, connected, servers, signals>>

(***************************************************************************)
(* A signal: terminate() clears the interval and calls stop(), which does  *)
(* nothing unless there is a server.  The server stops listening at once   *)
(* and is closed when its requests are answered; a second stop in between  *)
(* will be told that the server is not running.                            *)
(***************************************************************************)
(* Mutant: the interval goes on. *)
SignalKeepsTimer ==
  /\ Running /\ attempt > 0 /\ signals < MaxSignals
  /\ signals' = signals + 1
  /\ stopped' = TRUE /\ timer' = timer
  /\ server' = IF server = "listening" THEN "closing" ELSE server
  /\ stop' = IF server = "listening" THEN "draining" ELSE stop
  /\ late' = (late \/ server = "closing")
  /\ UNCHANGED <<exit, loop, attempt, failed, locks, repl, faults>>

Signal ==
  /\ Running /\ attempt > 0 /\ signals < MaxSignals
  /\ signals' = signals + 1
  /\ stopped' = TRUE /\ timer' = FALSE
  /\ server' = IF server = "listening" THEN "closing" ELSE server
  /\ stop' = IF server = "listening" THEN "draining" ELSE stop
  /\ late' = (late \/ server = "closing")
  /\ UNCHANGED <<exit, loop, attempt, failed, locks, repl, faults>>

(* onStop of every service: the repository disconnects. *)
StopServices ==
  /\ stop' = "onStop"
  /\ queue' = [s \in Services |-> queue[s] \o <<Disconnect("ro"), Disconnect("rw")>>]

(* Mutant: a process with a REPL forgets its services.                     *)
DrainedForgetful ==
  /\ Running /\ server = "closing"
  /\ server' = "closed"
  /\ IF late THEN exit' = "crashed" /\ UNCHANGED <<repl, stop, queue>>
     ELSE /\ exit' = exit
          /\ IF repl = "listening" THEN repl' = "closed" /\ stop' = "done" /\ queue' = queue
             ELSE repl' = repl /\ StopServices
  /\ UNCHANGED <<monitor, busy, connected, late, budget>>

(* The rejection of a second stop is not handled, which ends the process.  *)
Drained ==
  /\ Running /\ server = "closing"
  /\ server' = "closed"
  /\ IF late THEN exit' = "crashed" /\ UNCHANGED <<repl, stop, queue>>
     ELSE /\ exit' = exit
          /\ IF repl = "listening" THEN repl' = "closing" /\ stop' = "repl" /\ queue' = queue
             ELSE repl' = repl /\ StopServices
  /\ UNCHANGED <<monitor, busy, connected, late, budget>>

ReplCloses ==
  /\ Running /\ repl = "closing"
  /\ repl' = "closed"
  /\ StopServices
  /\ UNCHANGED <<exit, monitor, busy, connected, server, late, budget>>

StopReturns ==
  /\ Running /\ stop = "onStop" /\ ~StillStopping
  /\ stop' = "done"
  /\ UNCHANGED <<exit, monitor, locks, server, repl, late, budget>>

(* Nothing is left that keeps Node.js alive: no timer, no server, no work. *)
End ==
  /\ Running /\ ~timer /\ loop = "monitoring"
  /\ server = "closed" /\ repl \in {"none", "closed"} /\ stop = "done"
  /\ \A s \in Services : queue[s] = << >>
  /\ exit' = "ended"
  /\ UNCHANGED <<monitor, locks, servers, budget>>

Init ==
  /\ exit = "running"
  /\ stopped = FALSE /\ timer = TRUE
  /\ loop = "backoff" /\ attempt = 0 /\ failed = {}
  /\ queue = [s \in Services |-> << >>]
  /\ busy = [s \in Services |-> FALSE]
  /\ connected = {}
  /\ server = "none" /\ repl = "none"
  /\ stop = "none" /\ late = FALSE
  /\ signals = 0 /\ faults = 0

Monitor == Begin \/ Abort \/ Rejected \/ Listen \/ ReplListens
Manager(s) == Acquire(s) \/ Done(s) \/ Fail(s)
Stopping == Drained \/ ReplCloses \/ StopReturns \/ End

Next == Monitor \/ Stopping \/ Signal \/ \E s \in Services : Manager(s)

Spec == Init /\ [][Next]_vars
(* Promises settle, requests are answered, REPL sessions are closed.       *)
FairSpec == Spec /\ WF_vars(Monitor) /\ WF_vars(Stopping) /\ \A s \in Services : WF_vars(Manager(s))
-----------------------------------------------------------------------------
TypeOK ==
  /\ exit \in {"running", "aborted", "crashed", "ended"}
  /\ stopped \in BOOLEAN /\ timer \in BOOLEAN /\ late \in BOOLEAN
  /\ loop \in {"backoff", "onStart", "repl", "monitoring"}
  /\ attempt \in 0 .. Retries + 1 /\ failed \subseteq 1 .. Retries + 1
  /\ queue \in [Services -> Seq(Client)]
  /\ busy \in [Services -> BOOLEAN]
  /\ \A s \in Services : busy[s] => queue[s] # << >>
  /\ connected \subseteq Connections
  /\ server \in {"none", "listening", "closing", "closed"}
  /\ repl \in {"none", "starting", "listening", "closing", "closed"}
  /\ stop \in {"none", "draining", "repl", "onStop", "done"}
  /\ signals \in Nat /\ faults \in Nat

(***************************************************************************)
(* As long as requests are accepted or still being answered, every service *)
(* has its connections, whatever attempts failed or overlapped before and  *)
(* however the process is being stopped.                                   *)
(***************************************************************************)
ServingIsConnected == Running /\ server \in {"listening", "closing"} => connected = Connections

(***************************************************************************)
(* A process that ends by itself has closed its connections: no connect of *)
(* an attempt that was given up undoes what onStop did.                    *)
(***************************************************************************)
CleanEnd == exit = "ended" => connected = {}

(***************************************************************************)
(* A process that is stopped while it waits to retry, or once its start is *)
(* complete, ends.                                                         *)
(***************************************************************************)
StopEnds == (Running /\ stopped /\ (loop = "backoff" \/ (loop = "monitoring" /\ server = "closing"))) ~> ~Running

(* What the package says of the processes it runs: they respond to signals, *)
(* also while they start.                                                   *)
EverySignalEnds == stopped ~> ~Running
=============================================================================
