------------------------- MODULE ServiceProcessProofs -------------------------
(***************************************************************************)
(* Proofs about the process of the services, for every number of services, *)
(* retries, signals and failed connections: type correctness, that what is *)
(* served is connected, and that a process that ends has disconnected.     *)
(***************************************************************************)
EXTENDS ServiceProcess, TLAPS

TypeInv == TypeOK /\ (loop = "backoff" => attempt <= Retries)

(* How far the start, the server and the stop are, relative to each other. *)
Phases ==
  /\ loop \in {"backoff", "onStart"} => server = "none"
  /\ server = "none" => stop = "none"
  /\ server \in {"listening", "closing"} => stop \in {"none", "draining"}
  /\ repl = "closing" => server = "closed"

ServicesStopped == stop \in {"onStop", "done"}

(* Nothing is disconnected before the servers are closed.                  *)
OnlyConnects ==
  ~ServicesStopped =>
    \A s \in Services : \A i \in DOMAIN queue[s] : queue[s][i].op = "connect"

(* What an attempt that was not rejected has still to connect, it awaits.  *)
Starting ==
  loop = "onStart" /\ attempt \notin failed =>
    \A s \in Services, m \in Modes :
      <<s, m>> \in connected \/ Connect(attempt, m) \in Waiting(s)

(* What is connected will be disconnected, and so is what the attempts     *)
(* that were given up will still connect: the lock is fair.                *)
Closing ==
  exit \in {"running", "ended"} /\ ServicesStopped =>
    \A s \in Services, m \in Modes :
      /\ <<s, m>> \in connected => Disconnect(m) \in Waiting(s)
      /\ \A i \in DOMAIN queue[s] :
           queue[s][i].op = "connect" /\ queue[s][i].mode = m =>
             \E j \in DOMAIN queue[s] : i < j /\ queue[s][j] = Disconnect(m)

Ended == exit = "ended" => stop = "done" /\ \A s \in Services : queue[s] = << >>

ConnectInv == TypeInv /\ Phases /\ OnlyConnects /\ Starting /\ ServingIsConnected

IInv == ConnectInv /\ Closing /\ Ended

(***************************************************************************)
(* The queue at a lock.                                                    *)
(***************************************************************************)
LEMMA ClientFacts ==
  ASSUME NEW c \in Client
  PROVE  /\ c.op \in {"connect", "disconnect"} /\ c.mode \in Modes
         /\ c.op = "connect" => c.by \in 1 .. Retries + 1
  BY DEF Client

LEMMA TailFacts ==
  ASSUME NEW q \in Seq(Client), q # << >>
  PROVE  /\ Tail(q) \in Seq(Client) /\ Head(q) \in Client
         /\ DOMAIN q = 1 .. Len(q) /\ Len(q) \in Nat /\ Len(q) > 0
         /\ DOMAIN Tail(q) = 1 .. Len(q) - 1
         /\ Head(q) = q[1]
         /\ \A i \in DOMAIN Tail(q) : Tail(q)[i] = q[i + 1]
  OBVIOUS

LEMMA AppendFacts ==
  ASSUME NEW q \in Seq(Client), NEW a \in Client, NEW b \in Client
  PROVE  LET p == q \o <<a, b>> IN
         /\ p \in Seq(Client)
         /\ DOMAIN q = 1 .. Len(q) /\ Len(q) \in Nat
         /\ DOMAIN p = 1 .. Len(q) + 2
         /\ \A i \in DOMAIN q : p[i] = q[i]
         /\ p[Len(q) + 1] = a /\ p[Len(q) + 2] = b
  OBVIOUS

(* A step of the manager of s takes the head from the queue, or leaves it. *)
LEMMA ManagerQueue ==
  ASSUME TypeInv, NEW s \in Services, Manager(s)
  PROVE  /\ queue[s] \in Seq(Client) /\ queue[s] # << >>
         /\ \/ queue' = queue /\ UNCHANGED connected
            \/ queue' = [queue EXCEPT ![s] = Tail(@)]
         /\ queue' \in [Services -> Seq(Client)]
         /\ Head(queue[s]) \in Client
         /\ UNCHANGED <<stopped, timer, loop, attempt, server, repl, stop, late, signals>>
<1>1. queue[s] \in Seq(Client) /\ queue[s] # << >>
  BY DEF TypeInv, TypeOK, Manager, Acquire, Done, Fail
<1>2. Tail(queue[s]) \in Seq(Client) /\ Head(queue[s]) \in Client
  BY <1>1, TailFacts
<1>3. \/ queue' = queue /\ UNCHANGED connected
      \/ queue' = [queue EXCEPT ![s] = Tail(@)]
  BY DEF Manager, Acquire, Done, Fail
<1>4. queue' \in [Services -> Seq(Client)]
  BY <1>2, <1>3 DEF TypeInv, TypeOK
<1>5. UNCHANGED <<stopped, timer, loop, attempt, server, repl, stop, late, signals>>
  BY DEF Manager, Acquire, Done, Fail, monitor, servers, budget
<1> QED
  BY <1>1, <1>2, <1>3, <1>4, <1>5

(***************************************************************************)
(* Types.                                                                  *)
(***************************************************************************)
LEMMA InitTypeInv == Init => TypeInv
<1> SUFFICES ASSUME Init PROVE TypeInv
  OBVIOUS
<1>1. /\ queue \in [Services -> Seq(Client)] /\ busy \in [Services -> BOOLEAN]
      /\ \A s \in Services : ~busy[s]
  BY DEF Init
<1>2. attempt \in 0 .. Retries + 1 /\ attempt <= Retries /\ signals \in Nat /\ faults \in Nat
  BY ConstantsOK DEF Init
<1> QED
  BY <1>1, <1>2 DEF Init, TypeInv, TypeOK

LEMMA BeginTypes == ASSUME TypeInv, Begin PROVE TypeInv'
<1>1. attempt' \in 1 .. Retries + 1 /\ loop' = "onStart"
  BY ConstantsOK DEF Begin, TypeInv, TypeOK
<1>2. Connect(attempt', "rw") \in Client /\ Connect(attempt', "ro") \in Client
  BY <1>1 DEF Connect, Client, Modes
<1>3. \A s \in Services :
        /\ queue'[s] \in Seq(Client)
        /\ busy[s] => queue'[s] # << >>
  BY <1>2, AppendFacts DEF Begin, TypeInv, TypeOK
<1>4. queue' \in [Services -> Seq(Client)]
  BY <1>3 DEF Begin
<1> QED
  BY <1>1, <1>3, <1>4 DEF Begin, TypeInv, TypeOK, servers, budget

LEMMA StopTypes ==
  ASSUME TypeInv, StopServices
  PROVE  /\ queue' \in [Services -> Seq(Client)]
         /\ \A s \in Services : queue'[s] # << >>
         /\ stop' = "onStop"
<1>1. Disconnect("ro") \in Client /\ Disconnect("rw") \in Client
  BY DEF Disconnect, Client, Modes
<1>2. \A s \in Services : queue'[s] \in Seq(Client) /\ queue'[s] # << >>
  BY <1>1, AppendFacts DEF StopServices, TypeInv, TypeOK
<1> QED
  BY <1>2 DEF StopServices

LEMMA ManagerTypes == ASSUME TypeInv, NEW s \in Services, Manager(s) PROVE TypeInv'
<1>1. /\ queue' \in [Services -> Seq(Client)] /\ Head(queue[s]) \in Client
      /\ UNCHANGED <<stopped, timer, loop, attempt, server, repl, stop, late, signals>>
  BY ManagerQueue
<1>2. /\ busy' \in [Services -> BOOLEAN]
      /\ \A t \in Services : busy'[t] => queue'[t] # << >>
  BY DEF TypeInv, TypeOK, Manager, Acquire, Done, Fail
<1>3. /\ Head(queue[s]).mode \in Modes
      /\ Head(queue[s]).op = "connect" => Head(queue[s]).by \in 1 .. Retries + 1
  BY <1>1, ClientFacts
<1>4. connected' \subseteq Connections
  BY <1>3 DEF TypeInv, TypeOK, Manager, Acquire, Done, Fail, Connections
<1>5. /\ failed' \subseteq 1 .. Retries + 1
      /\ exit' \in {"running", "aborted", "crashed", "ended"}
      /\ faults' \in Nat
  <2>1. CASE Acquire(s) \/ Done(s)
    BY <2>1 DEF TypeInv, TypeOK, Acquire, Done, monitor, budget
  <2>2. CASE Fail(s)
    <3>1. \/ Head(queue[s]).op = "connect" /\ failed' = failed \cup {Head(queue[s]).by}
             /\ exit' = exit
          \/ exit' = "crashed" /\ failed' = failed
      BY <2>2 DEF Fail
    <3>2. faults' \in Nat
      BY <2>2 DEF Fail, TypeInv, TypeOK
    <3> QED
      BY <1>3, <3>1, <3>2 DEF TypeInv, TypeOK
  <2> QED
    BY <2>1, <2>2 DEF Manager
<1> QED
  BY <1>1, <1>2, <1>4, <1>5 DEF TypeInv, TypeOK

LEMMA NextTypeInv == ASSUME TypeInv, [Next]_vars PROVE TypeInv'
<1>1. CASE Begin
  BY <1>1, BeginTypes
<1>2. CASE Abort
  BY <1>2 DEF Abort, TypeInv, TypeOK, monitor, locks, servers, budget
<1>3. CASE Rejected
  BY <1>3 DEF Rejected, TypeInv, TypeOK, locks, servers, budget
<1>4. CASE Listen
  BY <1>4 DEF Listen, TypeInv, TypeOK, locks, budget
<1>5. CASE ReplListens
  BY <1>5 DEF ReplListens, TypeInv, TypeOK, locks, budget
<1>6. CASE Drained
  <2>1. \/ UNCHANGED <<stop, queue>> /\ exit' \in {"running", "crashed"}
        \/ stop' = "repl" /\ queue' = queue /\ exit' = exit
        \/ StopServices /\ exit' = exit
    BY <1>6 DEF Drained, Running
  <2>2. /\ queue' \in [Services -> Seq(Client)]
        /\ \A s \in Services : busy[s] => queue'[s] # << >>
        /\ stop' \in {"none", "draining", "repl", "onStop", "done"}
    BY <2>1, StopTypes DEF TypeInv, TypeOK
  <2> QED
    BY <1>6, <2>1, <2>2 DEF Drained, TypeInv, TypeOK, monitor, budget
<1>7. CASE ReplCloses
  BY <1>7, StopTypes DEF ReplCloses, TypeInv, TypeOK, monitor, budget
<1>8. CASE StopReturns
  BY <1>8 DEF StopReturns, TypeInv, TypeOK, monitor, locks, budget
<1>9. CASE End
  BY <1>9 DEF End, TypeInv, TypeOK, monitor, locks, servers, budget
<1>10. CASE Signal
  <2>1. late' \in BOOLEAN
    BY <1>10, Zenon DEF Signal
  <2>2. signals' \in Nat
    BY <1>10 DEF Signal, TypeInv, TypeOK
  <2> QED
    BY <1>10, <2>1, <2>2 DEF Signal, TypeInv, TypeOK, locks
<1>11. ASSUME NEW s \in Services, Manager(s) PROVE TypeInv'
  BY <1>11, ManagerTypes
<1>12. CASE UNCHANGED vars
  BY <1>12 DEF vars, TypeInv, TypeOK, monitor, locks, servers, budget
<1> QED
  BY <1>1, <1>2, <1>3, <1>4, <1>5, <1>6, <1>7, <1>8, <1>9, <1>10, <1>11, <1>12
  DEF Next, Monitor, Stopping

(* Every variable has its type, and an attempt is never one too many.      *)
THEOREM TypeCorrect == Spec => []TypeOK
<1>1. Init => TypeInv
  BY InitTypeInv
<1>2. TypeInv /\ [Next]_vars => TypeInv'
  BY NextTypeInv
<1>3. TypeInv => TypeOK
  BY DEF TypeInv
<1> QED
  BY <1>1, <1>2, <1>3, PTL DEF Spec

(***************************************************************************)
(* What is served is connected.                                            *)
(***************************************************************************)
(* The head of the queue is left, done, needless, or failed.               *)
LEMMA ManagerEffect ==
  ASSUME TypeInv, NEW s \in Services, Manager(s)
  PROVE  LET h == Head(queue[s]) IN
         /\ exit = "running"
         /\ \/ queue' = queue /\ UNCHANGED <<exit, failed, connected>>
            \/ /\ queue' = [queue EXCEPT ![s] = Tail(@)]
               /\ \/ /\ h.op = "connect"
                     /\ connected' = connected \cup {<<s, h.mode>>}
                     /\ UNCHANGED <<exit, failed>>
                  \/ /\ h.op = "connect"
                     /\ failed' = failed \cup {h.by}
                     /\ UNCHANGED <<exit, connected>>
                  \/ /\ h.op = "disconnect"
                     /\ connected' = connected \ {<<s, h.mode>>}
                     /\ UNCHANGED <<exit, failed>>
                  \/ /\ h.op = "disconnect"
                     /\ exit' = "crashed"
                     /\ UNCHANGED <<connected, failed>>
<1>1. Head(queue[s]).op \in {"connect", "disconnect"}
  BY ManagerQueue, ClientFacts
<1>2. CASE Acquire(s)
  <2>1. CASE Needed(s, Head(queue[s]))
    BY <1>2, <2>1 DEF Acquire, Running, monitor
  <2>2. CASE ~Needed(s, Head(queue[s]))
    <3>1. \/ Head(queue[s]).op = "connect" /\ <<s, Head(queue[s]).mode>> \in connected
          \/ Head(queue[s]).op = "disconnect" /\ <<s, Head(queue[s]).mode>> \notin connected
      BY <1>1, <2>2 DEF Needed
    <3> QED
      BY <1>2, <2>2, <3>1 DEF Acquire, Running, monitor
  <2> QED
    BY <2>1, <2>2
<1>3. CASE Done(s)
  BY <1>1, <1>3 DEF Done, Running, monitor
<1>4. CASE Fail(s)
  BY <1>1, <1>4 DEF Fail, Running
<1> QED
  BY <1>2, <1>3, <1>4 DEF Manager

(* Only the head leaves a queue.                                           *)
LEMMA ManagerWaiting ==
  ASSUME TypeInv, NEW s \in Services, Manager(s), NEW t \in Services
  PROVE  /\ Waiting(t)' \subseteq Waiting(t)
         /\ \A c \in Waiting(t) :
              \/ c \in Waiting(t)'
              \/ t = s /\ c = Head(queue[s]) /\ queue' # queue
<1>1. /\ queue[s] \in Seq(Client) /\ queue[s] # << >>
      /\ queue' = queue \/ queue' = [queue EXCEPT ![s] = Tail(@)]
      /\ queue \in [Services -> Seq(Client)]
  BY ManagerQueue DEF TypeInv, TypeOK
<1>2. CASE queue' = queue \/ t # s
  <2>1. queue'[t] = queue[t]
    BY <1>1, <1>2
  <2> QED
    BY <2>1 DEF Waiting
<1>3. CASE queue' = [queue EXCEPT ![s] = Tail(@)] /\ t = s
  <2> DEFINE q == queue[s]
  <2>1. /\ DOMAIN q = 1 .. Len(q) /\ Len(q) \in Nat /\ Len(q) > 0
        /\ DOMAIN Tail(q) = 1 .. Len(q) - 1 /\ Head(q) = q[1]
        /\ \A i \in DOMAIN Tail(q) : Tail(q)[i] = q[i + 1]
    BY <1>1, TailFacts
  <2>2. Tail(q) # q
    <3>1. Len(q) \in DOMAIN q /\ Len(q) \notin DOMAIN Tail(q)
      BY <2>1
    <3> QED
      BY <3>1
  <2>3. queue'[s] = Tail(q) /\ queue' # queue
    BY <1>1, <1>3, <2>2
  <2>4. \A i \in DOMAIN Tail(q) : i + 1 \in DOMAIN q
    BY <2>1
  <2>5. \A i \in DOMAIN q :
          \/ q[i] = Head(q)
          \/ i - 1 \in DOMAIN Tail(q) /\ Tail(q)[i - 1] = q[i]
    <3> SUFFICES ASSUME NEW i \in DOMAIN q, i # 1
                 PROVE  i - 1 \in DOMAIN Tail(q) /\ Tail(q)[i - 1] = q[i]
      BY <2>1
    <3>1. i - 1 \in DOMAIN Tail(q) /\ (i - 1) + 1 = i
      BY <2>1
    <3> QED
      BY <2>1, <3>1
  <2>6. Waiting(s)' = {Tail(q)[i] : i \in DOMAIN Tail(q)}
    BY <2>3 DEF Waiting
  <2> QED
    BY <1>3, <2>1, <2>3, <2>4, <2>5, <2>6 DEF Waiting
<1> QED
  BY <1>1, <1>2, <1>3

LEMMA NextPhases == ASSUME TypeInv, Phases, [Next]_vars PROVE Phases'
<1>1. CASE Monitor
  BY <1>1 DEF Monitor, Begin, Abort, Rejected, Listen, ReplListens, Phases, monitor, servers
<1>2. CASE Drained
  BY <1>2 DEF Drained, StopServices, Phases, monitor
<1>3. CASE ReplCloses \/ StopReturns \/ End
  BY <1>3 DEF ReplCloses, StopServices, StopReturns, End, Phases, monitor, servers
<1>4. CASE Signal
  BY <1>4 DEF Signal, Phases, locks
<1>5. ASSUME NEW s \in Services, Manager(s) PROVE Phases'
  BY <1>5, ManagerQueue DEF Phases
<1>6. CASE UNCHANGED vars
  BY <1>6 DEF vars, Phases, monitor, servers
<1> QED
  BY <1>1, <1>2, <1>3, <1>4, <1>5, <1>6 DEF Next, Stopping

LEMMA BeginQueue ==
  ASSUME TypeInv, Begin, NEW s \in Services
  PROVE  /\ queue[s] \in Seq(Client)
         /\ DOMAIN queue[s] = 1 .. Len(queue[s]) /\ Len(queue[s]) \in Nat
         /\ DOMAIN queue'[s] = 1 .. Len(queue[s]) + 2
         /\ \A i \in DOMAIN queue[s] : queue'[s][i] = queue[s][i]
         /\ queue'[s][Len(queue[s]) + 1] = Connect(attempt', "rw")
         /\ queue'[s][Len(queue[s]) + 2] = Connect(attempt', "ro")
<1>1. Connect(attempt', "rw") \in Client /\ Connect(attempt', "ro") \in Client
  BY ConstantsOK DEF Begin, Connect, Client, Modes, TypeInv, TypeOK
<1>2. queue[s] \in Seq(Client)
  BY DEF TypeInv, TypeOK
<1>3. queue'[s] = queue[s] \o <<Connect(attempt', "rw"), Connect(attempt', "ro")>>
  BY DEF Begin
<1> QED
  BY <1>1, <1>2, <1>3, AppendFacts

LEMMA NextOnlyConnects ==
  ASSUME TypeInv, Phases, OnlyConnects, [Next]_vars PROVE OnlyConnects'
<1>1. CASE Begin
  <2> SUFFICES ASSUME ~ServicesStopped', NEW s \in Services, NEW i \in DOMAIN queue'[s]
               PROVE  queue'[s][i].op = "connect"
    BY DEF OnlyConnects
  <2>1. ~ServicesStopped
    BY <1>1 DEF Begin, ServicesStopped, servers
  <2>2. CASE i \in DOMAIN queue[s]
    BY <1>1, <2>1, <2>2, BeginQueue DEF OnlyConnects
  <2>3. CASE i \notin DOMAIN queue[s]
    <3>1. i = Len(queue[s]) + 1 \/ i = Len(queue[s]) + 2
      BY <1>1, <2>3, BeginQueue
    <3> QED
      BY <1>1, <3>1, BeginQueue DEF Connect
  <2> QED
    BY <2>2, <2>3
<1>2. CASE Abort \/ Rejected \/ Listen \/ ReplListens \/ Signal \/ End \/ UNCHANGED vars
  <2>1. queue' = queue /\ (ServicesStopped => ServicesStopped')
    <3>1. CASE Signal
      BY <3>1 DEF Signal, locks, ServicesStopped, Phases
    <3>2. CASE Abort \/ Rejected \/ Listen \/ ReplListens \/ End \/ UNCHANGED vars
      BY <3>2 DEF Abort, Rejected, Listen, ReplListens, End, vars, locks, servers, ServicesStopped
    <3> QED
      BY <1>2, <3>1, <3>2
  <2> QED
    BY <2>1 DEF OnlyConnects
<1>3. CASE Drained \/ ReplCloses \/ StopReturns
  <2>1. ServicesStopped' \/ (queue' = queue /\ ~ServicesStopped)
    BY <1>3 DEF Drained, ReplCloses, StopReturns, StopServices, ServicesStopped, Phases
  <2> QED
    BY <2>1 DEF OnlyConnects
<1>4. ASSUME NEW s \in Services, Manager(s) PROVE OnlyConnects'
  <2> SUFFICES ASSUME ~ServicesStopped', NEW t \in Services, NEW c \in Waiting(t)'
               PROVE  c.op = "connect"
    BY DEF OnlyConnects, Waiting
  <2>1. c \in Waiting(t) /\ ~ServicesStopped
    BY <1>4, ManagerWaiting, ManagerQueue DEF ServicesStopped
  <2> QED
    BY <2>1 DEF OnlyConnects, Waiting
<1> QED
  BY <1>1, <1>2, <1>3, <1>4 DEF Next, Monitor, Stopping

LEMMA NextStarting ==
  ASSUME TypeInv, Phases, OnlyConnects, Starting, [Next]_vars PROVE Starting'
<1> SUFFICES ASSUME loop' = "onStart", attempt' \notin failed',
                    NEW s \in Services, NEW m \in Modes
             PROVE  <<s, m>> \in connected' \/ Connect(attempt', m) \in Waiting(s)'
  BY DEF Starting
<1>1. CASE Begin
  <2>1. \E i \in DOMAIN queue'[s] : queue'[s][i] = Connect(attempt', m)
    BY <1>1, BeginQueue DEF Modes
  <2> QED
    BY <2>1 DEF Waiting
<1>2. CASE /\ UNCHANGED <<loop, attempt, failed, connected>>
           /\ \A t \in Services : Waiting(t) \subseteq Waiting(t)'
  BY <1>2 DEF Starting
<1>3. CASE Abort \/ Rejected \/ Listen \/ ReplListens
  <2>1. Abort
    BY <1>3 DEF Rejected, Listen, ReplListens
  <2> QED
    BY <1>2, <2>1 DEF Abort, monitor, locks, Waiting
<1>4. CASE Stopping
  <2>1. loop = "onStart"
    BY <1>4 DEF Stopping, Drained, ReplCloses, StopReturns, End, monitor
  <2>2. StopReturns
    BY <1>4, <2>1 DEF Stopping, Drained, ReplCloses, End, Phases
  <2> QED
    BY <2>1, <2>2 DEF StopReturns, Phases
<1>5. CASE Signal \/ UNCHANGED vars
  BY <1>2, <1>5 DEF Signal, vars, monitor, locks, Waiting
<1>6. ASSUME NEW t \in Services, Manager(t)
      PROVE  <<s, m>> \in connected' \/ Connect(attempt', m) \in Waiting(s)'
  <2> DEFINE h == Head(queue[t])
  <2>1. loop = "onStart" /\ attempt' = attempt /\ server = "none" /\ stop = "none"
    BY <1>6, ManagerQueue DEF Phases
  <2>2. h \in Waiting(t)
    BY <1>6, ManagerQueue, TailFacts DEF Waiting
  <2>3. h.op = "connect"
    BY <2>1, <2>2 DEF OnlyConnects, ServicesStopped, Waiting
  <2>4. connected \subseteq connected' /\ failed \subseteq failed'
    BY <1>6, <2>3, ManagerEffect
  <2>5. CASE <<s, m>> \in connected \/ Connect(attempt, m) \in Waiting(s)'
    BY <2>1, <2>4, <2>5
  <2>6. CASE Connect(attempt, m) \in Waiting(s) /\ Connect(attempt, m) \notin Waiting(s)'
    <3>1. s = t /\ h = Connect(attempt, m) /\ queue' # queue
      BY <1>6, <2>6, ManagerWaiting
    <3>2. h.by = attempt /\ h.mode = m
      BY <3>1 DEF Connect
    <3> QED
      BY <1>6, <2>1, <2>3, <3>1, <3>2, ManagerEffect
  <2> QED
    BY <2>1, <2>4, <2>5, <2>6 DEF Starting
<1> QED
  BY <1>1, <1>3, <1>4, <1>5, <1>6 DEF Next, Monitor

LEMMA NextServing == ASSUME ConnectInv, [Next]_vars PROVE ServingIsConnected'
<1> USE DEF ConnectInv
<1> SUFFICES ASSUME Running', server' \in {"listening", "closing"}
             PROVE  connected' = Connections
  BY DEF ServingIsConnected
<1>1. CASE Listen
  <2>1. \A s \in Services, m \in Modes : <<s, m>> \in connected
    BY <1>1 DEF Listen, Starting, StillStarting, Connect
  <2> QED
    BY <1>1, <2>1 DEF Listen, locks, Connections, TypeInv, TypeOK
<1>2. CASE Begin \/ Abort \/ Rejected \/ ReplListens \/ Stopping \/ Signal \/ UNCHANGED vars
  <2>1. Running /\ server \in {"listening", "closing"} /\ connected' = connected
    BY <1>2 DEF Begin, Abort, Rejected, ReplListens, Stopping, Drained, ReplCloses, StopReturns,
                End, Signal, vars, locks, servers, Running, Phases
  <2> QED
    BY <2>1 DEF ServingIsConnected
<1>3. ASSUME NEW s \in Services, Manager(s) PROVE connected' = Connections
  <2>1. server \in {"listening", "closing"} /\ ~ServicesStopped
    BY <1>3, ManagerQueue DEF Phases, ServicesStopped
  <2>2. Head(queue[s]).op = "connect"
    BY <1>3, <2>1, ManagerQueue, TailFacts DEF OnlyConnects
  <2>3. connected \subseteq connected' /\ exit = "running"
    BY <1>3, <2>2, ManagerEffect
  <2>4. connected' \subseteq Connections
    BY <1>3, ManagerTypes DEF TypeInv, TypeOK
  <2> QED
    BY <2>1, <2>3, <2>4 DEF ServingIsConnected, Running
<1> QED
  BY <1>1, <1>2, <1>3 DEF Next, Monitor

LEMMA InitConnectInv == Init => ConnectInv
<1> SUFFICES ASSUME Init PROVE ConnectInv
  OBVIOUS
<1>1. TypeInv
  BY InitTypeInv
<1>2. OnlyConnects
  BY DEF Init, OnlyConnects
<1> QED
  BY <1>1, <1>2 DEF Init, ConnectInv, Phases, Starting, ServingIsConnected

LEMMA NextConnectInv == ASSUME ConnectInv, [Next]_vars PROVE ConnectInv'
  BY NextTypeInv, NextPhases, NextOnlyConnects, NextStarting, NextServing DEF ConnectInv

(***************************************************************************)
(* While requests are accepted or answered, every connection of every      *)
(* service is there: the attempts that were given up do no harm.           *)
(***************************************************************************)
THEOREM ServicesConnected == Spec => []ServingIsConnected
<1>1. Init => ConnectInv
  BY InitConnectInv
<1>2. ConnectInv /\ [Next]_vars => ConnectInv'
  BY NextConnectInv
<1>3. ConnectInv => ServingIsConnected
  BY DEF ConnectInv
<1> QED
  BY <1>1, <1>2, <1>3, PTL DEF Spec

(***************************************************************************)
(* A process that ends has disconnected.                                   *)
(***************************************************************************)
LEMMA StopClosing == ASSUME TypeInv, StopServices PROVE Closing'
<1> SUFFICES ASSUME NEW s \in Services, NEW m \in Modes
             PROVE  /\ Disconnect(m) \in Waiting(s)'
                    /\ \A i \in DOMAIN queue'[s] :
                         queue'[s][i].op = "connect" =>
                           \E j \in DOMAIN queue'[s] : i < j /\ queue'[s][j] = Disconnect(m)
  BY DEF Closing
<1> DEFINE n == Len(queue[s])
<1>1. /\ Disconnect("ro") \in Client /\ Disconnect("rw") \in Client
      /\ queue[s] \in Seq(Client)
      /\ queue'[s] = queue[s] \o <<Disconnect("ro"), Disconnect("rw")>>
  BY DEF Disconnect, Client, Modes, StopServices, TypeInv, TypeOK
<1>2. /\ n \in Nat /\ DOMAIN queue'[s] = 1 .. n + 2
      /\ queue'[s][n + 1] = Disconnect("ro") /\ queue'[s][n + 2] = Disconnect("rw")
  BY <1>1, AppendFacts
<1>3. PICK j \in {n + 1, n + 2} : queue'[s][j] = Disconnect(m)
  BY <1>2 DEF Modes
<1>4. j \in DOMAIN queue'[s]
  BY <1>2, <1>3
<1>5. ASSUME NEW i \in DOMAIN queue'[s], queue'[s][i].op = "connect" PROVE i < j
  <2>1. i # n + 1 /\ i # n + 2
    BY <1>2, <1>5 DEF Disconnect
  <2> QED
    BY <1>2, <1>3, <2>1
<1> QED
  BY <1>3, <1>4, <1>5 DEF Waiting

(* The manager of s leaves the queues of the others as they are.           *)
LEMMA ManagerClosing == ASSUME TypeInv, Closing, NEW s \in Services, Manager(s) PROVE Closing'
<1> SUFFICES ASSUME exit' \in {"running", "ended"}, ServicesStopped',
                    NEW t \in Services, NEW m \in Modes
             PROVE  /\ <<t, m>> \in connected' => Disconnect(m) \in Waiting(t)'
                    /\ \A i \in DOMAIN queue'[t] :
                         queue'[t][i].op = "connect" /\ queue'[t][i].mode = m =>
                           \E j \in DOMAIN queue'[t] : i < j /\ queue'[t][j] = Disconnect(m)
  BY DEF Closing
<1> DEFINE q == queue[s]
           h == Head(queue[s])
<1>1. exit = "running" /\ ServicesStopped
  BY ManagerEffect, ManagerQueue DEF ServicesStopped
<1>2. CASE queue'[t] = queue[t] /\ (<<t, m>> \in connected' => <<t, m>> \in connected)
  BY <1>1, <1>2 DEF Closing, Waiting
<1>3. CASE t # s
  <2>1. queue'[t] = queue[t]
    BY <1>3, ManagerQueue DEF TypeInv, TypeOK
  <2>2. <<t, m>> \in connected' => <<t, m>> \in connected
    BY <1>3, ManagerEffect
  <2> QED
    BY <1>2, <2>1, <2>2
<1>4. CASE queue' = queue
  BY <1>2, <1>4, ManagerEffect, ManagerQueue, TailFacts
<1>5. CASE queue' = [queue EXCEPT ![s] = Tail(@)] /\ t = s /\ queue' # queue
  <2>0. /\ <<s, m>> \in connected => \E j \in DOMAIN q : q[j] = Disconnect(m)
        /\ \A i \in DOMAIN q :
             q[i].op = "connect" /\ q[i].mode = m =>
               \E j \in DOMAIN q : i < j /\ q[j] = Disconnect(m)
    BY <1>1 DEF Closing, Waiting
  <2>1. /\ DOMAIN q = 1 .. Len(q) /\ Len(q) \in Nat /\ Len(q) > 0
        /\ DOMAIN Tail(q) = 1 .. Len(q) - 1 /\ h = q[1]
        /\ \A i \in DOMAIN Tail(q) : Tail(q)[i] = q[i + 1]
    BY ManagerQueue, TailFacts
  <2>2. queue'[s] = Tail(q)
    BY <1>5 DEF TypeInv, TypeOK
  <2>3. \A j \in DOMAIN q : j # 1 => j - 1 \in DOMAIN Tail(q) /\ Tail(q)[j - 1] = q[j]
    <3> SUFFICES ASSUME NEW j \in DOMAIN q, j # 1
                 PROVE  j - 1 \in DOMAIN Tail(q) /\ Tail(q)[j - 1] = q[j]
      OBVIOUS
    <3>1. j - 1 \in DOMAIN Tail(q) /\ (j - 1) + 1 = j
      BY <2>1
    <3> QED
      BY <2>1, <3>1
  <2>4. ASSUME NEW i \in DOMAIN queue'[t], queue'[t][i].op = "connect", queue'[t][i].mode = m
        PROVE  \E j \in DOMAIN queue'[t] : i < j /\ queue'[t][j] = Disconnect(m)
    <3>0. i \in DOMAIN Tail(q) /\ Tail(q)[i] = queue'[t][i]
      BY <1>5, <2>2
    <3>1. i + 1 \in DOMAIN q /\ q[i + 1] = queue'[t][i]
      BY <2>1, <3>0
    <3>2. PICK j \in DOMAIN q : i + 1 < j /\ q[j] = Disconnect(m)
      BY <2>0, <2>4, <3>1
    <3>3. j # 1 /\ i < j - 1
      BY <1>5, <2>1, <2>2, <3>1, <3>2
    <3> QED
      BY <1>5, <2>2, <2>3, <3>2, <3>3
  <2>5. ASSUME <<t, m>> \in connected' PROVE Disconnect(m) \in Waiting(t)'
    <3>1. PICK j \in DOMAIN q : j # 1 /\ q[j] = Disconnect(m)
      <4>1. CASE h.op = "connect" /\ h.mode = m
        <5>1. 1 \in DOMAIN q /\ q[1] = h
          BY <2>1
        <5> QED
          BY <2>0, <2>1, <4>1, <5>1
      <4>2. CASE ~ (h.op = "connect" /\ h.mode = m)
        <5>1. <<t, m>> \in connected /\ ~ (h.op = "disconnect" /\ h.mode = m)
          <6>1. exit' # "crashed" /\ queue' # queue /\ t = s
            BY <1>5
          <6> QED
            BY <2>5, <4>2, <6>1, ManagerEffect
        <5>2. PICK j \in DOMAIN q : q[j] = Disconnect(m)
          BY <1>5, <2>0, <5>1
        <5>3. j # 1
          BY <2>1, <5>1, <5>2 DEF Disconnect
        <5> QED
          BY <5>2, <5>3
      <4> QED
        BY <4>1, <4>2
    <3> QED
      BY <1>5, <2>2, <2>3, <3>1 DEF Waiting
  <2> QED
    BY <2>4, <2>5
<1> QED
  BY <1>3, <1>4, <1>5, ManagerQueue

LEMMA NextClosing == ASSUME TypeInv, Phases, Closing, [Next]_vars PROVE Closing'
<1>1. CASE ~ServicesStopped'
  BY <1>1 DEF Closing
<1>2. CASE StopServices
  BY <1>2, StopClosing
<1>3. CASE /\ ServicesStopped' => ServicesStopped
           /\ exit' \in {"running", "ended"} => exit \in {"running", "ended"}
           /\ UNCHANGED <<queue, connected>>
  BY <1>3 DEF Closing, Waiting
<1>4. CASE Begin
  <2>1. stop' = "none"
    BY <1>4 DEF Begin, Phases, servers
  <2> QED
    BY <1>1, <2>1 DEF ServicesStopped
<1>5. CASE Abort \/ Rejected \/ Listen \/ ReplListens
  BY <1>3, <1>5 DEF Abort, Rejected, Listen, ReplListens, Running, locks, servers, ServicesStopped
<1>6. CASE Drained
  <2>1. StopServices \/ stop' \in {"none", "draining", "repl"}
    BY <1>6 DEF Drained, Phases
  <2> QED
    BY <1>1, <1>2, <2>1 DEF ServicesStopped
<1>7. CASE ReplCloses
  BY <1>2, <1>7 DEF ReplCloses
<1>8. CASE StopReturns \/ End
  BY <1>3, <1>8 DEF StopReturns, End, Running, locks, servers, ServicesStopped
<1>9. CASE Signal
  BY <1>3, <1>9 DEF Signal, locks, ServicesStopped
<1>10. ASSUME NEW s \in Services, Manager(s) PROVE Closing'
  BY <1>10, ManagerClosing
<1>11. CASE UNCHANGED vars
  BY <1>3, <1>11 DEF vars, locks, servers, ServicesStopped
<1> QED
  BY <1>4, <1>5, <1>6, <1>7, <1>8, <1>9, <1>10, <1>11 DEF Next, Monitor, Stopping

LEMMA NextEnded == ASSUME Ended, [Next]_vars PROVE Ended'
<1>1. CASE UNCHANGED vars
  BY <1>1 DEF Ended, vars, locks, servers
<1>2. CASE Next
  <2>1. exit = "running"
    BY <1>2 DEF Next, Monitor, Begin, Abort, Rejected, Listen, ReplListens, Stopping, Drained,
                ReplCloses, StopReturns, End, Signal, Manager, Acquire, Done, Fail, Running
  <2>2. exit' = "ended" => End
    BY <1>2, <2>1 DEF Next, Monitor, Begin, Abort, Rejected, Listen, ReplListens, Stopping,
                Drained, ReplCloses, StopReturns, Signal, Manager, Acquire, Done, Fail, monitor
  <2> QED
    BY <2>2 DEF Ended, End, locks, servers
<1> QED
  BY <1>1, <1>2

(***************************************************************************)
(* A process that ends by itself leaves no connection behind, however its  *)
(* attempts, its signals and its failures interleaved.                     *)
(***************************************************************************)
THEOREM EndsClean == Spec => []CleanEnd
<1>1. Init => IInv
  BY InitConnectInv DEF IInv, Init, Closing, ServicesStopped, Ended
<1>2. IInv /\ [Next]_vars => IInv'
  BY NextConnectInv, NextClosing, NextEnded DEF IInv, ConnectInv
<1>3. IInv => CleanEnd
  <2> SUFFICES ASSUME IInv, exit = "ended", NEW c \in connected PROVE FALSE
    BY DEF CleanEnd
  <2>1. PICK s \in Services, m \in Modes : c = <<s, m>>
    BY DEF IInv, ConnectInv, TypeInv, TypeOK, Connections
  <2>2. Waiting(s) # {} /\ queue[s] = << >>
    BY <2>1 DEF IInv, Closing, Ended, ServicesStopped
  <2> QED
    BY <2>2 DEF Waiting
<1> QED
  BY <1>1, <1>2, <1>3, PTL DEF Spec
=============================================================================
