----------------------------- MODULE ClientConn -----------------------------
(***************************************************************************)
(* The client's connection: Connect, Close, reconnect, tryClose and recv   *)
(* of client/client.go over the transports of client/conn.go, with the     *)
(* retry counter of client/retrier.go.                                     *)
(*                                                                         *)
(* Attempts run reconnect: the application's Connect, and the timers that  *)
(* tryClose sets.  A recv goroutine is started each time the status        *)
(* becomes Opened and reads whatever socket the connection holds when it   *)
(* comes to read.  Goroutines that saw a failure (recv, a queued write, a  *)
(* ping that timed out, a CLOSE packet) are on their way into tryClose     *)
(* until they get statusLock.  Sockets are numbered in the order they are  *)
(* dialled; 0 is the nil socket, and reading or writing it ends the        *)
(* process: a nil dereference.                                             *)
(***************************************************************************)
EXTENDS Naturals, FiniteSets

CONSTANTS
  App,        \* the application's goroutine
  Timer,      \* bound: the retry timers pending or running at once
  Transports, \* the networks of the clients looked at
  Limit,      \* the retrier's limit
  MaxDials,   \* bound: sockets ever dialled
  MaxLate     \* bound: pings, writes and CLOSE packets on their way into tryClose

ASSUME ClientAssumption ==
  /\ Transports \subseteq {"tcp", "tls", "udp", "ws", "wss", "quic"}
  /\ App \notin Timer /\ Limit \in Nat /\ MaxDials \in Nat /\ MaxLate \in Nat

Attempt == Timer \cup {App}
Socket  == 1..MaxDials

\* Close looks if there is a socket, and forgets it.
Guarded == {"tcp", "tls"}

\* Dail closes and forgets the socket at hand before it dials.
Redials == {"tcp", "tls", "udp", "ws", "wss"}

VARIABLES
  transport,  \* the client's network
  status, retrying, closed,
  count,      \* the retrier's counter
  keepalive,  \* is the heartbeat started
  sock,       \* the connection's socket
  dialled,    \* how many sockets were dialled
  alive,      \* sockets open at both ends
  acks,       \* socket -> its CONNACK: no, sent or read
  attempt,    \* attempt -> off, timer, start, dial, dialling, shake, await,
              \* failed, giveup
  await,      \* attempt -> the socket it reads its CONNACK from
  readers,    \* recv goroutine -> off, loop or read
  reading,    \* recv goroutine -> the socket it is reading
  late,       \* goroutines on their way into tryClose
  redialled,  \* auxiliary: Dail forgot a socket
  panicked    \* no, or what used the nil socket: read, write or close

vars == <<status, retrying, closed, count, keepalive, sock, dialled, alive, acks,
          attempt, await, readers, reading, late, transport, redialled, panicked>>

net == <<sock, dialled, alive, acks>>
over == <<transport, redialled, panicked>>

Init ==
  /\ transport \in Transports /\ redialled = FALSE /\ panicked = "no"
  /\ status = "Unknown" /\ retrying = FALSE /\ closed = FALSE
  /\ count = 0 /\ keepalive = FALSE
  /\ sock = 0 /\ dialled = 0 /\ alive = {}
  /\ acks = [s \in Socket |-> "no"]
  /\ attempt = [a \in Attempt |-> "off"] /\ await = [a \in Attempt |-> 0]
  /\ readers = [n \in Socket |-> "off"] /\ reading = [n \in Socket |-> 0]
  /\ late = 0

-----------------------------------------------------------------------------
(***************************************************************************)
(* Faulty variants, named for the mistake, precede the operation they      *)
(* vary; no definition uses them.                                          *)
(***************************************************************************)

\* The connection's Close: what is left of the socket, and if it is nil and
\* closed all the same.
AfterClose == IF transport \in Guarded THEN 0 ELSE sock
NilClose == sock = 0 /\ transport \notin Guarded

\* Fault: the reader is started when the client begins to open.
SetStatusEarly(s) ==
  /\ status' = s
  /\ IF s = status
       THEN UNCHANGED <<keepalive, readers, sock, alive>>
       ELSE /\ keepalive' = (s = "Opened")
            /\ readers' = IF s # "Opening" \/ "loop" \in {readers[n] : n \in Socket} THEN readers
                 ELSE [readers EXCEPT ![1] = "loop"]
            /\ UNCHANGED <<sock, alive>>

\* _setStatus: what becomes of the heartbeat, the socket and the readers.
\* (Becoming Opened when it is Opened changes nothing.)
SetStatus(s) ==
  /\ status' = s
  /\ IF s = status
       THEN UNCHANGED <<keepalive, readers, sock, alive>>
       ELSE /\ keepalive' = (s = "Opened")
            /\ readers' = IF s # "Opened" THEN readers
                 ELSE LET n == CHOOSE n \in Socket : readers[n] = "off"
                      IN  [readers EXCEPT ![n] = "loop"]
            /\ s = "Closed" => ~NilClose
            /\ sock'  = IF s = "Closed" THEN AfterClose ELSE sock
            /\ alive' = IF s = "Closed" THEN alive \ {sock} ELSE alive

\* Retry counts a retry, below the limit.  (Its filter may refuse any error.)
Retry == count < Limit /\ count' = count + 1

\* tryClose, where a is what the caller makes of the attempts.  Retry refuses
\* or a timer is set.
tryClose(a) ==
  \/ /\ retrying \/ status = "Closed"
     /\ attempt' = a
     /\ UNCHANGED <<status, retrying, count, keepalive, sock, alive, readers>>
  \/ /\ ~retrying /\ status # "Closed"
     /\ \/ SetStatus("Closed") /\ attempt' = a /\ UNCHANGED <<retrying, count>>
        \/ /\ Retry
           /\ retrying' = TRUE
           /\ SetStatus("Opening")
           /\ \E t \in Timer : a[t] = "off" /\ attempt' = [a EXCEPT ![t] = "timer"]

-----------------------------------------------------------------------------
\* Connect looks at the status; having looked, it sets it and goes on.  The
\* application does not call it again once it has called Close.
Connect ==
  /\ attempt[App] = "off" /\ ~closed /\ panicked = "no"
  /\ status \notin {"Opened", "Opening"}
  /\ attempt' = [attempt EXCEPT ![App] = "start"]
  /\ UNCHANGED <<status, retrying, closed, count, keepalive, net, await, readers, late, reading, over>>

ConnectStart ==
  /\ attempt[App] = "start"
  /\ SetStatus("Opening")
  /\ attempt' = [attempt EXCEPT ![App] = "dial"]
  /\ UNCHANGED <<retrying, closed, count, dialled, acks, await, late, reading, over>>

\* A timer fires; unless the status is Opening it does nothing.
Fire(t) ==
  /\ attempt[t] = "timer"
  /\ attempt' = [attempt EXCEPT ![t] = IF status = "Opening" THEN "dial" ELSE "off"]
  /\ UNCHANGED <<status, retrying, closed, count, keepalive, net, await, readers, late, reading, over>>

\* Dail closes the socket at hand, except over QUIC,
Dail(a) ==
  /\ attempt[a] = "dial"
  /\ attempt' = [attempt EXCEPT ![a] = "dialling"]
  /\ IF transport \in Redials
       THEN sock' = 0 /\ alive' = alive \ {sock} /\ redialled' = (redialled \/ sock # 0)
       ELSE UNCHANGED <<sock, alive, redialled>>
  /\ UNCHANGED <<status, retrying, closed, count, keepalive, dialled, acks, await, readers,
                 late, reading, transport, panicked>>

\* and dials another.
Dialled(a) ==
  /\ attempt[a] = "dialling"
  /\ \/ /\ dialled < MaxDials
        /\ dialled' = dialled + 1 /\ sock' = dialled + 1
        /\ alive' = alive \cup {dialled + 1}
        /\ attempt' = [attempt EXCEPT ![a] = "shake"]
     \/ /\ attempt' = [attempt EXCEPT ![a] = "failed"]
        /\ UNCHANGED <<dialled, sock, alive>>
  /\ UNCHANGED <<status, retrying, closed, count, keepalive, acks, await, readers, late,
                 reading, over>>

\* CONNECT is written to the socket at hand; its CONNACK is awaited on it.
Shake(a) ==
  /\ attempt[a] = "shake" /\ sock # 0
  /\ attempt' = [attempt EXCEPT ![a] = IF sock \in alive THEN "await" ELSE "failed"]
  /\ await' = [await EXCEPT ![a] = IF sock \in alive THEN sock ELSE 0]
  /\ UNCHANGED <<status, retrying, closed, count, keepalive, net, readers, late, reading, over>>

\* The server accepts.
Accept(s) ==
  /\ \E a \in Attempt : attempt[a] = "await" /\ await[a] = s
  /\ s \in alive /\ acks[s] = "no"
  /\ acks' = [acks EXCEPT ![s] = "sent"]
  /\ UNCHANGED <<status, retrying, closed, count, keepalive, sock, dialled, alive,
                 attempt, await, readers, late, reading, over>>

\* The server refuses, and closes; or the socket fails.
Refuse(a) ==
  /\ attempt[a] = "await"
  /\ await[a] \in alive => acks[await[a]] = "no"
  /\ attempt' = [attempt EXCEPT ![a] = "failed"]
  /\ await' = [await EXCEPT ![a] = 0]
  /\ alive' = alive \ {await[a]}
  /\ UNCHANGED <<status, retrying, closed, count, keepalive, sock, dialled, acks,
                 readers, late, reading, over>>

\* The CONNACK is read and the status becomes Opened.
Open(a) ==
  /\ attempt[a] = "await" /\ acks[await[a]] = "sent"
  /\ SetStatus("Opened")
  /\ attempt' = [attempt EXCEPT ![a] = "off"]
  /\ await' = [await EXCEPT ![a] = 0]
  /\ acks' = [acks EXCEPT ![await[a]] = "read"]
  /\ UNCHANGED <<retrying, closed, count, dialled, late, reading, over>>

\* A recv goroutine has taken the CONNACK, and the attempt reads another packet.
Confuse(a) ==
  /\ attempt[a] = "await" /\ acks[await[a]] = "read" /\ await[a] \in alive
  /\ attempt' = [attempt EXCEPT ![a] = "failed"]
  /\ await' = [await EXCEPT ![a] = 0]
  /\ UNCHANGED <<status, retrying, closed, count, keepalive, net, readers, late, reading, over>>

\* Fault: the flag stays up when the attempt fails.
FailRetrying(a) ==
  /\ attempt[a] = "failed"
  /\ attempt' = [attempt EXCEPT ![a] = "giveup"]
  /\ count' = IF a = App THEN 0 ELSE count
  /\ UNCHANGED <<status, retrying, closed, keepalive, net, await, readers, late, reading, over>>

\* The attempt failed: its caller clears the flag and, in Connect, the counter.
Fail(a) ==
  /\ attempt[a] = "failed"
  /\ attempt' = [attempt EXCEPT ![a] = "giveup"]
  /\ retrying' = FALSE
  /\ count' = IF a = App THEN 0 ELSE count
  /\ UNCHANGED <<status, closed, keepalive, net, await, readers, late, reading, over>>

GiveUp(a) ==
  /\ attempt[a] = "giveup"
  /\ tryClose([attempt EXCEPT ![a] = "off"])
  /\ UNCHANGED <<closed, dialled, acks, await, late, reading, over>>

-----------------------------------------------------------------------------
\* The socket a recv goroutine reads, or is about to.
Source(n) == IF readers[n] = "loop" THEN sock ELSE reading[n]

\* Fault: recv ends without tryClose.
ReadEnds(n) ==
  /\ readers[n] # "off" /\ Source(n) # 0 /\ Source(n) \notin alive
  /\ readers' = [readers EXCEPT ![n] = "off"]
  /\ reading' = [reading EXCEPT ![n] = 0]
  /\ UNCHANGED <<status, retrying, closed, count, keepalive, net, attempt, await, late, over>>

\* ReadPacket fails, and recv ends with tryClose.
ReadFails(n) ==
  /\ readers[n] # "off" /\ Source(n) # 0 /\ Source(n) \notin alive
  /\ readers' = [readers EXCEPT ![n] = "off"]
  /\ reading' = [reading EXCEPT ![n] = 0]
  /\ late' = late + 1
  /\ UNCHANGED <<status, retrying, closed, count, keepalive, net, attempt, await, over>>

\* recv comes to read the socket at hand.
Read(n) ==
  /\ readers[n] = "loop" /\ sock \in alive
  /\ readers' = [readers EXCEPT ![n] = "read"]
  /\ reading' = [reading EXCEPT ![n] = sock]
  /\ UNCHANGED <<status, retrying, closed, count, keepalive, net, attempt, await, late, over>>

\* A packet is read: the CONNACK if it is there, else any other.  A CLOSE
\* packet's handler calls tryClose.
Recv(n) ==
  /\ readers[n] = "read" /\ reading[n] \in alive /\ acks[reading[n]] # "no"
  /\ readers' = [readers EXCEPT ![n] = "loop"]
  /\ reading' = [reading EXCEPT ![n] = 0]
  /\ acks' = [acks EXCEPT ![reading[n]] = "read"]
  /\ \/ UNCHANGED late
     \/ acks[reading[n]] = "read" /\ late < MaxLate /\ late' = late + 1
  /\ UNCHANGED <<status, retrying, closed, count, keepalive, sock, dialled, alive, attempt, await, over>>

\* A ping was sent and its time is over.
PingTimeout ==
  /\ keepalive /\ status = "Opened" /\ late < MaxLate
  /\ late' = late + 1
  /\ UNCHANGED <<status, retrying, closed, count, keepalive, net, attempt, await, readers, reading, over>>

\* A packet of the send queue is not written.
WriteFails ==
  /\ ~closed /\ status = "Opened" /\ sock # 0 /\ sock \notin alive /\ late < MaxLate
  /\ late' = late + 1
  /\ UNCHANGED <<status, retrying, closed, count, keepalive, net, attempt, await, readers, reading, over>>

\* A goroutine that saw a failure calls tryClose.
Notice ==
  /\ late > 0 /\ late' = late - 1
  /\ tryClose(attempt)
  /\ UNCHANGED <<closed, dialled, acks, await, reading, over>>

\* The network, or the server, ends a connection.
Lose(s) ==
  /\ s \in alive
  /\ alive' = alive \ {s}
  /\ UNCHANGED <<status, retrying, closed, count, keepalive, sock, dialled, acks,
                 attempt, await, readers, late, reading, over>>

Close ==
  /\ ~closed /\ ~NilClose /\ panicked = "no"
  /\ closed' = TRUE /\ keepalive' = FALSE
  /\ sock' = AfterClose /\ alive' = alive \ {sock}
  /\ UNCHANGED <<status, retrying, count, dialled, acks, attempt, await, readers, late, reading, over>>

-----------------------------------------------------------------------------
(* The nil socket is used, and the process ends.                           *)

Panic(cause) ==
  /\ panicked' = cause
  /\ status' = "Closed" /\ retrying' = FALSE /\ keepalive' = FALSE /\ count' = 0
  /\ sock' = 0 /\ alive' = {} /\ acks' = [s \in Socket |-> "no"]
  /\ attempt' = [a \in Attempt |-> "off"] /\ await' = [a \in Attempt |-> 0]
  /\ readers' = [n \in Socket |-> "off"] /\ reading' = [n \in Socket |-> 0]
  /\ late' = 0
  /\ UNCHANGED <<closed, dialled, transport, redialled>>

ReadNil(n) == readers[n] = "loop" /\ sock = 0 /\ Panic("read")

ShakeNil(a) == attempt[a] = "shake" /\ sock = 0 /\ Panic("write")

WriteNil == ~closed /\ status = "Opened" /\ sock = 0 /\ Panic("write")

\* tryClose is about to set the status to Closed, whose Close finds no socket.
GiveUpNil(a) ==
  /\ attempt[a] = "giveup" /\ ~retrying /\ status # "Closed" /\ NilClose
  /\ Panic("close")

NoticeNil == late > 0 /\ ~retrying /\ status # "Closed" /\ NilClose /\ Panic("close")

CloseNil == panicked = "no" /\ ~closed /\ NilClose /\ Panic("close")

-----------------------------------------------------------------------------
Run(a) ==
  \/ Dail(a) \/ Dialled(a) \/ Shake(a) \/ Refuse(a) \/ Open(a) \/ Fail(a) \/ GiveUp(a)
  \/ ShakeNil(a) \/ GiveUpNil(a)
Loop(n) == ReadFails(n) \/ Read(n) \/ ReadNil(n)

Next ==
  \/ Connect \/ ConnectStart \/ Close \/ PingTimeout \/ WriteFails \/ Notice
  \/ WriteNil \/ NoticeNil \/ CloseNil
  \/ \E a \in Attempt : Run(a) \/ Confuse(a)
  \/ \E t \in Timer : Fire(t)
  \/ \E n \in Socket : Loop(n) \/ Recv(n)
  \/ \E s \in Socket : Accept(s) \/ Lose(s)

\* Goroutines that can go on do, timers fire, a dial ends one way or the
\* other and the server answers a CONNECT.
Spec ==
  /\ Init /\ [][Next]_vars
  /\ WF_vars(ConnectStart) /\ WF_vars(Notice \/ NoticeNil)
  /\ \A a \in Attempt : WF_vars(Run(a))
  /\ \A t \in Timer : WF_vars(Fire(t))
  /\ \A n \in Socket : WF_vars(Loop(n))

-----------------------------------------------------------------------------
\* The type invariant.  The retries counted stay within the retrier's limit.
TypeOK ==
  /\ status \in {"Unknown", "Opening", "Opened", "Closed"}
  /\ retrying \in BOOLEAN /\ closed \in BOOLEAN /\ keepalive \in BOOLEAN
  /\ count \in 0..Limit
  /\ dialled \in 0..MaxDials /\ sock \in 0..dialled /\ alive \subseteq 1..dialled
  /\ acks \in [Socket -> {"no", "sent", "read"}]
  /\ attempt \in [Attempt -> {"off", "timer", "start", "dial", "dialling", "shake",
                              "await", "failed", "giveup"}]
  /\ await \in [Attempt -> 0..MaxDials]
  /\ readers \in [Socket -> {"off", "loop", "read"}] /\ reading \in [Socket -> 0..MaxDials]
  /\ late \in 0..(MaxLate + MaxDials)

\* Opening ends (tryClose, reconnect): a client that is opening becomes Opened
\* or, its retries spent, Closed, unless a recv goroutine of an earlier socket
\* took the CONNACK an attempt waits for.
Settles ==
  status = "Opening" ~>
    \/ status # "Opening"
    \/ \E a \in Attempt : attempt[a] = "await" /\ acks[await[a]] = "read"

\* The first loss is noticed (recv, tryClose): an Opened client whose socket
\* is gone and that has not retried yet leaves Opened.
FirstLossNoticed ==
  status = "Opened" /\ ~retrying /\ sock \notin alive ~> status # "Opened" \/ sock \in alive

\* What a nil socket takes (Dail, Close, recv, _setStatus): over UDP and
\* WebSocket a client reads or writes it only if it dialled again, and closes
\* it only then or if no dial ever succeeded; over TCP and TLS, which forget a
\* socket they close, it never closes it; over QUIC, which does not close the
\* socket when it dials again, it does nothing else to it.  (With the type
\* invariant, which has the retrier's limit.)
PanicNeedsNil ==
  /\ TypeOK
  /\ panicked = "close" => transport \notin Guarded /\ (dialled = 0 \/ redialled)
  /\ panicked \in {"read", "write"} => transport # "quic" /\ (transport \in Guarded \/ redialled)

=============================================================================
