----------------------------- MODULE Heartbeat -----------------------------
(***************************************************************************)
(* The heartbeat of a connection: KeepAlive (internal/keepalive), the ping *)
(* that waits for its pong (SendPing and recvPong of                       *)
(* internal/network/conn.go, which client/client.go repeats) and what a    *)
(* ping without a pong leads to.                                           *)
(*                                                                         *)
(* KeepAlive has two users.  The client starts it when its status becomes  *)
(* Opened and stops it when the status is left, so that it is restarted by *)
(* every reconnection.  The server's pinger, for a UDP connection, starts  *)
(* it once and never stops it.  A chain is one "go k.run()" with the       *)
(* timers that follow from it: Stop does not end a chain, the chain ends   *)
(* when its timer finds the flag set.                                      *)
(*                                                                         *)
(* A PONG is handled in a goroutine of its own, which sends on the ping's  *)
(* unbuffered channel and holds pingLock until the send is received.       *)
(* Sections under the lock that cannot block are one step here.            *)
(***************************************************************************)
EXTENDS Naturals

CONSTANTS
  MaxStarts,  \* bound: chains ever started
  MaxWire,    \* bound: pings in the queue, and on the wire
  MaxHeard    \* bound: packets other than pings and pongs, sent or received

ASSUME HeartbeatAssumption ==
  MaxStarts \in Nat \ {0} /\ MaxWire \in Nat \ {0} /\ MaxHeard \in Nat

Chain == 1..MaxStarts

\* Channels, numbered as needed: a chain waits on one and the field holds one.
Channel == 1..(2 * MaxStarts + 2)

VARIABLES
  user,      \* who uses the KeepAlive: the client or the server's pinger
  open,      \* the client's status is Opened; the connection is not closed
  retrying,  \* the client's flag
  shut,      \* the client's Close was called
  silent,    \* the other end is gone: nothing comes back any more
  stoped, recent,  \* KeepAlive: the flag; lastPacketTime is within the interval
  started,   \* chains started
  chain,     \* chain -> timer, run, register, send, select, wait, leave, close, end
  waits,     \* chain -> the channel its select reads, 0: nil
  late,      \* chains whose ping timed out
  pingChan,  \* the channel in the field, 0: nil
  closedChans,    \* channels that are closed
  queued, wire, pongs,  \* pings in the queue, at the other end, pongs received
  sending,   \* the channel the holder of pingLock sends on, 0: it is free
  panicked,
  heard

peer  == <<silent, wire>>
alive == <<user, open, retrying, shut>>
timer == <<stoped, recent, started>>
heartbeatVars  == <<alive, peer, timer, chain, waits, late, pingChan, closedChans, queued, pongs,
           sending, panicked, heard>>

\* newPinger is started when OnConnect has accepted, the client's KeepAlive
\* when the first Connect succeeds.
HeartbeatInit ==
  /\ user \in {"client", "pinger"}
  /\ open = TRUE /\ retrying \in IF user = "client" THEN BOOLEAN ELSE {FALSE}
  /\ shut = FALSE /\ silent = FALSE
  /\ stoped = FALSE /\ recent = TRUE /\ started = 1
  /\ chain = [c \in Chain |-> IF c = 1 THEN "run" ELSE "off"]
  /\ waits = [c \in Chain |-> 0] /\ late = {}
  /\ pingChan = 0 /\ closedChans = {}
  /\ queued = 0 /\ wire = 0 /\ pongs = 0
  /\ sending = 0 /\ panicked = FALSE /\ heard = 0

Goto(c, at) == chain' = [chain EXCEPT ![c] = at]

\* The channels some goroutine may still use.
Used == {pingChan, sending} \cup {waits[c] : c \in Chain}

-----------------------------------------------------------------------------
\* The timer of a chain fires.
Fire(c) ==
  /\ chain[c] = "timer"
  /\ Goto(c, "run")
  /\ UNCHANGED <<alive, peer, timer, waits, late, pingChan, closedChans, queued, pongs,
                 sending, panicked, heard>>

\* run ends the chain if the flag is set; sendPing returns if a packet passed
\* within the interval; the pinger's SendPing if the connection is not ready.
run(c) ==
  /\ chain[c] = "run"
  /\ Goto(c, IF stoped THEN "end" ELSE IF recent \/ ~open THEN "timer" ELSE "register")
  /\ UNCHANGED <<alive, peer, timer, waits, late, pingChan, closedChans, queued, pongs,
                 sending, panicked, heard>>

\* SendPing makes the channel.
PingRegister(c) ==
  /\ chain[c] = "register" /\ sending = 0
  /\ pingChan' = CHOOSE ch \in Channel \ Used : TRUE
  /\ closedChans' = closedChans \ {pingChan'}
  /\ Goto(c, "send")
  /\ UNCHANGED <<alive, peer, timer, waits, late, queued, pongs, sending, panicked, heard>>

\* The ping gets into the queue; or the queue is closed; or it is full until
\* the time is over.
PingSend(c) ==
  /\ chain[c] = "send"
  /\ \/ /\ open /\ ~shut /\ queued < MaxWire
        /\ queued' = queued + 1 /\ Goto(c, "select") /\ UNCHANGED late
     \/ (~open \/ shut) /\ Goto(c, "leave") /\ UNCHANGED <<queued, late>>
     \/ late' = late \cup {c} /\ Goto(c, "leave") /\ UNCHANGED queued
  /\ UNCHANGED <<alive, peer, timer, waits, pingChan, closedChans, pongs, sending, panicked, heard>>

\* The select evaluates the field, without the lock.
Select(c) ==
  /\ chain[c] = "select"
  /\ waits' = [waits EXCEPT ![c] = pingChan]
  /\ Goto(c, "wait")
  /\ UNCHANGED <<alive, peer, timer, late, pingChan, closedChans, queued, pongs, sending,
                 panicked, heard>>

\* Fault: the call goes on as if it waited.
PongWaits(c) ==
  /\ chain[c] = "wait" /\ sending = waits[c] /\ sending # 0
  /\ sending' = 0
  /\ Goto(c, "leave")
  /\ UNCHANGED <<alive, peer, timer, waits, late, pingChan, closedChans, queued, pongs, panicked, heard>>

\* A pong is received, or the channel has been closed.
Pong(c) ==
  /\ chain[c] = "wait" /\ waits[c] # 0
  /\ \/ sending = waits[c] /\ sending' = 0
     \/ waits[c] \in closedChans /\ UNCHANGED sending
  /\ waits' = [waits EXCEPT ![c] = 0]
  /\ Goto(c, "leave")
  /\ UNCHANGED <<alive, peer, timer, late, pingChan, closedChans, queued, pongs, panicked, heard>>

\* Fault: the context has no deadline, it ends with the connection.
TimeoutClosed(c) ==
  /\ chain[c] = "wait" /\ ~open
  /\ late' = late \cup {c}
  /\ waits' = [waits EXCEPT ![c] = 0]
  /\ Goto(c, "leave")
  /\ UNCHANGED <<alive, peer, timer, pingChan, closedChans, queued, pongs, sending, panicked, heard>>

\* The time of a ping is over.
PingLate(c) ==
  /\ chain[c] = "wait"
  /\ late' = late \cup {c}
  /\ waits' = [waits EXCEPT ![c] = 0]
  /\ Goto(c, "leave")
  /\ UNCHANGED <<alive, peer, timer, pingChan, closedChans, queued, pongs, sending, panicked, heard>>

\* Fault: the closed channel stays in the field.
LeaveClosed(c) ==
  /\ chain[c] = "leave" /\ sending = 0
  /\ panicked' = (pingChan = 0)
  /\ closedChans' = (closedChans \cup {pingChan}) \ {0}
  /\ Goto(c, IF c \in late THEN "close" ELSE "timer")
  /\ UNCHANGED <<alive, peer, timer, waits, late, pingChan, queued, pongs, sending, heard>>

\* The deferred function of SendPing closes whatever channel is in the field;
\* close of a nil channel panics.
PingLeave(c) ==
  /\ chain[c] = "leave" /\ sending = 0
  /\ panicked' = (pingChan = 0)
  /\ closedChans' = (closedChans \cup {pingChan}) \ {0}
  /\ pingChan' = 0
  /\ Goto(c, IF c \in late THEN "close" ELSE "timer")
  /\ UNCHANGED <<alive, peer, timer, waits, late, queued, pongs, sending, heard>>

\* The client leaves Opened, to retry or for good; the pinger's connection is
\* closed.  What is queued is not written any more, what is on the wire lost.
Down ==
  /\ open' = FALSE /\ queued' = 0 /\ wire' = 0
  /\ retrying' \in IF user = "client" THEN BOOLEAN ELSE {FALSE}
  /\ stoped' = (user = "client")

\* Fault: a ping that timed out is let pass.
TimeoutIgnored(c) ==
  /\ chain[c] = "close"
  /\ late' = late \ {c}
  /\ Goto(c, "timer")
  /\ UNCHANGED <<alive, peer, timer, waits, pingChan, closedChans, queued, pongs, sending, panicked, heard>>

\* A ping that timed out: tryClose, unless the client is retrying; CloseCode.
PingTimeout(c) ==
  /\ chain[c] = "close"
  /\ IF open /\ ~retrying THEN Down ELSE UNCHANGED <<open, queued, wire, retrying, stoped>>
  /\ late' = late \ {c}
  /\ Goto(c, "timer")
  /\ UNCHANGED <<user, shut, silent, recent, started, waits, pingChan, closedChans, pongs, sending,
                 panicked, heard>>

-----------------------------------------------------------------------------
\* The queue writes a ping: the client notes the time.
Write ==
  /\ queued > 0 /\ wire < MaxWire
  /\ queued' = queued - 1 /\ wire' = wire + 1
  /\ recent' = (recent \/ user = "client")
  /\ UNCHANGED <<alive, silent, stoped, started, chain, waits, late, pingChan, closedChans, pongs,
                 sending, panicked, heard>>

\* The other end answers a ping, and the PONG gets its goroutine: the client
\* notes the time.
AnswerPing ==
  /\ wire > 0 /\ ~silent /\ pongs < MaxWire
  /\ wire' = wire - 1 /\ pongs' = pongs + 1
  /\ recent' = (recent \/ user = "client")
  /\ UNCHANGED <<alive, silent, stoped, started, chain, waits, late, pingChan, closedChans, queued,
                 sending, panicked, heard>>

\* A pong takes the lock; with a channel in the field it sends, which panics
\* if the channel is closed.
recvPong ==
  /\ pongs > 0 /\ sending = 0
  /\ pongs' = pongs - 1
  /\ sending' = pingChan
  /\ panicked' = (pingChan \in closedChans)
  /\ UNCHANGED <<alive, peer, timer, chain, waits, late, pingChan, closedChans, queued, heard>>

\* Another packet is written or received; the client notes the time.
UpdateTime ==
  /\ user = "client" /\ open /\ ~shut /\ heard < MaxHeard
  /\ heard' = heard + 1 /\ recent' = TRUE
  /\ UNCHANGED <<alive, peer, stoped, started, chain, waits, late, pingChan, closedChans, queued,
                 pongs, sending, panicked>>

\* The interval passes without a packet.
Elapse ==
  /\ recent /\ recent' = FALSE
  /\ UNCHANGED <<alive, peer, stoped, started, chain, waits, late, pingChan, closedChans, queued,
                 pongs, sending, panicked, heard>>

\* The client loses its connection (tryClose), or the server closes it.
Lose ==
  /\ open /\ ~retrying
  /\ Down
  /\ UNCHANGED <<user, shut, silent, recent, started, chain, waits, late, pingChan, closedChans,
                 pongs, sending, panicked, heard>>

\* A reconnection succeeds: Start.  (Close does not call a reconnection off.)
Start ==
  /\ user = "client" /\ ~open /\ started < MaxStarts
  /\ open' = TRUE /\ stoped' = FALSE /\ started' = started + 1
  /\ Goto(started + 1, "run")
  /\ UNCHANGED <<user, retrying, shut, peer, recent, waits, late, pingChan, closedChans, queued,
                 pongs, sending, panicked, heard>>

\* The client's Close: Stop, and the queue and the socket are closed; the
\* status stays.
ClientClose ==
  /\ user = "client" /\ ~shut
  /\ shut' = TRUE /\ stoped' = TRUE /\ queued' = 0 /\ wire' = 0
  /\ UNCHANGED <<user, open, retrying, silent, recent, started, chain, waits, late, pingChan,
                 closedChans, pongs, sending, panicked, heard>>

\* The other end goes away without a word.
Vanish ==
  /\ ~silent /\ silent' = TRUE
  /\ UNCHANGED <<alive, wire, timer, chain, waits, late, pingChan, closedChans, queued, pongs,
                 sending, panicked, heard>>

-----------------------------------------------------------------------------
Ping(c) ==
  \/ PingRegister(c) \/ PingSend(c) \/ Select(c) \/ Pong(c) \/ PingLate(c) \/ PingLeave(c) \/ PingTimeout(c)

\* A panic ends the process.
HeartbeatNext ==
  /\ ~panicked
  /\ \/ \E c \in Chain : Fire(c) \/ run(c) \/ Ping(c)
     \/ Write \/ AnswerPing \/ recvPong \/ UpdateTime \/ Elapse
     \/ Lose \/ Start \/ ClientClose \/ Vanish

\* Timers fire, time passes and goroutines that can go on do; those that wait
\* for pingLock get it, as a sync.Mutex starves none.  Nothing is assumed of
\* the network, the other end or the application.
HeartbeatSpec ==
  /\ HeartbeatInit /\ [][HeartbeatNext]_heartbeatVars
  /\ WF_heartbeatVars(~panicked /\ Elapse)
  /\ \A c \in Chain : WF_heartbeatVars(~panicked /\ (Fire(c) \/ run(c) \/ Ping(c)))
  /\ \A c \in Chain : SF_heartbeatVars(~panicked /\ (PingRegister(c) \/ PingLeave(c)))

-----------------------------------------------------------------------------
\* The type invariant.  Only a waiting call has a channel to wait on.
HeartbeatTypeOK ==
  /\ user \in {"client", "pinger"}
  /\ open \in BOOLEAN /\ retrying \in BOOLEAN /\ shut \in BOOLEAN /\ silent \in BOOLEAN
  /\ stoped \in BOOLEAN /\ recent \in BOOLEAN /\ started \in 1..MaxStarts
  /\ chain \in [Chain -> {"off", "timer", "run", "register", "send", "select", "wait",
                          "leave", "close", "end"}]
  /\ waits \in [Chain -> Channel \cup {0}] /\ late \subseteq Chain
  /\ pingChan \in Channel \cup {0} /\ closedChans \subseteq Channel
  /\ queued \in 0..MaxWire /\ wire \in 0..MaxWire /\ pongs \in 0..MaxWire
  /\ sending \in Channel \cup {0} /\ panicked \in BOOLEAN /\ heard \in 0..MaxHeard
  /\ \A c \in Chain : waits[c] # 0 => chain[c] = "wait"

\* No close of a nil channel and no send on a closed one (SendPing, recvPong)
\* as long as KeepAlive was started once: however late pongs come, whatever
\* times out and whenever the connection closes.  A restart may bring two
\* pings to overlap, and the second then closes a nil channel.
PanicNeedsRestart == panicked => started > 1

\* A pong's goroutine holds pingLock for ever: no call receives, or will
\* receive, from the channel it sends on.
Stuck ==
  /\ sending # 0
  /\ \A c \in Chain : waits[c] # sending /\ (chain[c] = "select" => pingChan # sending)

\* A ping returns (SendPing): the only way to wait for ever is a pong that
\* has come while the call was giving up, and that keeps the lock the call
\* needs to return.
PingReturns ==
  \A c \in Chain : chain[c] = "wait" ~> chain[c] \in {"timer", "close"} \/ panicked \/ Stuck

\* A connection whose other end is gone is given up (keepalive, SendPing),
\* once nothing is written on it any more, as every write counts as a sign
\* of life.  Exceptions: a client that has retried before, whose flag makes
\* tryClose do nothing; after Close; and a pong that keeps the lock.
SilenceNoticed ==
  open /\ silent ~> ~open \/ retrying \/ shut \/ panicked \/ Stuck

=============================================================================
