------------------------------ MODULE Requests ------------------------------
(***************************************************************************)
(* Requests over one connection, and their responses: SendRequest and      *)
(* recvResponse of internal/network/conn.go (the server's side; client.go  *)
(* has the same code).                                                     *)
(*                                                                         *)
(* A caller registers a channel under its request's id, sends the packet   *)
(* and waits for the channel or for its context.  Each packet received is  *)
(* handled in a goroutine of its own; for a response it looks the channel  *)
(* up and sends on it, holding requestLock.  The channel has no buffer, so *)
(* the send waits for the caller's receive.  Sections under the lock that  *)
(* cannot block are one step here.                                         *)
(***************************************************************************)
EXTENDS Naturals

CONSTANTS
  Caller,       \* the calls of SendRequest
  GivenID,      \* caller -> the id the application put in the packet, or 0
  PatientCaller,      \* callers whose context is never done
  MaxUint16,    \* 65535 in the code
  None

ASSUME RequestsAssumption ==
  /\ MaxUint16 \in Nat \ {0} /\ None \notin Caller /\ PatientCaller \subseteq Caller
  /\ GivenID \in [Caller -> 0..MaxUint16]

IDs == 0..MaxUint16

VARIABLES
  requestID,     \* the id generator (a uint64: it does not wrap in practice)
  requestTasks,  \* id -> the caller whose channel is registered
  pc,            \* caller -> idle, numbered, send, wait, leave, returned
  id,            \* caller -> the id of its request
  result,        \* caller -> the caller whose response it got, or how it failed
  requests,      \* callers whose request is on its way
  responses,     \* callers whose response is on its way
  received,      \* responses in their goroutine, before requestLock
  handler,       \* the holder of requestLock: the response it is sending, and to whom
  closed         \* the connection's flag

requestsVars == <<requestID, requestTasks, pc, id, result, requests, responses, received,
          handler, closed>>

Free == [of |-> None, to |-> None]

RequestsInit ==
  /\ requestID = 0
  /\ requestTasks = [i \in IDs |-> None]
  /\ pc = [r \in Caller |-> "idle"]
  /\ id = [r \in Caller |-> 0]
  /\ result = [r \in Caller |-> None]
  /\ requests = {} /\ responses = {} /\ received = {}
  /\ handler = Free
  /\ closed = FALSE

\* The id of the n-th request that the application did not number:
\* uint16(n / math.MaxUint16).
NextID(n) == (n \div MaxUint16) % (MaxUint16 + 1)

-----------------------------------------------------------------------------
(***************************************************************************)
(* Faulty variants, named for the mistake, precede the operation they      *)
(* vary; no definition uses them.                                          *)
(***************************************************************************)
\* The server is closed, or it has no connection of that client any more (a
\* client: it is not ready).  This connection is not asked.
NotFound(r) ==
  /\ pc[r] = "idle"
  /\ pc' = [pc EXCEPT ![r] = "returned"]
  /\ result' = [result EXCEPT ![r] = "notfound"]
  /\ UNCHANGED <<requestID, requestTasks, id, requests, responses, received, handler, closed>>

\* Fault: the application's id is overwritten.
NumberAlways(r) ==
  /\ pc[r] = "idle" /\ ~closed
  /\ pc' = [pc EXCEPT ![r] = "numbered"]
  /\ requestID' = requestID + 1
  /\ id' = [id EXCEPT ![r] = NextID(requestID + 1)]
  /\ UNCHANGED <<requestTasks, result, requests, responses, received, handler, closed>>

Number(r) ==
  /\ pc[r] = "idle"
  /\ IF closed
       THEN /\ pc' = [pc EXCEPT ![r] = "returned"]
            /\ result' = [result EXCEPT ![r] = "failed"]
            /\ UNCHANGED <<requestID, id>>
       ELSE /\ pc' = [pc EXCEPT ![r] = "numbered"]
            /\ requestID' = IF GivenID[r] = 0 THEN requestID + 1 ELSE requestID
            /\ id' = [id EXCEPT ![r] = IF GivenID[r] = 0 THEN NextID(requestID + 1)
                                                         ELSE GivenID[r]]
            /\ UNCHANGED result
  /\ UNCHANGED <<requestTasks, requests, responses, received, handler, closed>>

Register(r) ==
  /\ pc[r] = "numbered" /\ handler = Free
  /\ requestTasks' = [requestTasks EXCEPT ![id[r]] = r]
  /\ pc' = [pc EXCEPT ![r] = "send"]
  /\ UNCHANGED <<requestID, id, result, requests, responses, received, handler, closed>>

\* SendPacket: the packet is queued and on its way, unless the connection is
\* closed; it may also fail to be encoded, or not to be queued in time.
Send(r) ==
  /\ pc[r] = "send"
  /\ \/ /\ ~closed
        /\ pc' = [pc EXCEPT ![r] = "wait"]
        /\ requests' = requests \cup {r}
        /\ UNCHANGED result
     \/ /\ pc' = [pc EXCEPT ![r] = "leave"]
        /\ result' = [result EXCEPT ![r] = "failed"]
        /\ UNCHANGED requests
  /\ UNCHANGED <<requestID, requestTasks, id, responses, received, handler, closed>>

\* The caller's context is done.
Timeout(r) ==
  /\ pc[r] = "wait" /\ r \notin PatientCaller
  /\ pc' = [pc EXCEPT ![r] = "leave"]
  /\ result' = [result EXCEPT ![r] = "timeout"]
  /\ UNCHANGED <<requestID, requestTasks, id, requests, responses, received, handler, closed>>

\* Fault: the channel is closed and stays registered.
LeaveRegistered(r) ==
  /\ pc[r] = "leave" /\ handler = Free
  /\ pc' = [pc EXCEPT ![r] = "returned"]
  /\ UNCHANGED <<requestID, requestTasks, id, result, requests, responses, received,
                 handler, closed>>

\* The deferred function: unregister the id, and close the channel.
Leave(r) ==
  /\ pc[r] = "leave" /\ handler = Free
  /\ requestTasks' = [requestTasks EXCEPT ![id[r]] = None]
  /\ pc' = [pc EXCEPT ![r] = "returned"]
  /\ UNCHANGED <<requestID, id, result, requests, responses, received, handler, closed>>

-----------------------------------------------------------------------------
\* The other side handles a request; its response has the request's id.
Answer(r) ==
  /\ r \in requests
  /\ requests' = requests \ {r} /\ responses' = responses \cup {r}
  /\ UNCHANGED <<requestID, requestTasks, pc, id, result, received, handler, closed>>

\* A packet has been read: dropped if the connection is closed.
RecvPacket(r) ==
  /\ r \in responses
  /\ responses' = responses \ {r}
  /\ received' = IF closed THEN received ELSE received \cup {r}
  /\ UNCHANGED <<requestID, requestTasks, pc, id, result, requests, handler, closed>>

\* recvResponse takes the lock and looks the channel up.
recvResponse(r) ==
  /\ r \in received /\ handler = Free
  /\ received' = received \ {r}
  /\ handler' = IF requestTasks[id[r]] = None THEN Free
                  ELSE [of |-> r, to |-> requestTasks[id[r]]]
  /\ UNCHANGED <<requestID, requestTasks, pc, id, result, requests, responses, closed>>

\* Fault: the handler does not unlock.
DeliverLocked(r) ==
  /\ handler.to = r /\ pc[r] = "wait"
  /\ result' = [result EXCEPT ![r] = handler.of]
  /\ pc' = [pc EXCEPT ![r] = "leave"]
  /\ UNCHANGED <<requestID, requestTasks, id, requests, responses, received, handler, closed>>

\* The caller in its select receives what the handler sends; the handler
\* unlocks.
Deliver(r) ==
  /\ handler.to = r /\ pc[r] = "wait"
  /\ result' = [result EXCEPT ![r] = handler.of]
  /\ pc' = [pc EXCEPT ![r] = "leave"]
  /\ handler' = Free
  /\ UNCHANGED <<requestID, requestTasks, id, requests, responses, received, closed>>

\* Close wakes no caller.
Close ==
  /\ ~closed
  /\ closed' = TRUE
  /\ UNCHANGED <<requestID, requestTasks, pc, id, result, requests, responses, received, handler>>

Step(r) == Register(r) \/ Send(r) \/ Leave(r) \/ recvResponse(r) \/ Deliver(r)

RequestsNext ==
  \/ Close
  \/ \E r \in Caller :
       NotFound(r) \/ Number(r) \/ Step(r) \/ Timeout(r) \/ Answer(r) \/ RecvPacket(r)

\* Goroutines that can go on do.  The application need not call, the other
\* side need not answer, and a context need not be done.
RequestsSpec == RequestsInit /\ [][RequestsNext]_requestsVars /\ \A r \in Caller : WF_requestsVars(Step(r))

-----------------------------------------------------------------------------
\* The type invariant.
RequestsTypeOK ==
  /\ requestID \in Nat
  /\ requestTasks \in [IDs -> Caller \cup {None}]
  /\ pc \in [Caller -> {"idle", "numbered", "send", "wait", "leave", "returned"}]
  /\ id \in [Caller -> IDs]
  /\ result \in [Caller -> Caller \cup {None, "notfound", "failed", "timeout"}]
  /\ requests \subseteq Caller /\ responses \subseteq Caller /\ received \subseteq Caller
  /\ handler \in [of : Caller, to : Caller] \cup {Free}
  /\ closed \in BOOLEAN

\* No response is ever sent on a closed channel, which would be a panic:
\* whoever is registered under an id, and whoever a handler is sending to,
\* has not unregistered, though requests share ids and unregister each other.
TasksLive ==
  /\ \A i \in IDs : requestTasks[i] # None =>
       pc[requestTasks[i]] \in {"send", "wait", "leave"} /\ id[requestTasks[i]] = i
  /\ handler # Free => pc[handler.to] \in {"send", "wait", "leave"}

\* Requests of the same id get each other's responses (NextID is 0 for the
\* first MaxUint16 - 1), so what can be said is about the others: a request
\* that the application numbered, as it numbered no other.
OwnID(r) == GivenID[r] # 0 /\ \A q \in Caller \ {r} : id[q] # GivenID[r]

\* The response that SendRequest returns is to its own request, if its id is
\* its own, whatever requests and late responses of other ids overlap with it.
OwnResponse ==
  \A r \in Caller : OwnID(r) => result[r] \in {None, "notfound", "failed", "timeout", r}

Distinct ==
  \A q, r \in {c \in Caller : pc[c] # "idle" /\ result[c] # "notfound"} :
    q # r => id[q] # id[r]

\* A request whose response was received (RecvPacket, on an open connection)
\* returns, unless some request failed or timed out or two have the same id:
\* then a handler may wait for a caller that has left its select, and every
\* other request with it.
AnsweredReturns ==
  \A r \in Caller :
    r \in received ~>
      \/ pc[r] = "returned" \/ ~Distinct
      \/ \E q \in Caller : result[q] \in {"timeout", "failed"}

=============================================================================
