-------------------------------- MODULE Api --------------------------------
(***************************************************************************)
(* The cable server's API: what its HTTP handlers (cmd/cable/api_http.go)  *)
(* and its gRPC methods (api_grpc.go) let through to the broker, and with  *)
(* which status they refuse the rest.  A request names an operation and    *)
(* its object, a user, a channel or a broker; a refused request has no     *)
(* effect.  Routing and Channels begin their operations with a request     *)
(* that passes.                                                            *)
(***************************************************************************)
EXTENDS Naturals, Sequences

CONSTANT Absent  \* the empty string: a parameter that is not given

OK == 200
BadRequest == 400
MethodNotAllowed == 405
InternalServerError == 500

\* via: by HTTP or by gRPC; parsed: the message's headers, or the body, make
\* sense; of: the object; channels: those to join or to leave.
Requests(objects, kinds, channels) ==
  [via : {"http", "grpc"}, kind : kinds, method : {"GET", "POST"}, parsed : BOOLEAN,
   of : objects \cup {Absent}, channels : SUBSET channels]

\* The status of the first check that fails.
FirstError(checks) ==
  LET failed == {i \in DOMAIN checks : ~checks[i][1]}
      first  == CHOOSE i \in failed : \A j \in failed : i <= j
  IN  IF failed = {} THEN OK ELSE checks[first][2]

IsReady(ready) == <<ready, InternalServerError>>
Method(r, m)   == <<r.method = m, MethodNotAllowed>>
Given(r)       == <<r.of # Absent, BadRequest>>
Parsed(r)      == <<r.parsed, BadRequest>>
Named(r)       == <<r.channels # {}, BadRequest>>

-----------------------------------------------------------------------------
handleIsOnline(ready, r) == FirstError(<<IsReady(ready), Method(r, "GET"), Given(r)>>)

handleKickUser(ready, r) == FirstError(<<IsReady(ready), Method(r, "GET"), Given(r)>>)

handleKickNode(ready, r) ==
  FirstError(<<IsReady(ready), Method(r, "POST"), Parsed(r), Given(r)>>)

\* parseMessage: the kind in the header, the payload in the body.
parseMessage(r) == Parsed(r)

handleSendToAll(ready, r) ==
  FirstError(<<IsReady(ready), Method(r, "POST"), parseMessage(r)>>)

handleSendToUser(ready, r) ==
  FirstError(<<IsReady(ready), Method(r, "POST"), Given(r), parseMessage(r)>>)

handleSendToChannel(ready, r) ==
  FirstError(<<IsReady(ready), Method(r, "POST"), Given(r), parseMessage(r)>>)

handleJoinChannel(ready, r) ==
  FirstError(<<IsReady(ready), Method(r, "POST"), Parsed(r), Given(r), Named(r)>>)

handleLeaveChannel(ready, r) ==
  FirstError(<<IsReady(ready), Method(r, "POST"), Parsed(r), Given(r), Named(r)>>)

\* The gRPC methods check nothing; the broker's SendToUser and SendToChannel
\* refuse the empty name.
grpcMethod(r) ==
  FirstError(<< <<r.kind \in {"user", "channel"} => r.of # Absent, InternalServerError>> >>)

\* What the API answers before the operation is begun: OK lets it begin.
Status(ready, r) ==
  CASE r.via = "grpc"            -> grpcMethod(r)
    [] r.kind = "online"         -> handleIsOnline(ready, r)
    [] r.kind = "kick"           -> handleKickUser(ready, r)
    [] r.kind = "kickNode"       -> handleKickNode(ready, r)
    [] r.kind = "all"            -> handleSendToAll(ready, r)
    [] r.kind = "user"           -> handleSendToUser(ready, r)
    [] r.kind = "channel"        -> handleSendToChannel(ready, r)
    [] r.kind = "join"           -> handleJoinChannel(ready, r)
    [] r.kind = "leave"          -> handleLeaveChannel(ready, r)

=============================================================================
