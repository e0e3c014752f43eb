----------------------------- MODULE EgressProxy -----------------------------
(* The egress proxy of a sandboxed run (sandbox-egress-proxy.ts) behind the  *)
(* relay inside the container (sandbox-egress-relay.ts): the limits on       *)
(* connections, requests and bytes, and the pairs of sockets that must end   *)
(* together.  A connection carries plain requests, one after another before  *)
(* its socket closes, or a CONNECT that makes a tunnel of it.  What one      *)
(* reading of a socket brings is a chunk, and a chunk counts as one byte.    *)
EXTENDS Naturals, FiniteSets

CONSTANTS Connection, PlainRequest, MaxConnections, MaxRequests, MaxBytes

ASSUME EgressAssumption == {MaxConnections, MaxRequests, MaxBytes} \subseteq Nat

VARIABLES
  relayOpen,    \* pairs of sockets of the relay
  netState,     \* what the proxy does with each connection
  plain,        \* what the proxy does with each plain request
  carrier,      \* the connection each plain request came over
  clientOpen,   \* client sockets of the proxy
  upOpen,       \* sockets of tunnels towards the target
  headed,       \* tunnels that began with bytes sent beside the CONNECT
  connections,  \* connectionCount
  requests,     \* requestCount
  bytes,        \* transferredBytes
  forwarded     \* chunks written to the other side

plainVars == <<plain, carrier>>

netVars == <<relayOpen, netState, plainVars, clientOpen, upOpen, headed, connections, requests, bytes, forwarded>>

NetInit ==
  /\ relayOpen = {}
  /\ netState = [c \in Connection |-> "none"]
  /\ plain = [r \in PlainRequest |-> "none"] /\ carrier \in [PlainRequest -> Connection]
  /\ clientOpen = {} /\ upOpen = {} /\ headed = {}
  /\ connections = 0 /\ requests = 0 /\ bytes = 0 /\ forwarded = 0

NetTo(c, s) == netState' = [netState EXCEPT ![c] = s]

PlainTo(r, s) == plain' = [plain EXCEPT ![r] = s]

\* The relay pairs the browser's socket with one to the proxy, which counts it
\* before it knows whether there is room.
NetConnect(c) ==
  /\ netState[c] = "none"
  /\ relayOpen' = relayOpen \cup {c}
  /\ connections' = connections + 1
  /\ clientOpen' = clientOpen \cup {c}
  /\ NetTo(c, IF connections' > MaxConnections THEN "excess" ELSE "open")
  /\ UNCHANGED <<plainVars, upOpen, headed, requests, bytes, forwarded>>

\* 403 to a CONNECT past the limit, of an invalid target or of a refused port.
Refuse(c) == NetTo(c, "refused")

\* A CONNECT arrives: its target is resolved.
NetRequest(c) ==
  /\ netState[c] = "open" /\ c \in clientOpen
  /\ requests' = requests + 1
  /\ \/ Refuse(c)
     \/ requests' <= MaxRequests /\ NetTo(c, "resolving")
  /\ UNCHANGED <<relayOpen, plainVars, clientOpen, upOpen, headed, connections, bytes, forwarded>>

\* Only public addresses are connected to; otherwise 403.
NetResolved(c) ==
  /\ netState[c] = "resolving"
  /\ \/ Refuse(c) /\ UNCHANGED upOpen
     \/ NetTo(c, "connecting") /\ upOpen' = upOpen \cup {c}
  /\ UNCHANGED <<relayOpen, plainVars, clientOpen, headed, connections, requests, bytes, forwarded>>

\* What came beside the CONNECT goes first, whatever was transferred: it is not
\* counted.
SendHead(c) == headed' = headed \cup {c} /\ forwarded' = forwarded + 1 /\ UNCHANGED bytes

\* connect, or error and the ten seconds of openSocket.
NetConnected(c) ==
  /\ netState[c] = "connecting"
  /\ \/ NetTo(c, "tunnel") /\ UNCHANGED upOpen /\ (SendHead(c) \/ UNCHANGED <<headed, bytes, forwarded>>)
     \/ Refuse(c) /\ upOpen' = upOpen \ {c} /\ UNCHANGED <<headed, bytes, forwarded>>
  /\ UNCHANGED <<relayOpen, plainVars, clientOpen, connections, requests>>

\* The chunk is counted and the limit only told to later chunks.
CountAfter(c) == bytes > MaxBytes

OverLimit(c) == bytes + 1 > MaxBytes

\* count(), before pipe() writes the chunk: past the limit both sockets go.
NetChunk(c) ==
  /\ netState[c] = "tunnel" /\ c \in clientOpen /\ c \in upOpen
  /\ bytes' = bytes + 1
  /\ IF OverLimit(c)
     THEN upOpen' = upOpen \ {c} /\ NetTo(c, "refused") /\ UNCHANGED forwarded
     ELSE forwarded' = forwarded + 1 /\ UNCHANGED <<upOpen, netState>>
  /\ UNCHANGED <<relayOpen, plainVars, clientOpen, headed, connections, requests>>

\* A plain request arrives, maybe behind others of its connection: it is counted
\* as a CONNECT is, and answered 429, 403 or resolved.
PlainArrives(r) ==
  /\ plain[r] = "none" /\ netState[carrier[r]] = "open" /\ carrier[r] \in clientOpen
  /\ requests' = requests + 1
  /\ \/ PlainTo(r, "over")
     \/ requests' <= MaxRequests /\ PlainTo(r, "resolving")
  /\ UNCHANGED <<relayOpen, netState, carrier, clientOpen, upOpen, headed, connections, bytes, forwarded>>

\* 403 unless the address is public, then the request to it, its answer or its
\* error.  Whether the client is still there is not asked.
PlainAdvances(r) ==
  /\ \/ plain[r] = "resolving" /\ (PlainTo(r, "asking") \/ PlainTo(r, "over"))
     \/ plain[r] = "asking" /\ (PlainTo(r, "answering") \/ PlainTo(r, "over"))
     \/ plain[r] = "answering" /\ PlainTo(r, "over")
  /\ UNCHANGED <<relayOpen, netState, carrier, clientOpen, upOpen, headed, connections, requests, bytes, forwarded>>

\* A chunk of the body: past the limit the client's socket and the target's go,
\* and the chunk is not passed on.
PlainBody(r) ==
  /\ plain[r] \in {"asking", "answering"} /\ netState[carrier[r]] = "open" /\ carrier[r] \in clientOpen
  /\ bytes' = bytes + 1
  /\ IF OverLimit(r)
     THEN PlainTo(r, "over") /\ Refuse(carrier[r]) /\ UNCHANGED forwarded
     ELSE forwarded' = forwarded + 1 /\ UNCHANGED <<plain, netState>>
  /\ UNCHANGED <<relayOpen, carrier, clientOpen, upOpen, headed, connections, requests>>

\* The target's socket is left open past the limit.
KeepAnswering(r) ==
  /\ plain[r] = "answering"
  /\ bytes' = bytes + 1
  /\ forwarded' = IF carrier[r] \in clientOpen THEN forwarded + 1 ELSE forwarded
  /\ UNCHANGED <<relayOpen, netState, plainVars, clientOpen, upOpen, headed, connections, requests>>

\* A chunk of the answer: past the limit only the target's socket goes, and the
\* chunk still reaches the client.
PlainAnswer(r) ==
  /\ plain[r] = "answering"
  /\ bytes' = bytes + 1
  /\ IF OverLimit(r) THEN PlainTo(r, "cut") ELSE UNCHANGED plain
  /\ forwarded' = IF carrier[r] \in clientOpen THEN forwarded + 1 ELSE forwarded
  /\ UNCHANGED <<relayOpen, netState, carrier, clientOpen, upOpen, headed, connections, requests>>

\* The count goes down for the connections that were admitted.
ReleaseAdmitted(c) == connections' = IF netState[c] = "excess" THEN connections ELSE connections - 1

ReleaseConnection(c) == connections' = connections - 1

\* The client's socket closes: refused, in excess, answered (every answer says
\* connection: close), or the browser left.
ClientCloses(c) ==
  /\ c \in clientOpen
  /\ clientOpen' = clientOpen \ {c}
  /\ relayOpen' = relayOpen \ {c}
  /\ ReleaseConnection(c)
  /\ UNCHANGED <<netState, plainVars, upOpen, headed, requests, bytes, forwarded>>

\* The end of the pipe, an error, or thirty idle seconds: a target whose client
\* left while it was being connected is only closed by the latter.
UpstreamCloses(c) ==
  /\ c \in upOpen /\ netState[c] = "tunnel"
  /\ upOpen' = upOpen \ {c}
  /\ NetTo(c, "refused")
  /\ UNCHANGED <<relayOpen, plainVars, clientOpen, headed, connections, requests, bytes, forwarded>>

NetNext ==
  \/ \E c \in Connection :
       \/ NetConnect(c) \/ NetRequest(c) \/ NetResolved(c) \/ NetConnected(c)
       \/ NetChunk(c) \/ ClientCloses(c) \/ UpstreamCloses(c)
  \/ \E r \in PlainRequest : PlainArrives(r) \/ PlainAdvances(r) \/ PlainBody(r) \/ PlainAnswer(r)

NetSpec == NetInit /\ [][NetNext]_netVars

-----------------------------------------------------------------------------

NetTypeOK ==
  /\ relayOpen \cup clientOpen \cup upOpen \cup headed \subseteq Connection
  /\ netState \in [Connection -> {"none", "excess", "open", "resolving", "connecting", "tunnel", "refused"}]
  /\ plain \in [PlainRequest -> {"none", "resolving", "asking", "answering", "cut", "over"}]
  /\ carrier \in [PlainRequest -> Connection]
  /\ {connections, requests, bytes, forwarded} \subseteq Nat

Admitted == {c \in clientOpen : netState[c] # "excess"}
Reaching == {c \in Connection : netState[c] \in {"resolving", "connecting", "tunnel"}}
Asking == {r \in PlainRequest : plain[r] \in {"resolving", "asking", "answering", "cut"}}
Cut == {r \in PlainRequest : plain[r] = "cut"}

\* The limits hold together whatever order the sockets close in: the count of
\* connections is that of the open ones, those turned away included; no more
\* than MaxConnections reach a target while their clients are there; tunnels and
\* plain requests under way are within the one limit of requests; and past the
\* limit of bytes nothing is passed on but what a CONNECT brought with it, once
\* a tunnel, and the one chunk that cuts a plain answer off.
EgressWithinLimits ==
  /\ connections = Cardinality(clientOpen)
  /\ Cardinality(Admitted) <= MaxConnections
  /\ Cardinality(Reaching) + Cardinality(Asking) <= MaxRequests
  /\ forwarded <= MaxBytes + Cardinality(headed) + Cardinality(Cut)
=============================================================================
