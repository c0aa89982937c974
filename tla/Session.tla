------------------------------- MODULE Session -------------------------------
(***************************************************************************)
(* One client connection from accept to close: the SOCKS5 front end        *)
(* (socks.go) or the HTTPS CONNECT proxy (proxy.go), the route decision,   *)
(* the dial, the reply and the two copying goroutines of the relay         *)
(* (relay.go).  Traffic models how many connections share the slots; here  *)
(* the pool offers a slot or does not, and the subject is what one handler *)
(* does with its sockets, deadlines and data.                              *)
(*                                                                         *)
(* The payload is numbered chunks from the client and one answer from the  *)
(* upstream.  The client may send before it is told of success, stall,     *)
(* stop reading, half-close or go away at any point.                       *)
(***************************************************************************)
EXTENDS Router

CONSTANTS Targets,    \* what clients ask for: [labels, dot, port]
          Envs,       \* routing settings: mode and four lists of entries
          NoTarget, NoEnv,
          MaxChunks   \* bound on the chunks a client sends

ASSUME MaxChunksAssumption == MaxChunks \in Nat

\* A name is one or more labels, and a label is not empty: neither the dots between
\* them nor the mark of a comment belong to it.
LabelTokens == DOMAIN LowerOf \ {Dot, Hash}
Labels == Seq(LabelTokens) \ {<<>>}
IsName(labels) == labels \in Seq(Labels) \ {<<>>}

PortToken == "443"
ASSUME PortAssumption == PortToken \in Digits

ASSUME TargetsAssumption ==
  \A t \in Targets : IsName(t.labels) /\ t.dot \in BOOLEAN /\ t.port \in BOOLEAN

ASSUME EnvsAssumption ==
  \A e \in Envs :
    /\ e.mode \in RouteModes
    /\ \A x \in e.directDomains \cup e.directFile \cup e.proxyDomains \cup e.proxyFile :
         IsName(x.labels) /\ x.dotted \in BOOLEAN /\ x.comment \in BOOLEAN

VARIABLES
  proto, pc,        \* front end, program point of the handler
  env, target,      \* routing settings of the process and target, while they matter
  route,            \* decided route
  deadline,         \* read deadline of the client socket
  cs, us,           \* client socket and upstream socket of the handler
  reserved,         \* a connection is counted on a slot
  defers,           \* deferred calls the handler has registered
  told,             \* replies sent to the client
  up, down,         \* the goroutines that copy from and to the client
  client, stuck,    \* the client's end, and whether it has stopped reading
  upstream, jammed, \* the upstream's end, and whether it has stopped reading
  answer,           \* the upstream's answer
  sent, rd, got,    \* chunks sent, chunks taken off the client socket, delivered
  eager             \* the client sent before it was told of success

asked == <<env, target>>
peerVars == <<client, stuck, upstream, jammed>>
dataVars == <<answer, sent, rd, got, eager>>
vars == <<proto, pc, asked, route, deadline, cs, us, reserved, defers, told, up, down,
          peerVars, dataVars>>

Handshake == {"greeting", "request", "address"}

\* clientConn.Close, upstream.Close and endWAN.
Deferrable == {"client", "upstream", "endWAN"}

Points == Handshake \cup {"head", "route", "connect", "upshake", "reply", "relay", "done"}

TypeOK ==
  /\ proto \in {"socks5", "connect"} /\ pc \in Points
  /\ env \in Envs \cup {NoEnv} /\ target \in Targets \cup {NoTarget}
  /\ route \in {"none", "wan", "direct"}
  /\ deadline \in {"none", "armed", "passed"}
  /\ cs \in {"http", "open", "closed"} /\ us \in {"none", "open", "closed"}
  /\ reserved \in BOOLEAN /\ defers \subseteq Deferrable
  /\ told \in {<<>>, <<"ok">>, <<"refused">>}
  /\ up \in {"off", "copying", "writing", "done"} /\ down \in {"off", "copying", "writing", "done"}
  /\ client \in {"open", "half", "gone"} /\ stuck \in BOOLEAN
  /\ upstream \in {"none", "open", "gone"} /\ jammed \in BOOLEAN
  /\ answer \in {"none", "pending", "read", "delivered"}
  /\ sent \in 0 .. MaxChunks /\ rd \in 0 .. sent /\ got \subseteq 1 .. MaxChunks
  /\ eager \in BOOLEAN

----------------------------------------------------------------------------
(* Targets and entries as text.                                            *)

\* Per n: the first n labels, each with a dot before it.
Joined(labels) ==
  LET f[n \in 0 .. Len(labels)] == IF n = 0 THEN <<>> ELSE f[n - 1] \o <<Dot>> \o labels[n]
  IN  f

Dotted(labels) == Tail(Joined(labels)[Len(labels)])

\* What r.Host or parseSocksTarget's JoinHostPort gives the router.
TargetText(t) ==
  Dotted(t.labels) \o (IF t.dot THEN <<Dot>> ELSE <<>>) \o (IF t.port THEN <<Colon, PortToken>> ELSE <<>>)

EntryText(e) ==
  (IF e.comment THEN <<Hash>> ELSE <<>>) \o (IF e.dotted THEN <<Dot>> ELSE <<>>) \o Dotted(e.labels)

Texts(entries) == {EntryText(e) : e \in entries}

ConfiguredRouter(e) ==
  NewRouter([mode |-> e.mode,
             directDomains |-> Texts(e.directDomains), directFile |-> Texts(e.directFile),
             proxyDomains  |-> Texts(e.proxyDomains),  proxyFile  |-> Texts(e.proxyFile)])

Init ==
  /\ proto \in {"socks5", "connect"}
  /\ pc = (IF proto = "socks5" THEN "greeting" ELSE "head")
  /\ env = NoEnv /\ target = NoTarget /\ route = "none"
  /\ deadline = (IF proto = "socks5" THEN "armed" ELSE "none")
  /\ cs = (IF proto = "socks5" THEN "open" ELSE "http") /\ us = "none"
  /\ reserved = FALSE /\ defers = (IF proto = "socks5" THEN {"client"} ELSE {})
  /\ told = <<>> /\ up = "off" /\ down = "off"
  /\ client = "open" /\ stuck = FALSE /\ upstream = "none" /\ jammed = FALSE /\ answer = "none"
  /\ sent = 0 /\ rd = 0 /\ got = {} /\ eager = FALSE

----------------------------------------------------------------------------
(* Ways out of the handler.                                                *)

\* Once routed, settings and target play no further part.
Settled == env' = NoEnv /\ target' = NoTarget

\* The handler returns: the deferred calls it has registered by now are run, and no other.
\* Before Hijack the client socket belongs to the HTTP server, which keeps it.
ReturnAfter(closed) ==
  /\ pc' = "done" /\ defers' = {} /\ Settled
  /\ reserved' = (reserved /\ "endWAN" \notin defers)
  /\ us' = (IF us = "open" /\ "upstream" \in defers \cup closed THEN "closed" ELSE us)
  /\ cs' = (IF cs = "open" /\ "client" \in defers THEN "closed" ELSE cs)

Return == ReturnAfter({})

Silently == Return /\ UNCHANGED told

Refuse == Return /\ told' = Append(told, "refused")

\* socks5Dial closes its connection before it reports an error.
RefuseUndialled == ReturnAfter({"upstream"}) /\ told' = Append(told, "refused")

Rest == UNCHANGED <<proto, route, deadline, up, down, peerVars, dataVars>>

Step(from, to) == pc = from /\ pc' = to

----------------------------------------------------------------------------
(* Front ends.                                                             *)

\* A well-formed greeting is answered, a well-formed CONNECT request accepted.
Greet ==
  /\ deadline # "passed"
  /\ Step("greeting", "request") \/ Step("request", "address")
  /\ UNCHANGED <<asked, cs, us, reserved, defers, told>> /\ Rest

\* A wrong version ends the connection without a word.
BadVersion == pc \in {"greeting", "request"} /\ deadline # "passed" /\ Silently /\ Rest

\* BIND and UDP ASSOCIATE; an unknown address type, an empty name, port 0.
BadRequest == pc \in {"request", "address"} /\ deadline # "passed" /\ Refuse /\ Rest

\* A handshake without a deadline.
ReadFailsOnClose ==
  /\ pc \in Handshake /\ client # "open"
  /\ IF pc = "address" THEN Refuse ELSE Silently
  /\ Rest

\* The client has left or is silent for too long: a read fails.  In the address it is
\* reported like a bad address.
ReadFails ==
  /\ pc \in Handshake
  /\ client # "open" \/ deadline = "passed"
  /\ IF pc = "address" THEN Refuse ELSE Silently
  /\ Rest

\* Another method than CONNECT, or no host: refused.
HeadBad == pc = "head" /\ Refuse /\ Rest

\* The HTTP server gives up on a client that left; it waits for any other.
HeadFails == pc = "head" /\ client # "open" /\ Silently /\ Rest

\* The target is known and the route decided, by the settings of the process.
DecideRoute ==
  /\ Step("address", "route") \/ Step("head", "route")
  /\ deadline # "passed"
  /\ \E e \in Envs, t \in Targets :
       /\ env' = e /\ target' = t
       /\ route' = decideRoute(ConfiguredRouter(e), TargetText(t))
  /\ UNCHANGED <<proto, deadline, cs, us, reserved, defers, told, up, down, peerVars, dataVars>>

\* GetLeastLoaded finds no slot.
NoWAN == pc = "route" /\ route = "wan" /\ Refuse /\ Rest

\* GetLeastLoaded and beginWAN; a direct connection does not touch the pool.
Reserve ==
  /\ Step("route", "connect")
  /\ reserved' = (route = "wan") /\ Settled
  /\ defers' = (IF route = "wan" THEN defers \cup {"endWAN"} ELSE defers)
  /\ UNCHANGED <<cs, us, told>> /\ Rest

----------------------------------------------------------------------------
(* directDial and dialWAN.                                                 *)

\* The handler defers upstream.Close when the dial is complete: for a slot, only after
\* the handshake with its xray.
DeferIfDialled == defers' = (IF route = "wan" THEN defers ELSE defers \cup {"upstream"})

\* A success reply as soon as the local xray accepts the connection.
ConnectOkTold ==
  /\ pc = "connect" /\ pc' = (IF route = "wan" THEN "upshake" ELSE "reply")
  /\ us' = "open" /\ upstream' = "open"
  /\ told' = <<"ok">> /\ DeferIfDialled
  /\ UNCHANGED <<proto, asked, route, deadline, cs, reserved, up, down, client, stuck, jammed, dataVars>>

\* The TCP connection stands: to the target, or to the slot's xray.
ConnectOk ==
  /\ pc = "connect" /\ pc' = (IF route = "wan" THEN "upshake" ELSE "reply")
  /\ us' = "open" /\ upstream' = "open" /\ DeferIfDialled
  /\ UNCHANGED <<proto, asked, route, deadline, cs, reserved, told, up, down, client, stuck, jammed, dataVars>>

\* A dial that nothing bounds.
ConnectFailsUnbounded == pc = "connect" /\ upstream = "gone" /\ Refuse /\ Rest

\* Refused, or not there in time.
ConnectFails == pc = "connect" /\ Refuse /\ Rest

\* A handler that does not defer the close of its upstream.
UpshakeOkNoDefer ==
  /\ upstream = "open" /\ Step("upshake", "reply")
  /\ UNCHANGED <<asked, cs, us, reserved, defers, told>> /\ Rest

\* xray reaches the target ...
UpshakeOk ==
  /\ upstream = "open" /\ Step("upshake", "reply")
  /\ defers' = defers \cup {"upstream"}
  /\ UNCHANGED <<asked, cs, us, reserved, told>> /\ Rest

\* ... or does not; or it goes away.  Nothing bounds the wait for its answer.
UpshakeRefused == pc = "upshake" /\ RefuseUndialled /\ Rest

UpshakeLost == pc = "upshake" /\ upstream = "gone" /\ RefuseUndialled /\ Rest

----------------------------------------------------------------------------
(* The success reply.                                                      *)

StartPumps ==
  /\ Step("reply", "relay") /\ up' = "copying" /\ down' = "copying"
  /\ told' = Append(told, "ok")

\* A handler that leaves the handshake deadline on the socket.
SocksReplyDeadlineKept ==
  /\ proto = "socks5" /\ StartPumps
  /\ UNCHANGED <<proto, asked, route, deadline, cs, us, reserved, defers, peerVars, dataVars>>

\* A handshake read through a buffer that is then thrown away.
SocksReplyBuffered ==
  /\ proto = "socks5" /\ StartPumps
  /\ deadline' = "none" /\ rd' \in rd .. sent
  /\ UNCHANGED <<proto, asked, route, cs, us, reserved, defers, peerVars, answer, sent, got, eager>>

\* The deadline goes; the handshake read no byte too many.
SocksReply ==
  /\ proto = "socks5" /\ StartPumps
  /\ deadline' = "none"
  /\ UNCHANGED <<proto, asked, route, cs, us, reserved, defers, peerVars, dataVars>>

\* The client left while its upstream was dialled.
SocksReplyFails ==
  proto = "socks5" /\ pc = "reply" /\ client = "gone" /\ Silently /\ Rest

\* Hijack hands over the connection and what was read ahead of it, which the handler
\* drops; a failed write of the 200 goes unnoticed.
Hijack ==
  /\ proto = "connect" /\ StartPumps
  /\ cs' = "open" /\ rd' \in rd .. sent /\ defers' = defers \cup {"client"}
  /\ UNCHANGED <<proto, asked, route, deadline, us, reserved, peerVars, answer, sent, got, eager>>

HijackFails == proto = "connect" /\ pc = "reply" /\ Refuse /\ Rest

----------------------------------------------------------------------------
(* relayThroughWAN and directRelay.                                        *)

PumpRest ==
  UNCHANGED <<proto, pc, asked, route, deadline, reserved, defers, told, peerVars, sent, eager>>

UpRead ==
  /\ up = "copying" /\ cs = "open" /\ deadline # "passed" /\ client # "gone" /\ rd < sent
  /\ up' = "writing" /\ rd' = rd + 1
  /\ UNCHANGED <<down, cs, us, answer, got>> /\ PumpRest

\* An upstream that does not read blocks the write.
UpWrite ==
  /\ up = "writing" /\ ~jammed /\ upstream = "open"
  /\ up' = "copying" /\ got' = got \cup {rd}
  /\ UNCHANGED <<down, cs, us, answer, rd>> /\ PumpRest

\* Reading from the client, or writing to the upstream, is over.
UpOver ==
  \/ /\ up = "copying"
     /\ \/ cs = "closed" \/ client = "gone" \/ deadline = "passed"
        \/ client = "half" /\ rd = sent
  \/ up = "writing" /\ upstream = "gone"

\* A pump that leaves the other direction alone.
UpEndsAlone ==
  /\ UpOver
  /\ up' = "done"
  /\ UNCHANGED <<us, down, cs, answer, rd, got>> /\ PumpRest

\* The pump closes its destination, both directions of it.
UpEnds ==
  /\ UpOver
  /\ up' = "done" /\ us' = "closed"
  /\ UNCHANGED <<down, cs, answer, rd, got>> /\ PumpRest

DownRead ==
  /\ down = "copying" /\ us = "open" /\ answer = "pending"
  /\ down' = "writing" /\ answer' = "read"
  /\ UNCHANGED <<up, cs, us, rd, got>> /\ PumpRest

\* A client that does not read blocks the write.
DownWrite ==
  /\ down = "writing" /\ ~stuck /\ client # "gone"
  /\ down' = "copying" /\ answer' = "delivered"
  /\ UNCHANGED <<up, cs, us, rd, got>> /\ PumpRest

DownOver ==
  \/ down = "copying" /\ (us = "closed" \/ upstream = "gone")
  \/ down = "writing" /\ client = "gone"

DownEnds ==
  /\ DownOver
  /\ down' = "done" /\ cs' = "closed"
  /\ UNCHANGED <<up, us, answer, rd, got>> /\ PumpRest

\* Both pumps are through: counters, RecordSuccess, access log, deferred calls.
RelayEnds == pc = "relay" /\ up = "done" /\ down = "done" /\ Silently /\ Rest

----------------------------------------------------------------------------
(* The peers and the clock.                                                *)

\* The peers do not see the moment between the decision and the use of the route.
PeerRest ==
  /\ pc # "route"
  /\ UNCHANGED <<proto, pc, asked, route, cs, us, reserved, defers, told, up, down, rd, got>>

\* The payload follows the client's request, which the handler may not have read yet.
ClientSends ==
  /\ client = "open" /\ sent < MaxChunks /\ pc # "done"
  /\ sent' = sent + 1 /\ eager' = (eager \/ told = <<>>)
  /\ UNCHANGED <<deadline, peerVars, answer>> /\ PeerRest

\* The client is done sending, or with everything.
ClientLeaves ==
  /\ pc # "done"
  /\ \/ client = "open" /\ client' = "half"
     \/ client # "gone" /\ client' = "gone"
  /\ UNCHANGED <<deadline, stuck, upstream, jammed, answer, sent, eager>> /\ PeerRest

ClientStops ==
  /\ pc # "done" /\ ~stuck /\ stuck' = TRUE
  /\ UNCHANGED <<deadline, client, upstream, jammed, answer, sent, eager>> /\ PeerRest

UpstreamAnswers ==
  /\ pc = "relay" /\ upstream = "open" /\ us = "open" /\ answer = "none"
  /\ answer' = "pending"
  /\ UNCHANGED <<deadline, peerVars, sent, eager>> /\ PeerRest

UpstreamLeaves ==
  /\ pc # "done" /\ upstream = "open" /\ upstream' = "gone"
  /\ UNCHANGED <<deadline, client, stuck, jammed, answer, sent, eager>> /\ PeerRest

UpstreamStops ==
  /\ pc = "relay" /\ upstream = "open" /\ ~jammed /\ jammed' = TRUE
  /\ UNCHANGED <<deadline, client, stuck, upstream, answer, sent, eager>> /\ PeerRest

\* socksHandshakeTimeout.
DeadlinePasses ==
  /\ pc # "done" /\ deadline = "armed" /\ deadline' = "passed"
  /\ UNCHANGED <<peerVars, answer, sent, eager>> /\ PeerRest

\* The session is over; the process goes on with others.
Finished == pc = "done" /\ UNCHANGED vars

----------------------------------------------------------------------------
\* What the handler does on its own, or with what has arrived.
HandlerStep ==
  \/ ReadFails \/ HeadFails \/ NoWAN \/ Reserve \/ ConnectFails \/ UpshakeLost
  \/ SocksReply \/ SocksReplyFails \/ Hijack \/ RelayEnds

Pumps == UpRead \/ UpWrite \/ UpEnds \/ DownRead \/ DownWrite \/ DownEnds

Next ==
  \/ Greet \/ BadVersion \/ BadRequest \/ HeadBad \/ DecideRoute
  \/ ConnectOk \/ UpshakeOk \/ UpshakeRefused \/ HijackFails
  \/ HandlerStep \/ Pumps
  \/ ClientSends \/ ClientLeaves \/ ClientStops \/ UpstreamAnswers \/ UpstreamLeaves
  \/ UpstreamStops \/ DeadlinePasses \/ Finished

Spec == Init /\ [][Next]_vars

\* The goroutines of the handler run and time passes.  Nothing is assumed of the
\* client, of the target or of the slot's xray.
LiveSpec ==
  Spec /\ WF_vars(HandlerStep) /\ WF_vars(DeadlinePasses)
       /\ WF_vars(UpRead \/ UpWrite \/ UpEnds) /\ WF_vars(DownRead \/ DownWrite \/ DownEnds)

----------------------------------------------------------------------------
(* What routing means: the reference the router is compared with.          *)

Lowered(labels) == [i \in DOMAIN labels |-> ToLower(labels[i])]

\* An entry names a domain with all below it; a single label names one host.
Names(e, t) ==
  LET E == Lowered(e.labels)  T == Lowered(t.labels) IN
  ~e.comment /\ IF e.dotted \/ Len(E) > 1 THEN IsSuffix(E, T) ELSE E = T

Listed(entries, t) == \E e \in entries : Names(e, t)

ExpectedRoute(t) ==
  IF env.mode = "proxy-default" /\ Listed(env.directDomains \cup env.directFile, t) THEN "direct"
  ELSE IF env.mode = "direct-default" /\ ~Listed(env.proxyDomains \cup env.proxyFile, t) THEN "direct"
  ELSE "wan"

----------------------------------------------------------------------------
(* Properties.                                                             *)

\* For every target that can be dialled, that is with a port, the route is the one
\* its labels and the lists say, whatever the case, a trailing dot or the place of an
\* entry (Decide, matchesAny, normalizeHost, parseSuffixList, loadSuffixFile).
RouteAsListed == pc = "route" /\ target.port => route = ExpectedRoute(target)

\* However the session ends, the handler holds no socket and no reservation: by the time
\* it acquires one it has registered the call that gives it back on every later way out,
\* but for a dial that fails half-way and closes its connection itself.
Released == pc = "done" => ~reserved /\ us # "open" /\ cs # "open"

\* A relay is only cut because one of its ends stopped: the handshake deadline, passed
\* or not while the upstream was dialled, has no effect on it.
CutForCause == up = "done" \/ down = "done" => client # "open" \/ upstream = "gone"

\* The upstream gets the client's bytes without a gap, also those sent ahead of the
\* reply to a SOCKS5 request; over CONNECT, those of a client that waits for the 200.
NoGap ==
  proto = "socks5" \/ ~eager =>
    /\ got = 1 .. rd \/ got = 1 .. rd - 1
    /\ up = "copying" => got = 1 .. rd

\* A client still there at the end was told once how its request went, and it was told
\* of success exactly when its bytes were relayed.
Told ==
  /\ pc = "done" /\ route # "none" /\ client # "gone" => Len(told) = 1
  /\ told = <<"ok">> <=> up # "off"

\* A pump is blocked in a write to a peer that stays but does not read.
Blocked ==
  \/ down = "writing" /\ stuck /\ client # "gone"
  \/ up = "writing" /\ jammed /\ upstream = "open"

\* When one end of an established relay stops, the whole session ends, unless a pump is
\* blocked for good: closing a socket wakes the pump that reads it, and nothing wakes a writer.
OneEndEndsAll ==
  (pc = "relay" /\ (client # "open" \/ upstream = "gone")) ~> (pc = "done" \/ []Blocked)

\* A SOCKS5 client that stalls in the handshake is dropped.
StalledClientDropped == (pc \in Handshake) ~> (pc \notin Handshake)

\* A client that leaves is cleaned up after, unless the slot's xray owes the handler an
\* answer to its own SOCKS5 handshake or the upstream does not take what was sent.
ClientGoneEnds == (client = "gone") ~> (pc \in {"done", "upshake"} \/ Blocked)
=============================================================================
