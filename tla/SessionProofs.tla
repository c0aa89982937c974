---------------------------- MODULE SessionProofs ----------------------------
(***************************************************************************)
(* What one client connection promises, for every set of targets, every    *)
(* routing configuration and any number of chunks.                         *)
(***************************************************************************)
EXTENDS Session, SequenceTheorems, NaturalsInduction, WellFoundedInduction, TLAPS

----------------------------------------------------------------------------
(* The inductive invariant: what holds at which program point.             *)

Unrouted == Handshake \cup {"head"}
Undialled == Unrouted \cup {"route", "connect"}

\* The front end sets no deadline but the one of the SOCKS5 handshake, and that one
\* is gone when the pumps start.
DeadlineOK ==
  /\ proto = "connect" => deadline = "none"
  /\ up # "off" => deadline = "none"

\* The route is known, the slot reserved and the upstream socket open exactly from
\* the point on where the handler decides, reserves and dials.
HandlerOK ==
  /\ pc \in Unrouted => route = "none" /\ ~reserved
  /\ pc = "route" => ~reserved
  /\ pc \notin Unrouted \cup {"done"} => route # "none"
  /\ pc \in Undialled => us = "none"
  /\ pc \in {"upshake", "reply"} => us = "open"
  /\ pc \notin {"relay", "done"} => cs = (IF proto = "socks5" THEN "open" ELSE "http")
  /\ pc = "done" => ~reserved /\ us # "open" /\ cs # "open"

\* The client is answered once: with success where the pumps start, or with a refusal
\* where the handler returns.
ReplyOK ==
  /\ pc \notin {"relay", "done"} => told = <<>>
  /\ pc = "relay" => told = <<"ok">>
  /\ up # "off" <=> told = <<"ok">>
  /\ pc = "done" /\ route # "none" /\ client # "gone" => told # <<>>

\* The pumps start together, the handler outlives them, a socket closed under a pump
\* was closed by the other one, and the first to end had a reason.
PumpsOK ==
  /\ up = "off" <=> down = "off"
  /\ pc = "done" => up \in {"off", "done"} /\ down \in {"off", "done"}
  /\ up # "off" => /\ us = "closed" => up = "done"
                   /\ cs = "closed" => down = "done"
                   /\ us # "none" /\ cs # "http"
  /\ up = "done" \/ down = "done" => client # "open" \/ upstream = "gone"

\* What the upstream got is a prefix of what was taken off the client socket, and all
\* of it but the chunk the pump holds.
DataOK ==
  /\ up = "off" => rd = 0 /\ got = {}
  /\ up = "writing" => rd > 0
  /\ told = <<>> /\ ~eager => sent = 0
  /\ proto = "socks5" \/ ~eager =>
       /\ up = "copying" => got = 1 .. rd
       /\ up = "writing" => got = 1 .. rd - 1
       /\ got = 1 .. rd \/ got = 1 .. rd - 1

\* What the handler has acquired it has registered the release of, except for the
\* connection to the slot's xray while socks5Dial still owns it.
DefersOK ==
  pc # "done" =>
    /\ reserved => "endWAN" \in defers
    /\ us = "open" /\ pc # "upshake" => "upstream" \in defers
    /\ cs = "open" => "client" \in defers

SessionInv ==
  TypeOK /\ DeadlineOK /\ HandlerOK /\ ReplyOK /\ PumpsOK /\ DataOK /\ DefersOK

----------------------------------------------------------------------------
(* Replies and ways out.                                                   *)

\* The replies as sequences.
LEMMA OneReply ==
  /\ Append(<<>>, "ok") = <<"ok">> /\ Append(<<>>, "refused") = <<"refused">>
  /\ <<"ok">> # <<>> /\ <<"refused">> # <<>> /\ <<"ok">> # <<"refused">>
  /\ Len(<<"ok">>) = 1 /\ Len(<<"refused">>) = 1
OBVIOUS

USE DEF SessionInv

\* The router answers with one of two routes, whatever it is asked.
LEMMA RouteDecided ==
  ASSUME NEW r, NEW t PROVE decideRoute(r, t) \in {"wan", "direct"}
BY DEF decideRoute, Decide

\* Where a handler returns, what it holds is released by what it has deferred, or
\* by socks5Dial itself.
LEMMA ReturnReleases ==
  ASSUME SessionInv, NEW closed, pc # "done", pc = "upshake" => "upstream" \in closed,
         ReturnAfter(closed)
  PROVE  /\ pc' = "done" /\ ~reserved' /\ reserved' \in BOOLEAN /\ defers' = {}
         /\ us' \in {"none", "closed"} /\ us' = (IF us = "open" THEN "closed" ELSE us)
         /\ cs' \in {"http", "closed"} /\ cs' = (IF cs = "open" THEN "closed" ELSE cs)
         /\ env' = NoEnv /\ target' = NoTarget
<1>1. /\ reserved => "endWAN" \in defers
      /\ us = "open" => "upstream" \in defers \cup closed
      /\ cs = "open" => "client" \in defers
  BY DEF DefersOK
<1>2. ~reserved' /\ reserved' \in BOOLEAN
  <2>1. reserved' = (reserved /\ "endWAN" \notin defers)
    BY Zenon DEF ReturnAfter
  <2> QED
    BY Zenon, <1>1, <2>1
<1>3. us' = (IF us = "open" THEN "closed" ELSE us) /\ cs' = (IF cs = "open" THEN "closed" ELSE cs)
  BY <1>1 DEF ReturnAfter
<1> QED
  BY <1>2, <1>3 DEF ReturnAfter, Settled, TypeOK

\* Returning with a refusal, before the pumps have started.
LEMMA RefusalKeeps ==
  ASSUME SessionInv, NEW closed, pc = "upshake" => "upstream" \in closed,
         ReturnAfter(closed), told' = Append(told, "refused"), Rest, pc \notin {"relay", "done"}
  PROVE  SessionInv'
<1> USE DEF Rest, asked, peerVars, dataVars
<1>1. pc' = "done" /\ ~reserved' /\ reserved' \in BOOLEAN /\ defers' = {}
  BY ReturnReleases
<1>2. /\ us' \in {"none", "closed"} /\ us' = (IF us = "open" THEN "closed" ELSE us)
      /\ cs' \in {"http", "closed"} /\ cs' = (IF cs = "open" THEN "closed" ELSE cs)
      /\ env' = NoEnv /\ target' = NoTarget
  BY ReturnReleases
<1>3. told' = <<"refused">> /\ up' = "off" /\ down' = "off"
  BY OneReply DEF ReplyOK, PumpsOK
<1>4. TypeOK' /\ DeadlineOK' /\ HandlerOK' /\ DefersOK'
  BY <1>1, <1>2, <1>3
  DEF TypeOK, DeadlineOK, HandlerOK, DefersOK, Points, Unrouted, Undialled, Handshake, ReplyOK
<1>5. ReplyOK' /\ PumpsOK' /\ DataOK'
  BY <1>1, <1>2, <1>3, OneReply DEF TypeOK, ReplyOK, PumpsOK, DataOK, HandlerOK
<1> QED
  BY <1>4, <1>5

LEMMA RefuseKeeps ==
  SessionInv /\ Refuse /\ Rest /\ pc \notin {"upshake", "relay", "done"} => SessionInv'
BY RefusalKeeps DEF Refuse, Return

LEMMA RefuseUndialledKeeps ==
  SessionInv /\ RefuseUndialled /\ Rest /\ pc = "upshake" => SessionInv'
BY RefusalKeeps DEF RefuseUndialled

\* Returning without a word, to a client that asked for nothing yet or has left.
LEMMA SilentlyKeeps ==
  /\ SessionInv /\ Silently /\ Rest
  /\ pc \notin {"upshake", "relay", "done"} /\ (route = "none" \/ client = "gone")
  => SessionInv'
<1> SUFFICES ASSUME SessionInv, Silently, Rest,
                    pc \notin {"upshake", "relay", "done"}, route = "none" \/ client = "gone"
             PROVE  SessionInv'
  OBVIOUS
<1> USE DEF Rest, asked, peerVars, dataVars
<1>0. ReturnAfter({}) /\ told' = told
  BY DEF Silently, Return
<1>1. pc' = "done" /\ ~reserved' /\ reserved' \in BOOLEAN /\ defers' = {}
  BY <1>0, ReturnReleases
<1>2. /\ us' \in {"none", "closed"} /\ us' = (IF us = "open" THEN "closed" ELSE us)
      /\ cs' \in {"http", "closed"} /\ cs' = (IF cs = "open" THEN "closed" ELSE cs)
      /\ env' = NoEnv /\ target' = NoTarget
  BY <1>0, ReturnReleases
<1>3. told' = told /\ up' = "off" /\ down' = "off"
  BY <1>0, OneReply DEF ReplyOK, PumpsOK
<1>4. TypeOK' /\ DeadlineOK' /\ HandlerOK' /\ DefersOK'
  BY <1>1, <1>2, <1>3
  DEF TypeOK, DeadlineOK, HandlerOK, DefersOK, Points, Unrouted, Undialled, Handshake, ReplyOK
<1>5. ReplyOK' /\ PumpsOK' /\ DataOK'
  BY <1>1, <1>2, <1>3, OneReply DEF TypeOK, ReplyOK, PumpsOK, DataOK, HandlerOK
<1> QED
  BY <1>4, <1>5

\* Returning from a relay whose pumps have both ended.
LEMMA RelayEndsKeeps == SessionInv /\ RelayEnds => SessionInv'
<1> SUFFICES ASSUME SessionInv, RelayEnds PROVE SessionInv'
  OBVIOUS
<1> USE DEF Rest, asked, peerVars, dataVars
<1>0. /\ ReturnAfter({}) /\ told' = told /\ Rest
      /\ pc = "relay" /\ up = "done" /\ down = "done"
  BY DEF RelayEnds, Silently, Return
<1>1. pc' = "done" /\ ~reserved' /\ reserved' \in BOOLEAN /\ defers' = {}
  BY <1>0, ReturnReleases
<1>2. /\ us' \in {"none", "closed"} /\ us' = (IF us = "open" THEN "closed" ELSE us)
      /\ cs' \in {"http", "closed"} /\ cs' = (IF cs = "open" THEN "closed" ELSE cs)
      /\ env' = NoEnv /\ target' = NoTarget
  BY <1>0, ReturnReleases
<1>3. told' = <<"ok">> /\ up' = "done" /\ down' = "done"
  BY <1>0, OneReply DEF ReplyOK, PumpsOK
<1>4. TypeOK' /\ DeadlineOK' /\ HandlerOK' /\ DefersOK'
  BY <1>0, <1>1, <1>2, <1>3
  DEF TypeOK, DeadlineOK, HandlerOK, DefersOK, Points, Unrouted, Undialled, Handshake, ReplyOK
<1>5. ReplyOK' /\ PumpsOK' /\ DataOK'
  BY <1>0, <1>1, <1>2, <1>3, OneReply DEF TypeOK, ReplyOK, PumpsOK, DataOK, HandlerOK
<1> QED
  BY <1>4, <1>5

----------------------------------------------------------------------------
(* Front ends and route.                                                   *)

\* The only step that looks into the settings: it leaves one of two routes.
LEMMA DecideRouteKeeps == SessionInv /\ DecideRoute => SessionInv'
<1> SUFFICES ASSUME SessionInv, DecideRoute PROVE SessionInv'
  OBVIOUS
<1>1. /\ route' \in {"wan", "direct"} /\ pc' = "route" /\ pc \in {"address", "head"}
      /\ env' \in Envs /\ target' \in Targets
      /\ UNCHANGED <<proto, deadline, cs, us, reserved, defers, told, up, down, peerVars, dataVars>>
  BY RouteDecided DEF DecideRoute, Step
<1> QED
  BY <1>1 DEF TypeOK, DeadlineOK, HandlerOK, ReplyOK, PumpsOK, DataOK, DefersOK, Unrouted, Undialled,
    Handshake, Points, asked, peerVars, dataVars

\* The handshake, the request and what is wrong with them.
LEMMA FrontEndKeeps ==
  SessionInv /\ (\/ Greet \/ BadVersion \/ BadRequest \/ HeadBad
                 \/ ReadFails \/ HeadFails \/ NoWAN \/ Reserve) => SessionInv'
<1>1. SessionInv /\ Greet => SessionInv'
  BY OneReply, MaxChunksAssumption
  DEF Greet, Step, Rest, TypeOK, DeadlineOK, HandlerOK, ReplyOK, PumpsOK, DataOK, DefersOK,
      Unrouted, Undialled, Handshake, Points, asked, peerVars, dataVars
<1>2. SessionInv /\ BadVersion => SessionInv'
  BY SilentlyKeeps DEF BadVersion, Unrouted, Handshake, HandlerOK
<1>3. SessionInv /\ BadRequest => SessionInv'
  BY RefuseKeeps DEF BadRequest
<1>4. SessionInv /\ HeadBad => SessionInv'
  BY RefuseKeeps DEF HeadBad
<1>5. SessionInv /\ ReadFails => SessionInv'
  BY SilentlyKeeps, RefuseKeeps DEF ReadFails, Unrouted, Handshake, HandlerOK
<1>6. SessionInv /\ HeadFails => SessionInv'
  BY SilentlyKeeps DEF HeadFails, Unrouted, Handshake, HandlerOK
<1>7. SessionInv /\ NoWAN => SessionInv'
  BY RefuseKeeps DEF NoWAN
<1>8. SessionInv /\ Reserve => SessionInv'
  BY OneReply, MaxChunksAssumption
  DEF Reserve, Deferrable, Step, Settled, Rest, TypeOK, DeadlineOK, HandlerOK, ReplyOK, PumpsOK, DataOK, DefersOK,
      Unrouted, Undialled, Handshake, Points, asked, peerVars, dataVars
<1> QED
  BY <1>1, <1>2, <1>3, <1>4, <1>5, <1>6, <1>7, <1>8

----------------------------------------------------------------------------
(* Dial and reply.                                                         *)

\* The dial, and the SOCKS5 handshake with the slot's xray.
LEMMA DialKeeps ==
  SessionInv /\ (\/ ConnectOk \/ ConnectFails \/ UpshakeOk
                 \/ UpshakeRefused \/ UpshakeLost) => SessionInv'
<1>1. SessionInv /\ ConnectOk => SessionInv'
  BY OneReply, MaxChunksAssumption
  DEF ConnectOk, DeferIfDialled, Deferrable, TypeOK, DeadlineOK, HandlerOK, ReplyOK, PumpsOK, DataOK, DefersOK,
      Unrouted, Undialled, Handshake, Points, asked, peerVars, dataVars
<1>2. SessionInv /\ ConnectFails => SessionInv'
  BY RefuseKeeps DEF ConnectFails
<1>3. SessionInv /\ UpshakeOk => SessionInv'
  BY OneReply, MaxChunksAssumption
  DEF UpshakeOk, Deferrable, Step, Rest, TypeOK, DeadlineOK, HandlerOK, ReplyOK, PumpsOK, DataOK, DefersOK,
      Unrouted, Undialled, Handshake, Points, asked, peerVars, dataVars
<1>4. SessionInv /\ UpshakeRefused => SessionInv'
  BY RefuseUndialledKeeps DEF UpshakeRefused
<1>5. SessionInv /\ UpshakeLost => SessionInv'
  BY RefuseUndialledKeeps DEF UpshakeLost
<1> QED
  BY <1>1, <1>2, <1>3, <1>4, <1>5

\* The SOCKS5 reply starts the pumps with nothing read off the client socket.
LEMMA SocksReplyKeeps == SessionInv /\ SocksReply => SessionInv'
<1> SUFFICES ASSUME SessionInv, SocksReply PROVE SessionInv'
  OBVIOUS
<1> USE OneReply, MaxChunksAssumption
  DEF SocksReply, StartPumps, Step, asked, peerVars, dataVars
<1>1. TypeOK'
  BY DEF TypeOK, Points, Handshake, ReplyOK, PumpsOK
<1>2. DeadlineOK'
  BY DEF TypeOK, DeadlineOK
<1>3. HandlerOK'
  BY DEF TypeOK, HandlerOK, Unrouted, Undialled, Handshake
<1>4. ReplyOK'
  BY DEF TypeOK, ReplyOK
<1>5. PumpsOK'
  BY DEF TypeOK, PumpsOK, HandlerOK, ReplyOK, Unrouted, Undialled, Handshake
<1>6. DataOK'
  BY DEF TypeOK, DataOK, PumpsOK, ReplyOK
<1>7. DefersOK'
  BY DEF TypeOK, DefersOK, PumpsOK, HandlerOK
<1> QED
  BY <1>1, <1>2, <1>3, <1>4, <1>5, <1>6, <1>7

\* So does the 200, but what Hijack read ahead is lost, unless the client waited.
LEMMA HijackKeeps == SessionInv /\ Hijack => SessionInv'
<1> SUFFICES ASSUME SessionInv, Hijack PROVE SessionInv'
  OBVIOUS
<1> USE OneReply, MaxChunksAssumption
  DEF Hijack, StartPumps, Step, asked, peerVars, dataVars
<1>1. TypeOK'
  BY DEF TypeOK, Deferrable, Points, Handshake, ReplyOK, PumpsOK
<1>2. DeadlineOK'
  BY DEF TypeOK, DeadlineOK
<1>3. HandlerOK'
  BY DEF TypeOK, HandlerOK, Unrouted, Undialled, Handshake
<1>4. ReplyOK'
  BY DEF TypeOK, ReplyOK
<1>5. PumpsOK'
  BY DEF TypeOK, PumpsOK, HandlerOK, ReplyOK, Unrouted, Undialled, Handshake
<1>6. DataOK'
  BY DEF TypeOK, DataOK, PumpsOK, ReplyOK
<1>7. DefersOK'
  BY DEF TypeOK, DefersOK, PumpsOK, HandlerOK
<1> QED
  BY <1>1, <1>2, <1>3, <1>4, <1>5, <1>6, <1>7

\* A reply that cannot be sent.
LEMMA ReplyFailsKeeps ==
  SessionInv /\ (SocksReplyFails \/ HijackFails) => SessionInv'
<1>1. SessionInv /\ SocksReplyFails => SessionInv'
  BY SilentlyKeeps DEF SocksReplyFails
<1>2. SessionInv /\ HijackFails => SessionInv'
  BY RefuseKeeps DEF HijackFails
<1> QED
  BY <1>1, <1>2

----------------------------------------------------------------------------
(* The relay.                                                              *)

\* The chunk the pump held reaches the upstream.
LEMMA UpWriteKeeps == SessionInv /\ UpWrite => SessionInv'
<1> SUFFICES ASSUME SessionInv, UpWrite PROVE SessionInv'
  OBVIOUS
<1> USE OneReply, MaxChunksAssumption
  DEF UpWrite, PumpRest, asked, peerVars, dataVars
<1>1. TypeOK'
  BY DEF TypeOK, Points, Handshake, DataOK
<1>2. DeadlineOK'
  BY DEF TypeOK, DeadlineOK
<1>3. HandlerOK'
  BY DEF TypeOK, HandlerOK, Unrouted, Undialled, Handshake
<1>4. ReplyOK'
  BY DEF TypeOK, ReplyOK
<1>5. PumpsOK'
  BY DEF TypeOK, PumpsOK, HandlerOK, ReplyOK, Unrouted, Undialled, Handshake
<1>6. DataOK'
  <2>1. rd' = rd /\ got' = got \cup {rd} /\ up' = "copying" /\ up = "writing" /\ rd \in Nat \ {0}
    BY DEF TypeOK, DataOK
  <2>2. got = 1 .. rd - 1 => got' = 1 .. rd
    BY <2>1
  <2> QED
    BY <2>1, <2>2 DEF DataOK
<1>7. DefersOK'
  BY DEF TypeOK, DefersOK, PumpsOK, HandlerOK
<1> QED
  BY <1>1, <1>2, <1>3, <1>4, <1>5, <1>6, <1>7

\* The two copying goroutines.
LEMMA PumpsKeep ==
  SessionInv /\ (UpRead \/ UpWrite \/ UpEnds \/ DownRead \/ DownWrite \/ DownEnds) => SessionInv'
<1> USE OneReply, MaxChunksAssumption
  DEF TypeOK, DeadlineOK, HandlerOK, ReplyOK, PumpsOK, DataOK, DefersOK, Unrouted, Undialled, Handshake,
      Points, asked, peerVars, dataVars
<1>1. SessionInv /\ UpRead => SessionInv'
  BY DEF UpRead, PumpRest
<1>2. SessionInv /\ UpWrite => SessionInv'
  BY UpWriteKeeps
<1>3. SessionInv /\ UpEnds => SessionInv'
  BY DEF UpEnds, UpOver, PumpRest
<1>4. SessionInv /\ DownRead => SessionInv'
  BY DEF DownRead, PumpRest
<1>5. SessionInv /\ DownWrite => SessionInv'
  BY DEF DownWrite, PumpRest
<1>6. SessionInv /\ DownEnds => SessionInv'
  <2> SUFFICES ASSUME SessionInv, DownEnds PROVE SessionInv'
    OBVIOUS
  <2>1. down # "off" /\ up # "off" /\ pc = "relay"
    BY DEF DownEnds, DownOver
  <2>2. us = "closed" \/ upstream = "gone" \/ client = "gone"
    BY DEF DownEnds, DownOver
  <2>3. /\ down' = "done" /\ cs' = "closed"
        /\ UNCHANGED <<up, us, answer, rd, got>> /\ PumpRest
    BY DEF DownEnds
  <2> QED
    BY <2>1, <2>2, <2>3 DEF PumpRest
<1> QED
  BY <1>1, <1>2, <1>3, <1>4, <1>5, <1>6

----------------------------------------------------------------------------
(* The peers and the clock.                                                *)

\* A chunk sent before the reply makes the client eager.
LEMMA ClientSendsKeeps == SessionInv /\ ClientSends => SessionInv'
<1> SUFFICES ASSUME SessionInv, ClientSends PROVE SessionInv'
  OBVIOUS
<1> USE OneReply, MaxChunksAssumption
  DEF ClientSends, PeerRest, asked, peerVars, dataVars
<1>1. TypeOK'
  BY DEF TypeOK, Points, Handshake, ReplyOK, PumpsOK
<1>2. DeadlineOK'
  BY DEF TypeOK, DeadlineOK
<1>3. HandlerOK'
  BY DEF TypeOK, HandlerOK, Unrouted, Undialled, Handshake
<1>4. ReplyOK'
  BY DEF TypeOK, ReplyOK
<1>5. PumpsOK'
  BY DEF TypeOK, PumpsOK, HandlerOK, ReplyOK, Unrouted, Undialled, Handshake
<1>6. DataOK'
  BY DEF TypeOK, DataOK, PumpsOK, ReplyOK
<1>7. DefersOK'
  BY DEF TypeOK, DefersOK, PumpsOK, HandlerOK
<1> QED
  BY <1>1, <1>2, <1>3, <1>4, <1>5, <1>6, <1>7

\* What the peers and the clock do.
LEMMA PeersKeep ==
  SessionInv /\ (\/ ClientSends \/ ClientLeaves \/ ClientStops \/ UpstreamAnswers
                 \/ UpstreamLeaves \/ UpstreamStops \/ DeadlinePasses) => SessionInv'
<1> USE OneReply, MaxChunksAssumption
  DEF TypeOK, DeadlineOK, HandlerOK, ReplyOK, PumpsOK, DataOK, DefersOK, Unrouted, Undialled, Handshake,
      Points, asked, peerVars, dataVars
<1>1. SessionInv /\ ClientSends => SessionInv'
  BY ClientSendsKeeps
<1>2. SessionInv /\ ClientLeaves => SessionInv'
  BY DEF ClientLeaves, PeerRest
<1>3. SessionInv /\ ClientStops => SessionInv'
  BY DEF ClientStops, PeerRest
<1>4. SessionInv /\ UpstreamAnswers => SessionInv'
  BY DEF UpstreamAnswers, PeerRest
<1>5. SessionInv /\ UpstreamLeaves => SessionInv'
  BY DEF UpstreamLeaves, PeerRest
<1>6. SessionInv /\ UpstreamStops => SessionInv'
  BY DEF UpstreamStops, PeerRest
<1>7. SessionInv /\ DeadlinePasses => SessionInv'
  BY DEF DeadlinePasses, PeerRest
<1> QED
  BY <1>1, <1>2, <1>3, <1>4, <1>5, <1>6, <1>7

----------------------------------------------------------------------------
(* The theorems.                                                           *)

\* The invariant holds in every state a session can reach.
LEMMA SessionInvariant == Spec => []SessionInv
<1>1. Init => SessionInv
  <2> SUFFICES ASSUME Init PROVE SessionInv
    OBVIOUS
  <2>1. /\ ~reserved /\ reserved \in BOOLEAN /\ stuck \in BOOLEAN /\ jammed \in BOOLEAN
        /\ eager \in BOOLEAN
    BY Zenon DEF Init
  <2>2. TypeOK
    BY <2>1, MaxChunksAssumption DEF Init, TypeOK, Deferrable, Points, Handshake
  <2>3. DeadlineOK /\ HandlerOK
    BY <2>1 DEF Init, DeadlineOK, HandlerOK, Unrouted, Undialled, Handshake
  <2>4. ReplyOK /\ PumpsOK /\ DataOK
    BY OneReply DEF Init, ReplyOK, PumpsOK, DataOK
  <2>5. DefersOK
    BY <2>1 DEF Init, DefersOK
  <2> QED
    BY <2>2, <2>3, <2>4, <2>5
<1>2. SessionInv /\ [Next]_vars => SessionInv'
  <2>1. SessionInv /\ UNCHANGED vars => SessionInv'
    BY DEF vars, TypeOK, DeadlineOK, HandlerOK, ReplyOK, PumpsOK, DataOK, DefersOK, Unrouted, Undialled,
    Handshake, Points, asked, peerVars, dataVars
  <2>2. SessionInv /\ Finished => SessionInv'
    BY <2>1 DEF Finished
  <2> QED
    BY <2>1, <2>2, DecideRouteKeeps, FrontEndKeeps, DialKeeps, SocksReplyKeeps, HijackKeeps,
       ReplyFailsKeeps, RelayEndsKeeps, PumpsKeep, PeersKeep
    DEF Next, HandlerStep, Pumps
<1> QED
  BY <1>1, <1>2, PTL DEF Spec

\* On every path out of the handler both sockets it owns are closed and the connection is
\* no longer counted on the slot: at each return of handleSocksConn and handleConnect the
\* calls deferred by then cover what was acquired by then.
THEOREM SocketsReleased == Spec => []Released
<1>1. SessionInv => Released
  BY DEF HandlerOK, Released
<1> QED
  BY <1>1, SessionInvariant, PTL

\* A pump ends first only when the client or the upstream stopped: neither the deadline
\* of the handshake nor a pump that still works ever cuts a relay (relayThroughWAN).
THEOREM RelayCutForCause == Spec => []CutForCause
<1>1. SessionInv => CutForCause
  BY DEF PumpsOK, CutForCause
<1> QED
  BY <1>1, SessionInvariant, PTL

\* The upstream receives the chunks in order and without a gap, up to the one the pump
\* holds, over SOCKS5 always and over CONNECT for a client that waits for the 200.
THEOREM DeliveredWithoutGap == Spec => []NoGap
<1>1. SessionInv => NoGap
  BY DEF DataOK, NoGap
<1> QED
  BY <1>1, SessionInvariant, PTL

\* The client is told once, and of success exactly when its bytes are relayed.
THEOREM ToldOnce == Spec => []Told
<1>1. SessionInv => Told
  BY OneReply DEF TypeOK, ReplyOK, Told
<1> QED
  BY <1>1, SessionInvariant, PTL

----------------------------------------------------------------------------
(* Sequences: induction, suffixes and a mark between two texts.             *)

\* Induction over a set of numbers.
LEMMA SetInduction ==
  ASSUME NEW P \in SUBSET Nat, 0 \in P, \A n \in P : n + 1 \in P
  PROVE  P = Nat
<1> DEFINE Rest0 == Nat \ P
<1>1. SUFFICES ASSUME Rest0 # {} PROVE FALSE
  BY DEF Rest0
<1>2. PICK x \in Rest0 : \A y \in Rest0 : ~(<<y, x>> \in OpToRel(<, Nat))
  BY <1>1, NatLessThanWellFounded, WFMin, Zenon
<1>3. x \in Nat /\ x # 0 /\ x \notin P
  OBVIOUS
<1>3a. x - 1 \in Nat /\ x - 1 < x /\ (x - 1) + 1 = x
  BY <1>3
<1>4. x - 1 \notin Rest0
  BY <1>2, <1>3, <1>3a, Zenon DEF OpToRel
<1>5. (x - 1) + 1 \in P
  BY <1>3a, <1>4
<1> QED
  BY <1>3, <1>3a, <1>5

\* The recursive function Joined exists and does what its equation says.
LEMMA JoinedDef ==
  ASSUME NEW L, Len(L) \in Nat
  PROVE  /\ DOMAIN Joined(L) = 0 .. Len(L)
         /\ Joined(L)[0] = <<>>
         /\ \A n \in 1 .. Len(L) : Joined(L)[n] = Joined(L)[n - 1] \o <<Dot>> \o L[n]
<1> DEFINE Eq(n, g) == g = [k \in 0 .. n |-> IF k = 0 THEN <<>> ELSE g[k - 1] \o <<Dot>> \o L[k]]
           P == {n \in Nat : \E g : Eq(n, g)}
<1>1. 0 \in P
  <2> DEFINE g == [k \in 0 .. 0 |-> <<>>]
  <2>1. Eq(0, g)
    OBVIOUS
  <2> QED
    BY <2>1
<1>2. ASSUME NEW n \in P PROVE n + 1 \in P
  <2>1. PICK g : Eq(n, g)
    OBVIOUS
  <2> DEFINE h == [k \in 0 .. n + 1 |-> IF k = n + 1 THEN g[n] \o <<Dot>> \o L[n + 1] ELSE g[k]]
  <2>2. \A k \in 0 .. n : h[k] = g[k]
    OBVIOUS
  <2>3. \A k \in 1 .. n : g[k] = g[k - 1] \o <<Dot>> \o L[k]
    BY <2>1
  <2>4. g[0] = <<>>
    BY <2>1
  <2>5. n \in Nat
    OBVIOUS
  <2>8. n + 1 \in 0 .. n + 1 /\ n \in 0 .. n
    BY <2>5
  <2>9. h[n + 1] = g[n] \o <<Dot>> \o L[n + 1]
    BY <2>8
  <2>10. h = [k \in 0 .. n + 1 |-> h[k]]
    OBVIOUS
  <2> HIDE DEF h
  <2>6. ASSUME NEW k \in 0 .. n + 1
        PROVE  h[k] = IF k = 0 THEN <<>> ELSE h[k - 1] \o <<Dot>> \o L[k]
    <3>1. CASE k = 0
      BY <3>1, <2>2, <2>4, <2>5
    <3>2. CASE k \in 1 .. n
      <4>1. k \in 0 .. n /\ k - 1 \in 0 .. n /\ k # 0
        BY <3>2, <2>5
      <4>2. h[k] = g[k] /\ h[k - 1] = g[k - 1]
        BY <4>1, <2>2, Zenon
      <4>3. g[k] = g[k - 1] \o <<Dot>> \o L[k]
        BY <3>2, <2>3, Zenon
      <4> QED
        BY <4>1, <4>2, <4>3, Zenon
    <3>3. CASE k = n + 1
      <4>1. k - 1 = n /\ k # 0
        BY <3>3, <2>5
      <4>2. h[k - 1] = g[n]
        BY <4>1, <2>2, <2>8
      <4> QED
        BY <3>3, <4>1, <4>2, <2>9, Zenon
    <3> QED
      BY <3>1, <3>2, <3>3
  <2>7. Eq(n + 1, h)
    BY <2>10, <2>6
  <2> HIDE DEF Eq
  <2>11. n + 1 \in Nat /\ \E f : Eq(n + 1, f)
    BY <2>5, <2>7
  <2> QED
    BY <2>11
<1>3. P = Nat
  <2> HIDE DEF P
  <2>1. P \in SUBSET Nat
    BY DEF P
  <2> QED
    BY <1>1, <1>2, <2>1, SetInduction
<1>4. \E g : Eq(Len(L), g)
  BY <1>3
<1>5. Eq(Len(L), Joined(L))
  BY <1>4 DEF Joined
<1> HIDE DEF P
<1> QED
  BY <1>5

\* ... up to a bound.
LEMMA BoundedInduction ==
  ASSUME NEW N \in Nat, NEW P \in SUBSET Nat, 0 \in P, \A n \in P : n < N => n + 1 \in P
  PROVE  \A n \in 0 .. N : n \in P
<1> DEFINE Q == P \cup {n \in Nat : n > N}
<1>1. 0 \in Q /\ Q \in SUBSET Nat
  OBVIOUS
<1>2. ASSUME NEW n \in Q PROVE n + 1 \in Q
  BY <1>2
<1>3. Q = Nat
  <2> HIDE DEF Q
  <2> QED
    BY <1>1, <1>2, SetInduction
<1> QED
  BY <1>3

\* The text t ends with the text s, counted from the end.
EndsWith(s, t) ==
  Len(s) <= Len(t) /\ \A j \in 0 .. Len(s) - 1 : s[Len(s) - j] = t[Len(t) - j]

\* A suffix, compared from the end.
LEMMA SuffixFromEnd ==
  ASSUME NEW S, NEW s \in Seq(S), NEW t \in Seq(S)
  PROVE  IsSuffix(s, t) <=> EndsWith(s, t)
<1> DEFINE r == Reverse(s)
           q == Reverse(t)
<1>1. /\ r \in Seq(S) /\ Len(r) = Len(s) /\ \A i \in 1 .. Len(s) : r[i] = s[(Len(s) - i) + 1]
      /\ q \in Seq(S) /\ Len(q) = Len(t) /\ \A i \in 1 .. Len(t) : q[i] = t[(Len(t) - i) + 1]
  BY DEF Reverse
<1>2. IsSuffix(s, t) <=> IsPrefix(r, q)
  BY DEF IsSuffix
<1> HIDE DEF r, q
<1>3. Len(s) <= Len(t) => (SubSeq(r, 1, Len(r)) = SubSeq(q, 1, Len(r))
                             <=> \A i \in 1 .. Len(s) : r[i] = q[i])
  BY <1>1
<1>4. Len(s) <= Len(t) => ((\A i \in 1 .. Len(s) : r[i] = q[i])
                             <=> \A j \in 0 .. Len(s) - 1 : s[Len(s) - j] = t[Len(t) - j])
  <2>1. SUFFICES ASSUME Len(s) <= Len(t)
                 PROVE  (\A i \in 1 .. Len(s) : r[i] = q[i])
                          <=> \A j \in 0 .. Len(s) - 1 : s[Len(s) - j] = t[Len(t) - j]
    OBVIOUS
  <2>2. Len(s) \in Nat /\ Len(t) \in Nat
    OBVIOUS
  <2>3. ASSUME NEW j \in 0 .. Len(s) - 1
        PROVE  /\ j + 1 \in 1 .. Len(s)
               /\ r[j + 1] = s[Len(s) - j] /\ q[j + 1] = t[Len(t) - j]
    <3>1. j + 1 \in 1 .. Len(s) /\ j + 1 \in 1 .. Len(t)
      BY <2>1, <2>2
    <3>2. (Len(s) - (j + 1)) + 1 = Len(s) - j /\ (Len(t) - (j + 1)) + 1 = Len(t) - j
      BY <2>2
    <3> QED
      BY <1>1, <3>1, <3>2
  <2>4. \A i \in 1 .. Len(s) : i - 1 \in 0 .. Len(s) - 1 /\ (i - 1) + 1 = i
    BY <2>2
  <2> QED
    BY <2>3, <2>4
<1> QED
  BY <1>1, <1>2, <1>3, <1>4 DEF IsPrefix, EndsWith

\* A text followed by a mark and another text, element by element from its start.
LEMMA MarkedText ==
  ASSUME NEW S, NEW a \in Seq(S), NEW x \in S, NEW l \in Seq(S),
         NEW s, s = a \o <<x>> \o l
  PROVE  /\ s \in Seq(S) /\ Len(s) = Len(a) + 1 + Len(l)
         /\ \A i \in 1 .. Len(a) : s[i] = a[i]
         /\ s[Len(a) + 1] = x
         /\ \A i \in 1 .. Len(l) : s[Len(a) + 1 + i] = l[i]
<1> DEFINE b == a \o <<x>>
<1>1. /\ b \in Seq(S) /\ Len(b) = Len(a) + 1 /\ b[Len(a) + 1] = x
      /\ \A i \in 1 .. Len(a) : b[i] = a[i]
  OBVIOUS
<1>2. s = b \o l
  OBVIOUS
<1> HIDE DEF b
<1>3. /\ s \in Seq(S) /\ Len(s) = Len(b) + Len(l)
      /\ \A i \in 1 .. Len(b) : s[i] = b[i]
      /\ \A i \in 1 .. Len(l) : s[Len(b) + i] = l[i]
  BY <1>1, <1>2
<1> QED
  BY <1>1, <1>3

\* ... and from its end.
LEMMA MarkedEnd ==
  ASSUME NEW S, NEW a \in Seq(S), NEW x \in S, NEW l \in Seq(S),
         NEW s, s = a \o <<x>> \o l
  PROVE  /\ \A j \in 0 .. Len(l) - 1 : s[Len(s) - j] = l[Len(l) - j]
         /\ s[Len(s) - Len(l)] = x
         /\ \A j \in 0 .. Len(a) - 1 : s[Len(s) - (Len(l) + 1 + j)] = a[Len(a) - j]
<1>1. /\ Len(a) \in Nat /\ Len(l) \in Nat /\ Len(s) = Len(a) + 1 + Len(l)
      /\ \A i \in 1 .. Len(a) : s[i] = a[i]
      /\ s[Len(a) + 1] = x
      /\ \A i \in 1 .. Len(l) : s[Len(a) + 1 + i] = l[i]
  BY MarkedText
<1>2. ASSUME NEW j \in 0 .. Len(l) - 1 PROVE s[Len(s) - j] = l[Len(l) - j]
  <2>1. Len(l) - j \in 1 .. Len(l) /\ Len(s) - j = Len(a) + 1 + (Len(l) - j)
    BY <1>1
  <2> QED
    BY <1>1, <2>1
<1>3. s[Len(s) - Len(l)] = x
  <2>1. Len(s) - Len(l) = Len(a) + 1
    BY <1>1
  <2> QED
    BY <1>1, <2>1
<1>4. ASSUME NEW j \in 0 .. Len(a) - 1 PROVE s[Len(s) - (Len(l) + 1 + j)] = a[Len(a) - j]
  <2>1. Len(a) - j \in 1 .. Len(a) /\ Len(s) - (Len(l) + 1 + j) = Len(a) - j
    BY <1>1
  <2> QED
    BY <1>1, <2>1
<1> QED
  BY <1>2, <1>3, <1>4

\* What a name is written with.
PlainTokens == DOMAIN LowerOf \ {Hash}

\* Where neither l nor m holds a dot, the dots must meet.
LEMMA Peel ==
  ASSUME NEW a \in Seq(PlainTokens), NEW b \in Seq(PlainTokens),
         NEW l \in Seq(PlainTokens), NEW m \in Seq(PlainTokens),
         \A i \in 1 .. Len(l) : l[i] # Dot, \A i \in 1 .. Len(m) : m[i] # Dot
  PROVE  EndsWith(a \o <<Dot>> \o l, b \o <<Dot>> \o m) <=> l = m /\ EndsWith(a, b)
<1> DEFINE x == Dot
           s == a \o <<x>> \o l
           t == b \o <<x>> \o m
           S == PlainTokens
<1>0. /\ x \in S /\ s = a \o <<x>> \o l /\ t = b \o <<x>> \o m
      /\ a \in Seq(S) /\ b \in Seq(S) /\ l \in Seq(S) /\ m \in Seq(S)
  BY LowerAssumption DEF PlainTokens, Dot, Hash
<1> SUFFICES EndsWith(s, t) <=> l = m /\ EndsWith(a, b)
  OBVIOUS
<1> HIDE DEF x, s, t, S
<1>1. /\ Len(s) = Len(a) + 1 + Len(l) /\ Len(t) = Len(b) + 1 + Len(m)
      /\ Len(a) \in Nat /\ Len(b) \in Nat /\ Len(l) \in Nat /\ Len(m) \in Nat
  BY <1>0, MarkedText DEF S
<1>2. /\ \A j \in 0 .. Len(l) - 1 : s[Len(s) - j] = l[Len(l) - j] /\ s[Len(s) - j] # x
      /\ s[Len(s) - Len(l)] = x
      /\ \A j \in 0 .. Len(a) - 1 : s[Len(s) - (Len(l) + 1 + j)] = a[Len(a) - j]
  <2>1. \A j \in 0 .. Len(l) - 1 : Len(l) - j \in 1 .. Len(l)
    BY <1>1
  <2>2. \A j \in 0 .. Len(l) - 1 : l[Len(l) - j] # x
    BY <2>1 DEF x
  <2>3. /\ \A j \in 0 .. Len(l) - 1 : s[Len(s) - j] = l[Len(l) - j]
        /\ s[Len(s) - Len(l)] = x
        /\ \A j \in 0 .. Len(a) - 1 : s[Len(s) - (Len(l) + 1 + j)] = a[Len(a) - j]
    BY <1>0, MarkedEnd
  <2> QED
    BY <2>2, <2>3
<1>3. /\ \A j \in 0 .. Len(m) - 1 : t[Len(t) - j] = m[Len(m) - j] /\ t[Len(t) - j] # x
      /\ t[Len(t) - Len(m)] = x
      /\ \A j \in 0 .. Len(b) - 1 : t[Len(t) - (Len(m) + 1 + j)] = b[Len(b) - j]
  <2>1. \A j \in 0 .. Len(m) - 1 : Len(m) - j \in 1 .. Len(m)
    BY <1>1
  <2>2. \A j \in 0 .. Len(m) - 1 : m[Len(m) - j] # x
    BY <2>1 DEF x
  <2>3. /\ \A j \in 0 .. Len(m) - 1 : t[Len(t) - j] = m[Len(m) - j]
        /\ t[Len(t) - Len(m)] = x
        /\ \A j \in 0 .. Len(b) - 1 : t[Len(t) - (Len(m) + 1 + j)] = b[Len(b) - j]
    BY <1>0, MarkedEnd
  <2> QED
    BY <2>2, <2>3
<1>4. ASSUME EndsWith(s, t)
      PROVE  l = m /\ EndsWith(a, b)
  <2>1. Len(s) <= Len(t) /\ \A j \in 0 .. Len(s) - 1 : s[Len(s) - j] = t[Len(t) - j]
    BY <1>4 DEF EndsWith
  <2>2. Len(l) \in 0 .. Len(s) - 1
    BY <1>1
  <2>3. ~(Len(l) < Len(m))
    <3>1. SUFFICES ASSUME Len(l) < Len(m) PROVE FALSE
      OBVIOUS
    <3>2. Len(l) \in 0 .. Len(m) - 1
      BY <1>1, <3>1
    <3> QED
      BY <2>1, <2>2, <3>2, <1>2, <1>3
  <2>4. ~(Len(m) < Len(l))
    <3>1. SUFFICES ASSUME Len(m) < Len(l) PROVE FALSE
      OBVIOUS
    <3>2. Len(m) \in 0 .. Len(l) - 1 /\ Len(m) \in 0 .. Len(s) - 1
      BY <1>1, <3>1
    <3> QED
      BY <2>1, <3>2, <1>2, <1>3
  <2>5. Len(l) = Len(m)
    BY <2>3, <2>4, <1>1
  <2>6. l = m
    <3>1. ASSUME NEW i \in 1 .. Len(l) PROVE l[i] = m[i]
      <4> DEFINE k == Len(l) - i
      <4>1. k \in 0 .. Len(l) - 1 /\ k \in 0 .. Len(m) - 1 /\ k \in 0 .. Len(s) - 1
              /\ Len(l) - k = i /\ Len(m) - k = i
        BY <1>1, <2>5
      <4> HIDE DEF k
      <4>2. l[Len(l) - k] = m[Len(m) - k]
        BY <1>2, <1>3, <2>1, <4>1
      <4> QED
        BY <4>1, <4>2, Zenon
    <3> QED
      BY <3>1, <2>5, SeqEqual
  <2>7. EndsWith(a, b)
    <3>1. ASSUME NEW j \in 0 .. Len(a) - 1 PROVE a[Len(a) - j] = b[Len(b) - j]
      <4>1. Len(l) + 1 + j \in 0 .. Len(s) - 1 /\ j \in 0 .. Len(b) - 1
        BY <1>1, <2>1, <2>5
      <4>2. s[Len(s) - (Len(l) + 1 + j)] = t[Len(t) - (Len(l) + 1 + j)]
        BY <2>1, <4>1
      <4> QED
        BY <4>1, <4>2, <1>2, <1>3, <2>5
    <3> QED
      BY <3>1, <1>1, <2>1, <2>5 DEF EndsWith
  <2> QED
    BY <2>6, <2>7
<1>5. ASSUME l = m, EndsWith(a, b)
      PROVE  EndsWith(s, t)
  <2>1. Len(a) <= Len(b) /\ \A j \in 0 .. Len(a) - 1 : a[Len(a) - j] = b[Len(b) - j]
    BY <1>5 DEF EndsWith
  <2>2. Len(s) <= Len(t) /\ Len(l) = Len(m)
    BY <1>1, <1>5, <2>1
  <2>3. ASSUME NEW j \in 0 .. Len(s) - 1 PROVE s[Len(s) - j] = t[Len(t) - j]
    <3>1. CASE j \in 0 .. Len(l) - 1
      BY <3>1, <1>2, <1>3, <1>5
    <3>2. CASE j = Len(l)
      BY <3>2, <1>2, <1>3, <2>2, Zenon
    <3>3. CASE j > Len(l)
      <4> DEFINE k == j - (Len(l) + 1)
      <4>1. k \in 0 .. Len(a) - 1 /\ k \in 0 .. Len(b) - 1 /\ j = Len(l) + 1 + k
        BY <3>3, <1>1, <2>1
      <4> HIDE DEF k
      <4>2. s[Len(s) - j] = a[Len(a) - k] /\ t[Len(t) - j] = b[Len(b) - k]
        BY <4>1, <1>2, <1>3, <2>2
      <4> QED
        BY <4>1, <4>2, <2>1
    <3>4. j \in 0 .. Len(l) - 1 \/ j = Len(l) \/ j > Len(l)
      BY <1>1
    <3> QED
      BY <3>1, <3>2, <3>3, <3>4
  <2> QED
    BY <2>2, <2>3 DEF EndsWith
<1> QED
  BY <1>4, <1>5

----------------------------------------------------------------------------
(* Names as text.                                                          *)

\* A name with a dot before each of its labels.
Preceded(labels) == Joined(labels)[Len(labels)]

\* A name has labels, and none of them is empty or holds a dot.
LEMMA NameShape ==
  ASSUME NEW L, IsName(L)
  PROVE  /\ L \in Seq(Labels) /\ Len(L) \in Nat /\ Len(L) >= 1
         /\ \A n \in 1 .. Len(L) :
              /\ L[n] \in Seq(PlainTokens) /\ Len(L[n]) \in Nat /\ Len(L[n]) >= 1
              /\ \A i \in 1 .. Len(L[n]) : L[n][i] \in DOMAIN LowerOf \ {Dot, Hash}
<1>1. L \in Seq(Labels) /\ L # <<>>
  BY DEF IsName
<1>2. Len(L) \in Nat /\ Len(L) >= 1
  BY <1>1
<1>3. ASSUME NEW n \in 1 .. Len(L)
      PROVE  /\ L[n] \in Seq(PlainTokens) /\ Len(L[n]) \in Nat /\ Len(L[n]) >= 1
             /\ \A i \in 1 .. Len(L[n]) : L[n][i] \in DOMAIN LowerOf \ {Dot, Hash}
  <2>1. L[n] \in Labels
    BY <1>1
  <2>2. L[n] \in Seq(LabelTokens) /\ L[n] # <<>>
    BY <2>1 DEF Labels
  <2>3. Len(L[n]) \in Nat /\ Len(L[n]) >= 1 /\ \A i \in 1 .. Len(L[n]) : L[n][i] \in LabelTokens
    BY <2>2
  <2>4. LabelTokens \subseteq PlainTokens
    BY DEF LabelTokens, PlainTokens
  <2>5. L[n] \in Seq(PlainTokens)
    BY <2>2, <2>4, SeqMonotonic
  <2> QED
    BY <2>3, <2>5 DEF LabelTokens
<1> QED
  BY <1>1, <1>2, <1>3

\* Every beginning of a name is a text that starts with a dot, and grows by a label.
LEMMA JoinedText ==
  ASSUME NEW L, IsName(L)
  PROVE  /\ Joined(L)[0] = <<>>
         /\ \A n \in 0 .. Len(L) :
              /\ Joined(L)[n] \in Seq(PlainTokens)
              /\ n > 0 =>
                   /\ n - 1 \in 0 .. Len(L)
                   /\ Joined(L)[n] = Joined(L)[n - 1] \o <<Dot>> \o L[n]
                   /\ Len(Joined(L)[n]) > 1 /\ Joined(L)[n][1] = Dot
                   /\ Joined(L)[n][Len(Joined(L)[n])] # Dot
<1> DEFINE Good(n) ==
      /\ Joined(L)[n] \in Seq(PlainTokens)
      /\ n > 0 =>
           /\ n - 1 \in 0 .. Len(L)
           /\ Joined(L)[n] = Joined(L)[n - 1] \o <<Dot>> \o L[n]
           /\ Len(Joined(L)[n]) > 1 /\ Joined(L)[n][1] = Dot
           /\ Joined(L)[n][Len(Joined(L)[n])] # Dot
<1>1. Len(L) \in Nat /\ Len(L) >= 1
  BY NameShape
<1>2. /\ Joined(L)[0] = <<>>
      /\ \A n \in 1 .. Len(L) : Joined(L)[n] = Joined(L)[n - 1] \o <<Dot>> \o L[n]
  BY <1>1, JoinedDef
<1>3. Good(0)
  <2>1. <<>> \in Seq(PlainTokens) /\ ~(0 > 0)
    OBVIOUS
  <2> QED
    BY <1>2, <2>1
<1>4. ASSUME NEW n \in Nat, n < Len(L), Good(n)
      PROVE  Good(n + 1)
  <2> DEFINE a == Joined(L)[n]
             l == L[n + 1]
             s == Joined(L)[n + 1]
  <2>1. n + 1 \in 1 .. Len(L) /\ (n + 1) - 1 = n /\ n \in 0 .. Len(L)
    BY <1>1, <1>4
  <2>2. s = a \o <<Dot>> \o l
    BY <2>1, <1>2
  <2>3. /\ l \in Seq(PlainTokens) /\ Len(l) \in Nat /\ Len(l) >= 1
        /\ l[Len(l)] # Dot
    <3>1. /\ l \in Seq(PlainTokens) /\ Len(l) \in Nat /\ Len(l) >= 1
          /\ \A i \in 1 .. Len(l) : l[i] # Dot
      BY <2>1, NameShape
    <3>2. Len(l) \in 1 .. Len(l)
      BY <3>1
    <3> QED
      BY <3>1, <3>2
  <2>4. Dot \in PlainTokens /\ a \in Seq(PlainTokens) /\ Len(a) \in Nat
    BY <1>4, LowerAssumption DEF PlainTokens, Dot, Hash
  <2>5. n = 0 => Len(a) = 0
    BY <1>2
  <2>6. n > 0 => Len(a) >= 1 /\ a[1] = Dot
    BY <1>4, <2>4
  <2>7. a[1] = Dot \/ Len(a) = 0
    BY <2>5, <2>6
  <2> HIDE DEF a, l, s
  <2>8. /\ s \in Seq(PlainTokens) /\ Len(s) = Len(a) + 1 + Len(l)
        /\ \A i \in 1 .. Len(a) : s[i] = a[i]
        /\ s[Len(a) + 1] = Dot
        /\ \A i \in 1 .. Len(l) : s[Len(a) + 1 + i] = l[i]
    BY <2>2, <2>3, <2>4, MarkedText
  <2>9. Len(s) > 1
    BY <2>8, <2>3, <2>4
  <2>10. s[1] = Dot
    <3>1. CASE Len(a) = 0
      BY <3>1, <2>8
    <3>2. CASE Len(a) # 0
      <4>1. 1 \in 1 .. Len(a)
        BY <3>2, <2>4
      <4> QED
        BY <4>1, <3>2, <2>7, <2>8
    <3> QED
      BY <3>1, <3>2
  <2>11. s[Len(s)] # Dot
    <3>1. Len(l) \in 1 .. Len(l) /\ Len(s) = Len(a) + 1 + Len(l)
      BY <2>8, <2>3
    <3> QED
      BY <3>1, <2>8, <2>3
  <2> QED
    BY <2>1, <2>2, <2>8, <2>9, <2>10, <2>11 DEF a, l, s
<1>5. \A n \in 0 .. Len(L) : Good(n)
  <2> DEFINE G == {n \in Nat : Good(n)}
  <2> HIDE DEF Good
  <2>1. 0 \in G /\ G \in SUBSET Nat
    BY <1>3
  <2>2. \A n \in G : n < Len(L) => n + 1 \in G
    BY <1>4
  <2> HIDE DEF G
  <2>3. \A n \in 0 .. Len(L) : n \in G
    BY <2>1, <2>2, <1>1, BoundedInduction
  <2> QED
    BY <2>3 DEF G
<1> QED
  BY <1>2, <1>5

\* The first m labels of E, as text, end the first k labels of T exactly when they
\* are the last m of them.
LEMMA JoinedSuffix ==
  ASSUME NEW E, NEW T, IsName(E), IsName(T)
  PROVE  \A m \in 0 .. Len(E) : \A k \in 0 .. Len(T) :
           EndsWith(Joined(E)[m], Joined(T)[k])
             <=> m <= k /\ \A i \in 1 .. m : E[i] = T[k - m + i]
<1> DEFINE Last0(m, k) == m <= k /\ \A i \in 1 .. m : E[i] = T[k - m + i]
           Good(m) == \A k \in 0 .. Len(T) : EndsWith(Joined(E)[m], Joined(T)[k]) <=> Last0(m, k)
<1>1. /\ Len(E) \in Nat /\ Len(T) \in Nat
      /\ Joined(E)[0] = <<>> /\ Joined(T)[0] = <<>>
  BY NameShape, JoinedText
<1>5. ASSUME NEW L, IsName(L), NEW n \in 0 .. Len(L), n > 0
      PROVE  /\ n - 1 \in 0 .. Len(L)
             /\ Joined(L)[n - 1] \in Seq(PlainTokens) /\ L[n] \in Seq(PlainTokens)
             /\ Joined(L)[n] = Joined(L)[n - 1] \o <<Dot>> \o L[n]
             /\ Joined(L)[n] \in Seq(PlainTokens) /\ Len(Joined(L)[n]) > 1
             /\ \A i \in 1 .. Len(L[n]) : L[n][i] # Dot
  <2>1. Len(L) \in Nat /\ n \in 1 .. Len(L)
    BY <1>5, NameShape
  <2>2. L[n] \in Seq(PlainTokens) /\ \A i \in 1 .. Len(L[n]) : L[n][i] # Dot
    BY <1>5, <2>1, NameShape
  <2>3. /\ n - 1 \in 0 .. Len(L)
        /\ Joined(L)[n] = Joined(L)[n - 1] \o <<Dot>> \o L[n]
        /\ Joined(L)[n] \in Seq(PlainTokens) /\ Len(Joined(L)[n]) > 1
    BY <1>5, JoinedText
  <2>4. Joined(L)[n - 1] \in Seq(PlainTokens)
    BY <1>5, <2>3, JoinedText
  <2> QED
    BY <2>2, <2>3, <2>4
<1>2. Good(0)
  <2>1. ASSUME NEW k \in 0 .. Len(T)
        PROVE  EndsWith(Joined(E)[0], Joined(T)[k]) /\ Last0(0, k)
    <3>1. Joined(T)[k] \in Seq(PlainTokens)
      BY JoinedText
    <3>2. EndsWith(<<>>, Joined(T)[k])
      BY <3>1 DEF EndsWith
    <3> QED
      BY <3>2, <1>1
  <2> QED
    BY <2>1
<1>3. ASSUME NEW m \in Nat, m < Len(E), Good(m)
      PROVE  Good(m + 1)
  <2>1. m + 1 \in 1 .. Len(E) /\ m + 1 \in 0 .. Len(E) /\ (m + 1) - 1 = m /\ m \in 0 .. Len(E) /\ m + 1 > 0
    BY <1>1, <1>3
  <2>2. /\ Joined(E)[m + 1] \in Seq(PlainTokens) /\ Len(Joined(E)[m + 1]) > 1
        /\ Joined(E)[m] \in Seq(PlainTokens)
        /\ Joined(E)[m + 1] = Joined(E)[m] \o <<Dot>> \o E[m + 1]
        /\ E[m + 1] \in Seq(PlainTokens) /\ \A i \in 1 .. Len(E[m + 1]) : E[m + 1][i] # Dot
    BY <2>1, <1>5
  <2>3. ASSUME NEW k \in 0 .. Len(T)
        PROVE  EndsWith(Joined(E)[m + 1], Joined(T)[k]) <=> Last0(m + 1, k)
    <3>1. CASE k = 0
      <4>1. ~EndsWith(Joined(E)[m + 1], <<>>)
        <5> DEFINE s == Joined(E)[m + 1]
        <5>1. s \in Seq(PlainTokens) /\ Len(s) > 1
          BY <2>2
        <5> HIDE DEF s
        <5>2. ~EndsWith(s, <<>>)
          BY <5>1 DEF EndsWith
        <5> QED
          BY <5>2 DEF s
      <4>2. ~(m + 1 <= 0)
        OBVIOUS
      <4> QED
        BY <3>1, <4>1, <4>2, <1>1
    <3>2. CASE k > 0
      <4>1. k \in 1 .. Len(T) /\ k - 1 \in 0 .. Len(T)
        BY <3>2, <1>1
      <4>2. /\ Joined(T)[k - 1] \in Seq(PlainTokens)
            /\ Joined(T)[k] = Joined(T)[k - 1] \o <<Dot>> \o T[k]
            /\ T[k] \in Seq(PlainTokens) /\ \A i \in 1 .. Len(T[k]) : T[k][i] # Dot
        BY <3>2, <1>5
      <4>3. Dot \in PlainTokens
        BY LowerAssumption DEF PlainTokens, Dot, Hash
      <4>4. EndsWith(Joined(E)[m + 1], Joined(T)[k])
              <=> E[m + 1] = T[k] /\ EndsWith(Joined(E)[m], Joined(T)[k - 1])
        <5> DEFINE s == Joined(E)[m + 1]
                   t == Joined(T)[k]
                   a == Joined(E)[m]
                   b == Joined(T)[k - 1]
                   l == E[m + 1]
                   n == T[k]
        <5>1. /\ a \in Seq(PlainTokens) /\ b \in Seq(PlainTokens)
              /\ l \in Seq(PlainTokens) /\ n \in Seq(PlainTokens)
              /\ s = a \o <<Dot>> \o l /\ t = b \o <<Dot>> \o n
              /\ \A i \in 1 .. Len(l) : l[i] # Dot
              /\ \A i \in 1 .. Len(n) : n[i] # Dot
          BY <2>2, <4>2
        <5> HIDE DEF s, t, a, b, l, n
        <5>2. EndsWith(s, t) <=> l = n /\ EndsWith(a, b)
          BY <5>1, Peel
        <5> QED
          BY <5>2 DEF s, t, a, b, l, n
      <4>5. EndsWith(Joined(E)[m], Joined(T)[k - 1]) <=> Last0(m, k - 1)
        BY <1>3, <4>1
      <4>6. Last0(m + 1, k) <=> E[m + 1] = T[k] /\ Last0(m, k - 1)
        <5>1. k \in Nat /\ (m + 1 <= k <=> m <= k - 1) /\ k - (m + 1) + (m + 1) = k
          BY <4>1
        <5>2. \A i \in 1 .. m : i \in 1 .. m + 1 /\ (k - 1) - m + i = k - (m + 1) + i
          BY <4>1
        <5>3. \A i \in 1 .. m + 1 : i = m + 1 \/ i \in 1 .. m
          OBVIOUS
        <5>4. m + 1 \in 1 .. m + 1
          OBVIOUS
        <5>5. (\A i \in 1 .. m + 1 : E[i] = T[k - (m + 1) + i])
                <=> E[m + 1] = T[k] /\ \A i \in 1 .. m : E[i] = T[(k - 1) - m + i]
          <6>1. ASSUME \A i \in 1 .. m + 1 : E[i] = T[k - (m + 1) + i]
                PROVE  E[m + 1] = T[k] /\ \A i \in 1 .. m : E[i] = T[(k - 1) - m + i]
            <7>1. E[m + 1] = T[k - (m + 1) + (m + 1)]
              BY <6>1, <5>4
            <7>2. ASSUME NEW i \in 1 .. m PROVE E[i] = T[(k - 1) - m + i]
              BY <6>1, <5>2
            <7> QED
              BY <7>1, <7>2, <5>1
          <6>2. ASSUME E[m + 1] = T[k], \A i \in 1 .. m : E[i] = T[(k - 1) - m + i],
                       NEW i \in 1 .. m + 1
                PROVE  E[i] = T[k - (m + 1) + i]
            <7>1. CASE i = m + 1
              BY <7>1, <6>2, <5>1
            <7>2. CASE i \in 1 .. m
              BY <7>2, <6>2, <5>2
            <7> QED
              BY <7>1, <7>2, <5>3
          <6> QED
            BY <6>1, <6>2
        <5> QED
          BY <5>1, <5>5
      <4> HIDE DEF Last0
      <4> QED
        BY <4>4, <4>5, <4>6
    <3> QED
      BY <3>1, <3>2, <1>1
  <2> QED
    BY <2>3
<1>4. \A m \in 0 .. Len(E) : Good(m)
  <2> DEFINE G == {m \in Nat : Good(m)}
  <2> HIDE DEF Good
  <2>1. 0 \in G /\ G \in SUBSET Nat
    BY <1>2
  <2>2. \A m \in G : m < Len(E) => m + 1 \in G
    BY <1>3
  <2> HIDE DEF G
  <2>3. \A m \in 0 .. Len(E) : m \in G
    BY <2>1, <2>2, <1>1, BoundedInduction
  <2> QED
    BY <2>3 DEF G
<1> QED
  BY <1>4

\* A suffix of labels is a suffix of text where both have a dot before them.
LEMMA NameSuffix ==
  ASSUME NEW E, NEW T, IsName(E), IsName(T)
  PROVE  /\ IsSuffix(Preceded(E), Preceded(T)) <=> IsSuffix(E, T)
         /\ Preceded(E) = Preceded(T) <=> E = T
<1>1. /\ Len(E) \in Nat /\ Len(T) \in Nat /\ E \in Seq(Labels) /\ T \in Seq(Labels)
      /\ Preceded(E) \in Seq(PlainTokens) /\ Preceded(T) \in Seq(PlainTokens)
  <2>1. /\ Len(E) \in Nat /\ Len(T) \in Nat /\ E \in Seq(Labels) /\ T \in Seq(Labels)
    BY NameShape
  <2>2. Len(E) \in 0 .. Len(E) /\ Len(T) \in 0 .. Len(T)
    BY <2>1
  <2> QED
    BY <2>1, <2>2, JoinedText DEF Preceded
<1>2. ASSUME NEW L, NEW M, IsName(L), IsName(M)
      PROVE  EndsWith(Preceded(L), Preceded(M)) <=> EndsWith(L, M)
  <2>1. Len(L) \in Nat /\ Len(M) \in Nat
    BY <1>2, NameShape
  <2>2. Len(L) \in 0 .. Len(L) /\ Len(M) \in 0 .. Len(M)
    BY <2>1
  <2>3. EndsWith(Preceded(L), Preceded(M))
          <=> Len(L) <= Len(M) /\ \A i \in 1 .. Len(L) : L[i] = M[Len(M) - Len(L) + i]
    BY <1>2, <2>2, JoinedSuffix DEF Preceded
  <2>4. ASSUME \A i \in 1 .. Len(L) : L[i] = M[Len(M) - Len(L) + i], NEW j \in 0 .. Len(L) - 1
        PROVE  L[Len(L) - j] = M[Len(M) - j]
    <3>1. Len(L) - j \in 1 .. Len(L) /\ Len(M) - Len(L) + (Len(L) - j) = Len(M) - j
      BY <2>1
    <3>2. L[Len(L) - j] = M[Len(M) - Len(L) + (Len(L) - j)]
      BY <2>4, <3>1
    <3> QED
      BY <3>1, <3>2
  <2>5. ASSUME \A j \in 0 .. Len(L) - 1 : L[Len(L) - j] = M[Len(M) - j], NEW i \in 1 .. Len(L)
        PROVE  L[i] = M[Len(M) - Len(L) + i]
    <3>1. Len(L) - i \in 0 .. Len(L) - 1 /\ Len(M) - (Len(L) - i) = Len(M) - Len(L) + i
            /\ Len(L) - (Len(L) - i) = i
      BY <2>1
    <3>2. L[Len(L) - (Len(L) - i)] = M[Len(M) - (Len(L) - i)]
      BY <2>5, <3>1
    <3> QED
      BY <3>1, <3>2
  <2> QED
    BY <2>3, <2>4, <2>5 DEF EndsWith
<1>3. ASSUME NEW S, NEW s \in Seq(S), NEW t \in Seq(S)
      PROVE  s = t <=> EndsWith(s, t) /\ EndsWith(t, s)
  <2>1. Len(s) \in Nat /\ Len(t) \in Nat
    OBVIOUS
  <2>2. s = t => EndsWith(s, t) /\ EndsWith(t, s)
    BY <2>1 DEF EndsWith
  <2>3. ASSUME EndsWith(s, t), EndsWith(t, s)
        PROVE  s = t
    <3>1. Len(s) = Len(t) /\ \A j \in 0 .. Len(s) - 1 : s[Len(s) - j] = t[Len(t) - j]
      BY <2>1, <2>3 DEF EndsWith
    <3>2. ASSUME NEW i \in 1 .. Len(s) PROVE s[i] = t[i]
      <4>1. Len(s) - i \in 0 .. Len(s) - 1 /\ Len(s) - (Len(s) - i) = i /\ Len(t) - (Len(s) - i) = i
        BY <2>1, <3>1
      <4>2. s[Len(s) - (Len(s) - i)] = t[Len(t) - (Len(s) - i)]
        BY <3>1, <4>1
      <4> QED
        BY <4>1, <4>2
    <3> QED
      BY <3>1, <3>2, SeqEqual
  <2> QED
    BY <2>2, <2>3
<1>4. /\ IsSuffix(Preceded(E), Preceded(T)) <=> EndsWith(Preceded(E), Preceded(T))
      /\ IsSuffix(E, T) <=> EndsWith(E, T)
  BY <1>1, SuffixFromEnd
<1>5. /\ Preceded(E) = Preceded(T) <=> EndsWith(Preceded(E), Preceded(T)) /\ EndsWith(Preceded(T), Preceded(E))
      /\ E = T <=> EndsWith(E, T) /\ EndsWith(T, E)
  BY <1>1, <1>3
<1> QED
  BY <1>2, <1>4, <1>5

\* Lower case keeps the length of a text, its dots and the marks of comments.
LEMMA LowerText ==
  ASSUME NEW t \in Seq(DOMAIN LowerOf)
  PROVE  /\ ToLower(t) \in Seq(DOMAIN LowerOf) /\ Len(ToLower(t)) = Len(t)
         /\ \A i \in 1 .. Len(t) :
              /\ ToLower(t)[i] = LowerOf[t[i]]
              /\ ToLower(t)[i] = Dot <=> t[i] = Dot
              /\ ToLower(t)[i] = Hash <=> t[i] = Hash
         /\ ToLower(ToLower(t)) = ToLower(t)
<1>1. DOMAIN t = 1 .. Len(t) /\ Len(t) \in Nat /\ \A i \in 1 .. Len(t) : t[i] \in DOMAIN LowerOf
  OBVIOUS
<1>2. ToLower(t) = [i \in 1 .. Len(t) |-> LowerOf[t[i]]]
  BY <1>1 DEF ToLower
<1>3. \A i \in 1 .. Len(t) :
        /\ LowerOf[t[i]] \in DOMAIN LowerOf /\ LowerOf[LowerOf[t[i]]] = LowerOf[t[i]]
        /\ LowerOf[t[i]] = Dot <=> t[i] = Dot
        /\ LowerOf[t[i]] = Hash <=> t[i] = Hash
  BY <1>1, LowerAssumption
<1> DEFINE u == ToLower(t)
<1>4. u \in Seq(DOMAIN LowerOf) /\ Len(u) = Len(t) /\ \A i \in 1 .. Len(t) : u[i] = LowerOf[t[i]]
  BY <1>1, <1>2, <1>3, IsASeq
<1> HIDE DEF u
<1>5. ToLower(u) = u
  <2>1. DOMAIN u = 1 .. Len(t) /\ u = [i \in 1 .. Len(t) |-> u[i]]
    BY <1>4
  <2>2. \A i \in 1 .. Len(t) : LowerOf[u[i]] = u[i]
    BY <1>3, <1>4
  <2> QED
    BY <2>1, <2>2 DEF ToLower
<1> QED
  BY <1>3, <1>4, <1>5 DEF u

\* The text of a name stays one in lower case.
LEMMA LowerPlain ==
  ASSUME NEW t \in Seq(PlainTokens)
  PROVE  ToLower(t) \in Seq(PlainTokens)
<1>1. t \in Seq(DOMAIN LowerOf) /\ \A i \in 1 .. Len(t) : t[i] # Hash
  <2>1. PlainTokens \subseteq DOMAIN LowerOf
    BY DEF PlainTokens
  <2> QED
    BY <2>1, SeqMonotonic DEF PlainTokens
<1> DEFINE u == ToLower(t)
<1>2. u \in Seq(DOMAIN LowerOf) /\ \A i \in 1 .. Len(u) : u[i] # Hash
  BY <1>1, LowerText
<1> HIDE DEF u
<1>3. \A i \in 1 .. Len(u) : u[i] \in PlainTokens
  BY <1>2 DEF PlainTokens
<1>4. u = [i \in 1 .. Len(u) |-> u[i]] /\ Len(u) \in Nat
  BY <1>2
<1>5. u \in Seq(PlainTokens)
  BY <1>3, <1>4, IsASeq
<1> QED
  BY <1>5 DEF u

\* Two texts of the same letters but for their case.
LEMMA LowerMarked ==
  ASSUME NEW a \in Seq(PlainTokens), NEW l \in Seq(PlainTokens)
  PROVE  ToLower(a \o <<Dot>> \o l) = ToLower(a) \o <<Dot>> \o ToLower(l)
<1> DEFINE s == a \o <<Dot>> \o l
           b == ToLower(a)
           m == ToLower(l)
           r == b \o <<Dot>> \o m
<1>1. Dot \in PlainTokens /\ PlainTokens \subseteq DOMAIN LowerOf /\ LowerOf[Dot] = Dot
  BY LowerAssumption DEF PlainTokens, Dot, Hash
<1>2. a \in Seq(DOMAIN LowerOf) /\ l \in Seq(DOMAIN LowerOf) /\ Len(a) \in Nat /\ Len(l) \in Nat
  BY <1>1, SeqMonotonic
<1>3. /\ b \in Seq(PlainTokens) /\ Len(b) = Len(a) /\ \A i \in 1 .. Len(a) : b[i] = LowerOf[a[i]]
      /\ m \in Seq(PlainTokens) /\ Len(m) = Len(l) /\ \A i \in 1 .. Len(l) : m[i] = LowerOf[l[i]]
  BY <1>2, LowerText, LowerPlain
<1> HIDE DEF b, m
<1>4. /\ s \in Seq(PlainTokens) /\ Len(s) = Len(a) + 1 + Len(l)
      /\ \A i \in 1 .. Len(a) : s[i] = a[i]
      /\ s[Len(a) + 1] = Dot
      /\ \A i \in 1 .. Len(l) : s[Len(a) + 1 + i] = l[i]
  BY <1>1, MarkedText
<1>5. /\ r \in Seq(PlainTokens) /\ Len(r) = Len(b) + 1 + Len(m)
      /\ \A i \in 1 .. Len(b) : r[i] = b[i]
      /\ r[Len(b) + 1] = Dot
      /\ \A i \in 1 .. Len(m) : r[Len(b) + 1 + i] = m[i]
  <2>1. b \in Seq(PlainTokens) /\ m \in Seq(PlainTokens) /\ Dot \in PlainTokens
    BY <1>1, <1>3
  <2> QED
    BY <2>1, MarkedText
<1> HIDE DEF s, r
<1>6. /\ ToLower(s) \in Seq(PlainTokens) /\ Len(ToLower(s)) = Len(s)
      /\ \A i \in 1 .. Len(s) : ToLower(s)[i] = LowerOf[s[i]]
  <2>1. s \in Seq(DOMAIN LowerOf)
    BY <1>1, <1>4, SeqMonotonic
  <2> QED
    BY <2>1, <1>4, LowerText, LowerPlain
<1>7. ASSUME NEW i \in 1 .. Len(s) PROVE ToLower(s)[i] = r[i]
  <2>1. CASE i \in 1 .. Len(a)
    <3>1. s[i] = a[i] /\ b[i] = LowerOf[a[i]] /\ r[i] = b[i]
      BY <2>1, <1>3, <1>4, <1>5
    <3> QED
      BY <3>1, <1>6
  <2>2. CASE i = Len(a) + 1
    BY <2>2, <1>1, <1>3, <1>4, <1>5, <1>6
  <2>3. CASE i > Len(a) + 1
    <3> DEFINE k == i - (Len(a) + 1)
    <3>1. k \in 1 .. Len(l) /\ i = Len(a) + 1 + k
      BY <2>3, <1>2, <1>4
    <3> HIDE DEF k
    <3>2. s[i] = l[k] /\ r[i] = m[k] /\ m[k] = LowerOf[l[k]]
      BY <3>1, <1>3, <1>4, <1>5
    <3> QED
      BY <3>2, <1>6
  <2>4. i \in 1 .. Len(a) \/ i = Len(a) + 1 \/ i > Len(a) + 1
    BY <1>2, <1>4
  <2> QED
    BY <2>1, <2>2, <2>3, <2>4
<1>8. ToLower(s) = r
  <2>1. Len(ToLower(s)) = Len(r) /\ \A i \in 1 .. Len(ToLower(s)) : ToLower(s)[i] = r[i]
    BY <1>3, <1>4, <1>5, <1>6, <1>7
  <2> HIDE DEF r
  <2> QED
    BY <2>1, <1>5, <1>6, SeqEqual
<1> QED
  BY <1>8 DEF s, r, b, m

\* Lower case of what follows the first token.
LEMMA LowerTail ==
  ASSUME NEW t \in Seq(DOMAIN LowerOf), t # <<>>
  PROVE  /\ Tail(t) \in Seq(DOMAIN LowerOf) /\ Len(Tail(t)) = Len(t) - 1
         /\ \A i \in 1 .. Len(t) - 1 : Tail(t)[i] = t[i + 1]
         /\ ToLower(Tail(t)) = Tail(ToLower(t))
<1>1. Tail(t) \in Seq(DOMAIN LowerOf) /\ Len(Tail(t)) = Len(t) - 1 /\ Len(t) \in Nat /\ Len(t) >= 1
        /\ \A i \in 1 .. Len(t) - 1 : Tail(t)[i] = t[i + 1]
  OBVIOUS
<1> DEFINE u == ToLower(t)
           v == Tail(t)
           w == ToLower(v)
<1>2. /\ u \in Seq(DOMAIN LowerOf) /\ Len(u) = Len(t) /\ \A i \in 1 .. Len(t) : u[i] = LowerOf[t[i]]
      /\ w \in Seq(DOMAIN LowerOf) /\ Len(w) = Len(v) /\ \A i \in 1 .. Len(v) : w[i] = LowerOf[v[i]]
  BY <1>1, LowerText
<1> HIDE DEF u, w
<1>3. /\ Tail(u) \in Seq(DOMAIN LowerOf) /\ Len(Tail(u)) = Len(u) - 1
      /\ \A i \in 1 .. Len(u) - 1 : Tail(u)[i] = u[i + 1]
  BY <1>1, <1>2
<1>4. ASSUME NEW i \in 1 .. Len(w) PROVE w[i] = Tail(u)[i]
  <2>1. i \in 1 .. Len(t) - 1 /\ i + 1 \in 1 .. Len(t) /\ i \in 1 .. Len(v) /\ i \in 1 .. Len(u) - 1
    BY <1>1, <1>2
  <2> QED
    BY <2>1, <1>1, <1>2, <1>3
<1>5. w = Tail(u)
  BY <1>1, <1>2, <1>3, <1>4, SeqEqual
<1> QED
  BY <1>1, <1>5 DEF u, w

\* A label in lower case is a label.
LEMMA LowerLabel ==
  ASSUME NEW l \in Labels
  PROVE  ToLower(l) \in Labels
<1>1. l \in Seq(LabelTokens) /\ l # <<>> /\ l \in Seq(DOMAIN LowerOf) /\ Len(l) \in Nat /\ Len(l) >= 1
        /\ \A i \in 1 .. Len(l) : l[i] # Dot /\ l[i] # Hash
  <2>1. l \in Seq(LabelTokens) /\ l # <<>> /\ LabelTokens \subseteq DOMAIN LowerOf
    BY DEF Labels, LabelTokens
  <2>2. l \in Seq(DOMAIN LowerOf)
    BY <2>1, SeqMonotonic
  <2> QED
    BY <2>1, <2>2 DEF LabelTokens
<1> DEFINE u == ToLower(l)
<1>2. /\ u \in Seq(DOMAIN LowerOf) /\ Len(u) = Len(l)
      /\ \A i \in 1 .. Len(u) : u[i] # Dot /\ u[i] # Hash
  BY <1>1, LowerText
<1> HIDE DEF u
<1>3. \A i \in 1 .. Len(u) : u[i] \in LabelTokens
  BY <1>2 DEF LabelTokens
<1>4. u = [i \in 1 .. Len(u) |-> u[i]] /\ Len(u) \in Nat
  BY <1>2
<1>5. u \in Seq(LabelTokens)
  BY <1>3, <1>4, IsASeq
<1>6. u # <<>>
  BY <1>1, <1>2
<1> QED
  BY <1>5, <1>6 DEF u, Labels

\* A name in lower case is a name, and its text is the text in lower case.
LEMMA LoweredName ==
  ASSUME NEW L, IsName(L)
  PROVE  /\ IsName(Lowered(L)) /\ Len(Lowered(L)) = Len(L)
         /\ \A n \in 1 .. Len(L) : Lowered(L)[n] = ToLower(L[n])
         /\ Preceded(Lowered(L)) = ToLower(Preceded(L))
<1> DEFINE M == Lowered(L)
<1>1. L \in Seq(Labels) /\ Len(L) \in Nat /\ Len(L) >= 1 /\ DOMAIN L = 1 .. Len(L)
        /\ \A n \in 1 .. Len(L) : L[n] \in Labels /\ L[n] \in Seq(PlainTokens)
  BY NameShape
<1>2. M = [n \in 1 .. Len(L) |-> ToLower(L[n])]
  BY <1>1 DEF Lowered
<1>3. \A n \in 1 .. Len(L) : ToLower(L[n]) \in Labels
  BY <1>1, LowerLabel
<1>4. M \in Seq(Labels) /\ Len(M) = Len(L) /\ \A n \in 1 .. Len(L) : M[n] = ToLower(L[n])
  BY <1>1, <1>2, <1>3, IsASeq
<1> HIDE DEF M
<1>5. IsName(M)
  BY <1>1, <1>4 DEF IsName
<1> DEFINE Good(n) == Joined(M)[n] = ToLower(Joined(L)[n])
<1>6. Good(0)
  <2>1. ToLower(<<>>) = <<>>
    <3>1. <<>> \in Seq(DOMAIN LowerOf) /\ Len(<<>>) = 0
      OBVIOUS
    <3>2. ToLower(<<>>) \in Seq(DOMAIN LowerOf) /\ Len(ToLower(<<>>)) = 0
      BY <3>1, LowerText
    <3> QED
      BY <3>2
  <2> QED
    BY <2>1, <1>5, JoinedText
<1>7. ASSUME NEW n \in Nat, n < Len(L), Good(n)
      PROVE  Good(n + 1)
  <2>1. n + 1 \in 1 .. Len(L) /\ n + 1 \in 0 .. Len(L) /\ n + 1 > 0 /\ (n + 1) - 1 = n /\ n \in 0 .. Len(L)
    BY <1>1, <1>7
  <2>2. /\ Joined(L)[n + 1] = Joined(L)[n] \o <<Dot>> \o L[n + 1]
        /\ Joined(L)[n] \in Seq(PlainTokens)
    <3>1. Joined(L)[n + 1] = Joined(L)[(n + 1) - 1] \o <<Dot>> \o L[n + 1]
      BY <2>1, JoinedText
    <3>2. Joined(L)[n] \in Seq(PlainTokens)
      BY <2>1, JoinedText
    <3> QED
      BY <3>1, <3>2, <2>1
  <2>3. Joined(M)[n + 1] = Joined(M)[n] \o <<Dot>> \o M[n + 1]
    <3>1. n + 1 \in 0 .. Len(M)
      BY <2>1, <1>4
    <3>2. Joined(M)[n + 1] = Joined(M)[(n + 1) - 1] \o <<Dot>> \o M[n + 1]
      BY <2>1, <3>1, <1>5, JoinedText
    <3> QED
      BY <3>2, <2>1
  <2>4. L[n + 1] \in Seq(PlainTokens) /\ M[n + 1] = ToLower(L[n + 1])
    BY <2>1, <1>1, <1>4
  <2>5. ToLower(Joined(L)[n] \o <<Dot>> \o L[n + 1])
          = ToLower(Joined(L)[n]) \o <<Dot>> \o ToLower(L[n + 1])
    BY <2>2, <2>4, LowerMarked
  <2> QED
    BY <1>7, <2>2, <2>3, <2>4, <2>5
<1>8. \A n \in 0 .. Len(L) : Good(n)
  <2> DEFINE G == {n \in Nat : Good(n)}
  <2> HIDE DEF Good
  <2>1. 0 \in G /\ G \in SUBSET Nat
    BY <1>6
  <2>2. \A n \in G : n < Len(L) => n + 1 \in G
    BY <1>7
  <2> HIDE DEF G
  <2>3. \A n \in 0 .. Len(L) : n \in G
    BY <2>1, <2>2, <1>1, BoundedInduction
  <2> QED
    BY <2>3 DEF G
<1>9. Preceded(M) = ToLower(Preceded(L))
  <2>1. Len(L) \in 0 .. Len(L)
    BY <1>1
  <2> QED
    BY <2>1, <1>4, <1>8 DEF Preceded
<1> QED
  BY <1>4, <1>5, <1>9 DEF M

\* How a name begins: with its first label, and with a dot after it if there is another.
LEMMA FirstLabel ==
  ASSUME NEW L, IsName(L)
  PROVE  \A n \in 1 .. Len(L) :
           LET t == Joined(L)[n] IN
           /\ \A i \in 1 .. Len(L[1]) : t[i + 1] = L[1][i]
           /\ n = 1 => Len(t) = Len(L[1]) + 1
           /\ n > 1 => Len(t) > Len(L[1]) + 1 /\ t[Len(L[1]) + 2] = Dot
<1> DEFINE f == L[1]
           Good(n) == n > 0 => LET t == Joined(L)[n] IN
             /\ \A i \in 1 .. Len(f) : t[i + 1] = f[i]
             /\ n = 1 => Len(t) = Len(f) + 1
             /\ n > 1 => Len(t) > Len(f) + 1 /\ t[Len(f) + 2] = Dot
<1>1. Len(L) \in Nat /\ Len(L) >= 1 /\ 1 \in 1 .. Len(L) /\ 0 \in 0 .. Len(L)
  BY NameShape
<1>2. f \in Seq(PlainTokens) /\ Len(f) \in Nat /\ Len(f) >= 1
  BY <1>1, NameShape
<1>7. /\ \A n \in 1 .. Len(L) : Joined(L)[n] = Joined(L)[n - 1] \o <<Dot>> \o L[n]
      /\ Joined(L)[0] = <<>>
  BY <1>1, JoinedDef
<1> HIDE DEF f
<1>3. Good(0)
  OBVIOUS
<1>4. ASSUME NEW n \in Nat, n < Len(L), Good(n)
      PROVE  Good(n + 1)
  <2> DEFINE a == Joined(L)[n]
             l == L[n + 1]
             s == Joined(L)[n + 1]
  <2>1. n + 1 \in 1 .. Len(L) /\ n + 1 \in 0 .. Len(L) /\ (n + 1) - 1 = n /\ n \in 0 .. Len(L) /\ n + 1 > 0
    <3>1. n < Len(L)
      BY <1>4
    <3> QED
      BY <1>1, <3>1
  <2>3. s = a \o <<Dot>> \o l
    <3>1. PICK k \in 1 .. Len(L) : k = n + 1 /\ k - 1 = n
      BY <2>1
    <3>2. Joined(L)[k] = Joined(L)[k - 1] \o <<Dot>> \o L[k]
      BY <1>7, Zenon
    <3> QED
      BY <3>1, <3>2, Zenon
  <2>4. a \in Seq(PlainTokens) /\ Len(a) \in Nat
    <3>1. a \in Seq(PlainTokens)
      BY <2>1, JoinedText
    <3> QED
      BY <3>1
  <2>5. l \in Seq(PlainTokens) /\ Len(l) \in Nat /\ Len(l) >= 1 /\ (n = 0 => l = f)
    <3>1. n = 0 => n + 1 = 1
      OBVIOUS
    <3>2. l \in Seq(PlainTokens) /\ Len(l) \in Nat /\ Len(l) >= 1
      BY <2>1, NameShape
    <3> QED
      BY <3>1, <3>2 DEF f
  <2>6. n = 0 => Len(a) = 0
    BY <1>7
  <2>7. Dot \in PlainTokens
    BY LowerAssumption DEF PlainTokens, Dot, Hash
  <2>8. n > 0 => /\ \A i \in 1 .. Len(f) : a[i + 1] = f[i]
                 /\ n = 1 => Len(a) = Len(f) + 1
                 /\ n > 1 => Len(a) > Len(f) + 1 /\ a[Len(f) + 2] = Dot
    BY <1>4
  <2> HIDE DEF a, l, s
  <2>9. /\ Len(s) = Len(a) + 1 + Len(l)
        /\ \A i \in 1 .. Len(a) : s[i] = a[i]
        /\ s[Len(a) + 1] = Dot
        /\ \A i \in 1 .. Len(l) : s[Len(a) + 1 + i] = l[i]
    BY <2>3, <2>4, <2>5, <2>7, MarkedText
  <2>10. CASE n = 0
    <3>1. Len(a) = 0 /\ l = f
      BY <2>10, <2>5, <2>6
    <3>2. ASSUME NEW i \in 1 .. Len(f) PROVE s[i + 1] = f[i]
      <4>1. s[Len(a) + 1 + i] = f[i] /\ Len(a) + 1 + i = i + 1
        BY <3>1, <2>9
      <4> QED
        BY <4>1
    <3>3. Len(s) = Len(f) + 1
      BY <3>1, <2>9, <1>2
    <3> QED
      BY <3>2, <3>3, <2>10 DEF s
  <2>11. CASE n = 1
    <3>1. Len(a) = Len(f) + 1
      BY <2>11, <2>8
    <3>2. ASSUME NEW i \in 1 .. Len(f) PROVE s[i + 1] = f[i]
      <4>1. i + 1 \in 1 .. Len(a)
        BY <3>1, <1>2
      <4> QED
        BY <4>1, <2>8, <2>9, <2>11
    <3>3. Len(s) > Len(f) + 1 /\ Len(a) + 1 = Len(f) + 2
      BY <3>1, <2>9, <2>5, <1>2
    <3>4. s[Len(f) + 2] = Dot
      BY <3>3, <2>9, Zenon
    <3> QED
      BY <3>2, <3>3, <3>4, <2>11 DEF s
  <2>12. CASE n > 1
    <3>1. Len(a) > Len(f) + 1 /\ Len(f) + 2 \in 1 .. Len(a)
      BY <2>12, <2>8, <2>4, <1>2
    <3>2. ASSUME NEW i \in 1 .. Len(f) PROVE s[i + 1] = f[i]
      <4>1. i + 1 \in 1 .. Len(a)
        BY <3>1, <1>2, <2>4
      <4> QED
        BY <4>1, <2>8, <2>9, <2>12
    <3>3. Len(s) > Len(f) + 1 /\ n + 1 # 1
      BY <3>1, <2>9, <2>4, <2>5, <1>2, <2>12
    <3>4. s[Len(f) + 2] = Dot
      <4>1. a[Len(f) + 2] = Dot
        BY <2>8, <2>12
      <4> QED
        BY <4>1, <3>1, <2>9
    <3> QED
      BY <3>2, <3>3, <3>4 DEF s
  <2> QED
    BY <2>10, <2>11, <2>12
<1>5. \A n \in 0 .. Len(L) : Good(n)
  <2> DEFINE G == {n \in Nat : Good(n)}
  <2> HIDE DEF Good
  <2>1. 0 \in G /\ G \in SUBSET Nat
    BY <1>3
  <2>2. \A n \in G : n < Len(L) => n + 1 \in G
    BY <1>4
  <2> HIDE DEF G
  <2>3. \A n \in 0 .. Len(L) : n \in G
    BY <2>1, <2>2, <1>1, BoundedInduction
  <2> QED
    BY <2>3 DEF G
<1>6. \A n \in 1 .. Len(L) : n \in 0 .. Len(L) /\ n > 0
  BY <1>1
<1> QED
  BY <1>5, <1>6 DEF f

\* The text of a name neither begins nor ends with a dot; it holds one exactly when the
\* name has several labels.
LEMMA DottedText ==
  ASSUME NEW L, IsName(L)
  PROVE  /\ Dotted(L) \in Seq(PlainTokens) /\ Len(Dotted(L)) \in Nat /\ Len(Dotted(L)) >= 1
         /\ Dotted(L)[1] # Dot /\ Dotted(L)[Len(Dotted(L))] # Dot
         /\ Preceded(L) \in Seq(PlainTokens) /\ Preceded(L) # <<>> /\ Preceded(L)[1] = Dot
         /\ Len(Dotted(L)) = Len(Preceded(L)) - 1
         /\ \A i \in 1 .. Len(Dotted(L)) : Dotted(L)[i] = Preceded(L)[i + 1]
         /\ Preceded(L) = <<Dot>> \o Dotted(L)
         /\ Len(L) = 1 => \A i \in 1 .. Len(Dotted(L)) : Dotted(L)[i] # Dot
         /\ Len(L) > 1 => \E i \in 1 .. Len(Dotted(L)) : Dotted(L)[i] = Dot
<1> DEFINE p == Preceded(L)
           d == Dotted(L)
           f == L[1]
<1>1. /\ Len(L) \in Nat /\ Len(L) >= 1 /\ Len(L) \in 0 .. Len(L) /\ Len(L) \in 1 .. Len(L) /\ Len(L) > 0
      /\ Len(f) \in Nat /\ Len(f) >= 1 /\ \A i \in 1 .. Len(f) : f[i] # Dot
  <2>1. Len(L) \in Nat /\ Len(L) >= 1
    BY NameShape
  <2>2. 1 \in 1 .. Len(L)
    BY <2>1
  <2> QED
    BY <2>1, <2>2, NameShape
<1>2. p \in Seq(PlainTokens) /\ Len(p) > 1 /\ p[1] = Dot /\ p[Len(p)] # Dot
  BY <1>1, JoinedText DEF Preceded
<1>3. /\ \A i \in 1 .. Len(f) : p[i + 1] = f[i]
      /\ Len(L) = 1 => Len(p) = Len(f) + 1
      /\ Len(L) > 1 => Len(p) > Len(f) + 1 /\ p[Len(f) + 2] = Dot
  BY <1>1, FirstLabel DEF Preceded
<1>4. d = Tail(p)
  BY DEF Dotted, Preceded
<1> HIDE DEF p, d, f
<1>5. /\ d \in Seq(PlainTokens) /\ Len(d) \in Nat /\ Len(d) = Len(p) - 1
      /\ \A i \in 1 .. Len(d) : d[i] = p[i + 1]
  BY <1>2, <1>4
<1>6. Len(d) >= 1 /\ Len(p) \in Nat /\ p # <<>>
  BY <1>2, <1>5
<1>7. p = <<Dot>> \o d
  <2>1. p = <<Head(p)>> \o Tail(p)
    BY <1>2, <1>6
  <2> QED
    BY <2>1, <1>2, <1>4
<1>8. d[Len(d)] # Dot
  <2>1. Len(d) \in 1 .. Len(d) /\ Len(d) + 1 = Len(p)
    BY <1>5, <1>6
  <2> QED
    BY <2>1, <1>2, <1>5
<1>9. d[1] # Dot
  <2>1. 1 \in 1 .. Len(d) /\ 1 \in 1 .. Len(f)
    BY <1>1, <1>6, <1>5
  <2> QED
    BY <2>1, <1>1, <1>3, <1>5
<1>10. ASSUME Len(L) = 1, NEW i \in 1 .. Len(d) PROVE d[i] # Dot
  <2>1. i \in 1 .. Len(f)
    BY <1>10, <1>3, <1>5, <1>1, <1>6
  <2> QED
    BY <2>1, <1>1, <1>3, <1>5
<1>11. ASSUME Len(L) > 1 PROVE \E i \in 1 .. Len(d) : d[i] = Dot
  <2>1. Len(f) + 1 \in 1 .. Len(d) /\ (Len(f) + 1) + 1 = Len(f) + 2 /\ p[Len(f) + 2] = Dot
    BY <1>11, <1>3, <1>5, <1>1, <1>6
  <2>2. d[Len(f) + 1] = p[(Len(f) + 1) + 1]
    BY <2>1, <1>5
  <2> QED
    BY <2>1, <2>2
<1> QED
  BY <1>2, <1>5, <1>6, <1>7, <1>8, <1>9, <1>10, <1>11 DEF p, d

----------------------------------------------------------------------------
(* The normalised host and the normalised entries.                         *)

\* The last colon is the one before the port.
LEMMA PortStripped ==
  ASSUME NEW S, Colon \in S, PortToken \in S, NEW h \in Seq(S),
         NEW t, t = h \o <<Colon, PortToken>>
  PROVE  StripPort(t) = h
<1> DEFINE c == Len(h) + 1
           js == {0} \cup {j \in DOMAIN t : t[j] = Colon}
<1>1. /\ t \in Seq(S) /\ Len(t) = Len(h) + 2 /\ Len(h) \in Nat
      /\ \A i \in 1 .. Len(h) : t[i] = h[i]
      /\ t[Len(h) + 1] = Colon /\ t[Len(h) + 2] = PortToken
  <2>1. <<Colon, PortToken>> \in Seq(S) /\ Len(<<Colon, PortToken>>) = 2
    OBVIOUS
  <2> QED
    BY <2>1
<1>2. c \in js /\ \A j \in js : c >= j
  <2>1. c \in DOMAIN t /\ DOMAIN t = 1 .. Len(h) + 2
    BY <1>1
  <2>2. PortToken # Colon
    BY DEF PortToken, Colon
  <2>3. \A j \in DOMAIN t : t[j] = Colon => j # Len(h) + 2
    BY <1>1, <2>2
  <2> QED
    BY <1>1, <2>1, <2>3
<1>3. \A x \in js : x \in Int
  BY <1>1
<1> HIDE DEF js
<1>4. Max(js) = c
  <2>1. \E x \in js : \A y \in js : x >= y
    BY <1>2
  <2>2. Max(js) \in js /\ \A y \in js : Max(js) >= y
    BY <2>1 DEF Max
  <2>3. Max(js) >= c /\ c >= Max(js)
    BY <1>2, <2>2
  <2> QED
    BY <2>2, <2>3, <1>1, <1>3
<1>5. StripPort(t) = SubSeq(t, 1, Len(h))
  <2>1. c > 0 /\ c < Len(t) /\ t[c + 1] \in Digits /\ c - 1 = Len(h)
    <3>1. c + 1 = Len(h) + 2
      BY <1>1
    <3> QED
      BY <1>1, <3>1, PortAssumption
  <2>2. Max({0} \cup {j \in DOMAIN t : t[j] = Colon}) = c
    BY <1>4 DEF js
  <2> HIDE DEF c
  <2> QED
    BY <2>1, <2>2 DEF StripPort
<1>6. SubSeq(t, 1, Len(h)) = h
  <2>1. /\ SubSeq(t, 1, Len(h)) \in Seq(S) /\ Len(SubSeq(t, 1, Len(h))) = Len(h)
        /\ \A i \in 1 .. Len(h) : SubSeq(t, 1, Len(h))[i] = t[i]
    BY <1>1
  <2> QED
    BY <2>1, <1>1, SeqEqual
<1> QED
  BY <1>5, <1>6

\* Lower case and the dots of a name do not disturb each other.
LEMMA LoweredDotted ==
  ASSUME NEW L, IsName(L)
  PROVE  ToLower(Dotted(L)) = Dotted(Lowered(L))
<1> DEFINE p == Preceded(L)
<1>1. p \in Seq(PlainTokens) /\ p # <<>> /\ PlainTokens \subseteq DOMAIN LowerOf
  BY DottedText DEF PlainTokens
<1>2. p \in Seq(DOMAIN LowerOf)
  <2> HIDE DEF p
  <2> QED
    BY <1>1, SeqMonotonic
<1>3. ToLower(Tail(p)) = Tail(ToLower(p))
  <2> HIDE DEF p
  <2> QED
    BY <1>1, <1>2, LowerTail
<1>4. Dotted(L) = Tail(p) /\ Dotted(Lowered(L)) = Tail(Preceded(Lowered(L)))
  BY DEF Dotted, Preceded
<1>5. Preceded(Lowered(L)) = ToLower(p)
  BY LoweredName
<1> QED
  BY <1>3, <1>4, <1>5

\* The host a target is matched by: its name in lower case, without dot and port.
LEMMA HostOf ==
  ASSUME NEW t, IsName(t.labels), t.dot \in BOOLEAN, t.port
  PROVE  normalizeHost(TargetText(t)) = Dotted(Lowered(t.labels))
<1> DEFINE L == t.labels
           d == Dotted(L)
           S == DOMAIN LowerOf \cup {Colon, PortToken}
           h == d \o (IF t.dot THEN <<Dot>> ELSE <<>>)
<1>1. /\ d \in Seq(PlainTokens) /\ d \in Seq(S) /\ d \in Seq(DOMAIN LowerOf)
      /\ Len(d) \in Nat /\ Len(d) >= 1 /\ d[Len(d)] # Dot
  <2>1. d \in Seq(PlainTokens) /\ Len(d) \in Nat /\ Len(d) >= 1 /\ d[Len(d)] # Dot
    BY DottedText
  <2>2. PlainTokens \subseteq DOMAIN LowerOf /\ PlainTokens \subseteq S
    BY DEF PlainTokens
  <2> HIDE DEF d, S
  <2> QED
    BY <2>1, <2>2, SeqMonotonic
<1>2. Colon \in S /\ PortToken \in S /\ Dot \in S
  BY LowerAssumption
<1>3. TargetText(t) = h \o <<Colon, PortToken>>
  BY DEF TargetText
<1> HIDE DEF d, S
<1>4. h \in Seq(S)
  BY <1>1, <1>2
<1>5. StripPort(TargetText(t)) = h
  <2> HIDE DEF h
  <2> QED
    BY <1>2, <1>3, <1>4, PortStripped
<1>6. (IF h # <<>> /\ Last(h) = Dot THEN Front(h) ELSE h) = d
  <2>1. CASE t.dot
    <3>1. h = d \o <<Dot>>
      BY <2>1
    <3> HIDE DEF h
    <3>2. /\ h \in Seq(S) /\ Len(h) = Len(d) + 1 /\ h[Len(d) + 1] = Dot
          /\ \A i \in 1 .. Len(d) : h[i] = d[i]
      BY <3>1, <1>1, <1>2
    <3>3. h # <<>> /\ Last(h) = Dot
      BY <3>2, <1>1 DEF Last
    <3>4. Front(h) = d
      <4>1. Len(h) - 1 = Len(d)
        BY <3>2, <1>1
      <4>2. /\ SubSeq(h, 1, Len(d)) \in Seq(S) /\ Len(SubSeq(h, 1, Len(d))) = Len(d)
            /\ \A i \in 1 .. Len(d) : SubSeq(h, 1, Len(d))[i] = h[i]
        BY <3>2, <1>1
      <4>3. SubSeq(h, 1, Len(d)) = d
        BY <4>2, <3>2, <1>1, SeqEqual
      <4> QED
        BY <4>1, <4>3 DEF Front
    <3> QED
      BY <3>3, <3>4
  <2>2. CASE ~t.dot
    <3>1. h = d
      BY <2>2, <1>1
    <3>2. ~(Last(d) = Dot)
      BY <1>1 DEF Last
    <3> QED
      BY <3>1, <3>2
  <2> QED
    BY <2>1, <2>2
<1>7. normalizeHost(TargetText(t)) = ToLower(d)
  <2> HIDE DEF h
  <2> QED
    BY <1>5, <1>6 DEF normalizeHost
<1>8. ToLower(d) = Dotted(Lowered(L))
  BY LoweredDotted DEF d
<1> QED
  BY <1>7, <1>8

\* An entry with a leading dot matches the names that end with its labels, one label
\* without a dot the name that consists of it.
LEMMA TextMatches ==
  ASSUME NEW E, NEW T, IsName(E), IsName(T)
  PROVE  /\ Matches(Dotted(T), Preceded(E)) <=> IsSuffix(E, T)
         /\ Matches(Dotted(T), Dotted(E)) <=> E = T
<1> DEFINE pe == Preceded(E)
           pt == Preceded(T)
           de == Dotted(E)
           dt == Dotted(T)
<1>1. /\ pe \in Seq(PlainTokens) /\ pe # <<>> /\ pe[1] = Dot /\ pe = <<Dot>> \o de
      /\ de \in Seq(PlainTokens) /\ Len(de) \in Nat /\ Len(de) >= 1 /\ de[1] # Dot
      /\ de = Tail(pe)
  BY DottedText DEF Dotted, Preceded
<1>2. /\ pt \in Seq(PlainTokens) /\ pt # <<>> /\ pt[1] = Dot /\ pt = <<Dot>> \o dt
      /\ dt \in Seq(PlainTokens) /\ Len(dt) \in Nat /\ Len(dt) = Len(pt) - 1
      /\ \A i \in 1 .. Len(dt) : dt[i] = pt[i + 1]
      /\ dt = Tail(pt)
  BY DottedText DEF Dotted, Preceded
<1>3. /\ IsSuffix(pe, pt) <=> IsSuffix(E, T)
      /\ pe = pt <=> E = T
  BY NameSuffix
<1> HIDE DEF pe, pt, de, dt
<1>4. dt = de <=> pe = pt
  BY <1>1, <1>2
<1>5. Len(pe) \in Nat /\ Len(pt) \in Nat
  BY <1>1, <1>2
<1>6. EndsWith(pe, pt) <=> dt = de \/ EndsWith(pe, dt)
  <2>1. ASSUME dt = de PROVE EndsWith(pe, pt)
    BY <2>1, <1>4, <1>5 DEF EndsWith
  <2>2. ASSUME EndsWith(pe, dt) PROVE EndsWith(pe, pt)
    <3>1. Len(pe) <= Len(dt) /\ \A j \in 0 .. Len(pe) - 1 : pe[Len(pe) - j] = dt[Len(dt) - j]
      BY <2>2 DEF EndsWith
    <3>2. ASSUME NEW j \in 0 .. Len(pe) - 1 PROVE pe[Len(pe) - j] = pt[Len(pt) - j]
      <4>1. Len(dt) - j \in 1 .. Len(dt) /\ (Len(dt) - j) + 1 = Len(pt) - j
        BY <1>2, <1>5, <3>1
      <4>2. dt[Len(dt) - j] = pt[(Len(dt) - j) + 1]
        BY <1>2, <4>1, Zenon
      <4> QED
        BY <3>1, <4>1, <4>2, Zenon
    <3> QED
      BY <3>1, <3>2, <1>2, <1>5 DEF EndsWith
  <2>3. ASSUME EndsWith(pe, pt) PROVE dt = de \/ EndsWith(pe, dt)
    <3>1. Len(pe) <= Len(pt) /\ \A j \in 0 .. Len(pe) - 1 : pe[Len(pe) - j] = pt[Len(pt) - j]
      BY <2>3 DEF EndsWith
    <3>2. CASE Len(pe) = Len(pt)
      <4>1. ASSUME NEW i \in 1 .. Len(pe) PROVE pe[i] = pt[i]
        <5> DEFINE k == Len(pe) - i
        <5>1. k \in 0 .. Len(pe) - 1 /\ Len(pe) - k = i /\ Len(pt) - k = i
          BY <1>5, <3>2
        <5> HIDE DEF k
        <5>2. pe[Len(pe) - k] = pt[Len(pt) - k]
          BY <3>1, <5>1
        <5> QED
          BY <5>1, <5>2, Zenon
      <4>2. pe = pt
        BY <4>1, <3>2, <1>1, <1>2, SeqEqual
      <4> QED
        BY <4>2, <1>4
    <3>3. CASE Len(pe) < Len(pt)
      <4>1. Len(pe) <= Len(dt)
        BY <3>3, <1>2, <1>5
      <4>2. ASSUME NEW j \in 0 .. Len(pe) - 1 PROVE pe[Len(pe) - j] = dt[Len(dt) - j]
        <5>1. Len(dt) - j \in 1 .. Len(dt) /\ (Len(dt) - j) + 1 = Len(pt) - j
          BY <1>2, <1>5, <4>1
        <5>2. dt[Len(dt) - j] = pt[(Len(dt) - j) + 1]
          BY <1>2, <5>1, Zenon
        <5>3. pe[Len(pe) - j] = pt[Len(pt) - j]
          BY <3>1
        <5> QED
          BY <5>1, <5>2, <5>3, Zenon
      <4> QED
        BY <4>1, <4>2 DEF EndsWith
    <3> QED
      BY <3>1, <3>2, <3>3, <1>5
  <2> QED
    BY <2>1, <2>2, <2>3
<1>7. HasPrefix(pe, Dot) /\ ~HasPrefix(de, Dot)
  BY <1>1 DEF HasPrefix
<1>8. /\ IsSuffix(pe, pt) <=> EndsWith(pe, pt)
      /\ IsSuffix(pe, dt) <=> EndsWith(pe, dt)
  BY <1>1, <1>2, SuffixFromEnd
<1>9. Matches(dt, pe) <=> IsSuffix(E, T)
  BY <1>1, <1>3, <1>6, <1>7, <1>8 DEF Matches
<1>10. Matches(dt, de) <=> E = T
  BY <1>3, <1>4, <1>7 DEF Matches
<1> QED
  BY <1>9, <1>10 DEF pe, de, dt

\* What the lists hold for an entry: its text in lower case, with a leading dot if it
\* was written with one or has several labels.
LEMMA EntryNormalized ==
  ASSUME NEW e, IsName(e.labels), e.dotted \in BOOLEAN, ~e.comment
  PROVE  LET E == Lowered(e.labels) IN
         /\ ToLower(NormalizeEntry(EntryText(e)))
              = IF e.dotted \/ Len(E) > 1 THEN Preceded(E) ELSE Dotted(E)
         /\ EntryText(e) # <<>> /\ ~HasPrefix(EntryText(e), Hash)
<1> DEFINE L == e.labels
           E == Lowered(L)
           text == EntryText(e)
           low == ToLower(text)
<1>1. /\ IsName(E) /\ Preceded(E) = ToLower(Preceded(L)) /\ Dotted(E) = ToLower(Dotted(L))
  BY LoweredName, LoweredDotted
<1>2. /\ Preceded(L) \in Seq(PlainTokens) /\ Preceded(L) # <<>>
      /\ Dotted(L) \in Seq(PlainTokens) /\ Dotted(L) # <<>>
      /\ Preceded(L) = <<Dot>> \o Dotted(L)
  BY DottedText
<1>3. PlainTokens \subseteq DOMAIN LowerOf /\ Hash \notin PlainTokens
  BY DEF PlainTokens
<1>4. /\ ToLower(Preceded(E)) = Preceded(E) /\ ToLower(Dotted(E)) = Dotted(E)
  <2>1. Preceded(L) \in Seq(DOMAIN LowerOf) /\ Dotted(L) \in Seq(DOMAIN LowerOf)
    BY <1>2, <1>3, SeqMonotonic
  <2> QED
    BY <2>1, <1>1, LowerText
<1>5. text = IF e.dotted THEN Preceded(L) ELSE Dotted(L)
  <2>1. text = (<<>> \o (IF e.dotted THEN <<Dot>> ELSE <<>>)) \o Dotted(L)
    BY DEF EntryText
  <2>2. CASE e.dotted
    <3>1. <<>> \o <<Dot>> = <<Dot>>
      OBVIOUS
    <3> QED
      BY <2>1, <2>2, <3>1, <1>2
  <2>3. CASE ~e.dotted
    <3>1. <<>> \o <<>> = <<>> /\ <<>> \o Dotted(L) = Dotted(L)
      BY <1>2
    <3> QED
      BY <2>1, <2>3, <3>1
  <2> QED
    BY <2>2, <2>3
<1>6. text # <<>> /\ ~HasPrefix(text, Hash)
  <2>1. text \in Seq(PlainTokens) /\ text # <<>>
    BY <1>2, <1>5
  <2> HIDE DEF text
  <2>2. Head(text) \in PlainTokens
    BY <2>1
  <2> QED
    BY <2>1, <2>2, <1>3 DEF HasPrefix
<1>7. CASE e.dotted
  <2>1. low = Preceded(E)
    BY <1>1, <1>5, <1>7
  <2>2. Preceded(E) \in Seq(PlainTokens) /\ Preceded(E) # <<>> /\ Preceded(E)[1] = Dot
    BY <1>1, DottedText
  <2>3. HasPrefix(low, Dot)
    BY <2>1, <2>2 DEF HasPrefix
  <2>4. NormalizeEntry(text) = low
    BY <2>3 DEF NormalizeEntry
  <2> QED
    BY <1>4, <1>6, <1>7, <2>1, <2>4
<1>8. CASE ~e.dotted
  <2>1. low = Dotted(E)
    BY <1>1, <1>5, <1>8
  <2>2. /\ Dotted(E) \in Seq(PlainTokens) /\ Len(Dotted(E)) \in Nat /\ Len(Dotted(E)) >= 1
        /\ Dotted(E)[1] # Dot /\ Preceded(E) = <<Dot>> \o Dotted(E)
        /\ Len(E) = 1 => \A i \in 1 .. Len(Dotted(E)) : Dotted(E)[i] # Dot
        /\ Len(E) > 1 => \E i \in 1 .. Len(Dotted(E)) : Dotted(E)[i] = Dot
    BY <1>1, DottedText
  <2>3. Len(E) = 1 \/ Len(E) > 1
    <3> HIDE DEF E
    <3>1. Len(E) \in Nat /\ Len(E) >= 1
      BY <1>1, NameShape
    <3> QED
      BY <3>1
  <2>4. ~HasPrefix(low, Dot)
    BY <2>1, <2>2 DEF HasPrefix
  <2>5. Contains(low, Dot) <=> Len(E) > 1
    BY <2>1, <2>2, <2>3 DEF Contains
  <2>6. NormalizeEntry(text) = IF Len(E) > 1 THEN Preceded(E) ELSE Dotted(E)
    <3>1. NormalizeEntry(text) = IF Len(E) > 1 THEN <<Dot>> \o low ELSE low
      BY <2>4, <2>5 DEF NormalizeEntry
    <3> QED
      BY <3>1, <2>1, <2>2
  <2> QED
    BY <1>4, <1>6, <1>8, <2>6
<1> QED
  BY <1>7, <1>8

\* A comment in a list of the environment is taken for a name that no host has.
LEMMA CommentNoMatch ==
  ASSUME NEW e, IsName(e.labels), e.dotted \in BOOLEAN, e.comment, NEW T, IsName(T)
  PROVE  /\ ~Matches(Dotted(T), ToLower(NormalizeEntry(EntryText(e))))
         /\ EntryText(e) # <<>> /\ HasPrefix(EntryText(e), Hash)
<1> DEFINE S == DOMAIN LowerOf
           d == Dotted(e.labels)
           host == Dotted(T)
           text == EntryText(e)
           low == ToLower(text)
           s == NormalizeEntry(text)
           z == ToLower(s)
<1>1. /\ host \in Seq(PlainTokens) /\ host # <<>> /\ Len(host) \in Nat /\ Len(host) >= 1
      /\ \A i \in 1 .. Len(host) : host[i] # Hash /\ host[i] \in S
  <2>1. host \in Seq(PlainTokens) /\ host # <<>> /\ Len(host) \in Nat /\ Len(host) >= 1
    BY DottedText
  <2> HIDE DEF host
  <2> QED
    BY <2>1 DEF PlainTokens
<1>2. d \in Seq(S)
  <2>1. d \in Seq(PlainTokens)
    BY DottedText
  <2> HIDE DEF d
  <2> QED
    BY <2>1, SeqMonotonic DEF PlainTokens
<1>3. text \in Seq(S) /\ Len(text) \in Nat /\ Len(text) >= 1 /\ text[1] = Hash
  <2>1. text = (<<Hash>> \o (IF e.dotted THEN <<Dot>> ELSE <<>>)) \o d
    BY DEF EntryText
  <2>2. Dot \in S /\ Hash \in S
    BY LowerAssumption
  <2> HIDE DEF text, d, S
  <2>3. CASE e.dotted
    <3>1. text = (<<Hash>> \o <<Dot>>) \o d
      BY <2>1, <2>3
    <3> QED
      BY <3>1, <1>2, <2>2
  <2>4. CASE ~e.dotted
    <3>1. text = (<<Hash>> \o <<>>) \o d
      BY <2>1, <2>4
    <3> QED
      BY <3>1, <1>2, <2>2
  <2> QED
    BY <2>3, <2>4
<1> HIDE DEF text
<1>4. low \in Seq(S) /\ Len(low) \in Nat /\ Len(low) >= 1 /\ low[1] = Hash
  <2>1. /\ DOMAIN text = 1 .. Len(text) /\ 1 \in 1 .. Len(text)
        /\ \A i \in 1 .. Len(text) : text[i] \in S
    BY <1>3
  <2>2. \A x \in S : LowerOf[x] \in S
    BY LowerAssumption
  <2>3. LowerOf[Hash] = Hash
    BY LowerAssumption
  <2>4. low = [i \in 1 .. Len(text) |-> LowerOf[text[i]]]
    BY <2>1 DEF ToLower
  <2>5. low[1] = Hash
    BY <1>3, <2>1, <2>3, <2>4
  <2>6. \A i \in 1 .. Len(text) : LowerOf[text[i]] \in S
    BY <2>1, <2>2
  <2> HIDE DEF low, S
  <2>7. low \in Seq(S) /\ Len(low) = Len(text)
    BY <1>3, <2>4, <2>6
  <2> QED
    BY <1>3, <2>5, <2>7
<1> HIDE DEF low
<1>5. HasPrefix(text, Hash)
  BY <1>3 DEF HasPrefix
<1>6. Dot \in S /\ Hash # Dot /\ \A x \in S : LowerOf[x] \in S
  BY LowerAssumption DEF Dot, Hash
<1>7. s = low \/ s = <<Dot>> \o low
  BY DEF NormalizeEntry, low
<1>8. LowerOf[Hash] = Hash /\ LowerOf[Dot] = Dot
  BY LowerAssumption
<1>9. CASE s = low
  <2>1. /\ DOMAIN low = 1 .. Len(low) /\ 1 \in 1 .. Len(low)
        /\ \A i \in 1 .. Len(low) : low[i] \in S
    BY <1>4
  <2>2. z = [i \in 1 .. Len(low) |-> LowerOf[low[i]]]
    BY <1>9, <2>1 DEF ToLower
  <2>3. z[1] = Hash
    BY <1>4, <1>8, <2>1, <2>2
  <2>4. \A i \in 1 .. Len(low) : LowerOf[low[i]] \in S
    BY <1>6, <2>1
  <2> HIDE DEF z, S, host
  <2>5. z \in Seq(S) /\ z # <<>>
    BY <1>4, <2>2, <2>4
  <2>6. ~HasPrefix(z, Dot)
    BY <1>6, <2>3, <2>5 DEF HasPrefix
  <2>7. host # z
    BY <1>1, <2>3
  <2>8. ~Matches(host, z)
    BY <2>6, <2>7 DEF Matches
  <2> QED
    BY <1>5, <2>8, Zenon DEF z, host, s, text, HasPrefix
<1>10. CASE s = <<Dot>> \o low
  <2>1. s \in Seq(S) /\ Len(s) = Len(low) + 1 /\ s[1] = Dot /\ s[2] = Hash
    BY <1>4, <1>6, <1>10
  <2> HIDE DEF s
  <2>2. /\ DOMAIN s = 1 .. Len(s) /\ 1 \in 1 .. Len(s) /\ 2 \in 1 .. Len(s)
        /\ \A i \in 1 .. Len(s) : s[i] \in S
    BY <1>4, <2>1
  <2>3. z = [i \in 1 .. Len(s) |-> LowerOf[s[i]]]
    BY <2>2 DEF ToLower
  <2>4. z[1] = Dot /\ z[2] = Hash
    BY <1>8, <2>1, <2>2, <2>3
  <2>5. \A i \in 1 .. Len(s) : LowerOf[s[i]] \in S
    BY <1>6, <2>2
  <2> HIDE DEF z, S, host
  <2>6. z \in Seq(S) /\ z # <<>> /\ Len(z) \in Nat /\ Len(z) >= 2
    BY <1>4, <2>1, <2>3, <2>5
  <2>7. HasPrefix(z, Dot)
    BY <2>4, <2>6 DEF HasPrefix
  <2>8. host # Tail(z)
    <3>1. Tail(z)[1] = Hash
      BY <2>4, <2>6
    <3>2. host[1] # Hash
      BY <1>1
    <3> QED
      BY <3>1, <3>2, Zenon
  <2>9. ~IsSuffix(z, host)
    <3>1. SUFFICES ASSUME EndsWith(z, host) PROVE FALSE
      <4>1. host \in Seq(S)
        <5>1. \A i \in 1 .. Len(host) : host[i] \in S
          BY <1>1
        <5> QED
          BY <1>1, <5>1
      <4> QED
        BY <2>6, <4>1, SuffixFromEnd
    <3>2. /\ Len(z) <= Len(host)
          /\ \A j \in 0 .. Len(z) - 1 : z[Len(z) - j] = host[Len(host) - j]
      BY <3>1 DEF EndsWith
    <3> DEFINE j == Len(z) - 2
    <3>3. /\ j \in 0 .. Len(z) - 1 /\ Len(z) - j = 2
          /\ Len(host) - j \in 1 .. Len(host)
      BY <1>1, <2>6, <3>2
    <3>4. z[Len(z) - j] = host[Len(host) - j]
      BY <3>2, <3>3
    <3> HIDE DEF j
    <3> QED
      BY <1>1, <2>4, <3>3, <3>4, Zenon
  <2>10. ~Matches(host, z)
    BY <2>7, <2>8, <2>9 DEF Matches
  <2> QED
    BY <1>5, <2>10, Zenon DEF z, host, s, text, HasPrefix
<1> QED
  BY <1>7, <1>9, <1>10

\* What a list holds.
IsEntry(e) == IsName(e.labels) /\ e.dotted \in BOOLEAN /\ e.comment \in BOOLEAN

\* An entry of a list matches a host exactly when its labels name the host's.
LEMMA EntryMatches ==
  ASSUME NEW e, IsEntry(e), NEW t, IsName(t.labels)
  PROVE  /\ Matches(Dotted(Lowered(t.labels)), ToLower(NormalizeEntry(EntryText(e)))) <=> Names(e, t)
         /\ EntryText(e) # <<>> /\ (HasPrefix(EntryText(e), Hash) <=> e.comment)
<1> DEFINE E == Lowered(e.labels)
           T == Lowered(t.labels)
           z == ToLower(NormalizeEntry(EntryText(e)))
<1>1. IsName(e.labels) /\ e.dotted \in BOOLEAN /\ e.comment \in BOOLEAN
  BY DEF IsEntry
<1>2. IsName(E) /\ IsName(T)
  BY <1>1, LoweredName
<1>3. CASE e.comment
  <2> HIDE DEF T
  <2>1. /\ ~Matches(Dotted(T), z)
        /\ EntryText(e) # <<>> /\ HasPrefix(EntryText(e), Hash)
    BY <1>1, <1>2, <1>3, CommentNoMatch
  <2>2. ~Names(e, t)
    BY <1>3 DEF Names
  <2> HIDE DEF z
  <2> QED
    BY <1>3, <2>1, <2>2, Zenon DEF z, T
<1>4. CASE ~e.comment
  <2>1. /\ z = IF e.dotted \/ Len(E) > 1 THEN Preceded(E) ELSE Dotted(E)
        /\ EntryText(e) # <<>> /\ ~HasPrefix(EntryText(e), Hash)
    BY <1>1, <1>4, EntryNormalized
  <2>2. Names(e, t) <=> IF e.dotted \/ Len(E) > 1 THEN IsSuffix(E, T) ELSE E = T
    BY <1>4, Zenon DEF Names
  <2> HIDE DEF z, E, T
  <2>3. /\ Matches(Dotted(T), Preceded(E)) <=> IsSuffix(E, T)
        /\ Matches(Dotted(T), Dotted(E)) <=> E = T
    BY <1>2, TextMatches
  <2>4. Matches(Dotted(T), z) <=> Names(e, t)
    <3>1. CASE e.dotted \/ Len(E) > 1
      <4>1. z = Preceded(E) /\ (Names(e, t) <=> IsSuffix(E, T))
        BY <2>1, <2>2, <3>1, Zenon
      <4> QED
        BY <2>3, <4>1, Zenon
    <3>2. CASE ~(e.dotted \/ Len(E) > 1)
      <4>1. z = Dotted(E) /\ (Names(e, t) <=> E = T)
        BY <2>1, <2>2, <3>2, Zenon
      <4> QED
        BY <2>3, <4>1, Zenon
    <3> QED
      BY <3>1, <3>2
  <2> QED
    BY <1>4, <2>1, <2>4, Zenon DEF z, T
<1> QED
  BY <1>1, <1>3, <1>4

\* A list, part of it from the environment and part from a file, matches a target
\* exactly when one of its entries names it.
LEMMA ListMatches ==
  ASSUME NEW A, NEW B, \A e \in A \cup B : IsEntry(e),
         NEW t, IsName(t.labels), t.dot \in BOOLEAN, t.port
  PROVE  matchesAny(TargetText(t), parseSuffixList(Texts(A)) \cup loadSuffixFile(Texts(B)))
           <=> Listed(A \cup B, t)
<1> DEFINE host == Dotted(Lowered(t.labels))
           fromEnv == parseSuffixList(Texts(A))
           fromFile == loadSuffixFile(Texts(B))
           low(e) == ToLower(NormalizeEntry(EntryText(e)))
<1>1. normalizeHost(TargetText(t)) = host
  BY HostOf
<1>2. host # <<>>
  <2>1. IsName(Lowered(t.labels))
    BY LoweredName
  <2> QED
    BY <2>1, DottedText
<1>3. \A e \in A \cup B :
         /\ Matches(host, low(e)) <=> Names(e, t)
         /\ EntryText(e) # <<>> /\ (HasPrefix(EntryText(e), Hash) <=> e.comment)
  BY EntryMatches
<1>4. fromEnv = {NormalizeEntry(EntryText(e)) : e \in A}
  BY <1>3, Zenon DEF parseSuffixList, Texts
<1>5. fromFile = {NormalizeEntry(EntryText(e)) : e \in {x \in B : ~x.comment}}
  BY <1>3, Zenon DEF parseSuffixList, loadSuffixFile, Texts
<1> HIDE DEF host, fromEnv, fromFile
<1>6. matchesAny(TargetText(t), fromEnv \cup fromFile)
        <=> \E s \in fromEnv \cup fromFile : Matches(host, ToLower(s))
  BY <1>1, <1>2 DEF matchesAny
<1>7. ASSUME NEW e \in A \cup B, Names(e, t)
      PROVE  \E s \in fromEnv \cup fromFile : Matches(host, ToLower(s))
  <2>1. ~e.comment
    BY <1>7 DEF Names
  <2>2. NormalizeEntry(EntryText(e)) \in fromEnv \cup fromFile
    BY <1>4, <1>5, <2>1
  <2>3. Matches(host, ToLower(NormalizeEntry(EntryText(e))))
    BY <1>3, <1>7
  <2> QED
    BY <2>2, <2>3, Zenon
<1>8. ASSUME NEW s \in fromEnv \cup fromFile, Matches(host, ToLower(s))
      PROVE  \E e \in A \cup B : Names(e, t)
  <2>1. PICK e \in A \cup B : s = NormalizeEntry(EntryText(e))
    BY <1>4, <1>5, Zenon
  <2>2. Matches(host, low(e))
    BY <1>8, <2>1, Zenon
  <2> QED
    BY <1>3, <2>2, Zenon
<1> QED
  BY <1>6, <1>7, <1>8, Zenon DEF Listed, fromEnv, fromFile

\* The decision, by the mode and the lists.
LEMMA RouteOf ==
  ASSUME NEW e \in Envs, NEW t \in Targets, t.port
  PROVE  decideRoute(ConfiguredRouter(e), TargetText(t))
           = IF e.mode = "proxy-default" /\ Listed(e.directDomains \cup e.directFile, t) THEN "direct"
             ELSE IF e.mode = "direct-default" /\ ~Listed(e.proxyDomains \cup e.proxyFile, t)
             THEN "direct" ELSE "wan"
<1> DEFINE direct == parseSuffixList(Texts(e.directDomains)) \cup loadSuffixFile(Texts(e.directFile))
           proxy == parseSuffixList(Texts(e.proxyDomains)) \cup loadSuffixFile(Texts(e.proxyFile))
           router == ConfiguredRouter(e)
           text == TargetText(t)
<1>1. /\ matchesAny(text, direct) <=> Listed(e.directDomains \cup e.directFile, t)
      /\ matchesAny(text, proxy) <=> Listed(e.proxyDomains \cup e.proxyFile, t)
  <2>1. IsName(t.labels) /\ t.dot \in BOOLEAN
    BY TargetsAssumption
  <2>2. /\ \A x \in e.directDomains \cup e.directFile : IsEntry(x)
        /\ \A x \in e.proxyDomains \cup e.proxyFile : IsEntry(x)
    BY EnvsAssumption DEF IsEntry
  <2> HIDE DEF text
  <2> QED
    BY <2>1, <2>2, ListMatches DEF text
<1>2. e.mode \in RouteModes
  BY EnvsAssumption
<1>3. router = IF e.mode # "all-proxy" \/ direct # {} \/ proxy # {}
               THEN [mode |-> e.mode, direct |-> direct, proxy |-> proxy] ELSE NoRouter
  BY Zenon DEF ConfiguredRouter, NewRouter
<1> HIDE DEF direct, proxy, router, text
<1>4. decideRoute(router, text)
        = IF e.mode = "proxy-default" THEN IF matchesAny(text, direct) THEN "direct" ELSE "wan"
          ELSE IF e.mode = "direct-default"
          THEN IF matchesAny(text, proxy) THEN "wan" ELSE "direct" ELSE "wan"
  <2>1. CASE router = NoRouter
    <3>1. e.mode = "all-proxy"
      <4>1. SUFFICES ASSUME e.mode # "all-proxy" PROVE FALSE
        OBVIOUS
      <4>2. router.mode = e.mode /\ router.mode = "none"
        BY <1>3, <2>1, <4>1 DEF NoRouter
      <4> QED
        BY <1>2, <4>2 DEF RouteModes
    <3> QED
      BY <2>1, <3>1 DEF decideRoute
  <2>2. CASE router # NoRouter
    <3>1. router.mode = e.mode /\ router.direct = direct /\ router.proxy = proxy
      BY <1>3, <2>2
    <3> QED
      BY <2>2, <3>1 DEF decideRoute, Decide
  <2> QED
    BY <2>1, <2>2
<1> QED
  BY <1>1, <1>4 DEF router, text

----------------------------------------------------------------------------
(* The route of a connection.                                              *)

\* Between the decision and its use nothing changes: the settings and the target are
\* those the route was decided by.
RouteInv ==
  pc = "route" => /\ env \in Envs /\ target \in Targets
                  /\ route = decideRoute(ConfiguredRouter(env), TargetText(target))

LEMMA RouteInvariant == Spec => []RouteInv
<1>1. Init => RouteInv
  BY DEF Init, RouteInv
<1>2. RouteInv /\ [Next]_vars => RouteInv'
  <2>1. SUFFICES ASSUME RouteInv, [Next]_vars, pc' = "route" PROVE RouteInv'
    BY DEF RouteInv
  <2>2. CASE DecideRoute
    BY <2>2 DEF DecideRoute, RouteInv
  <2>3. CASE pc = "route" /\ UNCHANGED <<pc, env, target, route>>
    BY <2>1, <2>3 DEF RouteInv
  <2>4. CASE Next
    <3>1. CASE Greet \/ BadVersion \/ BadRequest \/ HeadBad
      BY <2>1, <3>1 DEF Greet, BadVersion, BadRequest, HeadBad, Step, Refuse, Silently,
         Return, ReturnAfter
    <3>2. CASE ConnectOk \/ UpshakeOk \/ UpshakeRefused \/ HijackFails
      BY <2>1, <3>2 DEF ConnectOk, UpshakeOk, UpshakeRefused, HijackFails, Step, Refuse,
         RefuseUndialled, Return, ReturnAfter
    <3>3. CASE HandlerStep
      BY <2>1, <3>3
         DEF HandlerStep, ReadFails, HeadFails, NoWAN, Reserve, ConnectFails, UpshakeLost,
             SocksReply, SocksReplyFails, Hijack, RelayEnds, StartPumps, Step, Refuse,
             RefuseUndialled, Silently, Return, ReturnAfter
    <3>4. CASE Pumps
      BY <2>3, <2>1, <3>4
         DEF Pumps, UpRead, UpWrite, UpEnds, DownRead, DownWrite, DownEnds, PumpRest, asked
    <3>5. CASE ClientSends \/ ClientLeaves \/ ClientStops \/ UpstreamAnswers \/ UpstreamLeaves
               \/ UpstreamStops \/ DeadlinePasses
      BY <2>1, <3>5
         DEF ClientSends, ClientLeaves, ClientStops, UpstreamAnswers, UpstreamLeaves,
             UpstreamStops, DeadlinePasses, PeerRest
    <3>6. CASE Finished
      BY <2>1, <3>6 DEF Finished, vars
    <3> QED
      BY <2>2, <2>4, <3>1, <3>2, <3>3, <3>4, <3>5, <3>6 DEF Next
  <2>5. CASE UNCHANGED vars
    BY <2>1, <2>3, <2>5 DEF vars, asked
  <2> QED
    BY <2>1, <2>4, <2>5
<1> QED
  BY <1>1, <1>2, PTL DEF Spec

\* For every target with a port and every configuration, the decided route is the one
\* the labels of the target and of the lists say (Decide, matchesAny, normalizeHost,
\* parseSuffixList, loadSuffixFile).
THEOREM RoutedAsListed == Spec => []RouteAsListed
<1>1. RouteInv => RouteAsListed
  <2>1. SUFFICES ASSUME RouteInv, pc = "route", target.port PROVE route = ExpectedRoute(target)
    BY DEF RouteAsListed
  <2>2. /\ env \in Envs /\ target \in Targets
        /\ route = decideRoute(ConfiguredRouter(env), TargetText(target))
    BY <2>1 DEF RouteInv
  <2> QED
    BY <2>1, <2>2, RouteOf DEF ExpectedRoute
<1> QED
  BY <1>1, RouteInvariant, PTL
==============================================================================
