---------------------------- MODULE SfuRegistry ----------------------------
(***************************************************************************)
(* The session and stream registry of the SFU server (SfuServerFull).     *)
(*                                                                         *)
(* One libev thread runs every handler to completion, so each handler is   *)
(* one action.  The one exception is the timeout sweep of the 1 s timer:   *)
(* it destroys its victims one after the other, in the order of an         *)
(* unordered_map, so it is a start step and one step per victim during     *)
(* which no other handler may run.                                         *)
(*                                                                         *)
(* A session is either UDP (its fd is NoFd, -1 in the code) or lives on an *)
(* accepted TCP descriptor.  Idle times are not modelled: a sweep may find *)
(* any set of sessions expired, since any client may fall silent.          *)
(***************************************************************************)
EXTENDS Integers, FiniteSets, Functions

CONSTANTS
    Users,          \* user_id values
    Streams,        \* stream_id values
    Fds,            \* descriptors the kernel may hand out to accepted connections
    NoFd,           \* the fd of a UDP session
    FirstSessionId, \* initial m_next_session_id
    MaxSessionId    \* bound on the session ids that are handed out, below the
                    \* 0x12000000 from which UnsubscribeId could hit a session

ASSUME RegistryAssumption ==
    /\ NoFd \notin Fds
    /\ FirstSessionId \in Nat \ {0}
    /\ MaxSessionId \in Nat
    /\ MaxSessionId < 18 * 16777216

VARIABLES
    sessions,    \* m_sessions: live session id -> session
    streams,     \* m_streams: registered stream name -> stream
    fdToSession, \* m_fdToSession: descriptor -> session id, possibly out of date
    nextId,      \* m_next_session_id
    conns,       \* open TCP connections: descriptor -> session id its client was told (0: none)
    sweep,       \* victims CleanupTimeoutSessions has still to destroy
    events,      \* what the last handler sent or received
    fault,       \* undefined behaviour the process has run into
    shared       \* history: sessions that were ever on one descriptor with another

vars == <<sessions, streams, fdToSession, nextId, conns, sweep, events, fault, shared>>

Live == DOMAIN sessions

Session ==
    [user : Users, stream : Streams, fd : Fds \cup {NoFd},
     pub : BOOLEAN, sub : BOOLEAN, ctrl : BOOLEAN, p2p : BOOLEAN, proxy : BOOLEAN]

Stream == [pub : Nat, subs : SUBSET Nat]

Faults == {"none", "null_session", "freed_stream", "erased_iterator"}

IsUdp(x) == sessions[x].fd = NoFd

Event(kind, to, via) == [kind |-> kind, to |-> to, via |-> via]

\* Mutant: ids start at 0, the value that means "no session".
InitFromZero ==
    /\ sessions = [x \in {} |-> NoFd]
    /\ streams = [s \in {} |-> NoFd]
    /\ fdToSession = [f \in {} |-> 0]
    /\ nextId = 0
    /\ conns = [f \in {} |-> 0]
    /\ sweep = {}
    /\ events = {}
    /\ fault = "none"
    /\ shared = {}

Init ==
    /\ sessions = [x \in {} |-> NoFd]
    /\ streams = [s \in {} |-> NoFd]
    /\ fdToSession = [f \in {} |-> 0]
    /\ nextId = FirstSessionId
    /\ conns = [f \in {} |-> 0]
    /\ sweep = {}
    /\ events = {}
    /\ fault = "none"
    /\ shared = {}

\* The event loop is free to run the next handler.
Ready == fault = "none" /\ sweep = {}

-----------------------------------------------------------------------------
(* Lookups *)

\* Mutant: the lookup does not prefer the session of the same stream.
SiblingsOfUser(x) ==
    {o \in Live \ {x} : sessions[o].user = sessions[x].user /\ IsUdp(o) # IsUdp(x)}

\* FindSiblingSessionLocked: sessions of the same user on the other transport,
\* those of the same stream first; any of them, the map is unordered.
Siblings(x) ==
    LET mates == {o \in Live \ {x} : sessions[o].user = sessions[x].user /\ IsUdp(o) # IsUdp(x)}
        same  == {o \in mates : sessions[o].stream = sessions[x].stream}
    IN  IF same # {} THEN same ELSE mates

\* Mutant: the transport is not compared.
StaleAnyTransport(u, s, c) ==
    {x \in Live : sessions[x].user = u /\ sessions[x].stream = s}

\* The sessions CreateSession regards as an older one of the same client.
Stale(u, s, c) ==
    {x \in Live : /\ sessions[x].user = u
                  /\ sessions[x].stream = s
                  /\ IsUdp(x) = (c = NoFd)}

-----------------------------------------------------------------------------
(* DestroySession *)

\* The control sessions that go with x, one set per sibling the lookup may
\* return: only a UDP publisher takes one with it, and only a control-only one.
Paired(x) ==
    IF IsUdp(x) /\ sessions[x].pub /\ Siblings(x) # {}
    THEN {{o} \cap {y \in Live : sessions[y].ctrl} : o \in Siblings(x)}
    ELSE {{}}

\* Mutant: a destroyed subscriber stays in the list of its stream.
StreamsWithoutPublishers(dead) ==
    Restrict(streams, {s \in DOMAIN streams : streams[s].pub \notin dead})

\* m_streams once the sessions in dead are destroyed: a publisher takes its
\* stream with it, a subscriber leaves the list of its stream.
StreamsWithout(dead) ==
    LET leaving(s) == {x \in dead : sessions[x].stream = s}
        ends(s)    == \/ streams[s].pub \in leaving(s)
                      \/ /\ leaving(s) # {}
                         /\ streams[s].pub = 0
                         /\ streams[s].subs \ leaving(s) = {}
    IN  [s \in {t \in DOMAIN streams : ~ends(t)} |->
            [streams[s] EXCEPT !.subs = @ \ leaving(s)]]

\* Mutant: only subscribers with a descriptor are told.
StreamEndsTcp(dead) ==
    UNION {{Event("STREAM_END", y, sessions[y].fd) : y \in {z \in streams[s].subs \cap Live : ~IsUdp(z)}} :
              s \in {t \in DOMAIN streams : \E x \in dead :
                        sessions[x].stream = t /\ streams[t].pub = x}}

\* STREAM_END goes to every subscriber of a stream whose publisher is destroyed.
\* What SendToClient says of it is ignored, so the event is the call, not its success.
StreamEnds(dead) ==
    UNION {{Event("STREAM_END", y, sessions[y].fd) : y \in streams[s].subs \cap Live} :
              s \in {t \in DOMAIN streams : \E x \in dead :
                        sessions[x].stream = t /\ streams[t].pub = x}}

FdsOf(S) == {sessions[x].fd : x \in S}

\* Destroys the sessions in dead and closes the descriptors in closed.
Remove(dead, closed) ==
    /\ sessions' = Restrict(sessions, Live \ dead)
    /\ streams' = StreamsWithout(dead)
    /\ conns' = Restrict(conns, DOMAIN conns \ closed)

\* DestroySession(x) by a caller that sends msgs and closes the descriptors in closing.
DestroySession(x, closing, msgs) ==
    \E ctrl \in Paired(x) :
        /\ Remove({x} \cup ctrl, FdsOf(ctrl) \cup closing)
        /\ events' = msgs \cup StreamEnds({x} \cup ctrl)

-----------------------------------------------------------------------------
(* HandleSubscribeReq *)

NewSession(u, s, c) ==
    [user |-> u, stream |-> s, fd |-> c, pub |-> FALSE, sub |-> FALSE,
     ctrl |-> FALSE, p2p |-> FALSE, proxy |-> FALSE]

\* CreateSession: a repeated UDP request gets the session it already has; a
\* TCP request gets a new one once its older ones are destroyed.
CreateSession(u, s, c) ==
    IF c = NoFd /\ Stale(u, s, c) # {} THEN Stale(u, s, c) ELSE {nextId}

\* Mutant: the older sessions are not destroyed.
ReplacedNone(x, u, s, c) == {}

\* The older sessions CreateSession destroys on its way to returning x.  They
\* are TCP sessions, so none of them takes a control session with it.
Replaced(x, u, s, c) == IF x \in Live THEN {} ELSE Stale(u, s, c)

\* The session CreateSession returns, before the request's role is entered.
Entered(x, u, s, c) == IF x \in Live THEN sessions[x] ELSE NewSession(u, s, c)

Tell(x, c) == conns' = IF c = NoFd THEN conns ELSE [conns EXCEPT ![c] = x]

\* The rest of a granted request for which CreateSession returned x: x becomes
\* rec, other sessions become those of ss, m_streams becomes strs, and msgs and
\* the reply are sent.  If a TCP reply cannot be sent, x is destroyed again.
Grant(u, s, c, x, rec, ss, strs, msgs) ==
    LET gone  == Replaced(x, u, s, c)
        kept  == Live \ gone
        mates == {y \in kept : c # NoFd /\ sessions[y].fd = c}
    IN  /\ x \in Live \/ nextId <= MaxSessionId
        /\ nextId' = IF x \in Live THEN nextId ELSE nextId + 1
        /\ fdToSession' = IF c = NoFd THEN fdToSession
                          ELSE [f \in DOMAIN fdToSession \cup {c} |->
                                    IF f = c THEN x ELSE fdToSession[f]]
        /\ \/ /\ sessions' = [y \in kept \cup {x} |-> IF y = x THEN rec ELSE ss[y]]
              /\ streams' = strs
              /\ Tell(x, c)
              /\ events' = StreamEnds(gone) \cup msgs \cup {Event("OK", x, c)}
           \/ /\ c # NoFd
              /\ sessions' = [y \in kept |-> ss[y]]
              /\ streams' = StreamsWithout(gone)
              /\ UNCHANGED conns
              /\ events' = StreamEnds(gone) \cup msgs
        /\ shared' = IF mates = {} THEN shared ELSE shared \cup mates \cup {x}
        /\ UNCHANGED sweep

Connections == DOMAIN conns \cup {NoFd}

\* A publisher asks for a stream name that is taken: the same user on the same
\* transport is given the session it has, everybody else is refused.
PublishTaken(u, s, c) ==
    LET old == streams[s].pub
        own == /\ old \in Live
               /\ sessions[old].user = u
               /\ IsUdp(old) = (c = NoFd)
    IN  /\ Ready
        /\ s \in DOMAIN streams
        /\ IF own THEN Tell(old, c) ELSE UNCHANGED conns
        /\ events' = {IF own THEN Event("OK", old, c) ELSE Event("STREAM_EXISTS", 0, c)}
        /\ UNCHANGED <<sessions, streams, fdToSession, nextId, sweep, fault, shared>>

\* Mutant: no check that the name is free; the publisher takes the stream over.
PublishUnchecked(u, s, c) ==
    /\ Ready
    /\ \E x \in CreateSession(u, s, c) :
        LET rest == StreamsWithout(Replaced(x, u, s, c))
            subs == IF s \in DOMAIN rest THEN rest[s].subs ELSE {}
        IN  Grant(u, s, c, x, [Entered(x, u, s, c) EXCEPT !.pub = TRUE], sessions,
                  [t \in DOMAIN rest \cup {s} |->
                      IF t = s THEN [pub |-> x, subs |-> subs] ELSE rest[t]],
                  {})
    /\ UNCHANGED fault

\* A publisher registers a free stream name (RegisterStream).
Publish(u, s, c) ==
    /\ Ready
    /\ s \notin DOMAIN streams
    /\ \E x \in CreateSession(u, s, c) :
        LET rest == StreamsWithout(Replaced(x, u, s, c))
        IN  Grant(u, s, c, x, [Entered(x, u, s, c) EXCEPT !.pub = TRUE], sessions,
                  [t \in DOMAIN rest \cup {s} |->
                      IF t = s THEN [pub |-> x, subs |-> {}] ELSE rest[t]],
                  {})
    /\ UNCHANGED fault

\* A request with no audio, video or data flag, of either role: a control-only
\* session, which neither registers a stream nor joins one.
OpenControl(u, s, c) ==
    /\ Ready
    /\ \E x \in CreateSession(u, s, c) :
        Grant(u, s, c, x, [Entered(x, u, s, c) EXCEPT !.ctrl = TRUE], sessions,
              StreamsWithout(Replaced(x, u, s, c)), {})
    /\ UNCHANGED fault

SubscribeMissing(u, s, c) ==
    /\ Ready
    /\ ~(s \in DOMAIN streams /\ streams[s].pub # 0)
    /\ events' = {Event("STREAM_NOT_FOUND", 0, c)}
    /\ UNCHANGED <<sessions, streams, fdToSession, nextId, conns, sweep, fault, shared>>

\* A subscriber joins a stream.  The handler looks the stream up before
\* CreateSession, which may destroy the user's own TCP publisher and the stream
\* with it: the pointer it goes on to use is then dangling.  Otherwise a
\* publisher with a proxy receiver is asked for a key frame (throttled by time,
\* so it may or may not be) and the other subscribers leave peer-to-peer mode.
Subscribe(u, s, c) ==
    /\ Ready
    /\ s \in DOMAIN streams
    /\ streams[s].pub # 0
    /\ \E x \in CreateSession(u, s, c) :
        LET rest == StreamsWithout(Replaced(x, u, s, c))
            rec  == [Entered(x, u, s, c) EXCEPT !.sub = TRUE]
        IN  \/ /\ s \notin DOMAIN rest
               /\ Grant(u, s, c, x, rec, sessions, rest, {})
               /\ fault' = "freed_stream"
            \/ /\ s \in DOMAIN rest
               /\ LET paired == {y \in (rest[s].subs \cap Live) \ {x} : sessions[y].p2p}
                      asked  == {y \in {rest[s].pub} \cap Live : sessions[y].proxy}
                  IN  \E pli \in SUBSET asked :
                        Grant(u, s, c, x, rec,
                              [y \in Live |-> IF y \in paired THEN [sessions[y] EXCEPT !.p2p = FALSE]
                                                              ELSE sessions[y]],
                              [rest EXCEPT ![s].subs = @ \cup {x}],
                              {Event("PLI", y, sessions[y].fd) : y \in pli}
                                \cup {Event("P2P_FALLBACK", y, sessions[y].fd) :
                                         y \in {z \in paired : ~IsUdp(z)}})
               /\ UNCHANGED fault

-----------------------------------------------------------------------------
(* The other requests of a client *)

\* HandleStreamData: only a publisher's data counts; the first packet of a UDP
\* publisher creates its proxy receiver.
StreamData(x) ==
    /\ Ready
    /\ sessions[x].pub
    /\ sessions' = [sessions EXCEPT ![x].proxy = @ \/ IsUdp(x)]
    /\ events' = {}
    /\ UNCHANGED <<streams, fdToSession, nextId, conns, sweep, fault, shared>>

\* The session id HandleUnsubscribe reads: its four bytes start at the control
\* type (0x12), not at the id that follows it.
UnsubscribeId(x) == 18 * 16777216 + x \div 256

\* HandleUnsubscribe for a message that carries session id x.  The publisher is
\* struck off the stream before DestroySession, which still takes the control
\* session of a UDP publisher along.
HandleUnsubscribe(x) ==
    LET hit    == {UnsubscribeId(x)} \cap Live
        struck == [t \in DOMAIN streams |->
                     [pub  |-> IF streams[t].pub \in hit THEN 0 ELSE streams[t].pub,
                      subs |-> streams[t].subs \ hit]]
    IN  /\ Ready
        /\ \E ctrl \in IF hit = {} THEN {{}} ELSE Paired(UnsubscribeId(x)) :
             /\ sessions' = Restrict(sessions, Live \ (hit \cup ctrl))
             /\ conns' = Restrict(conns, DOMAIN conns \ FdsOf(ctrl))
        /\ streams' = Restrict(struck, {t \in DOMAIN streams :
                           hit = {} \/ struck[t].pub # 0 \/ struck[t].subs # {}})
        /\ events' = {Event("UNSUBSCRIBE", x, sessions[x].fd)}
        /\ UNCHANGED <<fdToSession, nextId, sweep, fault, shared>>

\* HandleP2PRequest over c for stream s.  The requester is the first session
\* whose fd or whose UDP address equals that of the connection; every TCP
\* session has the zero address that a TCP connection is compared with.
HandleP2PRequest(c, s) ==
    /\ Ready
    /\ \E r \in {x \in Live : IsUdp(x) = (c = NoFd)} :
        LET target == IF s \in DOMAIN streams THEN ({streams[s].pub} \cap Live) \ {r} ELSE {}
            pair   == IF target = {} THEN {} ELSE target \cup {r}
        IN  /\ sessions' = [x \in Live |-> IF x \in pair THEN [sessions[x] EXCEPT !.p2p = TRUE]
                                                         ELSE sessions[x]]
            /\ events' = IF c = NoFd THEN {} ELSE {Event("P2P_RESPONSE", r, c)}
    /\ UNCHANGED <<streams, fdToSession, nextId, conns, sweep, fault, shared>>

\* OnHeartbeat over TCP: operator[] enters a null session under an id that is
\* no longer there, which the next walk over m_sessions dereferences: at the
\* latest the 1 s sweep.  The process is taken to end with the heartbeat itself.
OnHeartbeat(c) ==
    /\ Ready
    /\ fault' = IF c \in DOMAIN fdToSession /\ fdToSession[c] \notin Live
                THEN "null_session" ELSE fault
    /\ events' = {Event("HEARTBEAT", 0, c)}
    /\ UNCHANGED <<sessions, streams, fdToSession, nextId, conns, sweep, shared>>

-----------------------------------------------------------------------------
(* Connections *)

Accept(f) ==
    /\ Ready
    /\ f \notin DOMAIN conns
    /\ conns' = [g \in DOMAIN conns \cup {f} |-> IF g = f THEN 0 ELSE conns[g]]
    /\ events' = {}
    /\ UNCHANGED <<sessions, streams, fdToSession, nextId, sweep, fault, shared>>

\* OnConnClosed: the session the descriptor maps to is destroyed and the mapping
\* goes.  After a kDisconnect message the connection stays open; when the peer
\* closed it, CloseTcpConn closes the descriptor as well.
OnConnClosed(f, closing) ==
    /\ Ready
    /\ IF f \in DOMAIN fdToSession /\ fdToSession[f] \in Live
       THEN DestroySession(fdToSession[f], closing, {})
       ELSE Remove({}, closing) /\ events' = {}
    /\ fdToSession' = Restrict(fdToSession, DOMAIN fdToSession \ {f})
    /\ UNCHANGED <<nextId, sweep, fault, shared>>

OnDisconnect(f) == OnConnClosed(f, {})

\* Mutant: the connection is closed without a word to the registry.
CloseTcpConnSilently(f) ==
    /\ Ready
    /\ Remove({}, {f})
    /\ events' = {}
    /\ UNCHANGED <<fdToSession, nextId, sweep, fault, shared>>

CloseTcpConn(f) == OnConnClosed(f, {f})

-----------------------------------------------------------------------------
(* Administration and the 1 s timer *)

\* The descriptor that goes with a TCP session when RemoveSession is called.
OwnFd(x) == {sessions[x].fd} \ {NoFd}

\* SerializeKick goes to the TCP sessions among S.
Kicks(S) == {Event("KICK", x, sessions[x].fd) : x \in {y \in S : ~IsUdp(y)}}

KickSession(x) ==
    /\ Ready
    /\ DestroySession(x, OwnFd(x), Kicks({x}))
    /\ UNCHANGED <<fdToSession, nextId, sweep, fault, shared>>

\* KickAllFromStream: destroying the publisher erases the stream, and the final
\* erase(sit) then uses an iterator that is no longer valid.
KickAllFromStream(s) ==
    LET members == ({streams[s].pub} \cup streams[s].subs) \cap Live
    IN  /\ Ready
        /\ \E ctrl \in UNION {Paired(x) : x \in {streams[s].pub} \cap Live} :
             /\ Remove(members \cup ctrl, FdsOf(ctrl))
             /\ events' = Kicks(members) \cup StreamEnds(members \cup ctrl)
        /\ fault' = IF s \in DOMAIN StreamsWithout(members) THEN fault ELSE "erased_iterator"
        /\ UNCHANGED <<fdToSession, nextId, sweep, shared>>

\* CleanupTimeoutSessions collects its victims; control-only sessions are exempt.
\* The 0 in sweep stands for CleanupEmptyStreams, which runs after the last one.
BeginSweep ==
    /\ Ready
    /\ \E expired \in SUBSET {x \in Live : ~sessions[x].ctrl} : sweep' = expired \cup {0}
    /\ events' = {}
    /\ UNCHANGED <<sessions, streams, fdToSession, nextId, conns, fault, shared>>

\* ... destroys them one by one ...
SweepNext(x) ==
    /\ x \in sweep \ {0}
    /\ IF x \in Live
       THEN DestroySession(x, OwnFd(x), {})
       ELSE events' = {} /\ UNCHANGED <<sessions, streams, conns>>
    /\ sweep' = sweep \ {x}
    /\ UNCHANGED <<fdToSession, nextId, fault, shared>>

\* ... and CleanupEmptyStreams follows.
EndSweep ==
    /\ sweep = {0}
    /\ streams' = Restrict(streams, {s \in DOMAIN streams :
                                        streams[s].pub # 0 \/ streams[s].subs # {}})
    /\ sweep' = {}
    /\ events' = {}
    /\ UNCHANGED <<sessions, fdToSession, nextId, conns, fault, shared>>

\* Nothing follows undefined behaviour: the process is gone.
Crashed == fault # "none" /\ UNCHANGED vars

-----------------------------------------------------------------------------

Next ==
    \/ \E u \in Users, s \in Streams, c \in Connections :
         \/ PublishTaken(u, s, c)
         \/ Publish(u, s, c)
         \/ OpenControl(u, s, c)
         \/ SubscribeMissing(u, s, c)
         \/ Subscribe(u, s, c)
    \/ \E x \in Live : StreamData(x) \/ HandleUnsubscribe(x) \/ KickSession(x)
    \/ \E c \in Connections, s \in Streams : HandleP2PRequest(c, s)
    \/ \E f \in DOMAIN conns : OnHeartbeat(f) \/ OnDisconnect(f) \/ CloseTcpConn(f)
    \/ \E f \in Fds : Accept(f)
    \/ \E s \in DOMAIN streams : KickAllFromStream(s)
    \/ BeginSweep
    \/ \E x \in sweep : SweepNext(x)
    \/ EndSweep
    \/ Crashed

Spec == Init /\ [][Next]_vars

-----------------------------------------------------------------------------
(* Properties *)

\* The maps hold what their C++ types say they hold.
TypeOK ==
    /\ DOMAIN sessions \subseteq Nat \ {0}
    /\ sessions \in [DOMAIN sessions -> Session]
    /\ DOMAIN streams \subseteq Streams
    /\ streams \in [DOMAIN streams -> Stream]
    /\ DOMAIN fdToSession \subseteq Fds
    /\ fdToSession \in [DOMAIN fdToSession -> Nat]
    /\ nextId \in Nat \ {0}
    /\ DOMAIN conns \subseteq Fds
    /\ conns \in [DOMAIN conns -> Nat]
    /\ sweep \subseteq Nat
    /\ fault \in Faults
    /\ shared \subseteq Nat

\* Forwarding never meets a dangling id: whatever order sessions come and go in,
\* a registered stream has a live publisher of that very stream, and its
\* subscriber list holds live subscriber sessions of that stream only.
StreamRefsLive ==
    \A s \in DOMAIN streams :
        /\ streams[s].pub \in Live
        /\ sessions[streams[s].pub].stream = s
        /\ sessions[streams[s].pub].pub
        /\ \A y \in streams[s].subs : y \in Live /\ sessions[y].stream = s /\ sessions[y].sub

\* A session that may send media is the registered publisher of its stream, so
\* two sessions never feed one stream (stream names are unique server-wide).
PublisherOwnsStream ==
    \A x \in Live : sessions[x].pub =>
        sessions[x].stream \in DOMAIN streams /\ streams[sessions[x].stream].pub = x

\* Retries and reconnects never leave a client with two sessions of the same
\* user and stream on the same transport (CreateSession reuses or destroys).
OneSessionPerEndpoint ==
    \A x, y \in Live :
        /\ sessions[x].user = sessions[y].user
        /\ sessions[x].stream = sessions[y].stream
        /\ IsUdp(x) = IsUdp(y)
        => x = y

\* What a connection does reaches its own session, and only that one.  An entry
\* of m_fdToSession that outlived its session names no session of another
\* descriptor.  And as long as a TCP session has its descriptor to itself, the
\* connection it came over is open and leads to it: whichever way a connection
\* ends (close, kick, sweep, paired control), its session ends with it, so that
\* nothing of it is left to the connection that is given the number next.
FdMapsToOwner ==
    /\ \A f \in DOMAIN fdToSession : fdToSession[f] \in Live => sessions[fdToSession[f]].fd = f
    /\ \A x \in Live \ shared : ~IsUdp(x) =>
          /\ sessions[x].fd \in DOMAIN conns \cap DOMAIN fdToSession
          /\ fdToSession[sessions[x].fd] = x

Gone == Live \ DOMAIN sessions'

ControlGoesAlong ==
    \A x \in Gone : IsUdp(x) /\ sessions[x].pub =>
        \A y \in Live :
            /\ sessions[y].ctrl
            /\ ~IsUdp(y)
            /\ sessions[y].user = sessions[x].user
            /\ sessions[y].stream = sessions[x].stream
            => y \in Gone /\ sessions[y].fd \notin DOMAIN conns'

DroppedAreTold ==
    \A s \in DOMAIN streams : \A y \in streams[s].subs \cap DOMAIN sessions' :
        \/ s \in DOMAIN streams' /\ y \in streams'[s].subs
        \/ \E e \in events' : e.kind = "STREAM_END" /\ e.to = y

GrantSparesOtherTransport ==
    \A e \in events' : e.kind = "OK" => \A x \in Gone : IsUdp(x) <=> e.via = NoFd

\* No blind publisher: the step that destroys a UDP publisher's media session
\* also destroys the control session of that user and stream and closes its
\* connection, whichever path destroyed it.
PairedControlClosed == [][ControlGoesAlong]_vars

\* No subscriber is dropped in silence: a live session that leaves a stream's
\* subscriber list is sent STREAM_END by the handler that drops it (whether the
\* socket takes it is not looked at).
NoSilentDrop == [][DroppedAreTold]_vars

\* A client's UDP media session and TCP control session do not evict each
\* other: granting a request destroys no session of the other transport.
TransportsCoexist == [][GrantSparesOtherTransport]_vars

-----------------------------------------------------------------------------
(* What comments of the source promise and the code does not keep *)

\* "Reuse the existing session ... so that the name is not held by its own
\* zombie": the session a TCP publisher is given back when it reconnects still
\* belongs to the old descriptor, and dies when that one is closed.
ReuseOutlivesOldConnection ==
    [][\A f \in DOMAIN conns \ DOMAIN conns', g \in DOMAIN conns \cap DOMAIN conns' :
         f \in DOMAIN fdToSession \ DOMAIN fdToSession' /\ conns[g] \in Live
         => conns[g] \notin Gone]_vars

\* "Its life is decided by the paired media session: DestroySession disconnects
\* it when the media session is destroyed", which is why a control session never
\* times out.  Only publishers do so.
ControlFollowsMedia ==
    [][\A x \in Gone : IsUdp(x) /\ (sessions[x].pub \/ sessions[x].sub) =>
         ~ \E y \in Live \ Gone :
             /\ sessions[y].ctrl
             /\ ~IsUdp(y)
             /\ sessions[y].user = sessions[x].user
             /\ sessions[y].stream = sessions[x].stream]_vars

\* m_fdToSession is cleaned when a connection is closed, so a new connection finds
\* no session on its descriptor.  Not so when two streams were asked for over one
\* connection: kicking one session closes the descriptor and leaves the other, which
\* the close of the next connection with that number then destroys.
NewConnectionIsClean ==
    [][\A f \in DOMAIN conns' \ DOMAIN conns : \A x \in Live : sessions[x].fd # f]_vars

\* kUnsubscribe, "Client -> Server: Unsubscribe", ends the session it names.
UnsubscribeEnds == \A e \in events : e.kind = "UNSUBSCRIBE" => e.to \notin Live

\* A heartbeat only "updates last active time".
HeartbeatHarmless == fault # "null_session"

\* The new subscriber is "added to the stream's subscriber list", of a stream
\* that still exists.
SubscribeUsesLiveStream == fault # "freed_stream"

\* KickAllFromStream "cleans up all sessions and the stream", each one once.
KickAllErasesOnce == fault # "erased_iterator"

\* "Find the requesting session": the session a P2P request over TCP is taken to
\* come from is one of that connection.
P2PRequesterIsSender ==
    \A e \in events : e.kind = "P2P_RESPONSE" => sessions[e.to].fd = e.via

=============================================================================
