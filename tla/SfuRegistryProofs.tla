------------------------- MODULE SfuRegistryProofs -------------------------
(***************************************************************************)
(* The invariants of SfuRegistry hold for every set of users, streams and  *)
(* descriptors and any number of sessions below the bound.                 *)
(*                                                                         *)
(* None of them is inductive alone.  A stream reference stays live only    *)
(* because its session's stream field names the stream it is entered in;   *)
(* a publisher stays the owner only because stream references are live;    *)
(* m_fdToSession stays right only because ids are never handed out twice,  *)
(* and a connection takes its session along only because no other session  *)
(* can be on its descriptor unmarked.  Inv is their conjunction with that  *)
(* and with the bounds on the ids.                                         *)
(***************************************************************************)
EXTENDS SfuRegistry, TLAPS

\* The provers, and their time, for a leaf that names none.
USE SMTT(10), ZenonT(20), SMTT(60)

\* Every id in use was handed out by m_next_session_id, within the bound.
IdsBounded ==
    /\ \A x \in Live : x < nextId /\ x <= MaxSessionId
    /\ \A f \in DOMAIN fdToSession : fdToSession[f] < nextId

\* A session that is not in shared is alone on its descriptor.
SharedIsMarked ==
    \A x \in Live \ shared, y \in Live :
        ~IsUdp(x) /\ sessions[y].fd = sessions[x].fd => y = x

Inv ==
    /\ TypeOK
    /\ StreamRefsLive
    /\ PublisherOwnsStream
    /\ OneSessionPerEndpoint
    /\ FdMapsToOwner
    /\ SharedIsMarked
    /\ IdsBounded

-----------------------------------------------------------------------------
(* DestroySession *)

\* rest is m_streams without the streams published by the sessions in dead and
\* without the subscribers in dead.
IsRest(rest, dead) ==
    /\ DOMAIN rest = {t \in DOMAIN streams : streams[t].pub \notin dead}
    /\ \A t \in DOMAIN rest : /\ rest[t].pub = streams[t].pub
                              /\ rest[t].subs = streams[t].subs \ dead
    /\ rest \in [DOMAIN rest -> Stream]

\* Under Inv a stream ends exactly when its publisher is destroyed, and keeps
\* the subscribers that are not: StreamsWithout does what its comment says.
LEMMA StreamsWithoutIs ==
    ASSUME Inv, NEW dead \in SUBSET Live
    PROVE  IsRest(StreamsWithout(dead), dead)
<1> DEFINE leaving(s) == {x \in dead : sessions[x].stream = s}
           ends(s)    == \/ streams[s].pub \in leaving(s)
                         \/ /\ leaving(s) # {}
                            /\ streams[s].pub = 0
                            /\ streams[s].subs \ leaving(s) = {}
<1>1. \A s \in DOMAIN streams : ends(s) <=> streams[s].pub \in dead
  BY DEF Inv, TypeOK, StreamRefsLive, Live
<1>2. \A s \in DOMAIN streams : streams[s].subs \ leaving(s) = streams[s].subs \ dead
  BY DEF Inv, StreamRefsLive
<1> HIDE DEF ends, leaving
<1>3. StreamsWithout(dead) = [s \in {t \in DOMAIN streams : ~ends(t)} |->
                                [streams[s] EXCEPT !.subs = @ \ leaving(s)]]
  BY DEF StreamsWithout, ends, leaving
<1>4. ASSUME NEW s \in DOMAIN streams
      PROVE  LET r == [streams[s] EXCEPT !.subs = @ \ leaving(s)]
             IN  r.pub = streams[s].pub /\ r.subs = streams[s].subs \ dead /\ r \in Stream
  <2>1. streams[s] \in [pub : Nat, subs : SUBSET Nat]
    BY DEF Inv, TypeOK, Stream
  <2>2. streams[s].subs \ leaving(s) \in SUBSET Nat
    BY <2>1
  <2> QED
    BY <1>2, <2>1, <2>2 DEF Stream
<1> QED
  BY <1>1, <1>3, <1>4 DEF IsRest

\* A step that closes the descriptors in closed closes none that a session of S
\* has to itself, and leaves its entry in m_fdToSession.
Spared(S, closed) ==
    \A y \in S \ shared : ~IsUdp(y) => /\ sessions[y].fd \notin closed
                                      /\ sessions[y].fd \in DOMAIN fdToSession'

\* Destroying any set of live sessions preserves Inv if no other one loses the
\* connection it has to itself.
LEMMA RemoveInv ==
    ASSUME Inv, NEW dead \in SUBSET Live, NEW closed,
           Remove(dead, closed), Spared(Live \ dead, closed),
           nextId' = nextId, shared' = shared,
           \A f \in DOMAIN fdToSession' : f \in DOMAIN fdToSession /\ fdToSession'[f] = fdToSession[f],
           fdToSession' \in [DOMAIN fdToSession' -> Nat],
           sweep' \subseteq Nat, fault' \in Faults
    PROVE  Inv'
<1>1. /\ DOMAIN sessions' = Live \ dead
      /\ \A x \in Live \ dead : sessions'[x] = sessions[x]
      /\ sessions' \in [Live \ dead -> Session]
  BY DEF Remove, Restrict, Inv, TypeOK, Live
<1>2. /\ DOMAIN streams' = {s \in DOMAIN streams : streams[s].pub \notin dead}
      /\ \A s \in DOMAIN streams' : streams'[s].pub = streams[s].pub /\ streams'[s].subs = streams[s].subs \ dead
      /\ streams' \in [DOMAIN streams' -> Stream]
  BY StreamsWithoutIs DEF Remove, IsRest
<1>3. DOMAIN conns' \subseteq Fds /\ conns' \in [DOMAIN conns' -> Nat]
  BY DEF Remove, Restrict, Inv, TypeOK
<1>5. TypeOK'
  BY <1>1, <1>2, <1>3 DEF Inv, TypeOK, Live
<1>6. StreamRefsLive'
  BY <1>1, <1>2 DEF Inv, StreamRefsLive, Live
<1>7. PublisherOwnsStream'
  BY <1>1, <1>2 DEF Inv, PublisherOwnsStream, Live
<1>8. OneSessionPerEndpoint'
  BY <1>1 DEF Inv, OneSessionPerEndpoint, Live, IsUdp
<1>9. FdMapsToOwner'
  <2>1. DOMAIN conns' = DOMAIN conns \ closed
    BY DEF Remove, Restrict
  <2>2. \A f \in DOMAIN fdToSession' : fdToSession'[f] \in Live' => sessions'[fdToSession'[f]].fd = f
    BY <1>1 DEF Inv, FdMapsToOwner, Live
  <2>3. ASSUME NEW x \in Live' \ shared', ~IsUdp(x)'
        PROVE  /\ sessions'[x].fd \in DOMAIN conns' \cap DOMAIN fdToSession'
               /\ fdToSession'[sessions'[x].fd] = x
    BY <1>1, <2>1, <2>3 DEF Inv, FdMapsToOwner, Spared, Live, IsUdp
  <2> QED
    BY <2>2, <2>3 DEF FdMapsToOwner
<1>10. IdsBounded' /\ SharedIsMarked'
  BY <1>1 DEF Inv, IdsBounded, SharedIsMarked, Live, IsUdp
<1> QED
  BY <1>5, <1>6, <1>7, <1>8, <1>9, <1>10 DEF Inv

-----------------------------------------------------------------------------
(* HandleSubscribeReq *)

\* StreamRefsLive and PublisherOwnsStream of a session map ss and a stream map st.
RefsLive(ss, st) ==
    \A t \in DOMAIN st :
        /\ st[t].pub \in DOMAIN ss
        /\ ss[st[t].pub].stream = t
        /\ ss[st[t].pub].pub
        /\ \A y \in st[t].subs : y \in DOMAIN ss /\ ss[y].stream = t /\ ss[y].sub

Owns(ss, st) ==
    \A y \in DOMAIN ss : ss[y].pub => ss[y].stream \in DOMAIN st /\ st[ss[y].stream].pub = y

\* The session map once a request is granted.
After(ss, x, u, s, c, rec) ==
    [y \in (Live \ Replaced(x, u, s, c)) \cup {x} |-> IF y = x THEN rec ELSE ss[y]]

\* ss differs from m_sessions only in the fields the invariants do not read.
SameRoles(ss) ==
    /\ ss \in [Live -> Session]
    /\ \A y \in Live : /\ ss[y].user = sessions[y].user
                       /\ ss[y].stream = sessions[y].stream
                       /\ ss[y].fd = sessions[y].fd
                       /\ ss[y].pub = sessions[y].pub
                       /\ ss[y].sub = sessions[y].sub

\* What CreateSession returns: the caller's own UDP session, or an id that was
\* never used, after which no session of that user, stream and transport is left.
LEMMA CreateSessionIs ==
    ASSUME Inv, NEW u \in Users, NEW s \in Streams, NEW c \in Connections,
           NEW x \in CreateSession(u, s, c)
    PROVE  /\ Replaced(x, u, s, c) \subseteq Live
           /\ \/ /\ x \in Live
                 /\ c = NoFd
                 /\ Replaced(x, u, s, c) = {}
                 /\ sessions[x].user = u /\ sessions[x].stream = s /\ sessions[x].fd = c
              \/ /\ x \notin Live
                 /\ x = nextId
                 /\ Replaced(x, u, s, c) = Stale(u, s, c)
                 /\ c = NoFd => Stale(u, s, c) = {}
<1>1. nextId \notin Live
  BY DEF Inv, TypeOK, IdsBounded, Live
<1>2. CASE c = NoFd /\ Stale(u, s, c) # {}
  BY <1>2 DEF CreateSession, Replaced, Stale, IsUdp
<1>3. CASE ~(c = NoFd /\ Stale(u, s, c) # {})
  BY <1>1, <1>3 DEF CreateSession, Replaced, Stale
<1> QED
  BY <1>2, <1>3

\* Granting a request preserves Inv if the new maps refer to each other properly.
LEMMA GrantInv ==
    ASSUME Inv, NEW u \in Users, NEW s \in Streams, NEW c \in Connections,
           NEW x \in CreateSession(u, s, c),
           NEW rec \in Session, NEW ss, NEW strs, NEW msgs,
           rec.user = u, rec.stream = s, rec.fd = c,
           SameRoles(ss),
           DOMAIN strs \subseteq Streams, strs \in [DOMAIN strs -> Stream],
           RefsLive(After(ss, x, u, s, c, rec), strs),
           Owns(After(ss, x, u, s, c, rec), strs),
           Grant(u, s, c, x, rec, ss, strs, msgs),
           fault' \in Faults
    PROVE  Inv'
<1> DEFINE gone == Replaced(x, u, s, c)
           kept == Live \ gone
           mates == {y \in kept : c # NoFd /\ sessions[y].fd = c}
<1>0. /\ gone \subseteq Live
      /\ \/ /\ x \in Live
            /\ c = NoFd
            /\ gone = {}
            /\ sessions[x].user = u /\ sessions[x].stream = s /\ sessions[x].fd = c
         \/ /\ x \notin Live
            /\ x = nextId
            /\ gone = Stale(u, s, c)
            /\ c = NoFd => Stale(u, s, c) = {}
  BY CreateSessionIs
<1>1. /\ nextId' \in Nat \ {0}
      /\ nextId <= nextId'
      /\ x \in Nat \ {0} /\ x < nextId' /\ x <= MaxSessionId
  BY <1>0, RegistryAssumption DEF Grant, Inv, TypeOK, IdsBounded, Live
<1>2. /\ DOMAIN fdToSession' \subseteq Fds
      /\ fdToSession' \in [DOMAIN fdToSession' -> Nat]
      /\ \A f \in DOMAIN fdToSession' : \/ f = c /\ fdToSession'[f] = x
                                        \/ f \in DOMAIN fdToSession /\ fdToSession'[f] = fdToSession[f]
  BY <1>1 DEF Grant, Inv, TypeOK, Connections
<1>3. /\ DOMAIN conns' = DOMAIN conns
      /\ DOMAIN conns' \subseteq Fds /\ conns' \in [DOMAIN conns' -> Nat]
  BY <1>1 DEF Grant, Tell, Inv, TypeOK, Connections
<1>4. sweep' \subseteq Nat
  BY DEF Grant, Inv, TypeOK
<1>7. /\ shared' = IF mates = {} THEN shared ELSE shared \cup mates \cup {x}
      /\ shared' \subseteq Nat
  BY <1>1 DEF Grant, Inv, TypeOK, Live
<1>8. /\ shared \subseteq shared'
      /\ c # NoFd => \A y \in kept : sessions[y].fd = c => y \in shared' /\ x \in shared'
  BY <1>7
<1>9. /\ DOMAIN fdToSession \subseteq DOMAIN fdToSession'
      /\ c # NoFd => c \in DOMAIN conns /\ c \in DOMAIN fdToSession' /\ fdToSession'[c] = x
      /\ \A f \in DOMAIN fdToSession : f # c => fdToSession'[f] = fdToSession[f]
  BY DEF Grant, Connections
<1>5. CASE /\ sessions' = [y \in kept \cup {x} |-> IF y = x THEN rec ELSE ss[y]]
           /\ streams' = strs
  <2>1. sessions' = After(ss, x, u, s, c, rec)
    BY <1>5 DEF After
  <2>2. /\ DOMAIN sessions' = kept \cup {x}
        /\ sessions'[x] = rec
        /\ \A y \in kept \ {x} : sessions'[y] = ss[y]
        /\ sessions' \in [kept \cup {x} -> Session]
    BY <1>5 DEF SameRoles
  <2>3. TypeOK'
    BY <1>1, <1>2, <1>3, <1>4, <1>5, <1>7, <2>2 DEF Inv, TypeOK, Live
  <2>4. StreamRefsLive' /\ PublisherOwnsStream'
    BY <1>5, <2>1 DEF RefsLive, Owns, StreamRefsLive, PublisherOwnsStream, Live
  <2>5. OneSessionPerEndpoint'
    <3>1. \A y \in kept \ {x} : ~(sessions[y].user = u /\ sessions[y].stream = s /\ (sessions[y].fd = NoFd) = (c = NoFd))
      BY <1>0 DEF Inv, OneSessionPerEndpoint, Stale, IsUdp
    <3> QED
      BY <2>2, <3>1 DEF Inv, OneSessionPerEndpoint, SameRoles, Live, IsUdp
  <2>6. FdMapsToOwner'
    <3>1. \A f \in DOMAIN fdToSession' : fdToSession'[f] \in Live' => sessions'[fdToSession'[f]].fd = f
      BY <1>0, <1>2, <2>2 DEF Inv, FdMapsToOwner, IdsBounded, TypeOK, SameRoles, Live
    <3>2. ASSUME NEW y \in kept \ {x}, y \notin shared', sessions[y].fd # NoFd
          PROVE  /\ sessions[y].fd \in DOMAIN conns' \cap DOMAIN fdToSession'
                 /\ fdToSession'[sessions[y].fd] = y
      <4>1. y \in Live \ shared /\ sessions[y].fd # c
        BY <1>8, <3>2
      <4> QED
        BY <1>3, <1>9, <3>2, <4>1 DEF Inv, FdMapsToOwner, IsUdp
    <3>3. c # NoFd => c \in DOMAIN conns' \cap DOMAIN fdToSession' /\ fdToSession'[c] = x
      BY <1>3, <1>9
    <3> HIDE DEF gone, mates
    <3> QED
      BY <2>2, <3>1, <3>2, <3>3 DEF FdMapsToOwner, SameRoles, Live, IsUdp
  <2>9. SharedIsMarked'
    <3>1. ASSUME NEW y \in kept \ {x}, NEW z \in kept \ {x}, y \notin shared',
                 sessions[y].fd # NoFd, sessions[z].fd = sessions[y].fd
          PROVE  z = y
      BY <1>8, <3>1 DEF Inv, SharedIsMarked, IsUdp
    <3>2. c # NoFd => \A y \in kept \ {x} : sessions[y].fd = c => y \in shared' /\ x \in shared'
      BY <1>8
    <3> HIDE DEF gone, mates
    <3> QED
      BY <2>2, <3>1, <3>2 DEF SharedIsMarked, SameRoles, Live, IsUdp
  <2>7. IdsBounded'
    BY <1>1, <1>2, <2>2 DEF Inv, IdsBounded, TypeOK, Live
  <2> QED
    BY <2>3, <2>4, <2>5, <2>6, <2>7, <2>9 DEF Inv
<1>6. CASE /\ c # NoFd
           /\ sessions' = [y \in kept |-> ss[y]]
           /\ streams' = StreamsWithout(gone)
  <2>1. /\ DOMAIN sessions' = kept
        /\ \A y \in kept : sessions'[y] = ss[y]
        /\ sessions' \in [kept -> Session]
        /\ x \notin kept
    BY <1>0, <1>6 DEF SameRoles
  <2>2. /\ DOMAIN streams' = {t \in DOMAIN streams : streams[t].pub \notin gone}
        /\ \A t \in DOMAIN streams' : streams'[t].pub = streams[t].pub /\ streams'[t].subs = streams[t].subs \ gone
        /\ streams' \in [DOMAIN streams' -> Stream]
    <3>1. PICK dead \in SUBSET Live : dead = gone
      BY <1>0
    <3> HIDE DEF gone
    <3>2. streams' = StreamsWithout(dead)
      BY <1>6, <3>1
    <3> QED
      BY <3>1, <3>2, StreamsWithoutIs DEF IsRest
  <2>3. TypeOK'
    BY <1>1, <1>2, <1>3, <1>4, <1>7, <2>1, <2>2 DEF Inv, TypeOK, Live
  <2>4. StreamRefsLive'
    BY <2>1, <2>2 DEF Inv, StreamRefsLive, SameRoles, Live
  <2>5. PublisherOwnsStream'
    BY <2>1, <2>2 DEF Inv, PublisherOwnsStream, SameRoles, Live
  <2>6. OneSessionPerEndpoint'
    BY <2>1 DEF Inv, OneSessionPerEndpoint, SameRoles, Live, IsUdp
  <2>7. FdMapsToOwner'
    <3>1. \A f \in DOMAIN fdToSession' : fdToSession'[f] \in Live' => sessions'[fdToSession'[f]].fd = f
      BY <1>2, <2>1 DEF Inv, FdMapsToOwner, SameRoles, Live
    <3>2. ASSUME NEW y \in kept, y \notin shared', sessions[y].fd # NoFd
          PROVE  /\ sessions[y].fd \in DOMAIN conns' \cap DOMAIN fdToSession'
                 /\ fdToSession'[sessions[y].fd] = y
      <4>1. y \in Live \ shared /\ sessions[y].fd # c
        BY <1>8, <3>2
      <4> QED
        BY <1>3, <1>9, <3>2, <4>1 DEF Inv, FdMapsToOwner, IsUdp
    <3> HIDE DEF gone, mates
    <3> QED
      BY <2>1, <3>1, <3>2 DEF FdMapsToOwner, SameRoles, Live, IsUdp
  <2>9. SharedIsMarked'
    BY <1>8, <2>1 DEF Inv, SharedIsMarked, SameRoles, Live, IsUdp
  <2>8. IdsBounded'
    BY <1>1, <1>2, <2>1 DEF Inv, IdsBounded, TypeOK, Live
  <2> QED
    BY <2>3, <2>4, <2>5, <2>6, <2>7, <2>8, <2>9 DEF Inv
<1> QED
  BY <1>5, <1>6 DEF Grant

-----------------------------------------------------------------------------
(* The actions *)

\* m_streams after CreateSession.
LEMMA RestIs ==
    ASSUME Inv, NEW u \in Users, NEW s \in Streams, NEW c \in Connections,
           NEW x \in CreateSession(u, s, c)
    PROVE  IsRest(StreamsWithout(Replaced(x, u, s, c)), Replaced(x, u, s, c))
<1>1. PICK dead \in SUBSET Live : dead = Replaced(x, u, s, c)
  BY CreateSessionIs
<1>2. IsRest(StreamsWithout(dead), dead)
  BY StreamsWithoutIs
<1> QED
  BY <1>1, <1>2

\* The record CreateSession returns, whatever role flag is then set in it.
LEMMA EnteredIs ==
    ASSUME Inv, NEW u \in Users, NEW s \in Streams, NEW c \in Connections,
           NEW x \in CreateSession(u, s, c)
    PROVE  /\ Entered(x, u, s, c) \in Session
           /\ Entered(x, u, s, c).user = u
           /\ Entered(x, u, s, c).stream = s
           /\ Entered(x, u, s, c).fd = c
           /\ x \notin Live => ~Entered(x, u, s, c).pub /\ ~Entered(x, u, s, c).sub
           /\ x \in Live => Entered(x, u, s, c) = sessions[x]
<1>1. CASE x \in Live
  BY <1>1, CreateSessionIs DEF Entered, Inv, TypeOK, Live
<1>2. CASE x \notin Live
  BY <1>2 DEF Entered, NewSession, Session, Connections, Inv, TypeOK
<1> QED
  BY <1>1, <1>2

LEMMA PublishInv ==
    ASSUME Inv, NEW u \in Users, NEW s \in Streams, NEW c \in Connections, Publish(u, s, c)
    PROVE  Inv'
<1>1. PICK x \in CreateSession(u, s, c) :
        LET rest == StreamsWithout(Replaced(x, u, s, c))
        IN  Grant(u, s, c, x, [Entered(x, u, s, c) EXCEPT !.pub = TRUE], sessions,
                  [t \in DOMAIN rest \cup {s} |->
                      IF t = s THEN [pub |-> x, subs |-> {}] ELSE rest[t]],
                  {})
  BY DEF Publish
<1>2. PICK rest : rest = StreamsWithout(Replaced(x, u, s, c))
  OBVIOUS
<1>3. PICK rec : rec = [Entered(x, u, s, c) EXCEPT !.pub = TRUE]
  OBVIOUS
<1>4. PICK strs : strs = [t \in DOMAIN rest \cup {s} |->
                             IF t = s THEN [pub |-> x, subs |-> {}] ELSE rest[t]]
  OBVIOUS
<1>5. PICK ss : ss = sessions
  OBVIOUS
<1>6. Grant(u, s, c, x, rec, ss, strs, {})
  BY <1>1, <1>2, <1>3, <1>4, <1>5
<1>7. /\ rec \in Session
      /\ rec.user = u /\ rec.stream = s /\ rec.fd = c /\ rec.pub
      /\ x \in Live => rec.sub = sessions[x].sub
  <2>1. PICK old \in Session : old = Entered(x, u, s, c)
    BY EnteredIs
  <2>2. rec = [old EXCEPT !.pub = TRUE]
    BY <1>3, <2>1
  <2>3. /\ rec \in Session
        /\ rec.user = old.user /\ rec.stream = old.stream /\ rec.fd = old.fd
        /\ rec.pub /\ rec.sub = old.sub
    BY ONLY <2>2, old \in Session DEF Session
  <2>4. /\ old.user = u /\ old.stream = s /\ old.fd = c
        /\ x \notin Live => ~old.pub /\ ~old.sub
        /\ x \in Live => old = sessions[x]
    BY <2>1, EnteredIs
  <2> QED
    BY <2>3, <2>4
<1>8. /\ IsRest(rest, Replaced(x, u, s, c))
      /\ rest \in [DOMAIN rest -> Stream]
  <2>1. IsRest(rest, Replaced(x, u, s, c))
    BY <1>2, RestIs
  <2> QED
    BY <2>1 DEF IsRest
<1>9. x \in Nat
  BY CreateSessionIs DEF Inv, TypeOK, Live
<1>10. DOMAIN strs = DOMAIN rest \cup {s} /\ s \notin DOMAIN rest
  BY <1>4, <1>8 DEF Publish, IsRest
<1>11. /\ strs[s].pub = x /\ strs[s].subs = {} /\ strs[s] \in Stream
       /\ \A t \in DOMAIN rest : strs[t] = rest[t]
  BY <1>4, <1>9, <1>10 DEF Stream
<1>12. DOMAIN strs \subseteq Streams /\ strs \in [DOMAIN strs -> Stream]
  <2>1. DOMAIN strs \subseteq Streams
    BY <1>8, <1>10 DEF IsRest, Inv, TypeOK
  <2> QED
    BY <1>4, <1>8, <1>10, <1>11, <2>1
<1>13. SameRoles(ss)
  BY <1>5 DEF SameRoles, Inv, TypeOK, Live
<1>14. PICK after : after = After(ss, x, u, s, c, rec)
  OBVIOUS
<1>15. /\ DOMAIN after = (Live \ Replaced(x, u, s, c)) \cup {x}
       /\ after[x] = rec
       /\ \A y \in (Live \ Replaced(x, u, s, c)) \ {x} : after[y] = sessions[y]
  BY <1>5, <1>14 DEF After
<1>16. x \notin Live \/ ~sessions[x].pub
  BY CreateSessionIs DEF Publish, Inv, PublisherOwnsStream
<1>17. RefsLive(after, strs)
  BY <1>7, <1>8, <1>10, <1>11, <1>15, <1>16, CreateSessionIs DEF RefsLive, IsRest, Inv, StreamRefsLive
<1>18. Owns(after, strs)
  BY <1>7, <1>8, <1>10, <1>11, <1>15, CreateSessionIs DEF Owns, IsRest, Publish, Inv, PublisherOwnsStream
<1>19. fault' \in Faults
  BY DEF Publish, Inv, TypeOK
<1> QED
  BY <1>6, <1>7, <1>12, <1>13, <1>14, <1>17, <1>18, <1>19, GrantInv

LEMMA OpenControlInv ==
    ASSUME Inv, NEW u \in Users, NEW s \in Streams, NEW c \in Connections, OpenControl(u, s, c)
    PROVE  Inv'
<1>1. PICK x \in CreateSession(u, s, c) :
        Grant(u, s, c, x, [Entered(x, u, s, c) EXCEPT !.ctrl = TRUE], sessions,
              StreamsWithout(Replaced(x, u, s, c)), {})
  BY DEF OpenControl
<1>2. PICK rest : rest = StreamsWithout(Replaced(x, u, s, c))
  OBVIOUS
<1>3. PICK rec : rec = [Entered(x, u, s, c) EXCEPT !.ctrl = TRUE]
  OBVIOUS
<1>4. PICK ss : ss = sessions
  OBVIOUS
<1>5. Grant(u, s, c, x, rec, ss, rest, {})
  BY <1>1, <1>2, <1>3, <1>4
<1>6. /\ rec \in Session
      /\ rec.user = u /\ rec.stream = s /\ rec.fd = c
      /\ x \notin Live => ~rec.pub /\ ~rec.sub
      /\ x \in Live => rec.pub = sessions[x].pub /\ rec.sub = sessions[x].sub
  <2>1. PICK old \in Session : old = Entered(x, u, s, c)
    BY EnteredIs
  <2>2. rec = [old EXCEPT !.ctrl = TRUE]
    BY <1>3, <2>1
  <2>3. /\ rec \in Session
        /\ rec.user = old.user /\ rec.stream = old.stream /\ rec.fd = old.fd
        /\ rec.pub = old.pub /\ rec.sub = old.sub
    BY ONLY <2>2, old \in Session DEF Session
  <2>4. /\ old.user = u /\ old.stream = s /\ old.fd = c
        /\ x \notin Live => ~old.pub /\ ~old.sub
        /\ x \in Live => old = sessions[x]
    BY <2>1, EnteredIs
  <2> QED
    BY <2>3, <2>4
<1>7. /\ IsRest(rest, Replaced(x, u, s, c))
      /\ rest \in [DOMAIN rest -> Stream]
  <2>1. IsRest(rest, Replaced(x, u, s, c))
    BY <1>2, RestIs
  <2> QED
    BY <2>1 DEF IsRest
<1>8. DOMAIN rest \subseteq Streams
  BY <1>7 DEF IsRest, Inv, TypeOK
<1>9. SameRoles(ss)
  BY <1>4 DEF SameRoles, Inv, TypeOK, Live
<1>10. PICK after : after = After(ss, x, u, s, c, rec)
  OBVIOUS
<1>11. /\ DOMAIN after = (Live \ Replaced(x, u, s, c)) \cup {x}
       /\ after[x] = rec
       /\ \A y \in (Live \ Replaced(x, u, s, c)) \ {x} : after[y] = sessions[y]
  BY <1>4, <1>10 DEF After
<1>12. RefsLive(after, rest)
  BY <1>6, <1>7, <1>11, CreateSessionIs DEF RefsLive, IsRest, Inv, StreamRefsLive
<1>13. Owns(after, rest)
  BY <1>6, <1>7, <1>11, CreateSessionIs DEF Owns, IsRest, Inv, PublisherOwnsStream
<1>14. fault' \in Faults
  BY DEF OpenControl, Inv, TypeOK
<1> QED
  BY <1>5, <1>6, <1>7, <1>8, <1>9, <1>10, <1>12, <1>13, <1>14, GrantInv

LEMMA SubscribeInv ==
    ASSUME Inv, NEW u \in Users, NEW s \in Streams, NEW c \in Connections, Subscribe(u, s, c)
    PROVE  Inv'
<1> DEFINE Ss(paired) == [y \in Live |-> IF y \in paired THEN [sessions[y] EXCEPT !.p2p = FALSE]
                                                         ELSE sessions[y]]
<1>0. PICK x \in CreateSession(u, s, c) : \E msgs, paired :
        LET rest == StreamsWithout(Replaced(x, u, s, c))
            rec  == [Entered(x, u, s, c) EXCEPT !.sub = TRUE]
        IN  \/ /\ s \notin DOMAIN rest
               /\ Grant(u, s, c, x, rec, sessions, rest, {})
               /\ fault' = "freed_stream"
            \/ /\ s \in DOMAIN rest
               /\ Grant(u, s, c, x, rec, Ss(paired), [rest EXCEPT ![s].subs = @ \cup {x}], msgs)
               /\ UNCHANGED fault
  BY Zenon DEF Subscribe
<1>1. PICK msgs, paired :
        LET rest == StreamsWithout(Replaced(x, u, s, c))
            rec  == [Entered(x, u, s, c) EXCEPT !.sub = TRUE]
        IN  \/ /\ s \notin DOMAIN rest
               /\ Grant(u, s, c, x, rec, sessions, rest, {})
               /\ fault' = "freed_stream"
            \/ /\ s \in DOMAIN rest
               /\ Grant(u, s, c, x, rec, Ss(paired), [rest EXCEPT ![s].subs = @ \cup {x}], msgs)
               /\ UNCHANGED fault
  BY <1>0
<1>2. PICK rest : rest = StreamsWithout(Replaced(x, u, s, c))
  OBVIOUS
<1>3. PICK rec : rec = [Entered(x, u, s, c) EXCEPT !.sub = TRUE]
  OBVIOUS
<1>4. PICK ss : ss = IF s \in DOMAIN rest THEN Ss(paired) ELSE sessions
  OBVIOUS
<1>5. PICK strs : strs = IF s \in DOMAIN rest THEN [rest EXCEPT ![s].subs = @ \cup {x}] ELSE rest
  OBVIOUS
<1>6. \E m : Grant(u, s, c, x, rec, ss, strs, m)
  <2> HIDE DEF Ss
  <2>1. CASE s \in DOMAIN rest
    BY <1>1, <1>2, <1>3, <1>4, <1>5, <2>1
  <2>2. CASE s \notin DOMAIN rest
    BY <1>1, <1>2, <1>3, <1>4, <1>5, <2>2
  <2> QED
    BY <2>1, <2>2
<1>7. /\ rec \in Session
      /\ rec.user = u /\ rec.stream = s /\ rec.fd = c /\ rec.sub
      /\ x \notin Live => ~rec.pub
      /\ x \in Live => rec.pub = sessions[x].pub
  <2>1. PICK old \in Session : old = Entered(x, u, s, c)
    BY EnteredIs
  <2>2. rec = [old EXCEPT !.sub = TRUE]
    BY <1>3, <2>1
  <2>3. /\ rec \in Session
        /\ rec.user = old.user /\ rec.stream = old.stream /\ rec.fd = old.fd
        /\ rec.pub = old.pub /\ rec.sub
    BY ONLY <2>2, old \in Session DEF Session
  <2>4. /\ old.user = u /\ old.stream = s /\ old.fd = c
        /\ x \notin Live => ~old.pub /\ ~old.sub
        /\ x \in Live => old = sessions[x]
    BY <2>1, EnteredIs
  <2> QED
    BY <2>3, <2>4
<1>8. /\ IsRest(rest, Replaced(x, u, s, c))
      /\ rest \in [DOMAIN rest -> Stream]
  <2>1. IsRest(rest, Replaced(x, u, s, c))
    BY <1>2, RestIs
  <2> QED
    BY <2>1 DEF IsRest
<1>9. x \in Nat
  BY CreateSessionIs DEF Inv, TypeOK, Live
<1>10. /\ DOMAIN strs = DOMAIN rest
       /\ \A t \in DOMAIN strs : /\ strs[t] \in Stream
                                 /\ strs[t].pub = rest[t].pub
                                 /\ strs[t].subs \subseteq rest[t].subs \cup (IF t = s THEN {x} ELSE {})
  <2>1. CASE s \notin DOMAIN rest
    BY <1>5, <1>8, <2>1
  <2>2. CASE s \in DOMAIN rest
    <3>1. PICK r : r = [rest[s] EXCEPT !.subs = @ \cup {x}]
      OBVIOUS
    <3>2. r \in Stream /\ r.pub = rest[s].pub /\ r.subs = rest[s].subs \cup {x}
      BY <1>8, <1>9, <2>2, <3>1 DEF Stream
    <3>3. strs = [rest EXCEPT ![s] = r]
      BY <1>5, <2>2, <3>1
    <3> QED
      BY <1>8, <2>2, <3>2, <3>3
  <2> QED
    BY <2>1, <2>2
<1>11. DOMAIN strs \subseteq Streams /\ strs \in [DOMAIN strs -> Stream]
  <2>1. DOMAIN strs \subseteq Streams
    BY <1>8, <1>10 DEF IsRest, Inv, TypeOK
  <2>2. strs = [t \in DOMAIN strs |-> strs[t]]
    BY <1>5, <1>8
  <2> QED
    BY <1>10, <2>1, <2>2
<1>12. SameRoles(ss)
  <2>1. ASSUME NEW y \in Live
        PROVE  LET r == [sessions[y] EXCEPT !.p2p = FALSE]
               IN  /\ r \in Session
                   /\ r.user = sessions[y].user /\ r.stream = sessions[y].stream
                   /\ r.fd = sessions[y].fd /\ r.pub = sessions[y].pub /\ r.sub = sessions[y].sub
    <3>1. PICK old \in Session : old = sessions[y]
      BY DEF Inv, TypeOK, Live
    <3> QED
      BY <3>1 DEF Session
  <2> QED
    BY <1>4, <2>1 DEF SameRoles, Inv, TypeOK, Live
<1>13. PICK after : after = After(ss, x, u, s, c, rec)
  OBVIOUS
<1>14. /\ DOMAIN after = (Live \ Replaced(x, u, s, c)) \cup {x}
       /\ after[x] = rec
       /\ \A y \in (Live \ Replaced(x, u, s, c)) \ {x} :
            /\ after[y].stream = sessions[y].stream
            /\ after[y].pub = sessions[y].pub
            /\ after[y].sub = sessions[y].sub
  BY <1>12, <1>13 DEF After, SameRoles
<1>15. RefsLive(after, strs)
  BY <1>7, <1>8, <1>10, <1>14, CreateSessionIs DEF RefsLive, IsRest, Inv, StreamRefsLive
<1>16. Owns(after, strs)
  BY <1>7, <1>8, <1>10, <1>14, CreateSessionIs DEF Owns, IsRest, Inv, PublisherOwnsStream
<1>17. fault' \in Faults
  BY <1>1 DEF Faults, Inv, TypeOK
<1> QED
  BY <1>6, <1>7, <1>11, <1>12, <1>13, <1>15, <1>16, <1>17, GrantInv

\* A handler that changes only flags of sessions the invariants do not read.
LEMMA FlagsInv ==
    ASSUME Inv, SameRoles(sessions'), DOMAIN sessions' = Live,
           UNCHANGED <<streams, fdToSession, nextId, shared>>,
           DOMAIN conns \subseteq DOMAIN conns',
           DOMAIN conns' \subseteq Fds, conns' \in [DOMAIN conns' -> Nat],
           sweep' \subseteq Nat, fault' \in Faults
    PROVE  Inv'
<1>1. TypeOK'
  BY DEF Inv, TypeOK, SameRoles, Live
<1>2. StreamRefsLive' /\ PublisherOwnsStream'
  BY DEF Inv, StreamRefsLive, PublisherOwnsStream, SameRoles, Live
<1>3. OneSessionPerEndpoint' /\ FdMapsToOwner'
  BY DEF Inv, OneSessionPerEndpoint, FdMapsToOwner, SameRoles, Live, IsUdp
<1>4. IdsBounded' /\ SharedIsMarked'
  BY DEF Inv, IdsBounded, SharedIsMarked, SameRoles, Live, IsUdp
<1> QED
  BY <1>1, <1>2, <1>3, <1>4 DEF Inv

LEMMA DestroySessionInv ==
    ASSUME Inv, NEW x \in Live, NEW closing, NEW msgs,
           DestroySession(x, closing, msgs), Spared(Live \ {x}, closing),
           nextId' = nextId, shared' = shared,
           \A f \in DOMAIN fdToSession' : f \in DOMAIN fdToSession /\ fdToSession'[f] = fdToSession[f],
           fdToSession' \in [DOMAIN fdToSession' -> Nat],
           sweep' \subseteq Nat, fault' \in Faults
    PROVE  Inv'
<1>1. PICK ctrl \in Paired(x) : Remove({x} \cup ctrl, FdsOf(ctrl) \cup closing)
  BY DEF DestroySession
<1>2. {x} \cup ctrl \in SUBSET Live
  BY DEF Paired
<1>3. PICK closed : closed = FdsOf(ctrl) \cup closing
  OBVIOUS
<1>4. PICK dead \in SUBSET Live : dead = {x} \cup ctrl
  BY <1>2
<1>5. Spared(Live \ dead, closed)
  BY <1>2, <1>3, <1>4 DEF Spared, FdsOf, Inv, SharedIsMarked
<1> QED
  BY <1>1, <1>3, <1>4, <1>5, RemoveInv

LEMMA OnConnClosedInv ==
    ASSUME Inv, NEW f \in DOMAIN conns, NEW closing \in SUBSET {f}, OnConnClosed(f, closing)
    PROVE  Inv'
<1>1. /\ nextId' = nextId /\ sweep' \subseteq Nat /\ fault' \in Faults /\ shared' = shared
      /\ \A g \in DOMAIN fdToSession' : g \in DOMAIN fdToSession /\ fdToSession'[g] = fdToSession[g]
      /\ fdToSession' \in [DOMAIN fdToSession' -> Nat]
      /\ DOMAIN fdToSession' = DOMAIN fdToSession \ {f}
  BY DEF OnConnClosed, Restrict, Inv, TypeOK
<1>2. \A y \in Live \ shared : ~IsUdp(y) => /\ sessions[y].fd \in DOMAIN fdToSession
                                           /\ fdToSession[sessions[y].fd] = y
  BY DEF Inv, FdMapsToOwner
<1>3. CASE f \in DOMAIN fdToSession /\ fdToSession[f] \in Live
  <2>1. PICK x \in Live : x = fdToSession[f]
    BY <1>3
  <2>2. DestroySession(x, closing, {})
    BY <1>3, <2>1 DEF OnConnClosed
  <2>3. Spared(Live \ {x}, closing)
    BY <1>1, <1>2, <2>1 DEF Spared
  <2> QED
    BY <1>1, <2>2, <2>3, DestroySessionInv
<1>4. CASE ~(f \in DOMAIN fdToSession /\ fdToSession[f] \in Live)
  <2>1. Remove({}, closing)
    BY <1>4 DEF OnConnClosed
  <2>2. Spared(Live \ {}, closing)
    BY <1>1, <1>2, <1>4 DEF Spared
  <2> QED
    BY <1>1, <2>1, <2>2, RemoveInv
<1> QED
  BY <1>3, <1>4

\* RemoveSession closes the descriptor of the session it destroys.
LEMMA OwnFdSpares ==
    ASSUME Inv, NEW x \in Live, fdToSession' = fdToSession
    PROVE  Spared(Live \ {x}, OwnFd(x))
BY DEF Spared, OwnFd, IsUdp, Inv, FdMapsToOwner, SharedIsMarked

LEMMA KickSessionInv ==
    ASSUME Inv, NEW x \in Live, KickSession(x)
    PROVE  Inv'
<1>1. PICK closing, msgs : closing = OwnFd(x) /\ msgs = Kicks({x})
  OBVIOUS
<1>2. DestroySession(x, closing, msgs)
  BY <1>1 DEF KickSession
<1>3. UNCHANGED <<fdToSession, nextId, sweep, fault, shared>>
  BY DEF KickSession
<1>4. Spared(Live \ {x}, closing)
  BY <1>1, <1>3, OwnFdSpares
<1> QED
  BY <1>2, <1>3, <1>4, DestroySessionInv DEF Inv, TypeOK

LEMMA KickAllFromStreamInv ==
    ASSUME Inv, NEW s \in DOMAIN streams, KickAllFromStream(s)
    PROVE  Inv'
<1>1. PICK members : members = ({streams[s].pub} \cup streams[s].subs) \cap Live
  OBVIOUS
<1>2. PICK ctrl \in UNION {Paired(x) : x \in {streams[s].pub} \cap Live} :
        Remove(members \cup ctrl, FdsOf(ctrl))
  BY <1>1 DEF KickAllFromStream
<1>3. ctrl \subseteq Live
  BY DEF Paired
<1>4. PICK dead \in SUBSET Live : dead = members \cup ctrl
  BY <1>1, <1>3
<1>5. PICK closed : closed = FdsOf(ctrl)
  OBVIOUS
<1>6. fault' \in Faults /\ UNCHANGED <<fdToSession, nextId, sweep, shared>>
  BY DEF KickAllFromStream, Faults, Inv, TypeOK
<1>7. Spared(Live \ dead, closed)
  BY <1>3, <1>4, <1>5, <1>6 DEF Spared, FdsOf, Inv, FdMapsToOwner, SharedIsMarked
<1> QED
  BY <1>2, <1>4, <1>5, <1>6, <1>7, RemoveInv DEF Inv, TypeOK

\* The id HandleUnsubscribe reads is beyond every id that was handed out.
LEMMA UnsubscribeIdMisses ==
    ASSUME Inv, NEW x \in Live
    PROVE  UnsubscribeId(x) \notin Live
<1>1. x \in Nat /\ \A y \in Live : y <= MaxSessionId /\ y \in Nat
  BY DEF Inv, TypeOK, IdsBounded, Live
<1>2. x \div 256 \in Nat
  BY <1>1
<1> QED
  BY <1>1, <1>2, RegistryAssumption DEF UnsubscribeId

\* So it destroys no session and closes no connection.
LEMMA UnsubscribeMissed ==
    ASSUME Inv, NEW x \in Live, HandleUnsubscribe(x)
    PROVE  sessions' = sessions /\ conns' = conns
<1>1. PICK hit : hit = {UnsubscribeId(x)} \cap Live
  OBVIOUS
<1>2. hit = {}
  BY <1>1, UnsubscribeIdMisses
<1>3. PICK ctrl \in IF hit = {} THEN {{}} ELSE Paired(UnsubscribeId(x)) :
        /\ sessions' = Restrict(sessions, Live \ (hit \cup ctrl))
        /\ conns' = Restrict(conns, DOMAIN conns \ FdsOf(ctrl))
  BY <1>1 DEF HandleUnsubscribe
<1>4. hit \cup ctrl = {} /\ FdsOf(ctrl) = {}
  BY <1>2, <1>3 DEF FdsOf
<1> QED
  BY <1>3, <1>4 DEF Restrict, Inv, TypeOK, Live

LEMMA HandleUnsubscribeInv ==
    ASSUME Inv, NEW x \in Live, HandleUnsubscribe(x)
    PROVE  Inv'
<1>1. PICK hit : hit = {UnsubscribeId(x)} \cap Live
  OBVIOUS
<1>2. hit = {}
  BY <1>1, UnsubscribeIdMisses
<1>3. PICK struck : struck = [t \in DOMAIN streams |->
                     [pub  |-> IF streams[t].pub \in hit THEN 0 ELSE streams[t].pub,
                      subs |-> streams[t].subs \ hit]]
  OBVIOUS
<1>4. /\ streams' = Restrict(struck, {t \in DOMAIN streams :
                         hit = {} \/ struck[t].pub # 0 \/ struck[t].subs # {}})
      /\ UNCHANGED <<fdToSession, nextId, sweep, fault, shared>>
  BY <1>1, <1>3 DEF HandleUnsubscribe
<1>5. sessions' = sessions /\ conns' = conns
  BY UnsubscribeMissed
<1>6. ASSUME NEW t \in DOMAIN streams PROVE struck[t] = streams[t]
  <2>1. PICK r \in Stream : r = streams[t]
    BY DEF Inv, TypeOK
  <2> QED
    BY <1>2, <1>3, <2>1 DEF Stream
<1>7. streams' = streams
  BY <1>2, <1>3, <1>4, <1>6 DEF Restrict, Inv, TypeOK
<1>8. SameRoles(sessions')
  BY <1>5 DEF SameRoles, Inv, TypeOK, Live
<1> QED
  BY <1>4, <1>5, <1>7, <1>8, FlagsInv DEF Inv, TypeOK, Live

LEMMA StreamDataInv ==
    ASSUME Inv, NEW x \in Live, StreamData(x)
    PROVE  Inv'
<1>1. PICK old \in Session : old = sessions[x]
  BY DEF Inv, TypeOK, Live
<1>2. PICK p \in BOOLEAN : p = (old.proxy \/ IsUdp(x))
  OBVIOUS
<1>3. PICK rec : rec = [old EXCEPT !.proxy = p]
  OBVIOUS
<1>4. /\ rec \in Session
      /\ rec.user = old.user /\ rec.stream = old.stream /\ rec.fd = old.fd
      /\ rec.pub = old.pub /\ rec.sub = old.sub
  BY ONLY <1>3, old \in Session, p \in BOOLEAN DEF Session
<1>5. sessions' = [sessions EXCEPT ![x] = rec]
  BY <1>1, <1>2, <1>3 DEF StreamData
<1>6. SameRoles(sessions') /\ DOMAIN sessions' = Live
  BY <1>1, <1>4, <1>5 DEF SameRoles, Inv, TypeOK, Live
<1> QED
  BY <1>6, FlagsInv DEF StreamData, Inv, TypeOK

LEMMA HandleP2PRequestInv ==
    ASSUME Inv, NEW c \in Connections, NEW s \in Streams, HandleP2PRequest(c, s)
    PROVE  Inv'
<1>1. PICK pair : sessions' = [x \in Live |-> IF x \in pair THEN [sessions[x] EXCEPT !.p2p = TRUE]
                                                            ELSE sessions[x]]
  BY DEF HandleP2PRequest
<1>2. ASSUME NEW y \in Live
      PROVE  LET r == [sessions[y] EXCEPT !.p2p = TRUE]
             IN  /\ r \in Session
                 /\ r.user = sessions[y].user /\ r.stream = sessions[y].stream
                 /\ r.fd = sessions[y].fd /\ r.pub = sessions[y].pub /\ r.sub = sessions[y].sub
  <2>1. PICK old \in Session : old = sessions[y]
    BY DEF Inv, TypeOK, Live
  <2> QED
    BY <2>1 DEF Session
<1>3. SameRoles(sessions') /\ DOMAIN sessions' = Live
  BY <1>1, <1>2 DEF SameRoles, Inv, TypeOK, Live
<1> QED
  BY <1>3, FlagsInv DEF HandleP2PRequest, Inv, TypeOK

LEMMA SweepNextInv ==
    ASSUME Inv, NEW x \in sweep, SweepNext(x)
    PROVE  Inv'
<1>1. /\ nextId' = nextId /\ sweep' \subseteq Nat /\ fault' \in Faults
      /\ fdToSession' = fdToSession /\ shared' = shared
  BY DEF SweepNext, Inv, TypeOK
<1>2. CASE x \in Live
  <2>1. PICK closing : closing = OwnFd(x)
    OBVIOUS
  <2>2. DestroySession(x, closing, {})
    BY <1>2, <2>1 DEF SweepNext
  <2>3. Spared(Live \ {x}, closing)
    BY <1>1, <1>2, <2>1, OwnFdSpares
  <2> QED
    BY <1>1, <1>2, <2>2, <2>3, DestroySessionInv DEF Inv, TypeOK
<1>3. CASE x \notin Live
  <2>1. UNCHANGED <<sessions, streams, conns>>
    BY <1>3 DEF SweepNext
  <2>2. SameRoles(sessions')
    BY <2>1 DEF SameRoles, Inv, TypeOK, Live
  <2> QED
    BY <1>1, <2>1, <2>2, FlagsInv DEF Inv, TypeOK, Live
<1> QED
  BY <1>2, <1>3

\* CleanupEmptyStreams has nothing to do: every stream has a publisher.
LEMMA EndSweepInv ==
    ASSUME Inv, EndSweep
    PROVE  Inv'
<1>1. \A s \in DOMAIN streams : streams[s].pub # 0
  BY DEF Inv, TypeOK, StreamRefsLive, Live
<1>2. streams' = streams
  BY <1>1 DEF EndSweep, Restrict, Inv, TypeOK
<1>3. SameRoles(sessions')
  BY DEF EndSweep, SameRoles, Inv, TypeOK, Live
<1> QED
  BY <1>2, <1>3, FlagsInv DEF EndSweep, Inv, TypeOK, Live

\* The steps that leave sessions and streams alone.
LEMMA OtherStepInv ==
    ASSUME Inv, UNCHANGED <<sessions, streams, fdToSession, nextId, shared>>,
           DOMAIN conns \subseteq DOMAIN conns',
           DOMAIN conns' \subseteq Fds, conns' \in [DOMAIN conns' -> Nat],
           sweep' \subseteq Nat, fault' \in Faults
    PROVE  Inv'
<1>1. SameRoles(sessions')
  BY DEF SameRoles, Inv, TypeOK, Live
<1> QED
  BY <1>1, FlagsInv DEF Live

LEMMA PublishTakenInv ==
    ASSUME Inv, NEW u \in Users, NEW s \in Streams, NEW c \in Connections, PublishTaken(u, s, c)
    PROVE  Inv'
<1>1. streams[s].pub \in Nat
  BY DEF PublishTaken, Inv, TypeOK, Stream
<1>2. /\ DOMAIN conns' = DOMAIN conns
      /\ DOMAIN conns' \subseteq Fds /\ conns' \in [DOMAIN conns' -> Nat]
  <2>1. CASE UNCHANGED conns
    BY <2>1 DEF Inv, TypeOK
  <2>2. CASE Tell(streams[s].pub, c)
    BY <1>1, <2>2 DEF Tell, Connections, Inv, TypeOK
  <2> QED
    BY <2>1, <2>2 DEF PublishTaken
<1> QED
  BY <1>2, OtherStepInv DEF PublishTaken, Inv, TypeOK

-----------------------------------------------------------------------------
(* The theorems *)

LEMMA InitInv ==
    ASSUME Init
    PROVE  Inv
<1> SUFFICES /\ TypeOK /\ StreamRefsLive /\ PublisherOwnsStream
             /\ OneSessionPerEndpoint /\ FdMapsToOwner /\ SharedIsMarked /\ IdsBounded
  BY DEF Inv
<1>1. Live = {} /\ DOMAIN streams = {} /\ DOMAIN fdToSession = {} /\ DOMAIN conns = {}
  BY DEF Init, Live
<1>2. TypeOK
  BY <1>1, RegistryAssumption DEF Init, TypeOK, Faults, Live
<1> QED
  BY <1>1, <1>2 DEF StreamRefsLive, PublisherOwnsStream, OneSessionPerEndpoint, FdMapsToOwner,
                       SharedIsMarked, IdsBounded

LEMMA NextInv ==
    ASSUME Inv, [Next]_vars
    PROVE  Inv'
<1>1. ASSUME NEW u \in Users, NEW s \in Streams, NEW c \in Connections,
             \/ PublishTaken(u, s, c) \/ Publish(u, s, c) \/ OpenControl(u, s, c)
             \/ SubscribeMissing(u, s, c) \/ Subscribe(u, s, c)
      PROVE  Inv'
  <2>1. CASE SubscribeMissing(u, s, c)
    BY <2>1, OtherStepInv DEF SubscribeMissing, Inv, TypeOK
  <2> QED
    BY <1>1, <2>1, PublishTakenInv, PublishInv, OpenControlInv, SubscribeInv
<1>2. ASSUME NEW x \in Live, StreamData(x) \/ HandleUnsubscribe(x) \/ KickSession(x)
      PROVE  Inv'
  BY <1>2, StreamDataInv, HandleUnsubscribeInv, KickSessionInv
<1>3. ASSUME NEW c \in Connections, NEW s \in Streams, HandleP2PRequest(c, s)
      PROVE  Inv'
  BY <1>3, HandleP2PRequestInv
<1>4. ASSUME NEW f \in DOMAIN conns, OnHeartbeat(f) \/ OnDisconnect(f) \/ CloseTcpConn(f)
      PROVE  Inv'
  <2>1. CASE OnHeartbeat(f)
    BY <2>1, OtherStepInv DEF OnHeartbeat, Faults, Inv, TypeOK
  <2> QED
    BY <1>4, <2>1, OnConnClosedInv DEF OnDisconnect, CloseTcpConn
<1>5. ASSUME NEW f \in Fds, Accept(f)
      PROVE  Inv'
  BY <1>5, OtherStepInv DEF Accept, Inv, TypeOK
<1>6. ASSUME NEW s \in DOMAIN streams, KickAllFromStream(s)
      PROVE  Inv'
  BY <1>6, KickAllFromStreamInv
<1>7. CASE BeginSweep
  BY <1>7, OtherStepInv DEF BeginSweep, Inv, TypeOK, Live
<1>8. ASSUME NEW x \in sweep, SweepNext(x)
      PROVE  Inv'
  BY <1>8, SweepNextInv
<1>9. CASE EndSweep
  BY <1>9, EndSweepInv
<1>10. CASE UNCHANGED vars
  BY <1>10, OtherStepInv DEF vars, Inv, TypeOK
<1> QED
  BY <1>1, <1>2, <1>3, <1>4, <1>5, <1>6, <1>7, <1>8, <1>9, <1>10 DEF Next, Crashed

\* Whatever requests, disconnections, kicks and sweeps the event loop serves, in
\* any order, Inv holds.
THEOREM RegistryInv == Spec => []Inv
<1>1. Init => Inv
  BY InitInv
<1>2. Inv /\ [Next]_vars => Inv'
  BY NextInv
<1> QED
  BY <1>1, <1>2, PTL DEF Spec

\* The maps always hold what their C++ types say they hold.
THEOREM RegistryTypes == Spec => []TypeOK
  BY RegistryInv, PTL DEF Inv

\* ForwardToSubscribers and STREAM_END never meet a dangling session id.
THEOREM StreamsReferToLiveSessions == Spec => []StreamRefsLive
  BY RegistryInv, PTL DEF Inv

\* Two sessions never feed one stream.
THEOREM StreamsHaveOnePublisher == Spec => []PublisherOwnsStream
  BY RegistryInv, PTL DEF Inv

\* Retries and reconnects never leave two sessions of one endpoint.
THEOREM EndpointsAreUnique == Spec => []OneSessionPerEndpoint
  BY RegistryInv, PTL DEF Inv

\* A descriptor never leads to a session of another one, and a TCP session that
\* has its descriptor to itself ends with its connection: the next connection with
\* that number finds nothing of it.
THEOREM DescriptorsMapToOwners == Spec => []FdMapsToOwner
  BY RegistryInv, PTL DEF Inv

-----------------------------------------------------------------------------
(* What a step never does *)

\* The control session of a UDP publisher's user and stream is the only one
\* its destruction can pick.
LEMMA PairedIs ==
    ASSUME Inv, NEW x \in Live, IsUdp(x), sessions[x].pub, NEW ctrl \in Paired(x),
           NEW y \in Live, sessions[y].ctrl, ~IsUdp(y),
           sessions[y].user = sessions[x].user, sessions[y].stream = sessions[x].stream
    PROVE  y \in ctrl
<1>1. y \in Siblings(x)
  BY DEF Siblings
<1>2. \A o \in Siblings(x) : o = y
  BY DEF Siblings, Inv, OneSessionPerEndpoint, IsUdp
<1> QED
  BY <1>1, <1>2 DEF Paired

\* Destroying sessions tells every subscriber that loses its stream.
LEMMA RemoveTells ==
    ASSUME Inv, NEW dead \in SUBSET Live, NEW rest, IsRest(rest, dead),
           NEW s \in DOMAIN streams, NEW y \in streams[s].subs, y \notin dead
    PROVE  \/ s \in DOMAIN rest /\ y \in rest[s].subs
           \/ \E e \in StreamEnds(dead) : e.kind = "STREAM_END" /\ e.to = y
<1>1. CASE streams[s].pub \notin dead
  BY <1>1 DEF IsRest
<1>2. CASE streams[s].pub \in dead
  <2>1. y \in Live /\ sessions[streams[s].pub].stream = s
    BY DEF Inv, StreamRefsLive
  <2>2. Event("STREAM_END", y, sessions[y].fd) \in StreamEnds(dead)
    BY <1>2, <2>1 DEF StreamEnds
  <2>3. Event("STREAM_END", y, sessions[y].fd).kind = "STREAM_END" /\ Event("STREAM_END", y, sessions[y].fd).to = y
    BY DEF Event
  <2> QED
    BY <2>2, <2>3
<1> QED
  BY <1>1, <1>2

\* The three step properties of DestroySession and what is destroyed with it.
LEMMA RemoveStep ==
    ASSUME Inv, NEW dead \in SUBSET Live, NEW closed, NEW msgs,
           Remove(dead, closed), events' = msgs \cup StreamEnds(dead),
           \A e \in msgs : e.kind # "OK",
           \A x \in dead : IsUdp(x) /\ sessions[x].pub =>
               \E ctrl \in Paired(x) : ctrl \subseteq dead /\ FdsOf(ctrl) \subseteq closed
    PROVE  ControlGoesAlong /\ DroppedAreTold /\ GrantSparesOtherTransport
<1>1. DOMAIN sessions' = Live \ dead /\ Gone = dead
  BY DEF Remove, Restrict, Gone, Live
<1>2. DOMAIN conns' \cap closed = {}
  BY DEF Remove, Restrict
<1>3. ControlGoesAlong
  <2> SUFFICES ASSUME NEW x \in dead, IsUdp(x), sessions[x].pub,
                      NEW y \in Live, sessions[y].ctrl, ~IsUdp(y),
                      sessions[y].user = sessions[x].user, sessions[y].stream = sessions[x].stream
               PROVE  y \in dead /\ sessions[y].fd \notin DOMAIN conns'
    BY <1>1 DEF ControlGoesAlong
  <2>1. PICK ctrl \in Paired(x) : ctrl \subseteq dead /\ FdsOf(ctrl) \subseteq closed
    OBVIOUS
  <2>2. y \in ctrl
    BY PairedIs
  <2>3. sessions[y].fd \in FdsOf(ctrl)
    BY <2>2 DEF FdsOf
  <2> QED
    BY <1>2, <2>1, <2>2, <2>3
<1>4. DroppedAreTold
  <2>1. PICK rest : rest = streams'
    OBVIOUS
  <2>2. IsRest(rest, dead)
    BY <2>1, StreamsWithoutIs DEF Remove
  <2> QED
    BY <1>1, <2>1, <2>2, RemoveTells DEF DroppedAreTold
<1>5. GrantSparesOtherTransport
  <2>1. \A e \in StreamEnds(dead) : e.kind = "STREAM_END"
    BY DEF StreamEnds, Event
  <2> QED
    BY <2>1 DEF GrantSparesOtherTransport
<1> QED
  BY <1>3, <1>4, <1>5

StepOK == ControlGoesAlong /\ DroppedAreTold /\ GrantSparesOtherTransport

\* A request destroys only TCP sessions, and only a TCP request does.
LEMMA GrantStep ==
    ASSUME Inv, NEW u \in Users, NEW s \in Streams, NEW c \in Connections,
           NEW x \in CreateSession(u, s, c), NEW rec, NEW ss, NEW strs, NEW msgs,
           Grant(u, s, c, x, rec, ss, strs, msgs),
           NEW rest, rest = StreamsWithout(Replaced(x, u, s, c)),
           \A t \in DOMAIN rest : t \in DOMAIN strs /\ rest[t].subs \subseteq strs[t].subs,
           \A e \in msgs : e.kind # "OK"
    PROVE  StepOK
<1>1. PICK gone \in SUBSET Live : gone = Replaced(x, u, s, c)
  BY CreateSessionIs
<1>2. \A y \in gone : ~IsUdp(y) /\ c # NoFd
  BY <1>1, CreateSessionIs DEF Stale, IsUdp
<1>3. Gone \subseteq gone /\ gone \cap DOMAIN sessions' = {}
  BY <1>1, CreateSessionIs DEF Grant, Gone, Live
<1>4. ControlGoesAlong
  BY <1>2, <1>3 DEF ControlGoesAlong
<1>5. DroppedAreTold
  <2>1. IsRest(rest, gone)
    BY <1>1, RestIs
  <2> SUFFICES ASSUME NEW t \in DOMAIN streams, NEW y \in streams[t].subs, y \in DOMAIN sessions'
               PROVE  \/ t \in DOMAIN streams' /\ y \in streams'[t].subs
                      \/ \E e \in events' : e.kind = "STREAM_END" /\ e.to = y
    BY DEF DroppedAreTold
  <2>2. \/ t \in DOMAIN rest /\ y \in rest[t].subs
        \/ \E e \in StreamEnds(gone) : e.kind = "STREAM_END" /\ e.to = y
    BY <1>3, <2>1, RemoveTells
  <2>3. StreamEnds(gone) \subseteq events'
    BY <1>1 DEF Grant
  <2>4. \A v \in DOMAIN rest : v \in DOMAIN streams' /\ rest[v].subs \subseteq streams'[v].subs
    BY DEF Grant
  <2> QED
    BY <2>2, <2>3, <2>4
<1>6. GrantSparesOtherTransport
  <2>1. \A e \in StreamEnds(gone) : e.kind = "STREAM_END"
    BY DEF StreamEnds, Event
  <2>2. events' \subseteq StreamEnds(gone) \cup msgs \cup {Event("OK", x, c)}
    BY <1>1 DEF Grant
  <2>3. Event("OK", x, c).via = c
    BY DEF Event
  <2>4. \A e \in events' : e.kind = "OK" => e.via = c
    BY <2>1, <2>2, <2>3
  <2> QED
    BY <1>2, <1>3, <2>4 DEF GrantSparesOtherTransport
<1> QED
  BY <1>4, <1>5, <1>6 DEF StepOK

LEMMA PublishStep ==
    ASSUME Inv, NEW u \in Users, NEW s \in Streams, NEW c \in Connections, Publish(u, s, c)
    PROVE  StepOK
<1>0. PICK x \in CreateSession(u, s, c) : \E rec, ss, rest, strs :
        /\ rest = StreamsWithout(Replaced(x, u, s, c))
        /\ strs = [t \in DOMAIN rest \cup {s} |->
                      IF t = s THEN [pub |-> x, subs |-> {}] ELSE rest[t]]
        /\ Grant(u, s, c, x, rec, ss, strs, {})
  BY Zenon DEF Publish
<1>1. PICK rec, ss, rest, strs :
        /\ rest = StreamsWithout(Replaced(x, u, s, c))
        /\ strs = [t \in DOMAIN rest \cup {s} |->
                      IF t = s THEN [pub |-> x, subs |-> {}] ELSE rest[t]]
        /\ Grant(u, s, c, x, rec, ss, strs, {})
  BY <1>0
<1>2. s \notin DOMAIN rest
  <2>1. IsRest(rest, Replaced(x, u, s, c))
    BY <1>1, RestIs
  <2> QED
    BY <2>1 DEF IsRest, Publish
<1>3. \A t \in DOMAIN rest : t \in DOMAIN strs /\ rest[t].subs \subseteq strs[t].subs
  BY <1>1, <1>2
<1> QED
  BY <1>1, <1>3, GrantStep

LEMMA OpenControlStep ==
    ASSUME Inv, NEW u \in Users, NEW s \in Streams, NEW c \in Connections, OpenControl(u, s, c)
    PROVE  StepOK
<1>0. PICK x \in CreateSession(u, s, c) : \E rec, ss, rest :
        /\ rest = StreamsWithout(Replaced(x, u, s, c))
        /\ Grant(u, s, c, x, rec, ss, rest, {})
  BY Zenon DEF OpenControl
<1>1. PICK rec, ss, rest :
        /\ rest = StreamsWithout(Replaced(x, u, s, c))
        /\ Grant(u, s, c, x, rec, ss, rest, {})
  BY <1>0
<1> QED
  BY <1>1, GrantStep

LEMMA SubscribeStep ==
    ASSUME Inv, NEW u \in Users, NEW s \in Streams, NEW c \in Connections, Subscribe(u, s, c)
    PROVE  StepOK
<1>1. PICK x \in CreateSession(u, s, c) :
        LET rest   == StreamsWithout(Replaced(x, u, s, c))
            rec    == [Entered(x, u, s, c) EXCEPT !.sub = TRUE]
            paired == {y \in (rest[s].subs \cap Live) \ {x} : sessions[y].p2p}
            asked  == {y \in {rest[s].pub} \cap Live : sessions[y].proxy}
        IN  \/ Grant(u, s, c, x, rec, sessions, rest, {})
            \/ /\ s \in DOMAIN rest
               /\ \E pli \in SUBSET asked :
                    Grant(u, s, c, x, rec,
                          [y \in Live |-> IF y \in paired THEN [sessions[y] EXCEPT !.p2p = FALSE]
                                                          ELSE sessions[y]],
                          [rest EXCEPT ![s].subs = @ \cup {x}],
                          {Event("PLI", y, sessions[y].fd) : y \in pli}
                            \cup {Event("P2P_FALLBACK", y, sessions[y].fd) :
                                     y \in {z \in paired : ~IsUdp(z)}})
  BY Zenon DEF Subscribe
<1>0. PICK rest : rest = StreamsWithout(Replaced(x, u, s, c))
  OBVIOUS
<1>2. PICK rec, ss, strs, msgs :
        /\ strs = rest \/ (s \in DOMAIN rest /\ strs = [rest EXCEPT ![s].subs = @ \cup {x}])
        /\ Grant(u, s, c, x, rec, ss, strs, msgs)
        /\ \A e \in msgs : e.kind # "OK"
  <2>1. CASE Grant(u, s, c, x, [Entered(x, u, s, c) EXCEPT !.sub = TRUE], sessions, rest, {})
    BY <2>1
  <2>2. ASSUME s \in DOMAIN rest, NEW pli, NEW paired, NEW rec, NEW ss,
               Grant(u, s, c, x, rec, ss, [rest EXCEPT ![s].subs = @ \cup {x}],
                     {Event("PLI", y, sessions[y].fd) : y \in pli}
                       \cup {Event("P2P_FALLBACK", y, sessions[y].fd) :
                                y \in {z \in paired : ~IsUdp(z)}})
        PROVE  \E r, ses, strs, msgs :
                 /\ strs = rest \/ (s \in DOMAIN rest /\ strs = [rest EXCEPT ![s].subs = @ \cup {x}])
                 /\ Grant(u, s, c, x, r, ses, strs, msgs)
                 /\ \A e \in msgs : e.kind # "OK"
    <3>1. PICK msgs : msgs = {Event("PLI", y, sessions[y].fd) : y \in pli}
                               \cup {Event("P2P_FALLBACK", y, sessions[y].fd) :
                                        y \in {z \in paired : ~IsUdp(z)}}
      OBVIOUS
    <3>2. \A e \in msgs : e.kind # "OK"
      BY <3>1 DEF Event
    <3>3. PICK strs : strs = [rest EXCEPT ![s].subs = @ \cup {x}]
      OBVIOUS
    <3> QED
      BY <2>2, <3>1, <3>2, <3>3
  <2> QED
    BY <1>1, <1>0, <2>1, <2>2, Zenon
<1>3. \A t \in DOMAIN rest : t \in DOMAIN strs /\ rest[t].subs \subseteq strs[t].subs
  <2>1. IsRest(rest, Replaced(x, u, s, c))
    BY <1>0, RestIs
  <2>2. rest \in [DOMAIN rest -> Stream]
    BY <2>1 DEF IsRest
  <2>3. CASE strs = rest
    BY <2>3
  <2>4. CASE s \in DOMAIN rest /\ strs = [rest EXCEPT ![s].subs = @ \cup {x}]
    <3>1. PICK old \in Stream : old = rest[s]
      BY <2>2, <2>4
    <3>2. [old EXCEPT !.subs = @ \cup {x}].subs = old.subs \cup {x}
      BY DEF Stream
    <3> QED
      BY <2>2, <2>4, <3>1, <3>2
  <2> QED
    BY <1>2, <2>3, <2>4
<1> QED
  BY <1>0, <1>2, <1>3, GrantStep

LEMMA DestroySessionStep ==
    ASSUME Inv, NEW x \in Live, NEW closing, NEW msgs,
           DestroySession(x, closing, msgs), \A e \in msgs : e.kind # "OK"
    PROVE  StepOK
<1>1. PICK ctrl \in Paired(x) :
        /\ Remove({x} \cup ctrl, FdsOf(ctrl) \cup closing)
        /\ events' = msgs \cup StreamEnds({x} \cup ctrl)
  BY DEF DestroySession
<1>2. PICK dead \in SUBSET Live : dead = {x} \cup ctrl
  BY DEF Paired
<1>3. PICK closed : closed = FdsOf(ctrl) \cup closing
  OBVIOUS
<1>4. \A y \in ctrl : IsUdp(x) /\ ~IsUdp(y)
  BY DEF Paired, Siblings
<1>5. \A y \in dead : IsUdp(y) /\ sessions[y].pub =>
         \E k \in Paired(y) : k \subseteq dead /\ FdsOf(k) \subseteq closed
  BY <1>2, <1>3, <1>4
<1> QED
  BY <1>1, <1>2, <1>3, <1>5, RemoveStep DEF StepOK

LEMMA KickAllFromStreamStep ==
    ASSUME Inv, NEW s \in DOMAIN streams, KickAllFromStream(s)
    PROVE  StepOK
<1>1. PICK members : members = ({streams[s].pub} \cup streams[s].subs) \cap Live
  OBVIOUS
<1>2. PICK ctrl \in UNION {Paired(x) : x \in {streams[s].pub} \cap Live} :
        /\ Remove(members \cup ctrl, FdsOf(ctrl))
        /\ events' = Kicks(members) \cup StreamEnds(members \cup ctrl)
  BY <1>1 DEF KickAllFromStream
<1>3. ctrl \in Paired(streams[s].pub) /\ ctrl \subseteq Live
  BY DEF Paired
<1>4. PICK dead \in SUBSET Live : dead = members \cup ctrl
  BY <1>1, <1>3
<1>5. PICK closed, msgs : closed = FdsOf(ctrl) /\ msgs = Kicks(members)
  OBVIOUS
<1>6. \A e \in msgs : e.kind # "OK"
  BY <1>5 DEF Kicks, Event
<1>7. ASSUME NEW y \in dead, IsUdp(y), sessions[y].pub
      PROVE  \E k \in Paired(y) : k \subseteq dead /\ FdsOf(k) \subseteq closed
  <2>1. y \notin ctrl
    BY <1>3, <1>7 DEF Paired, Siblings
  <2>2. y = streams[s].pub
    BY <1>1, <1>4, <1>7, <2>1 DEF Inv, StreamRefsLive, PublisherOwnsStream
  <2> QED
    BY <1>3, <1>4, <1>5, <2>2
<1>8. Remove(dead, closed) /\ events' = msgs \cup StreamEnds(dead)
  BY <1>2, <1>4, <1>5
<1> QED
  BY <1>6, <1>7, <1>8, RemoveStep DEF StepOK

LEMMA OnConnClosedStep ==
    ASSUME Inv, NEW f \in DOMAIN conns, NEW closing, OnConnClosed(f, closing)
    PROVE  StepOK
<1>1. CASE f \in DOMAIN fdToSession /\ fdToSession[f] \in Live
  <2>1. PICK x \in Live : x = fdToSession[f]
    BY <1>1
  <2>2. DestroySession(x, closing, {})
    BY <1>1, <2>1 DEF OnConnClosed
  <2> QED
    BY <2>2, DestroySessionStep
<1>2. CASE ~(f \in DOMAIN fdToSession /\ fdToSession[f] \in Live)
  <2>1. Remove({}, closing) /\ events' = {}
    BY <1>2 DEF OnConnClosed
  <2>2. StreamEnds({}) = {}
    BY DEF StreamEnds
  <2> QED
    BY <2>1, <2>2, RemoveStep DEF StepOK
<1> QED
  BY <1>1, <1>2

LEMMA KickSessionStep ==
    ASSUME Inv, NEW x \in Live, KickSession(x)
    PROVE  StepOK
<1>1. PICK closing, msgs : closing = OwnFd(x) /\ msgs = Kicks({x})
  OBVIOUS
<1>2. DestroySession(x, closing, msgs)
  BY <1>1 DEF KickSession
<1>3. \A e \in msgs : e.kind # "OK"
  BY <1>1 DEF Kicks, Event
<1> QED
  BY <1>2, <1>3, DestroySessionStep

\* A step that destroys no session and takes no subscriber off a list.
LEMMA QuietStep ==
    ASSUME DOMAIN sessions' = Live, UNCHANGED streams
    PROVE  StepOK
BY DEF StepOK, ControlGoesAlong, DroppedAreTold, GrantSparesOtherTransport, Gone, Live

LEMMA HandleUnsubscribeStep ==
    ASSUME Inv, NEW x \in Live, HandleUnsubscribe(x)
    PROVE  StepOK
<1>1. PICK hit : hit = {UnsubscribeId(x)} \cap Live
  OBVIOUS
<1>2. hit = {}
  BY <1>1, UnsubscribeIdMisses
<1>3. DOMAIN sessions' = Live
  BY UnsubscribeMissed DEF Live
<1>4. \A t \in DOMAIN streams : t \in DOMAIN streams' /\ streams'[t].subs = streams[t].subs
  BY <1>1, <1>2 DEF HandleUnsubscribe, Restrict
<1> QED
  BY <1>3, <1>4 DEF StepOK, ControlGoesAlong, DroppedAreTold, GrantSparesOtherTransport, Gone, Live

LEMMA SweepStep ==
    ASSUME Inv, \/ \E x \in sweep : SweepNext(x)
                \/ EndSweep
    PROVE  StepOK
<1>1. ASSUME NEW x \in sweep, SweepNext(x), x \in Live
      PROVE  StepOK
  <2>1. PICK closing : closing = OwnFd(x)
    OBVIOUS
  <2>2. DestroySession(x, closing, {})
    BY <1>1, <2>1 DEF SweepNext
  <2> QED
    BY <1>1, <2>2, DestroySessionStep
<1>2. ASSUME NEW x \in sweep, SweepNext(x), x \notin Live
      PROVE  StepOK
  BY <1>2, QuietStep DEF SweepNext, Live
<1>3. CASE EndSweep
  <2>1. \A s \in DOMAIN streams : streams[s].pub # 0
    BY DEF Inv, TypeOK, StreamRefsLive, Live
  <2>2. streams' = streams
    BY <1>3, <2>1 DEF EndSweep, Restrict, Inv, TypeOK
  <2> QED
    BY <1>3, <2>2, QuietStep DEF EndSweep, Live
<1> QED
  BY <1>1, <1>2, <1>3

LEMMA NextStep ==
    ASSUME Inv, Next
    PROVE  StepOK
<1>1. ASSUME NEW u \in Users, NEW s \in Streams, NEW c \in Connections,
             \/ PublishTaken(u, s, c) \/ Publish(u, s, c) \/ OpenControl(u, s, c)
             \/ SubscribeMissing(u, s, c) \/ Subscribe(u, s, c)
      PROVE  StepOK
  <2>1. CASE PublishTaken(u, s, c) \/ SubscribeMissing(u, s, c)
    BY <2>1, QuietStep DEF PublishTaken, SubscribeMissing, Live
  <2> QED
    BY <1>1, <2>1, PublishStep, OpenControlStep, SubscribeStep
<1>2. ASSUME NEW x \in Live, StreamData(x) \/ HandleUnsubscribe(x) \/ KickSession(x)
      PROVE  StepOK
  <2>1. CASE StreamData(x)
    BY <2>1, QuietStep DEF StreamData, Live
  <2> QED
    BY <1>2, <2>1, HandleUnsubscribeStep, KickSessionStep
<1>3. ASSUME NEW c \in Connections, NEW s \in Streams, HandleP2PRequest(c, s)
      PROVE  StepOK
  BY <1>3, QuietStep DEF HandleP2PRequest, Live
<1>4. ASSUME NEW f \in DOMAIN conns, OnHeartbeat(f) \/ OnDisconnect(f) \/ CloseTcpConn(f)
      PROVE  StepOK
  <2>1. CASE OnHeartbeat(f)
    BY <2>1, QuietStep DEF OnHeartbeat, Live
  <2> QED
    BY <1>4, <2>1, OnConnClosedStep DEF OnDisconnect, CloseTcpConn
<1>5. ASSUME NEW s \in DOMAIN streams, KickAllFromStream(s)
      PROVE  StepOK
  BY <1>5, KickAllFromStreamStep
<1>6. CASE BeginSweep \/ (\E f \in Fds : Accept(f)) \/ Crashed
  BY <1>6, QuietStep DEF BeginSweep, Accept, Crashed, vars, Live
<1> QED
  BY <1>1, <1>2, <1>3, <1>4, <1>5, <1>6, SweepStep DEF Next

\* A UDP publisher's control session never outlives its media session.
THEOREM ControlEndsWithPublisher == Spec => PairedControlClosed
<1>1. Inv /\ [Next]_vars => [ControlGoesAlong]_vars
  BY NextStep DEF StepOK
<1> QED
  BY <1>1, RegistryInv, PTL DEF Spec, PairedControlClosed

\* Every subscriber that loses its stream is sent STREAM_END.
THEOREM SubscribersAreTold == Spec => NoSilentDrop
<1>1. Inv /\ [Next]_vars => [DroppedAreTold]_vars
  BY NextStep DEF StepOK
<1> QED
  BY <1>1, RegistryInv, PTL DEF Spec, NoSilentDrop

\* The media and the control session of one client never evict each other.
THEOREM TransportsDoNotEvict == Spec => TransportsCoexist
<1>1. Inv /\ [Next]_vars => [GrantSparesOtherTransport]_vars
  BY NextStep DEF StepOK
<1> QED
  BY <1>1, RegistryInv, PTL DEF Spec, TransportsCoexist

=============================================================================
