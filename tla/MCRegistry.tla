----------------------------- MODULE MCRegistry -----------------------------
(* SfuRegistry on small sets of users, streams and descriptors. *)
EXTENDS SfuRegistry, TLC

Symmetry == Permutations(Users) \cup Permutations(Streams) \cup Permutations(Fds)

\* Whether a publisher has a proxy receiver decides only whether it is asked for a
\* key frame.
Shown(r) == <<r.user, r.stream, r.fd, r.pub, r.sub, r.ctrl, r.p2p>>

\* No guard and no update of the rest reads events, the ids in conns, the proxy
\* receivers or the ids in shared that are gone, and the properties do not mention
\* them beyond the events of one step: states that differ only there are explored once.
View == <<[x \in Live |-> Shown(sessions[x])], streams, fdToSession, nextId, DOMAIN conns, sweep,
          fault, shared \cap Live>>

=============================================================================
