----------------------------- MODULE MCVncProxy -----------------------------
(***************************************************************************)
(* Instances of VncProxy for TLC: one session, or two sessions of one user *)
(* that compete for its entry in the map, and at most one API request.     *)
(***************************************************************************)
EXTENDS VncProxy

CONSTANTS s1, s2, u1, r1

OneSession == [s \in {s1} |-> u1]
OneUser == [s \in {s1, s2} |-> u1]

OneRequest == [r \in {r1} |-> u1]
NoRequests == [r \in {} |-> u1]

\* Both sessions are of one user and of one kind, so either may stand for the
\* other.
Interchangeable ==
    {[s \in Sessions |-> s], [s \in Sessions |-> IF s = s1 THEN s2 ELSE s1]}

\* faults and late are only ever written, and a safety property that does not
\* name them cannot tell two states apart that differ there.
WithoutRecords ==
    <<viaGuacd, pc, cpc, polls, ready, closed, ws, vnc, session, guac, used,
      reader, lfsx, peers, writer, serving, pinged>>

\* Bound: the reader of at most one of the sessions is started; the handshake
\* of the other fails.
OneReader == Cardinality({s \in Sessions : reader[s] # "none"}) <= 1

\* Bound: every Close waits until the peer is ready.
NoneGaveUp == \A s \in Sessions : late[s] = {}

=============================================================================
