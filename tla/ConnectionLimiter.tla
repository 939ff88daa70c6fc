------------------------- MODULE ConnectionLimiter -------------------------
(***************************************************************************)
(* The admission of WebSocket connections in index.js: the counters of one *)
(* address and of its users, for the raw sockets of the agent (wss) and    *)
(* those of Socket.io (io), which share them.  A client may leave while    *)
(* its handshake awaits the authentication; the close event of a raw       *)
(* socket has no listener yet, and Socket.io announces no connection.      *)
(***************************************************************************)
EXTENDS Naturals, FiniteSets

CONSTANTS
  Sockets,
  IoSockets,               \* those of Socket.io
  SocketUsers,
  WS_MAX_CONNECTIONS_PER_WINDOW,
  WS_MAX_ACTIVE_PER_IP,
  WS_MAX_ACTIVE_PER_USER

ASSUME LimiterAssumption ==
  /\ IoSockets \subseteq Sockets
  /\ WS_MAX_CONNECTIONS_PER_WINDOW \in Nat
  /\ WS_MAX_ACTIVE_PER_IP \in Nat /\ WS_MAX_ACTIVE_PER_USER \in Nat

VARIABLES
  conn,            \* socket -> its handshake, its session, its end
  ofUser,          \* socket -> the user it authenticated as
  bucket,          \* wsBuckets: connections of this window
  wsActiveByIp,
  wsActiveByUser

limiterVars == <<conn, ofUser, bucket, wsActiveByIp, wsActiveByUser>>

NoUser == "nobody"

LimiterInit ==
  /\ conn = [k \in Sockets |-> "new"]
  /\ ofUser = [k \in Sockets |-> NoUser]
  /\ bucket = 0
  /\ wsActiveByIp = 0
  /\ wsActiveByUser = [u \in SocketUsers |-> 0]

ConnGoes(k, to) == conn' = [conn EXCEPT ![k] = to]

releaseWsConnection == wsActiveByIp' = IF wsActiveByIp <= 1 THEN 0 ELSE wsActiveByIp - 1

\* Mutant: the count is taken down without a look at it
releaseWsUser_NoFloor(u) ==
  wsActiveByUser' = [v \in SocketUsers |-> IF v = u THEN wsActiveByUser[v] - 1
                                                  ELSE wsActiveByUser[v]]

releaseWsUser(u) ==
  wsActiveByUser' = [v \in SocketUsers |-> IF v = u /\ wsActiveByUser[v] > 0
                                       THEN wsActiveByUser[v] - 1 ELSE wsActiveByUser[v]]

\* registerWsConnection: every attempt counts in the window, an admitted one
\* among the active ones.
Connect(k) ==
  /\ conn[k] = "new"
  /\ bucket' = bucket + 1
  /\ \/ /\ bucket' > WS_MAX_CONNECTIONS_PER_WINDOW \/ wsActiveByIp >= WS_MAX_ACTIVE_PER_IP
        /\ ConnGoes(k, "refused")
        /\ UNCHANGED wsActiveByIp
     \/ /\ bucket' <= WS_MAX_CONNECTIONS_PER_WINDOW /\ wsActiveByIp < WS_MAX_ACTIVE_PER_IP
        /\ ConnGoes(k, "authenticating")
        /\ wsActiveByIp' = wsActiveByIp + 1
  /\ UNCHANGED <<ofUser, wsActiveByUser>>

WindowPasses ==
  /\ bucket > 0
  /\ bucket' = 0
  /\ UNCHANGED <<conn, ofUser, wsActiveByIp, wsActiveByUser>>

\* The client leaves during the handshake: nobody listens.
LeaveEarly(k) ==
  /\ conn[k] = "authenticating"
  /\ ConnGoes(k, "leftEarly")
  /\ UNCHANGED <<ofUser, bucket, wsActiveByIp, wsActiveByUser>>

\* authenticateFromHeaders answered null or threw.
RefuseUnauthenticated(k) ==
  /\ conn[k] \in {"authenticating", "leftEarly"}
  /\ ConnGoes(k, "refused")
  /\ releaseWsConnection
  /\ UNCHANGED <<ofUser, bucket, wsActiveByUser>>

\* registerWsUser.  A session whose socket is closed already stays admitted:
\* its close event is past.
Admit(k, u) ==
  /\ conn[k] \in {"authenticating", "leftEarly"}
  /\ wsActiveByUser[u] < WS_MAX_ACTIVE_PER_USER
  /\ wsActiveByUser' = [wsActiveByUser EXCEPT ![u] = @ + 1]
  /\ ofUser' = [ofUser EXCEPT ![k] = u]
  /\ ConnGoes(k, IF conn[k] = "leftEarly" THEN "stranded" ELSE "live")
  /\ UNCHANGED <<bucket, wsActiveByIp>>

\* The user's limit is reached.  releaseConnection of a raw socket gives back
\* a place of the user as well, one this socket never took.
RefuseUser(k, u) ==
  /\ conn[k] \in {"authenticating", "leftEarly"}
  /\ wsActiveByUser[u] >= WS_MAX_ACTIVE_PER_USER
  /\ ConnGoes(k, "refused")
  /\ releaseWsConnection
  /\ IF k \in IoSockets THEN UNCHANGED wsActiveByUser ELSE releaseWsUser(u)
  /\ UNCHANGED <<ofUser, bucket>>

\* Mutant: the error event releases and is followed by a close that does too
SocketErrs_ForgetsRelease(k) ==
  /\ conn[k] = "live"
  /\ k \notin IoSockets
  /\ releaseWsConnection
  /\ releaseWsUser(ofUser[k])
  /\ UNCHANGED <<conn, ofUser, bucket>>

\* The error event of a raw socket releases; its close event follows.
SocketErrs(k) ==
  /\ conn[k] = "live"
  /\ k \notin IoSockets
  /\ ConnGoes(k, "released")
  /\ releaseWsConnection
  /\ releaseWsUser(ofUser[k])
  /\ UNCHANGED <<ofUser, bucket>>

\* close or disconnect: releases unless the error event has.
SocketCloses(k) ==
  /\ \/ /\ conn[k] = "live"
        /\ releaseWsConnection
        /\ releaseWsUser(ofUser[k])
     \/ /\ conn[k] = "released"
        /\ UNCHANGED <<wsActiveByIp, wsActiveByUser>>
  /\ ConnGoes(k, "closed")
  /\ UNCHANGED <<ofUser, bucket>>

\* The heartbeat deletes the session of a socket that is not open; nothing
\* releases its places.
HeartbeatDrops(k) ==
  /\ conn[k] = "stranded"
  /\ ConnGoes(k, "dropped")
  /\ UNCHANGED <<ofUser, bucket, wsActiveByIp, wsActiveByUser>>

LimiterNext ==
  \/ WindowPasses
  \/ \E k \in Sockets :
       \/ Connect(k)
       \/ LeaveEarly(k)
       \/ RefuseUnauthenticated(k)
       \/ \E u \in SocketUsers : Admit(k, u) \/ RefuseUser(k, u)
       \/ SocketErrs(k)
       \/ SocketCloses(k)
       \/ HeartbeatDrops(k)

LimiterSpec == LimiterInit /\ [][LimiterNext]_limiterVars

-----------------------------------------------------------------------------
LimiterTypeOK ==
  /\ conn \in [Sockets -> {"new", "refused", "authenticating", "leftEarly", "live",
                           "released", "closed", "stranded", "dropped"}]
  /\ ofUser \in [Sockets -> SocketUsers \cup {NoUser}]
  /\ bucket \in 0..Cardinality({k \in Sockets : conn[k] /= "new"})
  /\ wsActiveByIp \in 0..WS_MAX_ACTIVE_PER_IP
  /\ wsActiveByUser \in [SocketUsers -> 0..WS_MAX_ACTIVE_PER_USER]

\* However handshakes, refusals, errors and closes interleave, an address never
\* has more connections open than its limit: a place is given back once at
\* most.  (Clients that leave early keep theirs: the count errs to that side.)
AddressLimit ==
  Cardinality({k \in Sockets : conn[k] \in {"authenticating", "live"}}) <= WS_MAX_ACTIVE_PER_IP
=============================================================================
