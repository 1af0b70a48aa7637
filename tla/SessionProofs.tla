---------------------------- MODULE SessionProofs ----------------------------
(***************************************************************************)
(* The page keeps its types, only the socket in use speaks, the Connect    *)
(* button comes back, nobody is brought back who left, and a flow has one  *)
(* outcome: for any number of flows, attempts and missed pongs.            *)
(***************************************************************************)
EXTENDS Session, TLAPS

PageType ==
    [ flow : Flows \cup {None}, gen : Flows \cup {None}, ws : Flows \cup {None},
      handlers : SUBSET Flows, cleanup : Flows \cup {None},
      pendingConnect : Flows \cup {None}, openTimers : SUBSET Flows,
      settled : SUBSET Flows, accepted : SUBSET Flows, aborted : SUBSET Flows,
      welcomeTimer : Flows \cup {None}, connectionAbort : Flows \cup {None},
      credentials : SUBSET Flows,
      retry : {"idle", "waiting", "trying"}, attempt : 0 .. MaxTries,
      running : BOOLEAN, connecting : BOOLEAN, disabled : BOOLEAN,
      heartbeat : BOOLEAN, awaitingPong : BOOLEAN, missedPongs : 0 .. StaleAfter,
      authMode : {"login", "register"}, filled : BOOLEAN, hint : BOOLEAN,
      pendingAuth : BOOLEAN, reload : BOOLEAN ]

\* A socket, its handlers and its cleanup come and go together, and the socket
\* in use is that of the newest flow.
Sockets(c) ==
    /\ c.cleanup = c.ws
    /\ c.handlers = IF c.ws = None THEN {} ELSE {c.ws}
    /\ c.ws # None => c.gen = c.ws /\ c.flow = c.ws /\ c.connectionAbort = c.ws
    /\ c.openTimers = IF c.pendingConnect = None THEN {} ELSE {c.pendingConnect}
    /\ c.pendingConnect # None => c.pendingConnect = c.ws /\ c.connecting
    /\ c.connectionAbort \in {None, c.flow}

\* A flow whose socket is in use has not failed.  While it waits to be let in
\* its socket's timer or the welcome's runs; a retry waits without a socket.
Attempts(c) ==
    /\ c.accepted \subseteq c.settled
    /\ c.ws # None => c.flow \notin c.settled \/ (c.running /\ c.flow \in c.accepted)
    /\ c.welcomeTimer # None => c.welcomeTimer = c.ws /\ c.flow \notin c.settled
    /\ c.connecting => /\ c.ws # None /\ ~c.running
                       /\ c.pendingConnect = c.ws \/ c.welcomeTimer = c.ws
    /\ c.retry = "waiting" => c.ws = None

Flags(c) ==
    /\ c.running => c.heartbeat
    /\ c.disabled => c.running \/ c.connecting \/ (c.authMode = "register" /\ ~c.filled)

PageInv(c) == c \in PageType /\ Sockets(c) /\ Attempts(c) /\ Flags(c)

\* What every handler may do, short of beginning a flow or being let in: end
\* the newest flow, and the session with it.
Ends(c, d) ==
    /\ d.flow = c.flow /\ c.settled \subseteq d.settled /\ d.accepted \subseteq c.accepted
    /\ d.ws \in {c.ws, None}
    /\ d.ws = c.ws => d.pendingConnect = c.pendingConnect
    /\ d.ws # c.ws => c.ws \in d.settled
    /\ d.running => c.running
    /\ c.running /\ ~d.running => d.ws = None
    /\ d.connecting => c.connecting
    /\ d.retry # "idle" => c.retry # "idle" \/ c.running

-----------------------------------------------------------------------------
(* The functions of the page keep PageInv.                                 *)

\* cleanupSocket() keeps the page's types.
LEMMA CleanupTypes ==
    ASSUME NEW c \in PageType, NEW s \in Flows \cup {None}
    PROVE  CleanupSocket(c, s) \in PageType
BY ZenonT(60) DEF CleanupSocket, PageType

\* SignalingClient.disconnect() keeps them.
LEMMA SignalingDisconnectTypes ==
    ASSUME NEW c \in PageType PROVE SignalingDisconnect(c) \in PageType
<1> DEFINE b == [c EXCEPT !.pendingConnect = None]
<1>1. b \in PageType
  BY DEF PageType
<1>2. ActiveSocketCleanup(b) \in PageType
  <2>1. b.cleanup \in Flows \cup {None}
    BY <1>1 DEF PageType
  <2> HIDE DEF b
  <2>2. QED
    BY <1>1, <2>1, CleanupTypes DEF ActiveSocketCleanup
<1> HIDE DEF b
<1>3. [ActiveSocketCleanup(b) EXCEPT !.cleanup = None, !.ws = None] \in PageType
  BY <1>2 DEF PageType
<1>4. QED
  BY <1>3 DEF SignalingDisconnect, b

\* So does updateConnectAvailability().
LEMMA UpdateTypes ==
    ASSUME NEW c \in PageType PROVE UpdateConnectAvailability(c) \in PageType
<1> DEFINE b == c.running \/ c.connecting \/ (c.authMode = "register" /\ ~c.filled)
<1>1. b \in BOOLEAN
  OBVIOUS
<1> HIDE DEF b
<1>2. [c EXCEPT !.disabled = b] \in PageType
  BY <1>1 DEF PageType
<1>3. QED
  BY <1>2 DEF UpdateConnectAvailability, b

\* So does the end of a flow, whatever its outcome.
LEMMA FinishTypes ==
    ASSUME NEW c \in PageType, NEW f \in Flows \cup {None}, NEW connected \in BOOLEAN
    PROVE  Finish(c, f, connected) \in PageType
<1> DEFINE e == [c EXCEPT !.settled = @ \cup {f},
                          !.accepted = IF connected THEN @ \cup {f} ELSE @,
                          !.welcomeTimer = IF @ = f THEN None ELSE @]
<1>1. CASE f = None \/ f \in c.settled
  BY <1>1 DEF Finish
<1>2. CASE f # None /\ f \notin c.settled
  <2>1. e \in PageType
    BY <1>2, ZenonT(60) DEF PageType
  <2> HIDE DEF e
  <2>2. SignalingDisconnect(e) \in PageType
    BY <2>1, SignalingDisconnectTypes
  <2>3. [SignalingDisconnect(e) EXCEPT !.connecting = FALSE] \in PageType
    BY <2>2 DEF PageType
  <2>4. Finish(c, f, connected) =
            IF connected THEN e
            ELSE UpdateConnectAvailability([SignalingDisconnect(e) EXCEPT !.connecting = FALSE])
    BY <1>2 DEF Finish, e
  <2>5. QED
    BY <2>1, <2>3, <2>4, UpdateTypes
<1>3. QED
  BY <1>1, <1>2

\* The failure of the newest flow: finish(false), which counts once.
LEMMA FinishEnds ==
    ASSUME NEW c, PageInv(c), NEW f \in {None, c.flow}
    PROVE  LET d == Finish(c, f, FALSE)
           IN  /\ PageInv(d) /\ Ends(c, d)
               /\ d.running = c.running /\ d.retry = c.retry /\ d.hint = c.hint
               /\ d.connectionAbort = c.connectionAbort
               /\ f = None \/ f \in c.settled => d = c
               /\ f # None /\ f \notin c.settled => d.ws = None /\ ~d.connecting
<1> DEFINE d == Finish(c, f, FALSE)
<1>1. CASE f = None \/ f \in c.settled
  BY <1>1 DEF Finish, Ends
<1>2. CASE f # None /\ f \notin c.settled
  <2>1. d \in PageType
    <3>1. c \in PageType /\ f \in Flows \cup {None}
      BY DEF PageInv, PageType
    <3>2. QED
      BY <3>1, FinishTypes
  <2> USE <1>2 DEF Finish, UpdateConnectAvailability, SignalingDisconnect,
                   ActiveSocketCleanup, CleanupSocket, PageInv
  <2>2. Sockets(d)
    BY ZenonT(60) DEF PageType, Sockets
  <2>3. Attempts(d)
    BY ZenonT(60) DEF PageType, Sockets, Attempts
  <2>4. Flags(d)
    BY DEF PageType, Sockets, Attempts, Flags
  <2>5. Ends(c, d)
    <3>1. /\ d.flow = c.flow /\ c.settled \subseteq d.settled /\ d.accepted = c.accepted
          /\ d.running = c.running /\ d.retry = c.retry /\ ~d.connecting
          /\ d.ws = None /\ d.pendingConnect = None
      BY SMTT(60) DEF PageType, Sockets
    <3>2. c.ws = None => c.pendingConnect = None
      BY DEF Sockets
    <3>3. c.ws # None => c.ws \in d.settled
      BY SMTT(60) DEF PageType, Sockets
    <3>4. QED
      BY <3>1, <3>2, <3>3 DEF Ends
  <2>6. /\ d.running = c.running /\ d.retry = c.retry /\ d.hint = c.hint
        /\ d.connectionAbort = c.connectionAbort
        /\ d.ws = None /\ ~d.connecting
    BY DEF PageType, Sockets
  <2>7. QED
    BY <2>1, <2>2, <2>3, <2>4, <2>5, <2>6
<1>3. QED
  BY <1>1, <1>2

\* stopHeartbeat() keeps the page's types.
LEMMA StopTypes ==
    ASSUME NEW c \in PageType PROVE StopHeartbeat(c) \in PageType
<1>1. PICK a : a = [c EXCEPT !.heartbeat = FALSE]
  OBVIOUS
<1>2. a \in PageType
  BY <1>1 DEF PageType
<1>3. PICK b : b = [a EXCEPT !.awaitingPong = FALSE]
  OBVIOUS
<1>4. b \in PageType
  BY <1>2, <1>3 DEF PageType
<1>5. 0 \in 0 .. StaleAfter
  BY BoundsAssumption
<1>6. [b EXCEPT !.missedPongs = 0] \in PageType
  BY <1>4, <1>5 DEF PageType
<1>7. QED
  BY <1>1, <1>3, <1>6 DEF StopHeartbeat

\* Handlers call one another: Ends composes.
LEMMA EndsTransitive ==
    ASSUME NEW a, NEW b, NEW c, Ends(a, b), Ends(b, c) PROVE Ends(a, c)
BY DEF Ends

\* cancelReconnect() without a pending attempt.
LEMMA IdleEnds ==
    ASSUME NEW c, PageInv(c)
    PROVE  LET d == [c EXCEPT !.retry = "idle", !.attempt = 0]
           IN  PageInv(d) /\ Ends(c, d) /\ d.running = c.running /\ d.hint = c.hint
               /\ d.connectionAbort = c.connectionAbort
<1> DEFINE d == [c EXCEPT !.retry = "idle", !.attempt = 0]
<1>1. d \in PageType
  <2>1. c \in PageType /\ 0 \in 0 .. MaxTries
    BY BoundsAssumption DEF PageInv
  <2>2. QED
    BY <2>1 DEF PageType
<1>2. Sockets(d) /\ Attempts(d) /\ Flags(d)
  BY DEF PageInv, PageType, Sockets, Attempts, Flags
<1>3. Ends(c, d) /\ d.running = c.running /\ d.hint = c.hint /\ d.connectionAbort = c.connectionAbort
  BY DEF PageInv, PageType, Ends
<1>4. QED
  BY <1>1, <1>2, <1>3 DEF PageInv

\* An abort of the connection's controller fails its flow or is too late.
LEMMA AbortEnds ==
    ASSUME NEW c, PageInv(c)
    PROVE  LET d == Abort(c, c.connectionAbort)
           IN  /\ PageInv(d) /\ Ends(c, d)
               /\ d.running = c.running /\ d.retry = c.retry /\ d.hint = c.hint
               /\ d.connectionAbort = c.connectionAbort
               /\ d.ws # None => d.running /\ d.flow \in d.settled
<1> DEFINE f == c.connectionAbort
           b == [c EXCEPT !.aborted = @ \cup {f}]
           d == Finish(b, f, FALSE)
<1>1. CASE f = None
  <2>1. Abort(c, f) = c /\ c.ws = None
    BY <1>1 DEF Abort, PageInv, PageType, Sockets
  <2>2. QED
    BY <2>1 DEF Ends
<1>2. CASE f # None
  <2>1. b \in PageType
    BY <1>2 DEF PageInv, PageType
  <2>2. Sockets(b) /\ Attempts(b) /\ Flags(b)
    BY DEF PageInv, PageType, Sockets, Attempts, Flags
  <2>3. /\ b.flow = c.flow /\ b.running = c.running /\ b.retry = c.retry /\ b.hint = c.hint
        /\ b.connectionAbort = f /\ b.settled = c.settled
    BY DEF PageInv, PageType
  <2>4. Ends(c, b)
    BY DEF PageInv, PageType, Ends
  <2>5. PageInv(b) /\ f \in {None, b.flow}
    BY <2>1, <2>2, <2>3 DEF PageInv, Sockets
  <2>6. Abort(c, f) = d
    BY <1>2 DEF Abort
  <2> HIDE DEF b
  <2>7. /\ PageInv(d) /\ Ends(b, d)
        /\ d.running = b.running /\ d.retry = b.retry /\ d.hint = b.hint
        /\ d.connectionAbort = b.connectionAbort
        /\ f \in b.settled => d = b
        /\ f \notin b.settled => d.ws = None
    BY <1>2, <2>5, FinishEnds
  <2> HIDE DEF d
  <2>8. d.ws # None => d.running /\ d.flow \in d.settled
    <3>1. SUFFICES ASSUME d.ws # None PROVE d.running /\ d.flow \in d.settled
      OBVIOUS
    <3>2. d = b /\ f \in b.settled
      BY <2>7, <3>1
    <3>3. b.ws # None /\ b.flow \in b.settled
      BY <1>2, <2>5, <3>1, <3>2 DEF PageInv, Sockets
    <3>4. b.running
      BY <2>5, <3>3 DEF PageInv, Attempts
    <3>5. QED
      BY <3>2, <3>3, <3>4
  <2>9. QED
    BY <2>3, <2>4, <2>6, <2>7, <2>8, EndsTransitive
<1>3. QED
  BY <1>1, <1>2

\* cancelReconnect(), with a pending attempt or without.
LEMMA CancelReconnectEnds ==
    ASSUME NEW c, PageInv(c)
    PROVE  LET d == CancelReconnect(c)
           IN  /\ PageInv(d) /\ Ends(c, d)
               /\ d.running = c.running /\ d.retry = "idle" /\ d.hint = c.hint
<1> DEFINE i == [c EXCEPT !.retry = "idle", !.attempt = 0]
           d == Abort(i, i.connectionAbort)
<1>1. /\ PageInv(i) /\ Ends(c, i) /\ i.running = c.running /\ i.hint = c.hint
      /\ i.connectionAbort = c.connectionAbort /\ i.retry = "idle"
  BY IdleEnds DEF PageInv, PageType
<1>2. CancelReconnect(c) = IF c.retry = "trying" THEN d ELSE i
  BY <1>1 DEF CancelReconnect
<1> HIDE DEF i
<1>3. PageInv(d) /\ Ends(i, d) /\ d.running = i.running /\ d.retry = i.retry /\ d.hint = i.hint
  BY <1>1, AbortEnds
<1> HIDE DEF d
<1>4. QED
  BY <1>1, <1>2, <1>3, EndsTransitive

\* Whatever was under way, disconnect() leaves nothing.
LEMMA DisconnectEnds ==
    ASSUME NEW c, PageInv(c)
    PROVE  LET d == Disconnect(c)
           IN  /\ PageInv(d) /\ Ends(c, d)
               /\ d.ws = None /\ ~d.running /\ ~d.connecting /\ d.retry = "idle" /\ d.hint = c.hint
<1> DEFINE a == CancelReconnect(c)
           b == Abort(a, a.connectionAbort)
           e == StopHeartbeat([b EXCEPT !.connectionAbort = None])
           g == [SignalingDisconnect(e) EXCEPT !.running = FALSE, !.connecting = FALSE]
           d == UpdateConnectAvailability(g)
<1>1. PageInv(a) /\ Ends(c, a) /\ a.retry = "idle" /\ a.hint = c.hint
  BY CancelReconnectEnds
<1>2. Disconnect(c) = d
  BY DEF Disconnect, RunDisconnectFlow
<1> HIDE DEF a
<1>3. /\ PageInv(b) /\ Ends(a, b) /\ b.retry = a.retry /\ b.hint = a.hint
      /\ b.ws # None => b.flow \in b.settled
  BY <1>1, AbortEnds
<1>4. Ends(c, b) /\ b.retry = "idle" /\ b.hint = c.hint
  BY <1>1, <1>3, EndsTransitive
<1> HIDE DEF b
<1>5. e \in PageType
  <2>1. b \in PageType
    BY <1>3 DEF PageInv
  <2>2. [b EXCEPT !.connectionAbort = None] \in PageType
    BY <2>1 DEF PageType
  <2>3. QED
    BY <2>2, StopTypes
<1>6. /\ e.flow = b.flow /\ e.settled = b.settled /\ e.accepted = b.accepted
      /\ e.welcomeTimer = b.welcomeTimer /\ e.retry = b.retry /\ e.hint = b.hint
      /\ e.ws = b.ws /\ e.gen = b.gen /\ e.cleanup = b.cleanup /\ e.handlers = b.handlers
      /\ e.pendingConnect = b.pendingConnect /\ e.openTimers = b.openTimers
      /\ e.connectionAbort = None
  BY <1>3 DEF PageInv, PageType, StopHeartbeat
<1> HIDE DEF e
<1>7. g \in PageType
  <2>1. SignalingDisconnect(e) \in PageType
    BY <1>5, SignalingDisconnectTypes
  <2>2. QED
    BY <2>1 DEF PageType
<1>8. /\ g.flow = e.flow /\ g.settled = e.settled /\ g.accepted = e.accepted
      /\ g.welcomeTimer = e.welcomeTimer /\ g.retry = e.retry /\ g.hint = e.hint
      /\ g.ws = None /\ g.cleanup = None /\ g.handlers = {}
      /\ g.pendingConnect = None /\ g.openTimers = {}
      /\ g.connectionAbort = None /\ ~g.running /\ ~g.connecting
  BY <1>3, <1>5, <1>6 DEF PageInv, PageType, Sockets, SignalingDisconnect, ActiveSocketCleanup,
                          CleanupSocket
<1> HIDE DEF g
<1>9. d \in PageType
  BY <1>7, UpdateTypes
<1>10. /\ d.flow = g.flow /\ d.settled = g.settled /\ d.accepted = g.accepted
       /\ d.welcomeTimer = g.welcomeTimer /\ d.retry = g.retry /\ d.hint = g.hint
       /\ d.ws = g.ws /\ d.cleanup = g.cleanup /\ d.handlers = g.handlers
       /\ d.pendingConnect = g.pendingConnect /\ d.openTimers = g.openTimers
       /\ d.connectionAbort = g.connectionAbort
       /\ ~d.running /\ ~d.connecting
       /\ d.disabled => d.authMode = "register" /\ ~d.filled
  BY <1>7, <1>8 DEF PageType, UpdateConnectAvailability
<1> HIDE DEF d
<1>11. b.welcomeTimer = None
  BY <1>3 DEF PageInv, Attempts
<1>12. Sockets(d) /\ Attempts(d) /\ Flags(d)
  BY <1>3, <1>4, <1>6, <1>8, <1>10, <1>11 DEF Sockets, Attempts, Flags, PageInv
<1>13. Ends(b, d)
  <2>1. b.ws # None => b.ws \in d.settled
    BY <1>3, <1>6, <1>8, <1>10 DEF Sockets, PageInv
  <2>2. b.ws = None => b.pendingConnect = None
    BY <1>3 DEF Sockets, PageInv
  <2>3. QED
    BY <1>3, <1>4, <1>6, <1>8, <1>10, <2>1, <2>2 DEF Ends
<1>14. QED
  BY <1>2, <1>4, <1>6, <1>8, <1>9, <1>10, <1>12, <1>13, EndsTransitive DEF PageInv

\* reconnectWithRetry(): the session is torn down, then the loop waits.
LEMMA ReconnectWithRetryEnds ==
    ASSUME NEW c, PageInv(c)
    PROVE  PageInv(ReconnectWithRetry(c)) /\ Ends(c, ReconnectWithRetry(c))
<1> DEFINE a == Disconnect(c)
           d == [a EXCEPT !.retry = "waiting", !.attempt = 1]
<1>1. /\ PageInv(a) /\ Ends(c, a)
      /\ a.ws = None /\ ~a.running /\ ~a.connecting /\ a.retry = "idle"
  BY DisconnectEnds
<1>2. ReconnectWithRetry(c) = IF c.retry # "idle" \/ ~c.running THEN c ELSE d
  BY DEF ReconnectWithRetry
<1> HIDE DEF a
<1>3. d \in PageType
  <2>1. a \in PageType /\ 1 \in 0 .. MaxTries
    BY <1>1, BoundsAssumption DEF PageInv
  <2>2. QED
    BY <2>1 DEF PageType
<1>4. Sockets(d) /\ Attempts(d) /\ Flags(d)
  BY <1>1 DEF PageInv, PageType, Sockets, Attempts, Flags
<1>5. /\ d.flow = a.flow /\ d.settled = a.settled /\ d.accepted = a.accepted
      /\ d.ws = a.ws /\ d.pendingConnect = a.pendingConnect
      /\ d.running = a.running /\ d.connecting = a.connecting
  BY <1>1 DEF PageInv, PageType
<1> HIDE DEF d
<1>6. c.running => Ends(c, d)
  BY <1>1, <1>5 DEF Ends
<1>7. QED
  BY <1>2, <1>3, <1>4, <1>6 DEF PageInv, Ends

\* A loss that is reported to the page starts the retries.
LEMMA DisconnectedStatusEnds ==
    ASSUME NEW c, PageInv(c)
    PROVE  PageInv(HandleDisconnectedStatus(c)) /\ Ends(c, HandleDisconnectedStatus(c))
BY ReconnectWithRetryEnds DEF HandleDisconnectedStatus, Ends

\* A socket that is gone takes its flow with it: SocketGone and OpenTimeout.
LEMMA LostEnds ==
    ASSUME NEW c, PageInv(c), NEW s \in c.handlers, NEW t \in BOOLEAN
    PROVE  LET b == [c EXCEPT !.openTimers = IF t THEN @ \ {s} ELSE @,
                              !.pendingConnect = IF @ = s THEN None ELSE @]
               d == Finish(CleanupSocket(b, s), s, FALSE)
           IN  PageInv(d) /\ Ends(c, d)
<1> DEFINE b == [c EXCEPT !.openTimers = IF t THEN @ \ {s} ELSE @,
                          !.pendingConnect = IF @ = s THEN None ELSE @]
           e == CleanupSocket(b, s)
           d == Finish(e, s, FALSE)
<1> SUFFICES PageInv(d) /\ Ends(c, d)
  OBVIOUS
<1>1. s = c.ws /\ s # None /\ s = c.flow /\ s = c.gen /\ s = c.cleanup /\ s \in Flows
  BY DEF PageInv, PageType, Sockets
<1>2. e \in PageType
  <2>1. b \in PageType
    BY <1>1, ZenonT(60) DEF PageInv, PageType
  <2>2. QED
    BY <1>1, <2>1, CleanupTypes
<1>3. /\ e.ws = None /\ e.cleanup = None /\ e.handlers = {} /\ e.openTimers = {}
      /\ e.pendingConnect = None /\ e.connectionAbort = c.connectionAbort
      /\ e.flow = c.flow /\ e.settled = c.settled /\ e.accepted = c.accepted
      /\ e.running = c.running /\ e.connecting = c.connecting /\ e.retry = c.retry
      /\ e.welcomeTimer = c.welcomeTimer /\ e.disabled = c.disabled
      /\ e.heartbeat = c.heartbeat /\ e.authMode = c.authMode /\ e.filled = c.filled
  BY <1>1 DEF PageInv, PageType, Sockets, CleanupSocket
<1> HIDE DEF e
<1>4. CASE s \in c.settled
  <2>1. d = e
    BY <1>3, <1>4 DEF Finish
  <2>2. ~e.connecting /\ e.welcomeTimer = None
    BY <1>1, <1>3, <1>4 DEF PageInv, Attempts
  <2>3. Sockets(e) /\ Attempts(e) /\ Flags(e)
    BY <1>1, <1>3, <2>2 DEF PageInv, Sockets, Attempts, Flags
  <2>4. Ends(c, e)
    BY <1>1, <1>3, <1>4 DEF Ends
  <2>5. QED
    BY <1>2, <2>1, <2>3, <2>4 DEF PageInv
<1>5. CASE s \notin c.settled
  <2>1. d \in PageType
    BY <1>1, <1>2, FinishTypes
  <2>2. /\ d.ws = None /\ d.cleanup = None /\ d.handlers = {} /\ d.openTimers = {}
        /\ d.pendingConnect = None /\ d.connectionAbort = e.connectionAbort
        /\ d.flow = e.flow /\ d.settled = e.settled \cup {s} /\ d.accepted = e.accepted
        /\ d.running = e.running /\ ~d.connecting /\ d.retry = e.retry
        /\ d.welcomeTimer = IF e.welcomeTimer = s THEN None ELSE e.welcomeTimer
        /\ d.heartbeat = e.heartbeat /\ d.authMode = e.authMode /\ d.filled = e.filled
        /\ d.disabled => d.running \/ (d.authMode = "register" /\ ~d.filled)
    BY <1>1, <1>2, <1>3, <1>5 DEF PageType, Finish, UpdateConnectAvailability,
                                  SignalingDisconnect, ActiveSocketCleanup, CleanupSocket
  <2> HIDE DEF d
  <2>3. d.welcomeTimer = None
    BY <1>1, <1>3, <2>2 DEF PageInv, Attempts
  <2>4. Sockets(d) /\ Attempts(d) /\ Flags(d)
    BY <1>1, <1>3, <2>2, <2>3 DEF PageInv, Sockets, Attempts, Flags
  <2>5. Ends(c, d)
    BY <1>1, <1>3, <2>2 DEF Ends
  <2>6. QED
    BY <2>1, <2>4, <2>5 DEF PageInv
<1>6. QED
  BY <1>4, <1>5

\* onerror and onclose of the socket in use.
LEMMA SocketGoneEnds ==
    ASSUME NEW c, PageInv(c), NEW s \in c.handlers
    PROVE  PageInv(SocketGone(c, s)) /\ Ends(c, SocketGone(c, s))
<1> DEFINE a == [c EXCEPT !.pendingConnect = IF @ = s THEN None ELSE @]
           b == [c EXCEPT !.openTimers = IF FALSE THEN @ \ {s} ELSE @,
                          !.pendingConnect = IF @ = s THEN None ELSE @]
           d == Finish(CleanupSocket(b, s), s, FALSE)
<1>1. a = b
  BY DEF PageInv, PageType
<1>2. PageInv(d) /\ Ends(c, d)
  BY LostEnds
<1>3. IsCurrent(c, s)
  BY DEF IsCurrent, PageInv, Sockets
<1>4. SocketGone(c, s) = HandleDisconnectedStatus(d)
  BY <1>1, <1>3 DEF SocketGone
<1> HIDE DEF d
<1>5. QED
  BY <1>2, <1>4, DisconnectedStatusEnds, EndsTransitive

\* The page as far as Sockets and Attempts see it; the Connect button may be
\* given back once the socket is open.
Same(c, d) ==
    /\ d.flow = c.flow /\ d.gen = c.gen /\ d.ws = c.ws /\ d.handlers = c.handlers
    /\ d.cleanup = c.cleanup /\ d.pendingConnect = c.pendingConnect
    /\ d.openTimers = c.openTimers /\ d.settled = c.settled /\ d.accepted = c.accepted
    /\ d.welcomeTimer = c.welcomeTimer /\ d.connectionAbort = c.connectionAbort
    /\ d.retry = c.retry /\ d.running = c.running /\ d.heartbeat = c.heartbeat
    /\ d.connecting = c.connecting \/ (~d.connecting /\ c.pendingConnect = None)

\* A handler that touches no socket, flow or session only ends things.
LEMMA SameKeeps ==
    ASSUME NEW c, PageInv(c), NEW d \in PageType, Same(c, d)
    PROVE  /\ Sockets(d) /\ Attempts(d) /\ Ends(c, d)
           /\ Flags(d) => PageInv(d)
<1>1. Sockets(d)
  BY DEF PageInv, Same, Sockets
<1>2. Attempts(d)
  BY DEF PageInv, Same, Attempts
<1>3. Ends(c, d)
  BY DEF PageInv, Same, Ends
<1>4. QED
  BY <1>1, <1>2, <1>3 DEF PageInv

\* The Connect button follows the flags.
LEMMA UpdateKeeps ==
    ASSUME NEW c, PageInv(c), NEW b \in PageType, Same(c, b)
    PROVE  LET d == UpdateConnectAvailability(b)
           IN  PageInv(d) /\ Ends(c, d) /\ Same(c, d)
<1> DEFINE d == UpdateConnectAvailability(b)
<1>1. d \in PageType
  BY UpdateTypes
<1>2. Same(b, d) /\ Flags(d)
  <2>1. b.running => b.heartbeat
    BY DEF Same, PageInv, Flags
  <2>2. QED
    BY <2>1 DEF UpdateConnectAvailability, PageType, Same, Flags
<1> HIDE DEF d
<1>3. Same(c, d)
  BY <1>2 DEF Same
<1>4. PageInv(d) /\ Ends(c, d)
  BY <1>1, <1>2, <1>3, SameKeeps
<1>5. QED
  BY <1>3, <1>4 DEF d

\* The forms of the sign-in view.
LEMMA EditKeeps ==
    ASSUME NEW c, PageInv(c), NEW x \in BOOLEAN, NEW m \in {"login", "register"}
    PROVE  /\ LET d == UpdateConnectAvailability([c EXCEPT !.filled = x])
               IN  PageInv(d) /\ Ends(c, d)
           /\ LET d == SetAuthMode([c EXCEPT !.filled = x], m)
               IN  PageInv(d) /\ Ends(c, d)
<1> DEFINE a == [c EXCEPT !.filled = x]
           b == [a EXCEPT !.authMode = m]
<1>1. a \in PageType
  BY DEF PageInv, PageType
<1>0. b \in PageType
  BY <1>1 DEF PageType
<1>2. Same(c, a) /\ Same(c, b)
  BY DEF PageInv, PageType, Same
<1>3. QED
  BY <1>0, <1>1, <1>2, UpdateKeeps DEF SetAuthMode

\* logOutAccount() leaves nothing either.
LEMMA LogOutEnds ==
    ASSUME NEW c, PageInv(c)
    PROVE  LET d == SetAuthMode(Disconnect([c EXCEPT !.hint = FALSE]), "login")
           IN  /\ PageInv(d) /\ Ends(c, d)
               /\ d.ws = None /\ ~d.running /\ ~d.connecting /\ d.retry = "idle"
<1> DEFINE a == [c EXCEPT !.hint = FALSE]
           b == Disconnect(a)
           e == [b EXCEPT !.authMode = "login"]
           d == UpdateConnectAvailability(e)
<1> SUFFICES PageInv(d) /\ Ends(c, d) /\ d.ws = None /\ ~d.running /\ ~d.connecting /\ d.retry = "idle"
  BY DEF SetAuthMode
<1>1. a \in PageType
  BY DEF PageInv, PageType
<1>0. Same(c, a) /\ Flags(a)
  BY DEF PageInv, PageType, Same, Flags
<1>2. PageInv(a) /\ Ends(c, a)
  BY <1>0, <1>1, SameKeeps
<1> HIDE DEF a
<1>3. /\ PageInv(b) /\ Ends(a, b)
      /\ b.ws = None /\ ~b.running /\ ~b.connecting /\ b.retry = "idle"
  BY <1>2, DisconnectEnds
<1> HIDE DEF b
<1>4. e \in PageType /\ Same(b, e)
  BY <1>3 DEF PageInv, PageType, Same
<1> HIDE DEF e
<1>5. PageInv(d) /\ Ends(b, d) /\ Same(b, d)
  BY <1>3, <1>4, UpdateKeeps
<1> HIDE DEF d
<1>6. QED
  BY <1>2, <1>3, <1>5, EndsTransitive DEF Same

\* A sign-in packet is on its way.
LEMMA MarkTypes ==
    ASSUME NEW c \in PageType, NEW x \in BOOLEAN
    PROVE  /\ [c EXCEPT !.hint = x] \in PageType
           /\ [c EXCEPT !.filled = x] \in PageType
           /\ [c EXCEPT !.pendingAuth = x] \in PageType
<1>1. [c EXCEPT !.hint = x] \in PageType
  BY DEF PageType
<1>2. [c EXCEPT !.filled = x] \in PageType
  BY DEF PageType
<1>3. [c EXCEPT !.pendingAuth = x] \in PageType
  BY DEF PageType
<1>4. QED
  BY <1>1, <1>2, <1>3

\* The saved session's hint is taken back.
LEMMA HintTypes ==
    ASSUME NEW c \in PageType PROVE ResetSavedSessionHint(c) \in PageType
<1> DEFINE b == [c EXCEPT !.hint = FALSE]
<1>1. b \in PageType
  BY MarkTypes
<1> HIDE DEF b
<1>2. [b EXCEPT !.filled = FALSE] \in PageType
  BY <1>1, MarkTypes
<1>3. QED
  BY <1>2 DEF ResetSavedSessionHint, b

\* An answer to the greeting of an open socket.
LEMMA AuthRequiredEnds ==
    ASSUME NEW c, PageInv(c), c.ws # None, c.pendingConnect = None
    PROVE  PageInv(HandleAuthRequired(c)) /\ Ends(c, HandleAuthRequired(c))
<1> DEFINE i == [c EXCEPT !.pendingAuth = FALSE]
           a == [i EXCEPT !.pendingAuth = TRUE, !.credentials = @ \cup {c.ws}]
           h == SetAuthMode(ResetSavedSessionHint(i), "login")
           e == [(IF c.hint THEN h ELSE i) EXCEPT !.connecting = FALSE]
<1>1. i \in PageType /\ Same(c, i) /\ Flags(i)
  BY ZenonT(60) DEF PageInv, PageType, Same, Flags
<1>2. a \in PageType /\ Same(c, a) /\ Flags(a)
  BY ZenonT(60) DEF PageInv, PageType, Same, Flags
<1>3. e \in PageType /\ Same(c, e)
  <2> HIDE DEF i
  <2>1. h \in PageType /\ Same(i, h)
    <3>0. ResetSavedSessionHint(i) \in PageType
      BY <1>1, HintTypes
    <3>1. [ResetSavedSessionHint(i) EXCEPT !.authMode = "login"] \in PageType
      BY <3>0 DEF PageType
    <3>2. h \in PageType
      BY <3>1, UpdateTypes DEF SetAuthMode
    <3>3. Same(i, h)
      BY <1>1 DEF ResetSavedSessionHint, SetAuthMode, UpdateConnectAvailability, PageType, Same
    <3>4. QED
      BY <3>2, <3>3
  <2> HIDE DEF h
  <2>2. PICK b : b = IF c.hint THEN h ELSE i
    OBVIOUS
  <2>3. b \in PageType /\ Same(i, b)
    BY <1>1, <2>1, <2>2 DEF Same
  <2>4. [b EXCEPT !.connecting = FALSE] \in PageType
    BY <2>3, ZenonT(60) DEF PageType
  <2>5. Same(c, [b EXCEPT !.connecting = FALSE])
    BY <1>1, <2>3 DEF PageType, Same
  <2>6. QED
    BY <2>2, <2>4, <2>5
<1>4. HandleAuthRequired(c) =
          IF c.pendingAuth THEN i ELSE IF c.filled THEN a ELSE UpdateConnectAvailability(e)
  BY DEF HandleAuthRequired
<1> HIDE DEF i, a, e
<1>5. QED
  BY <1>1, <1>2, <1>3, <1>4, SameKeeps, UpdateKeeps

\* A refusal ends the connection and the retries.
LEMMA AuthResultEnds ==
    ASSUME NEW c, PageInv(c), c.pendingConnect = None, NEW ok \in BOOLEAN, NEW expired \in BOOLEAN
    PROVE  LET d == HandleAuthResult(c, ok, expired)
           IN  /\ PageInv(d) /\ Ends(c, d)
               /\ ~ok => d.ws = None /\ ~d.running /\ ~d.connecting /\ d.retry = "idle"
<1> DEFINE i == [c EXCEPT !.pendingAuth = FALSE, !.filled = FALSE]
           a == [i EXCEPT !.hint = TRUE]
           e == [(IF expired THEN ResetSavedSessionHint(i) ELSE i) EXCEPT !.connecting = FALSE]
           b == UpdateConnectAvailability(e)
           d == Disconnect(b)
<1>0. i \in PageType /\ Same(c, i)
  <2>0. PICK j : j = [c EXCEPT !.pendingAuth = FALSE]
    OBVIOUS
  <2>3. j \in PageType
    BY <2>0, MarkTypes DEF PageInv
  <2>4. [j EXCEPT !.filled = FALSE] \in PageType
    BY <2>3, MarkTypes
  <2>1. i \in PageType
    BY <2>0, <2>4
  <2>2. QED
    BY <2>1 DEF PageInv, PageType, Same
<1>1. a \in PageType /\ Same(c, a) /\ Flags(a)
  <2>1. a \in PageType
    <3> HIDE DEF i
    <3>1. QED
      BY <1>0, MarkTypes
  <2>2. Same(c, a)
    BY DEF PageInv, PageType, Same
  <2>3. Flags(a)
    BY DEF PageInv, PageType, Flags
  <2>4. QED
    BY <2>1, <2>2, <2>3
<1>2. e \in PageType /\ Same(c, e)
  <2> HIDE DEF i
  <2>1. PICK h : h = IF expired THEN ResetSavedSessionHint(i) ELSE i
    OBVIOUS
  <2>2. h \in PageType
    BY <1>0, <2>1, HintTypes
  <2>3. Same(i, h)
    BY <1>0, <2>1 DEF PageType, Same, ResetSavedSessionHint
  <2>4. [h EXCEPT !.connecting = FALSE] \in PageType
    BY <2>2, ZenonT(60) DEF PageType
  <2>5. Same(c, [h EXCEPT !.connecting = FALSE])
    BY <1>0, <2>2, <2>3 DEF PageType, Same
  <2>6. QED
    BY <2>1, <2>4, <2>5
<1>3. HandleAuthResult(c, ok, expired) = IF ok THEN a ELSE d
  BY DEF HandleAuthResult
<1> HIDE DEF a, e
<1>4. PageInv(b) /\ Ends(c, b)
  BY <1>2, UpdateKeeps
<1> HIDE DEF b
<1>5. /\ PageInv(d) /\ Ends(b, d)
      /\ d.ws = None /\ ~d.running /\ ~d.connecting /\ d.retry = "idle"
  BY <1>4, DisconnectEnds
<1> HIDE DEF d
<1>6. QED
  BY <1>1, <1>3, <1>4, <1>5, SameKeeps, EndsTransitive

\* A heartbeat that finds the link stale tears the session down.
LEMMA HeartbeatEnds ==
    ASSUME NEW c, PageInv(c)
    PROVE  PageInv(Heartbeat(c)) /\ Ends(c, Heartbeat(c))
<1> DEFINE missed == IF c.awaitingPong THEN c.missedPongs + 1 ELSE 0
           stale == missed >= StaleAfter
           a == [c EXCEPT !.missedPongs = IF stale THEN StaleAfter ELSE missed]
           b == [a EXCEPT !.awaitingPong = TRUE]
<1>1. CASE ~c.running
  BY <1>1 DEF Heartbeat, Ends
<1>2. CASE c.running
  <2>1. (IF stale THEN StaleAfter ELSE missed) \in 0 .. StaleAfter
    BY BoundsAssumption DEF PageInv, PageType
  <2> HIDE DEF stale, missed
  <2>2. a \in PageType
    BY <2>1 DEF PageInv, PageType
  <2>3. Same(c, a) /\ Flags(a)
    BY DEF PageInv, PageType, Same, Flags
  <2> HIDE DEF a
  <2>4. PageInv(a) /\ Ends(c, a)
    BY <2>2, <2>3, SameKeeps
  <2>5. b \in PageType
    BY <2>2 DEF PageType
  <2>6. Same(a, b) /\ Flags(b)
    BY <2>2, <2>4 DEF PageInv, PageType, Same, Flags
  <2> HIDE DEF b
  <2>7. PageInv(b) /\ Ends(a, b)
    BY <2>4, <2>5, <2>6, SameKeeps
  <2>8. Heartbeat(c) = IF stale THEN ReconnectWithRetry(a) ELSE b
    BY <1>2 DEF Heartbeat, a, b, stale, missed
  <2>9. QED
    BY <2>4, <2>7, <2>8, ReconnectWithRetryEnds, EndsTransitive
<1>3. QED
  BY <1>1, <1>2

\* A pong, or a scheduled reload, changes nothing that PageInv reads.
LEMMA PongEnds ==
    ASSUME NEW c, PageInv(c)
    PROVE  LET d == [c EXCEPT !.missedPongs = 0, !.awaitingPong = FALSE]
           IN  PageInv(d) /\ Ends(c, d)
<1> DEFINE a == [c EXCEPT !.missedPongs = 0]
           d == [a EXCEPT !.awaitingPong = FALSE]
<1>1. a \in PageType
  <2>1. c \in PageType /\ 0 \in 0 .. StaleAfter
    BY BoundsAssumption DEF PageInv
  <2>2. QED
    BY <2>1 DEF PageType
<1>2. Same(c, a) /\ Flags(a)
  BY DEF PageInv, PageType, Same, Flags
<1>3. d \in PageType
  <2> HIDE DEF a
  <2>1. QED
    BY <1>1 DEF PageType
<1>4. Same(c, d) /\ Flags(d)
  BY DEF PageInv, PageType, Same, Flags
<1>5. QED
  BY <1>3, <1>4, SameKeeps

\* A version mismatch only schedules the reload.
LEMMA ReloadEnds ==
    ASSUME NEW c, PageInv(c)
    PROVE  LET d == [c EXCEPT !.reload = TRUE] IN PageInv(d) /\ Ends(c, d)
<1> DEFINE d == [c EXCEPT !.reload = TRUE]
<1>1. d \in PageType
  BY DEF PageInv, PageType
<1>2. Same(c, d) /\ Flags(d)
  BY DEF PageInv, PageType, Same, Flags
<1>3. QED
  BY <1>1, <1>2, SameKeeps

\* The credentials of an answered sign-in are forgotten.
LEMMA AnsweredEnds ==
    ASSUME NEW c, PageInv(c), NEW s
    PROVE  LET d == [c EXCEPT !.credentials = @ \ {s}]
           IN  PageInv(d) /\ Same(c, d) /\ Ends(c, d)
<1> DEFINE d == [c EXCEPT !.credentials = @ \ {s}]
<1>1. d \in PageType
  BY DEF PageInv, PageType
<1>2. Same(c, d) /\ Flags(d)
  BY DEF PageInv, PageType, Same, Flags
<1>3. QED
  BY <1>1, <1>2, SameKeeps

-----------------------------------------------------------------------------
(* The four handlers that begin something.                                 *)

\* The welcome of a flow that has not failed: the session runs.
LEMMA WelcomeKeeps ==
    ASSUME NEW c, PageInv(c), c.ws # None, c.pendingConnect = None,
           c.ws \notin c.settled \/ c.ws \in c.accepted
    PROVE  LET d == EnterWorld(StartHeartbeat(c))
           IN  /\ PageInv(d) /\ d.running /\ d.ws = c.ws /\ d.flow = c.flow
               /\ d.pendingConnect = None /\ d.settled = c.settled /\ d.accepted = c.accepted
<1> DEFINE a == StopHeartbeat(c)
           b == [a EXCEPT !.heartbeat = TRUE, !.awaitingPong = TRUE]
           e == [b EXCEPT !.running = TRUE, !.connecting = FALSE]
           d == UpdateConnectAvailability(e)
<1> SUFFICES /\ PageInv(d) /\ d.running /\ d.ws = c.ws /\ d.flow = c.flow
             /\ d.pendingConnect = None /\ d.settled = c.settled /\ d.accepted = c.accepted
  BY DEF EnterWorld, StartHeartbeat
<1>1. a \in PageType
  BY StopTypes DEF PageInv
<1>3. /\ a.flow = c.flow /\ a.gen = c.gen /\ a.ws = c.ws /\ a.handlers = c.handlers
      /\ a.cleanup = c.cleanup /\ a.pendingConnect = c.pendingConnect
      /\ a.openTimers = c.openTimers /\ a.settled = c.settled /\ a.accepted = c.accepted
      /\ a.welcomeTimer = c.welcomeTimer /\ a.connectionAbort = c.connectionAbort
      /\ a.retry = c.retry
  BY DEF PageInv, PageType, StopHeartbeat
<1> HIDE DEF a
<1>4. b \in PageType
  BY <1>1, ZenonT(60) DEF PageType
<1>5. e \in PageType
  <2> HIDE DEF b
  <2>1. QED
    BY <1>4, ZenonT(60) DEF PageType
<1>6. d \in PageType
  BY <1>5, UpdateTypes
<1>7. /\ d.flow = a.flow /\ d.gen = a.gen /\ d.ws = a.ws /\ d.handlers = a.handlers
      /\ d.cleanup = a.cleanup /\ d.pendingConnect = a.pendingConnect
      /\ d.openTimers = a.openTimers /\ d.settled = a.settled /\ d.accepted = a.accepted
      /\ d.welcomeTimer = a.welcomeTimer /\ d.connectionAbort = a.connectionAbort
      /\ d.retry = a.retry /\ d.running /\ ~d.connecting /\ d.heartbeat
  BY <1>1 DEF PageType, UpdateConnectAvailability
<1> HIDE DEF d
<1>8. Sockets(d) /\ Attempts(d) /\ Flags(d)
  BY <1>3, <1>7 DEF PageInv, Sockets, Attempts, Flags
<1>9. QED
  BY <1>3, <1>6, <1>7, <1>8 DEF PageInv

\* An open socket: the welcome's timer takes over from the socket's.
LEMMA OpenKeeps ==
    ASSUME NEW c, PageInv(c), c.pendingConnect # None, NEW s, s = c.pendingConnect
    PROVE  LET d == AwaitWelcome([c EXCEPT !.openTimers = @ \ {s},
                                           !.pendingConnect = IF @ = s THEN None ELSE @], s)
           IN  /\ PageInv(d) /\ d.ws = c.ws /\ d.flow = c.flow /\ d.pendingConnect = None
               /\ d.settled = c.settled /\ d.accepted = c.accepted
               /\ d.running = c.running /\ d.retry = c.retry
<1> DEFINE b == [c EXCEPT !.openTimers = @ \ {s},
                          !.pendingConnect = IF @ = s THEN None ELSE @]
           e == [b EXCEPT !.welcomeTimer = s]
           g == [e EXCEPT !.pendingAuth = TRUE, !.credentials = @ \cup {e.ws}]
           h == [e EXCEPT !.pendingAuth = FALSE, !.connecting = FALSE]
           d == IF e.filled THEN g ELSE UpdateConnectAvailability(h)
<1>1. /\ s = c.ws /\ s # None /\ s = c.flow /\ s \in Flows /\ c.connecting
      /\ s \notin c.settled
  BY DEF PageInv, PageType, Sockets, Attempts
<1>2. AwaitWelcome(b, s) = d
  BY <1>1 DEF AwaitWelcome, SendAuthRequest, PageInv, PageType
<1> SUFFICES /\ PageInv(d) /\ d.ws = c.ws /\ d.flow = c.flow /\ d.pendingConnect = None
             /\ d.settled = c.settled /\ d.accepted = c.accepted
             /\ d.running = c.running /\ d.retry = c.retry
  BY <1>2
<1>3. b \in PageType
  BY <1>1, ZenonT(60) DEF PageInv, PageType
<1>4. e \in PageType
  <2> HIDE DEF b
  <2>1. QED
    BY <1>1, <1>3 DEF PageType
<1>5. /\ e.flow = c.flow /\ e.gen = c.gen /\ e.ws = c.ws /\ e.handlers = c.handlers
      /\ e.cleanup = c.cleanup /\ e.pendingConnect = None
      /\ e.openTimers = c.openTimers \ {s} /\ e.settled = c.settled /\ e.accepted = c.accepted
      /\ e.welcomeTimer = s /\ e.connectionAbort = c.connectionAbort
      /\ e.retry = c.retry /\ e.running = c.running /\ e.heartbeat = c.heartbeat
      /\ e.connecting = c.connecting /\ e.disabled = c.disabled
      /\ e.authMode = c.authMode /\ e.filled = c.filled
  BY <1>1 DEF PageInv, PageType
<1> HIDE DEF e
<1>6. PageInv(e)
  <2>1. Sockets(e)
    BY <1>1, <1>5 DEF PageInv, Sockets
  <2>2. Attempts(e)
    BY <1>1, <1>5 DEF PageInv, Sockets, Attempts
  <2>3. Flags(e)
    BY <1>5 DEF PageInv, Flags
  <2>4. QED
    BY <1>4, <2>1, <2>2, <2>3 DEF PageInv
<1>7. g \in PageType
  <2>1. PICK j : j = [e EXCEPT !.pendingAuth = TRUE]
    OBVIOUS
  <2>2. j \in PageType
    BY <1>4, <2>1, MarkTypes
  <2>3. PICK w \in Flows : w = e.ws
    BY <1>1, <1>5
  <2>5. [j EXCEPT !.credentials = @ \cup {w}] \in PageType
    BY <2>2 DEF PageType
  <2>4. QED
    BY <2>1, <2>3, <2>5
<1>8. h \in PageType
  <2>1. PICK j : j = [e EXCEPT !.pendingAuth = FALSE]
    OBVIOUS
  <2>2. j \in PageType
    BY <1>4, <2>1, MarkTypes
  <2>3. [j EXCEPT !.connecting = FALSE] \in PageType
    BY <2>2 DEF PageType
  <2>4. QED
    BY <2>1, <2>3
<1>9. Same(e, g) /\ Flags(g)
  BY <1>4, <1>6 DEF PageInv, PageType, Same, Flags
<1>10. Same(e, h)
  BY <1>4, <1>5 DEF PageType, Same
<1> HIDE DEF g, h
<1>11. PageInv(d) /\ Same(e, d)
  BY <1>6, <1>7, <1>8, <1>9, <1>10, SameKeeps, UpdateKeeps
<1> HIDE DEF d
<1>12. QED
  BY <1>5, <1>11 DEF Same

\* A new flow on a page without a socket.
LEMMA AttemptKeeps ==
    ASSUME NEW c, PageInv(c), c.ws = None, ~c.running, c.retry # "waiting", NEW f \in Flows
    PROVE  LET d == ConnectAttempt(c, f)
           IN  /\ PageInv(d) /\ d.ws = f /\ d.flow = f /\ d.pendingConnect = f /\ ~d.running
               /\ d.settled = c.settled \ {f} /\ d.accepted = c.accepted \ {f}
<1> DEFINE a == [c EXCEPT !.flow = f, !.connectionAbort = f, !.connecting = TRUE]
           b == [a EXCEPT !.settled = @ \ {f}, !.accepted = @ \ {f}, !.aborted = @ \ {f}]
           e == UpdateConnectAvailability(b)
           g == [e EXCEPT !.gen = f, !.ws = f, !.cleanup = f, !.pendingConnect = f]
           d == [g EXCEPT !.handlers = @ \cup {f}, !.openTimers = @ \cup {f}]
<1>1. f # None /\ ~c.connecting /\ c.welcomeTimer = None /\ c.pendingConnect = None
      /\ c.handlers = {} /\ c.openTimers = {} /\ c.cleanup = None
  BY BoundsAssumption DEF PageInv, PageType, Sockets, Attempts, None
<1>2. a \in PageType
  <2>1. c \in PageType
    BY DEF PageInv
  <2>2. PICK j : j = [c EXCEPT !.flow = f]
    OBVIOUS
  <2>3. j \in PageType
    BY <2>1, <2>2 DEF PageType
  <2>4. PICK k : k = [j EXCEPT !.connectionAbort = f]
    OBVIOUS
  <2>5. k \in PageType
    BY <2>3, <2>4 DEF PageType
  <2>6. [k EXCEPT !.connecting = TRUE] \in PageType
    BY <2>5, ZenonT(60) DEF PageType
  <2>7. QED
    BY <2>2, <2>4, <2>6
<1>3. b \in PageType
  <2> HIDE DEF a
  <2>1. QED
    BY <1>2, ZenonT(60) DEF PageType
<1>4. /\ b.flow = f /\ b.connectionAbort = f /\ b.connecting
      /\ b.settled = c.settled \ {f} /\ b.accepted = c.accepted \ {f}
      /\ b.ws = c.ws /\ b.cleanup = c.cleanup /\ b.handlers = c.handlers
      /\ b.openTimers = c.openTimers /\ b.pendingConnect = c.pendingConnect
      /\ b.welcomeTimer = c.welcomeTimer /\ b.retry = c.retry
      /\ b.running = c.running /\ b.heartbeat = c.heartbeat
  BY DEF PageInv, PageType
<1> HIDE DEF b
<1>5. e \in PageType
  BY <1>3, UpdateTypes
<1>6. /\ e.flow = b.flow /\ e.connectionAbort = b.connectionAbort /\ e.connecting
      /\ e.settled = b.settled /\ e.accepted = b.accepted
      /\ e.ws = b.ws /\ e.cleanup = b.cleanup /\ e.handlers = b.handlers
      /\ e.openTimers = b.openTimers /\ e.pendingConnect = b.pendingConnect
      /\ e.welcomeTimer = b.welcomeTimer /\ e.retry = b.retry
      /\ e.running = b.running /\ e.heartbeat = b.heartbeat
  BY <1>3, <1>4 DEF PageType, UpdateConnectAvailability
<1>7. ConnectAttempt(c, f) = SignalingConnect(e, f)
  BY <1>1 DEF ConnectAttempt, MayStartFlow, b
<1> HIDE DEF e
<1>8. SignalingConnect(e, f) = d
  BY <1>1, <1>4, <1>6 DEF SignalingConnect, ActiveSocketCleanup
<1> SUFFICES /\ PageInv(d) /\ d.ws = f /\ d.flow = f /\ d.pendingConnect = f /\ ~d.running
             /\ d.settled = c.settled \ {f} /\ d.accepted = c.accepted \ {f}
  BY <1>7, <1>8
<1>9. g \in PageType
  <2>1. PICK j : j = [e EXCEPT !.gen = f]
    OBVIOUS
  <2>2. j \in PageType
    BY <1>5, <2>1 DEF PageType
  <2>3. PICK k : k = [j EXCEPT !.ws = f]
    OBVIOUS
  <2>4. k \in PageType
    BY <2>2, <2>3 DEF PageType
  <2>5. PICK l : l = [k EXCEPT !.cleanup = f]
    OBVIOUS
  <2>6. l \in PageType
    BY <2>4, <2>5 DEF PageType
  <2>7. [l EXCEPT !.pendingConnect = f] \in PageType
    BY <2>6 DEF PageType
  <2>8. QED
    BY <2>1, <2>3, <2>5, <2>7
<1>10. d \in PageType
  <2> HIDE DEF g
  <2>1. QED
    BY <1>9, ZenonT(60) DEF PageType
<1>11. /\ d.flow = e.flow /\ d.connectionAbort = e.connectionAbort /\ d.connecting
       /\ d.settled = e.settled /\ d.accepted = e.accepted
       /\ d.ws = f /\ d.gen = f /\ d.cleanup = f /\ d.handlers = {f}
       /\ d.openTimers = {f} /\ d.pendingConnect = f
       /\ d.welcomeTimer = e.welcomeTimer /\ d.retry = e.retry
       /\ d.running = e.running /\ d.heartbeat = e.heartbeat
  BY <1>1, <1>4, <1>5, <1>6 DEF PageType
<1> HIDE DEF d
<1>12. Sockets(d) /\ Attempts(d) /\ Flags(d)
  BY <1>1, <1>4, <1>6, <1>11 DEF PageInv, Sockets, Attempts, Flags
<1>13. QED
  BY <1>4, <1>6, <1>10, <1>11, <1>12 DEF PageInv

\* What is left of a page when a task is over.
Rests(c, d) ==
    /\ d.flow = c.flow /\ d.gen = c.gen /\ d.ws = c.ws /\ d.handlers = c.handlers
    /\ d.pendingConnect = c.pendingConnect
    /\ d.running = c.running /\ d.connecting = c.connecting
    /\ d.retry # "idle" => c.retry # "idle"
    /\ d.settled \subseteq c.settled /\ d.accepted \subseteq c.accepted
    /\ c.settled \cap loading \subseteq d.settled

\* The retry loop goes on or stops; sockets and flows stay as they are.
LEMMA AfterAttemptRests ==
    ASSUME NEW c, PageInv(c), NEW connected \in BOOLEAN, connected \/ c.ws = None,
           c.retry # "idle"
    PROVE  LET d == AfterAttempt(c, connected) IN PageInv(d) /\ Rests(c, d)
<1> DEFINE i == [c EXCEPT !.retry = "idle", !.attempt = 0]
           w == [c EXCEPT !.retry = "waiting", !.attempt = @ + 1]
<1>1. CASE connected \/ c.attempt >= MaxTries
  <2>1. AfterAttempt(c, connected) = i
    BY <1>1 DEF AfterAttempt
  <2>2. PageInv(i)
    BY IdleEnds
  <2>3. Rests(c, i)
    BY DEF PageInv, PageType, Rests
  <2>4. QED
    BY <2>1, <2>2, <2>3
<1>2. CASE ~(connected \/ c.attempt >= MaxTries)
  <2>1. AfterAttempt(c, connected) = w
    BY <1>2 DEF AfterAttempt
  <2>2. w \in PageType
    <3>1. c \in PageType /\ c.attempt + 1 \in 0 .. MaxTries
      BY <1>2, BoundsAssumption DEF PageInv, PageType
    <3>2. PICK n : n = c.attempt + 1
      OBVIOUS
    <3>3. [c EXCEPT !.retry = "waiting", !.attempt = n] \in PageType
      BY <3>1, <3>2, ZenonT(60) DEF PageType
    <3>4. QED
      BY <3>2, <3>3
  <2>3. Sockets(w) /\ Attempts(w) /\ Flags(w)
    BY <1>2 DEF PageInv, PageType, Sockets, Attempts, Flags
  <2>4. Rests(c, w)
    BY DEF PageInv, PageType, Rests
  <2>5. QED
    BY <2>1, <2>2, <2>3, <2>4 DEF PageInv
<1>3. QED
  BY <1>1, <1>2

\* The promise reactions after a handler.
LEMMA ReactionsRest ==
    ASSUME NEW c, PageInv(c)
    PROVE  PageInv(Reactions(c)) /\ Rests(c, Reactions(c))
<1> DEFINE connected == c.flow \in c.accepted
           d == AfterAttempt(c, connected)
<1>1. CASE c.retry = "trying" /\ c.flow \in c.settled
  <2>1. connected \in BOOLEAN /\ (connected \/ c.ws = None)
    BY <1>1 DEF PageInv, Attempts
  <2>2. Reactions(c) = d
    BY <1>1 DEF Reactions
  <2> HIDE DEF connected
  <2>3. PageInv(d) /\ Rests(c, d)
    BY <1>1, <2>1, AfterAttemptRests
  <2>4. QED
    BY <2>2, <2>3
<1>2. CASE ~(c.retry = "trying" /\ c.flow \in c.settled)
  BY <1>2 DEF Reactions, Rests
<1>3. QED
  BY <1>1, <1>2

\* What nobody can ask about any more is forgotten.
LEMMA ForgetRests ==
    ASSUME NEW c, PageInv(c)
    PROVE  PageInv(Forget(c)) /\ Rests(c, Forget(c))
<1> DEFINE d == Forget(c)
<1>1. d \in PageType
  <2>1. PICK a : a = [c EXCEPT !.settled = @ \cap Asked(c), !.accepted = @ \cap Asked(c)]
    OBVIOUS
  <2>2. a \in PageType
    BY <2>1 DEF PageInv, PageType
  <2>3. [a EXCEPT !.aborted = @ \cap Asked(c), !.credentials = @ \cap c.handlers] \in PageType
    BY <2>2 DEF PageType
  <2>4. QED
    BY <2>1, <2>3 DEF Forget
<1>2. /\ d.flow = c.flow /\ d.gen = c.gen /\ d.ws = c.ws /\ d.handlers = c.handlers
      /\ d.cleanup = c.cleanup /\ d.pendingConnect = c.pendingConnect
      /\ d.openTimers = c.openTimers
      /\ d.settled = c.settled \cap Asked(c) /\ d.accepted = c.accepted \cap Asked(c)
      /\ d.welcomeTimer = c.welcomeTimer /\ d.connectionAbort = c.connectionAbort
      /\ d.retry = c.retry /\ d.running = c.running /\ d.heartbeat = c.heartbeat
      /\ d.connecting = c.connecting /\ d.disabled = c.disabled
      /\ d.authMode = c.authMode /\ d.filled = c.filled
  BY DEF PageInv, PageType, Forget
<1> HIDE DEF d
<1>3. c.ws # None => c.flow \in Asked(c)
  BY DEF PageInv, Sockets, Asked
<1>4. Sockets(d) /\ Attempts(d) /\ Flags(d)
  BY <1>2, <1>3 DEF PageInv, Sockets, Attempts, Flags
<1>5. Rests(c, d)
  BY <1>2 DEF Rests, Asked
<1>6. QED
  BY <1>1, <1>4, <1>5 DEF PageInv, d

\* A task leaves what its handler made of the page.
LEMMA TaskRests ==
    ASSUME NEW c, PageInv(c), NEW links, NEW peers, Task(c, links, peers)
    PROVE  /\ PageInv(client') /\ Rests(c, client')
           /\ link' = [s \in Flows |->
                          IF s \notin c.handlers THEN "closed"
                          ELSE IF s \in client.handlers THEN links[s] ELSE "connecting"]
           /\ peer' = [s \in Flows |-> IF s \in c.handlers THEN peers[s] ELSE "hello"]
<1> DEFINE r == Reactions(c)
           a == Forget(r)
<1>1. PageInv(r) /\ Rests(c, r)
  BY ReactionsRest
<1>2. /\ client' = a
      /\ link' = [s \in Flows |->
                      IF s \notin a.handlers THEN "closed"
                      ELSE IF s \in client.handlers THEN links[s] ELSE "connecting"]
      /\ peer' = [s \in Flows |-> IF s \in a.handlers THEN peers[s] ELSE "hello"]
  BY DEF Task
<1> HIDE DEF r
<1>3. PageInv(a) /\ Rests(r, a)
  BY <1>1, ForgetRests
<1> HIDE DEF a
<1>4. Rests(c, a)
  BY <1>1, <1>3 DEF Rests
<1>5. a.handlers = c.handlers
  BY <1>4 DEF Rests
<1>6. QED
  BY <1>2, <1>3, <1>4, <1>5

-----------------------------------------------------------------------------
(* The page with its network, its loading welcomes and its user's wish.    *)

Wanting(c) == c.running \/ c.connecting \/ c.retry # "idle" \/ c.ws # None

\* A socket's promise is pending until the link is open.
Opening(c, links) ==
    c.ws # None => (c.pendingConnect # None <=> links[c.ws] = "connecting")

\* A welcome that still loads is that of the running session, or too late.
Loading(c, flows) == \A f \in flows : f \in c.settled \/ (f = c.ws /\ c.running)

SessionInv ==
    /\ PageInv(client)
    /\ link \in [Flows -> Links] /\ peer \in [Flows -> Peers]
    /\ loading \in SUBSET Flows /\ outdated \in BOOLEAN /\ wanted \in BOOLEAN
    /\ Opening(client, link)
    /\ Loading(client, loading)
    /\ Wanting(client) => wanted

\* One task, whatever the handler did to the page.
LEMMA TaskKeeps ==
    ASSUME SessionInv,
           NEW d, PageInv(d), NEW links \in [Flows -> Links], NEW peers \in [Flows -> Peers],
           Task(d, links, peers),
           d.ws \in client.handlers => Opening(d, links),
           d.ws \notin client.handlers => d.pendingConnect = d.ws,
           loading' \in SUBSET Flows, outdated' \in BOOLEAN, wanted' \in BOOLEAN,
           \A f \in loading' : (f \in loading /\ f \in d.settled) \/ (f = d.ws /\ d.running),
           Wanting(d) => wanted'
    PROVE  SessionInv' /\ Rests(d, client')
<1>1. /\ PageInv(client') /\ Rests(d, client')
      /\ link' = [s \in Flows |->
                     IF s \notin d.handlers THEN "closed"
                     ELSE IF s \in client.handlers THEN links[s] ELSE "connecting"]
      /\ peer' = [s \in Flows |-> IF s \in d.handlers THEN peers[s] ELSE "hello"]
  BY TaskRests
<1>2. link' \in [Flows -> Links] /\ peer' \in [Flows -> Peers]
  BY <1>1 DEF Links, Peers
<1>3. Opening(client', link')
  <2>1. SUFFICES ASSUME d.ws # None
                 PROVE  d.pendingConnect # None <=> link'[d.ws] = "connecting"
    BY <1>1 DEF Rests, Opening
  <2>2. d.ws \in Flows /\ d.ws \in d.handlers
    BY <2>1 DEF PageInv, PageType, Sockets
  <2>3. CASE d.ws \in client.handlers
    BY <1>1, <2>1, <2>2, <2>3 DEF Opening
  <2>4. CASE d.ws \notin client.handlers
    BY <1>1, <2>1, <2>2, <2>4
  <2>5. QED
    BY <2>3, <2>4
<1>4. Loading(client', loading')
  BY <1>1 DEF Rests, Loading
<1>5. Wanting(client') => wanted'
  BY <1>1 DEF Rests, Wanting
<1>6. QED
  BY <1>1, <1>2, <1>3, <1>4, <1>5 DEF SessionInv

\* A task whose handler only ends things.
LEMMA EndsStep ==
    ASSUME SessionInv,
           NEW d, PageInv(d), Ends(client, d), NEW peers \in [Flows -> Peers],
           Task(d, link, peers),
           loading' \subseteq loading, outdated' \in BOOLEAN, wanted' \in BOOLEAN,
           wanted => wanted' \/ ~Wanting(d)
    PROVE  SessionInv' /\ client.settled \cap client'.accepted \subseteq client.accepted
<1>1. d.ws \in client.handlers => Opening(d, link)
  <2>1. CASE d.ws = client.ws
    BY <2>1 DEF SessionInv, Opening, Ends
  <2>2. CASE d.ws = None
    BY <2>2 DEF Opening
  <2>3. QED
    BY <2>1, <2>2 DEF Ends
<1>2. d.ws \notin client.handlers => d.pendingConnect = d.ws
  BY DEF SessionInv, PageInv, Sockets, Ends
<1>3. ASSUME NEW f \in loading'
      PROVE  (f \in loading /\ f \in d.settled) \/ (f = d.ws /\ d.running)
  <2>1. f \in loading
    OBVIOUS
  <2>2. CASE f \in client.settled
    BY <2>1, <2>2 DEF Ends
  <2>3. CASE f = client.ws /\ client.running
    <3>1. CASE d.ws # client.ws
      BY <2>1, <2>3, <3>1 DEF Ends
    <3>2. CASE d.ws = client.ws
      <4>1. f \in Flows
        BY <2>1 DEF SessionInv
      <4>2. f # None
        BY <4>1, BoundsAssumption DEF None
      <4>3. QED
        BY <2>3, <3>2, <4>2 DEF Ends
    <3>3. QED
      BY <3>1, <3>2
  <2>4. QED
    BY <2>1, <2>2, <2>3 DEF SessionInv, Loading
<1>4. Wanting(d) => wanted'
  BY DEF SessionInv, Wanting, Ends
<1>5. SessionInv' /\ Rests(d, client')
  <2>1. link \in [Flows -> Links] /\ loading' \in SUBSET Flows
    BY DEF SessionInv
  <2>2. QED
    BY <1>1, <1>2, <1>3, <1>4, <2>1, TaskKeeps
<1>6. QED
  BY <1>5 DEF Rests, Ends

-----------------------------------------------------------------------------
(* The actions.                                                            *)

FinalOutcome == client.settled \cap client'.accepted \subseteq client.accepted

\* The invariant holds before anything is connected.
LEMMA InitKeeps == Init => SessionInv
<1>1. SUFFICES ASSUME Init PROVE SessionInv
  OBVIOUS
<1>2. NewPage \in PageType
  <2>1. 0 \in 0 .. MaxTries /\ 0 \in 0 .. StaleAfter
    BY BoundsAssumption
  <2>2. QED
    BY <2>1 DEF NewPage, PageType, None
<1>3. Sockets(NewPage) /\ Attempts(NewPage) /\ Flags(NewPage)
  BY DEF NewPage, Sockets, Attempts, Flags, None
<1>4. ~Wanting(NewPage) /\ NewPage.ws = None
  BY DEF NewPage, Wanting, None
<1>5. QED
  BY <1>1, <1>2, <1>3, <1>4 DEF Init, SessionInv, PageInv, Opening, Loading, Links, Peers

\* Connect: what was under way is cancelled, then a flow begins.
LEMMA PressConnectKeeps ==
    ASSUME SessionInv, PressConnect PROVE SessionInv' /\ FinalOutcome
<1> DEFINE alone == CancelReconnect(client)
           ready == Abort(alone, alone.connectionAbort)
<1>1. PICK f \in Flows \ Asked(ready) : Task(ConnectAttempt(ready, f), link, peer)
  BY DEF PressConnect
<1> DEFINE d == ConnectAttempt(ready, f)
<1>2. PageInv(client) /\ ~client.running
  BY DEF SessionInv, PressConnect
<1>3. PageInv(alone) /\ Ends(client, alone) /\ ~alone.running /\ alone.retry = "idle"
  BY <1>2, CancelReconnectEnds
<1> HIDE DEF alone
<1>4. /\ PageInv(ready) /\ Ends(alone, ready) /\ ~ready.running /\ ready.retry = "idle"
      /\ ready.ws = None
  BY <1>3, AbortEnds
<1>5. Ends(client, ready)
  BY <1>3, <1>4, EndsTransitive
<1>6. f \notin loading /\ f # client.ws /\ f # ready.flow
  BY <1>1, <1>2, <1>5, BoundsAssumption DEF Asked, PageInv, Sockets, Ends, None
<1> HIDE DEF ready
<1>7. /\ PageInv(d) /\ d.ws = f /\ d.flow = f /\ d.pendingConnect = f /\ ~d.running
      /\ d.settled = ready.settled \ {f} /\ d.accepted = ready.accepted \ {f}
  BY <1>4, AttemptKeeps
<1> HIDE DEF d
<1>8. d.ws \notin client.handlers
  BY <1>2, <1>6, <1>7 DEF PageInv, Sockets
<1>9. \A g \in loading : g \in d.settled
  BY <1>2, <1>5, <1>6, <1>7 DEF SessionInv, Loading, Ends
<1>10. SessionInv' /\ Rests(d, client')
  <2>1. /\ link \in [Flows -> Links] /\ peer \in [Flows -> Peers] /\ loading \in SUBSET Flows
        /\ outdated \in BOOLEAN /\ loading' = loading /\ outdated' = outdated /\ wanted' = TRUE
    BY DEF SessionInv, PressConnect
  <2>2. Task(d, link, peer)
    BY <1>1 DEF d
  <2>3. QED
    BY <1>7, <1>8, <1>9, <2>1, <2>2, TaskKeeps
<1>11. QED
  BY <1>5, <1>7, <1>10 DEF Rests, Ends, FinalOutcome

\* The wait is over: an attempt of the retry loop begins.
LEMMA RetryTimerKeeps ==
    ASSUME SessionInv, RetryTimer PROVE SessionInv' /\ FinalOutcome
<1> DEFINE t == [client EXCEPT !.retry = "trying"]
           n == [t EXCEPT !.connectionAbort = None]
<1>1. PICK f \in Flows \ Asked(client) :
          Task(IF MayStartFlow(client) THEN ConnectAttempt(t, f)
               ELSE AfterAttempt(ConnectAttempt(t, f), FALSE), link, peer)
  BY DEF RetryTimer
<1>2. /\ PageInv(client) /\ client.ws = None /\ client.retry = "waiting" /\ wanted
      /\ loading' = loading /\ outdated' = outdated /\ wanted' = wanted
      /\ link \in [Flows -> Links] /\ peer \in [Flows -> Peers] /\ loading \in SUBSET Flows
      /\ outdated \in BOOLEAN /\ wanted \in BOOLEAN
  BY DEF SessionInv, Wanting, RetryTimer, PageInv, Attempts
<1>3. PageInv(t) /\ t.ws = None /\ t.running = client.running /\ t.connecting = client.connecting
      /\ t.retry = "trying" /\ t.settled = client.settled /\ t.accepted = client.accepted
      /\ t.flow = client.flow
  <2>1. t \in PageType
    BY <1>2 DEF PageInv, PageType
  <2>2. Sockets(t) /\ Attempts(t) /\ Flags(t)
    BY <1>2 DEF PageInv, PageType, Sockets, Attempts, Flags
  <2>3. QED
    BY <1>2, <2>1, <2>2 DEF PageInv, PageType
<1>4. \A g \in loading : g \in client.settled
  BY <1>2, BoundsAssumption DEF SessionInv, Loading, None
<1> HIDE DEF t
<1>5. CASE MayStartFlow(client)
  <2> DEFINE d == ConnectAttempt(t, f)
  <2>1. /\ PageInv(d) /\ d.ws = f /\ d.flow = f /\ d.pendingConnect = f /\ ~d.running
        /\ d.settled = t.settled \ {f} /\ d.accepted = t.accepted \ {f}
    BY <1>3, <1>5, AttemptKeeps DEF MayStartFlow
  <2>2. Task(d, link, peer)
    BY <1>1, <1>5
  <2> HIDE DEF d
  <2>3. f \notin loading /\ d.ws \notin client.handlers
    BY <1>2, <2>1 DEF Asked, PageInv, Sockets
  <2>4. \A g \in loading : g \in d.settled
    BY <1>3, <1>4, <2>1, <2>3
  <2>5. SessionInv' /\ Rests(d, client')
    BY <1>2, <2>1, <2>2, <2>3, <2>4, TaskKeeps
  <2>6. QED
    BY <1>3, <2>1, <2>5 DEF Rests, FinalOutcome
<1>6. CASE ~MayStartFlow(client)
  <2> DEFINE d == AfterAttempt(n, FALSE)
  <2>1. n \in PageType
    BY <1>3 DEF PageInv, PageType
  <2>2. /\ n.ws = None /\ n.retry = "trying" /\ n.flow = t.flow /\ n.settled = t.settled
        /\ n.accepted = t.accepted /\ n.running = t.running /\ n.connecting = t.connecting
        /\ n.pendingConnect = t.pendingConnect
    BY <1>3 DEF PageInv, PageType
  <2>3. Sockets(n) /\ Attempts(n) /\ Flags(n)
    BY <1>3 DEF PageInv, PageType, Sockets, Attempts, Flags
  <2>4. Task(d, link, peer)
    BY <1>1, <1>3, <1>6 DEF MayStartFlow, ConnectAttempt
  <2> HIDE DEF n
  <2>5. PageInv(d) /\ Rests(n, d)
    BY <2>1, <2>2, <2>3, AfterAttemptRests DEF PageInv
  <2> HIDE DEF d
  <2>6. d.ws = None /\ d.pendingConnect = None
    BY <2>2, <2>3, <2>5 DEF Rests, Sockets
  <2>7. \A g \in loading : g \in d.settled
    BY <1>3, <1>4, <2>2, <2>5 DEF Rests
  <2>8. SessionInv' /\ Rests(d, client')
    BY <1>2, <2>4, <2>5, <2>6, <2>7, TaskKeeps DEF Opening
  <2>9. QED
    BY <1>3, <2>2, <2>5, <2>8 DEF Rests, FinalOutcome
<1>7. QED
  BY <1>5, <1>6

\* The user's other steps and the timers only end things.
LEMMA UserKeeps ==
    ASSUME SessionInv, PressDisconnect \/ LogOut \/ EditForm \/ ShowOtherForm
    PROVE  SessionInv' /\ FinalOutcome
<1>1. PageInv(client) /\ peer \in [Flows -> Peers] /\ outdated \in BOOLEAN /\ wanted \in BOOLEAN
  BY DEF SessionInv
<1>2. CASE PressDisconnect
  <2> DEFINE d == Disconnect(client)
  <2>1. /\ PageInv(d) /\ Ends(client, d) /\ ~Wanting(d)
    BY <1>1, DisconnectEnds DEF Wanting
  <2>2. Task(d, link, peer) /\ loading' = loading /\ outdated' = outdated /\ wanted' = FALSE
    BY <1>2 DEF PressDisconnect
  <2> HIDE DEF d
  <2>3. QED
    BY <1>1, <2>1, <2>2, EndsStep DEF FinalOutcome
<1>3. CASE LogOut
  <2> DEFINE d == SetAuthMode(Disconnect([client EXCEPT !.hint = FALSE]), "login")
  <2>1. /\ PageInv(d) /\ Ends(client, d) /\ ~Wanting(d)
    BY <1>1, LogOutEnds DEF Wanting
  <2>2. Task(d, link, peer) /\ loading' = loading /\ outdated' = outdated /\ wanted' = FALSE
    BY <1>3 DEF LogOut
  <2> HIDE DEF d
  <2>3. QED
    BY <1>1, <2>1, <2>2, EndsStep DEF FinalOutcome
<1>4. CASE EditForm
  <2>1. PICK x \in BOOLEAN : x = ~client.filled
    BY <1>1 DEF PageInv, PageType
  <2> DEFINE d == UpdateConnectAvailability([client EXCEPT !.filled = x])
  <2>2. PageInv(d) /\ Ends(client, d)
    BY <1>1, EditKeeps
  <2>3. Task(d, link, peer) /\ loading' = loading /\ outdated' = outdated /\ wanted' = wanted
    BY <1>4, <2>1 DEF EditForm
  <2> HIDE DEF d
  <2>4. QED
    BY <1>1, <2>2, <2>3, EndsStep DEF FinalOutcome
<1>5. CASE ShowOtherForm
  <2>1. PICK x \in BOOLEAN, m \in {"login", "register"} :
            Task(SetAuthMode([client EXCEPT !.filled = x], m), link, peer)
    BY <1>5 DEF ShowOtherForm
  <2> DEFINE d == SetAuthMode([client EXCEPT !.filled = x], m)
  <2>2. PageInv(d) /\ Ends(client, d)
    BY <1>1, EditKeeps
  <2>3. Task(d, link, peer) /\ loading' = loading /\ outdated' = outdated /\ wanted' = wanted
    BY <1>5, <2>1 DEF ShowOtherForm
  <2> HIDE DEF d
  <2>4. QED
    BY <1>1, <2>2, <2>3, EndsStep DEF FinalOutcome
<1>6. QED
  BY <1>2, <1>3, <1>4, <1>5

\* The timers of the socket, of the welcome and of the heartbeat.
LEMMA TimersKeep ==
    ASSUME SessionInv, (\E s \in Flows : OpenTimeout(s)) \/ WelcomeTimeout \/ HeartbeatTick
    PROVE  SessionInv' /\ FinalOutcome
<1>1. PageInv(client) /\ peer \in [Flows -> Peers] /\ outdated \in BOOLEAN /\ wanted \in BOOLEAN
  BY DEF SessionInv
<1>2. ASSUME NEW s \in Flows, OpenTimeout(s) PROVE SessionInv' /\ FinalOutcome
  <2> DEFINE fired == [client EXCEPT !.openTimers = @ \ {s}]
             b == [client EXCEPT !.openTimers = IF TRUE THEN @ \ {s} ELSE @,
                                 !.pendingConnect = IF @ = s THEN None ELSE @]
             d == Finish(CleanupSocket(b, s), s, FALSE)
  <2>1. s = client.ws /\ s = client.gen /\ s \in client.handlers
    BY <1>1, <1>2, BoundsAssumption DEF OpenTimeout, PageInv, Sockets, None
  <2>2. IsCurrent(fired, s)
    BY <1>1, <2>1 DEF IsCurrent, PageInv, PageType
  <2>3. [fired EXCEPT !.pendingConnect = IF @ = s THEN None ELSE @] = b
    BY <1>1 DEF PageInv, PageType
  <2>4. Task(d, link, peer) /\ loading' = loading /\ outdated' = outdated /\ wanted' = wanted
    BY <1>2, <2>2, <2>3 DEF OpenTimeout
  <2>5. PageInv(d) /\ Ends(client, d)
    BY <1>1, <2>1, LostEnds
  <2> HIDE DEF d
  <2>6. QED
    BY <1>1, <2>4, <2>5, EndsStep DEF FinalOutcome
<1>3. CASE WelcomeTimeout
  <2> DEFINE d == Finish(client, client.welcomeTimer, FALSE)
  <2>1. client.welcomeTimer \in {None, client.flow}
    BY <1>1 DEF PageInv, Sockets, Attempts
  <2>2. PageInv(d) /\ Ends(client, d)
    BY <1>1, <2>1, FinishEnds
  <2>3. Task(d, link, peer) /\ loading' = loading /\ outdated' = outdated /\ wanted' = wanted
    BY <1>3 DEF WelcomeTimeout
  <2> HIDE DEF d
  <2>4. QED
    BY <1>1, <2>2, <2>3, EndsStep DEF FinalOutcome
<1>4. CASE HeartbeatTick
  <2> DEFINE d == Heartbeat(client)
  <2>1. PageInv(d) /\ Ends(client, d)
    BY <1>1, HeartbeatEnds
  <2>2. Task(d, link, peer) /\ loading' = loading /\ outdated' = outdated /\ wanted' = wanted
    BY <1>4 DEF HeartbeatTick
  <2> HIDE DEF d
  <2>3. QED
    BY <1>1, <2>1, <2>2, EndsStep DEF FinalOutcome
<1>5. QED
  BY <1>2, <1>3, <1>4

\* The page is loaded again.
LEMMA ReloadPageKeeps ==
    ASSUME SessionInv, ReloadPage PROVE SessionInv' /\ FinalOutcome
<1> DEFINE d == [NewPage EXCEPT !.hint = client.hint]
<1>1. NewPage \in PageType
  <2>1. 0 \in 0 .. MaxTries /\ 0 \in 0 .. StaleAfter
    BY BoundsAssumption
  <2>2. QED
    BY <2>1 DEF NewPage, PageType, None
<1>2. d \in PageType
  <2>1. client.hint \in BOOLEAN
    BY DEF SessionInv, PageInv, PageType
  <2>2. QED
    BY <1>1, <2>1 DEF PageType
<1>3. Sockets(d) /\ Attempts(d) /\ Flags(d)
  BY DEF NewPage, Sockets, Attempts, Flags, None
<1>4. ~Wanting(d) /\ d.ws = None /\ d.pendingConnect = None /\ d.accepted = {}
  BY DEF NewPage, Wanting, None
<1>5. Task(d, link, peer) /\ loading' = {} /\ outdated' = FALSE /\ wanted' = FALSE
  BY DEF ReloadPage
<1> HIDE DEF d
<1>6. SessionInv' /\ Rests(d, client')
  <2>1. link \in [Flows -> Links] /\ peer \in [Flows -> Peers] /\ loading' \in SUBSET Flows
    BY <1>5 DEF SessionInv
  <2>2. QED
    BY <1>2, <1>3, <1>4, <1>5, <2>1, TaskKeeps DEF PageInv, Opening
<1>7. QED
  BY <1>4, <1>6 DEF Rests, FinalOutcome

\* The end of a flow whose welcome was loaded: the session runs already.
LEMMA FinishConnectedKeeps ==
    ASSUME NEW c, PageInv(c), c.running, NEW f, f = c.ws, f # None, f \notin c.settled
    PROVE  LET d == Finish(c, f, TRUE)
           IN  /\ PageInv(d) /\ d.ws = c.ws /\ d.flow = c.flow /\ d.running
               /\ d.pendingConnect = c.pendingConnect /\ d.connecting = c.connecting
               /\ d.settled = c.settled \cup {f} /\ d.accepted = c.accepted \cup {f}
               /\ d.retry = c.retry
<1> DEFINE d == Finish(c, f, TRUE)
<1> SUFFICES /\ PageInv(d) /\ d.ws = c.ws /\ d.flow = c.flow /\ d.running
             /\ d.pendingConnect = c.pendingConnect /\ d.connecting = c.connecting
             /\ d.settled = c.settled \cup {f} /\ d.accepted = c.accepted \cup {f}
             /\ d.retry = c.retry
  OBVIOUS
<1>1. f \in Flows /\ f = c.flow
  BY DEF PageInv, PageType, Sockets
<1>2. d \in PageType
  BY <1>1, FinishTypes DEF PageInv
<1>3. /\ d.ws = c.ws /\ d.flow = c.flow /\ d.running = c.running /\ d.gen = c.gen
      /\ d.pendingConnect = c.pendingConnect /\ d.connecting = c.connecting
      /\ d.settled = c.settled \cup {f} /\ d.accepted = c.accepted \cup {f}
      /\ d.retry = c.retry /\ d.handlers = c.handlers /\ d.openTimers = c.openTimers
      /\ d.cleanup = c.cleanup /\ d.connectionAbort = c.connectionAbort
      /\ d.heartbeat = c.heartbeat /\ d.disabled = c.disabled
      /\ d.authMode = c.authMode /\ d.filled = c.filled
      /\ d.welcomeTimer = IF c.welcomeTimer = f THEN None ELSE c.welcomeTimer
  BY DEF PageInv, PageType, Finish
<1> HIDE DEF d
<1>4. Sockets(d)
  BY <1>3 DEF PageInv, Sockets
<1>5. Attempts(d)
  BY <1>1, <1>3 DEF PageInv, Attempts
<1>6. Flags(d)
  BY <1>3 DEF PageInv, Flags
<1>7. PageInv(d)
  BY <1>2, <1>4, <1>5, <1>6 DEF PageInv
<1>8. QED
  BY <1>3, <1>7

\* The rest of a welcome, for a running session or too late.
LEMMA FinishLoadingKeeps ==
    ASSUME SessionInv, NEW f \in Flows, FinishLoading(f) PROVE SessionInv' /\ FinalOutcome
<1> DEFINE d == Finish(client, f, TRUE)
<1>1. /\ PageInv(client) /\ f \in loading /\ f # None
      /\ loading' = loading \ {f} /\ outdated' = outdated /\ wanted' = wanted
      /\ link \in [Flows -> Links] /\ peer \in [Flows -> Peers] /\ loading' \in SUBSET Flows
      /\ outdated \in BOOLEAN /\ wanted \in BOOLEAN
  BY BoundsAssumption DEF SessionInv, FinishLoading, None
<1>2. CASE f \in client.aborted \/ f \in client.settled
  <2>1. Task(client, link, peer)
    BY <1>2 DEF FinishLoading, Finish
  <2>2. Ends(client, client)
    BY DEF Ends
  <2>3. QED
    BY <1>1, <2>1, <2>2, EndsStep DEF FinalOutcome
<1>3. CASE f \notin client.aborted /\ f \notin client.settled
  <2>1. f = client.ws /\ client.running
    BY <1>1, <1>3 DEF SessionInv, Loading
  <2>2. /\ PageInv(d) /\ d.ws = client.ws /\ d.flow = client.flow /\ d.running
        /\ d.pendingConnect = client.pendingConnect /\ d.connecting = client.connecting
        /\ d.settled = client.settled \cup {f} /\ d.accepted = client.accepted \cup {f}
        /\ d.retry = client.retry
    BY <1>1, <1>3, <2>1, FinishConnectedKeeps
  <2>3. Task(d, link, peer)
    BY <1>3 DEF FinishLoading
  <2> HIDE DEF d
  <2>4. Opening(d, link) /\ d.ws \in client.handlers
    BY <1>1, <2>1, <2>2 DEF SessionInv, Opening, PageInv, Sockets
  <2>5. \A g \in loading' : (g \in loading /\ g \in d.settled) \/ (g = d.ws /\ d.running)
    BY <1>1, <2>2 DEF SessionInv, Loading
  <2>6. Wanting(d) => wanted'
    BY <1>1, <2>1 DEF SessionInv, Wanting
  <2>7. SessionInv' /\ Rests(d, client')
    BY <1>1, <2>2, <2>3, <2>4, <2>5, <2>6, TaskKeeps
  <2>8. QED
    BY <1>3, <2>2, <2>7 DEF Rests, FinalOutcome
<1>4. QED
  BY <1>2, <1>3

\* A socket opens: it is the one whose promise is pending.
LEMMA SocketOpensKeeps ==
    ASSUME SessionInv, NEW s \in Flows, SocketOpens(s) PROVE SessionInv' /\ FinalOutcome
<1> DEFINE d == AwaitWelcome([client EXCEPT !.openTimers = @ \ {s},
                                 !.pendingConnect = IF @ = s THEN None ELSE @], s)
           links == [link EXCEPT ![s] = "open"]
<1>1. /\ PageInv(client) /\ s # None /\ link[s] = "connecting"
      /\ s = client.ws /\ s = client.gen /\ s \in client.handlers
      /\ loading' = loading /\ outdated' = outdated /\ wanted' = wanted
      /\ links \in [Flows -> Links] /\ peer \in [Flows -> Peers] /\ loading' \in SUBSET Flows
      /\ outdated \in BOOLEAN /\ wanted \in BOOLEAN
  BY BoundsAssumption DEF SessionInv, SocketOpens, PageInv, Sockets, None, Links
<1>2. s = client.pendingConnect
  BY <1>1 DEF SessionInv, Opening, PageInv, Sockets
<1>3. /\ PageInv(d) /\ d.ws = client.ws /\ d.flow = client.flow /\ d.pendingConnect = None
      /\ d.settled = client.settled /\ d.accepted = client.accepted
      /\ d.running = client.running /\ d.retry = client.retry
  BY <1>1, <1>2, OpenKeeps
<1>4. Task(d, links, peer)
  BY <1>1 DEF SocketOpens, IsCurrent
<1> HIDE DEF d
<1>5. links[d.ws] = "open"
  BY <1>1, <1>3 DEF SessionInv
<1> HIDE DEF links
<1>6. Opening(d, links)
  BY <1>3, <1>5 DEF Opening
<1>7. \A g \in loading' : (g \in loading /\ g \in d.settled) \/ (g = d.ws /\ d.running)
  BY <1>1, <1>3 DEF SessionInv, Loading
<1>8. Wanting(d) => wanted'
  BY <1>1 DEF SessionInv, Wanting
<1>9. SessionInv' /\ Rests(d, client')
  BY <1>1, <1>3, <1>4, <1>6, <1>7, <1>8, TaskKeeps
<1>10. QED
  BY <1>3, <1>9 DEF Rests, FinalOutcome

\* The network, and an upgrade of the server.
LEMMA NetworkKeeps ==
    ASSUME SessionInv,
           (\E s \in Flows : SocketLost(s) \/ LinkDies(s)) \/ ServerUpgraded
    PROVE  SessionInv' /\ FinalOutcome
<1>1. PageInv(client) /\ peer \in [Flows -> Peers] /\ outdated \in BOOLEAN /\ wanted \in BOOLEAN
  BY DEF SessionInv
<1>2. ASSUME NEW s \in Flows, SocketLost(s) PROVE SessionInv' /\ FinalOutcome
  <2> DEFINE d == SocketGone(client, s)
  <2>1. Task(d, link, peer) /\ loading' = loading /\ outdated' = outdated /\ wanted' = wanted
    BY <1>2 DEF SocketLost
  <2>2. PageInv(d) /\ Ends(client, d)
    BY <1>1, <1>2, SocketGoneEnds DEF SocketLost
  <2> HIDE DEF d
  <2>3. QED
    BY <1>1, <2>1, <2>2, EndsStep DEF FinalOutcome
<1>3. ASSUME NEW s \in Flows, LinkDies(s) PROVE SessionInv' /\ FinalOutcome
  <2>1. /\ client' = client /\ loading' = loading /\ outdated' = outdated /\ wanted' = wanted
        /\ peer' = peer /\ link' = [link EXCEPT ![s] = "dead"] /\ link[s] = "open"
    BY <1>3 DEF LinkDies
  <2>2. link' \in [Flows -> Links]
    BY <2>1 DEF SessionInv, Links
  <2>3. Opening(client', link')
    <3>1. SUFFICES ASSUME client.ws # None
                   PROVE  client.pendingConnect # None <=> link'[client.ws] = "connecting"
      BY <2>1 DEF Opening
    <3>2. client.ws \in Flows
      BY <1>1, <3>1 DEF PageInv, PageType
    <3>3. QED
      BY <2>1, <3>1, <3>2 DEF SessionInv, Opening
  <2>4. QED
    BY <2>1, <2>2, <2>3 DEF SessionInv, PageInv, Sockets, Attempts, Flags, Loading, Wanting,
                            FinalOutcome, PageType
<1>4. CASE ServerUpgraded
  <2>1. /\ client' = client /\ loading' = loading /\ outdated' = TRUE /\ wanted' = wanted
        /\ peer' = peer /\ link' = link
    BY <1>4 DEF ServerUpgraded
  <2>2. QED
    BY <2>1 DEF SessionInv, PageInv, Sockets, Attempts, Flags, Loading, Wanting, Opening,
                FinalOutcome, PageType
<1>5. QED
  BY <1>2, <1>3, <1>4

\* A message only arrives on the open link of the socket in use.
LEMMA ArrivalFacts ==
    ASSUME SessionInv, NEW s \in Flows, NEW stages, Arrives(s, stages), NEW x \in Peers
    PROVE  /\ PageInv(client) /\ s = client.ws /\ s # None /\ client.pendingConnect = None
           /\ [peer EXCEPT ![s] = x] \in [Flows -> Peers] /\ peer \in [Flows -> Peers]
           /\ outdated \in BOOLEAN /\ wanted \in BOOLEAN
           /\ link \in [Flows -> Links] /\ loading \in SUBSET Flows
<1>1. /\ PageInv(client) /\ link[s] = "open" /\ s \in client.handlers /\ s # None
      /\ [peer EXCEPT ![s] = x] \in [Flows -> Peers] /\ peer \in [Flows -> Peers]
      /\ outdated \in BOOLEAN /\ wanted \in BOOLEAN
      /\ link \in [Flows -> Links] /\ loading \in SUBSET Flows
  BY BoundsAssumption DEF SessionInv, Arrives, None
<1>2. s = client.ws
  BY <1>1 DEF PageInv, Sockets
<1>3. client.pendingConnect = None
  BY <1>1, <1>2 DEF SessionInv, Opening
<1>4. QED
  BY <1>1, <1>2, <1>3

\* The server asks for a sign-in.
LEMMA RecvAuthRequiredKeeps ==
    ASSUME SessionInv, NEW s \in Flows, RecvAuthRequired(s) PROVE SessionInv' /\ FinalOutcome
<1> DEFINE d == IF ~Heeds(client, s) THEN client
                ELSE IF MustReload(client) THEN [client EXCEPT !.reload = TRUE]
                ELSE HandleAuthRequired(client)
           peers == [peer EXCEPT ![s] = "asked"]
<1>1. /\ PageInv(client) /\ client.ws # None /\ client.pendingConnect = None
      /\ peers \in [Flows -> Peers] /\ outdated \in BOOLEAN /\ wanted \in BOOLEAN
  BY ArrivalFacts DEF RecvAuthRequired, Peers
<1>2. Task(d, link, peers) /\ loading' = loading /\ outdated' = outdated /\ wanted' = wanted
  BY DEF RecvAuthRequired
<1>3. PageInv(d) /\ Ends(client, d)
  <2>1. CASE ~Heeds(client, s)
    BY <1>1, <2>1 DEF Ends
  <2>2. CASE Heeds(client, s) /\ MustReload(client)
    BY <1>1, <2>2, ReloadEnds
  <2>3. CASE Heeds(client, s) /\ ~MustReload(client)
    BY <1>1, <2>3, AuthRequiredEnds
  <2>4. QED
    BY <2>1, <2>2, <2>3
<1> HIDE DEF d, peers
<1>4. QED
  BY <1>1, <1>2, <1>3, EndsStep DEF FinalOutcome

\* The server answers a sign-in.
LEMMA RecvAuthResultKeeps ==
    ASSUME SessionInv, NEW s \in Flows, NEW ok \in BOOLEAN, NEW expired \in BOOLEAN,
           RecvAuthResult(s, ok, expired)
    PROVE  SessionInv' /\ FinalOutcome
<1> DEFINE a == [client EXCEPT !.credentials = @ \ {s}]
           d == IF Heeds(client, s) THEN HandleAuthResult(a, ok, expired) ELSE a
           stage == IF ok THEN "authed" ELSE "asked"
           peers == [peer EXCEPT ![s] = stage]
<1>1. stage \in Peers
  BY DEF Peers
<1> HIDE DEF stage
<1>2. /\ PageInv(client) /\ client.ws # None /\ client.pendingConnect = None
      /\ peers \in [Flows -> Peers] /\ outdated \in BOOLEAN /\ wanted \in BOOLEAN
  BY <1>1, ArrivalFacts DEF RecvAuthResult
<1>3. /\ Task(d, link, peers) /\ loading' = loading /\ outdated' = outdated
      /\ wanted' = (wanted /\ (ok \/ ~Heeds(client, s)))
  BY DEF RecvAuthResult, stage
<1>4. PageInv(a) /\ Same(client, a) /\ Ends(client, a)
  BY <1>2, AnsweredEnds
<1>5. a.pendingConnect = None
  BY <1>2, <1>4 DEF Same
<1> HIDE DEF a
<1>6. /\ PageInv(d) /\ Ends(client, d)
      /\ Heeds(client, s) /\ ~ok => ~Wanting(d)
  <2>1. CASE Heeds(client, s)
    <3>1. /\ PageInv(d) /\ Ends(a, d)
          /\ ~ok => d.ws = None /\ ~d.running /\ ~d.connecting /\ d.retry = "idle"
      BY <1>4, <1>5, <2>1, AuthResultEnds
    <3> HIDE DEF d
    <3>2. QED
      BY <1>4, <3>1, EndsTransitive DEF Wanting
  <2>2. CASE ~Heeds(client, s)
    BY <1>4, <2>2
  <2>3. QED
    BY <2>1, <2>2
<1> HIDE DEF d, peers
<1>7. /\ wanted' \in BOOLEAN /\ outdated' \in BOOLEAN /\ loading' \subseteq loading
      /\ wanted => wanted' \/ ~Wanting(d)
  BY <1>2, <1>3, <1>6
<1>8. QED
  BY <1>2, <1>3, <1>6, <1>7, EndsStep DEF FinalOutcome

\* The server lets the page in.
LEMMA RecvWelcomeKeeps ==
    ASSUME SessionInv, NEW s \in Flows, RecvWelcome(s) PROVE SessionInv' /\ FinalOutcome
<1> DEFINE e == IF Heeds(client, s) THEN [client EXCEPT !.reload = TRUE] ELSE client
           d == EnterWorld(StartHeartbeat(client))
           peers == [peer EXCEPT ![s] = "inside"]
<1>1. /\ PageInv(client) /\ s = client.ws /\ s # None /\ client.pendingConnect = None
      /\ peers \in [Flows -> Peers] /\ outdated \in BOOLEAN /\ wanted \in BOOLEAN
      /\ link \in [Flows -> Links] /\ loading \in SUBSET Flows
  BY ArrivalFacts DEF RecvWelcome, Peers
<1>2. outdated' = outdated /\ wanted' = wanted
  BY DEF RecvWelcome
<1>3. CASE ~Heeds(client, s) \/ MustReload(client)
  <2>1. Task(e, link, peers) /\ loading' = loading
    BY <1>3 DEF RecvWelcome, HandleWelcome
  <2>2. PageInv(e) /\ Ends(client, e)
    <3>1. CASE Heeds(client, s)
      BY <1>1, <3>1, ReloadEnds
    <3>2. CASE ~Heeds(client, s)
      BY <1>1, <3>2 DEF Ends
    <3>3. QED
      BY <3>1, <3>2
  <2> HIDE DEF e, peers
  <2>3. QED
    BY <1>1, <1>2, <2>1, <2>2, EndsStep DEF FinalOutcome
<1>4. CASE Heeds(client, s) /\ ~MustReload(client)
  <2>1. Task(d, link, peers) /\ loading' = loading \cup {s}
    BY <1>4 DEF RecvWelcome, HandleWelcome
  <2>2. client.ws \notin client.settled \/ client.ws \in client.accepted
    BY <1>1, <1>4 DEF Heeds
  <2>3. /\ PageInv(d) /\ d.running /\ d.ws = client.ws /\ d.flow = client.flow
        /\ d.pendingConnect = None /\ d.settled = client.settled /\ d.accepted = client.accepted
    BY <1>1, <2>2, WelcomeKeeps
  <2> HIDE DEF d, peers
  <2>4. Opening(d, link) /\ d.ws \in client.handlers
    BY <1>1, <2>3 DEF SessionInv, Opening, PageInv, Sockets
  <2>5. \A g \in loading' : (g \in loading /\ g \in d.settled) \/ (g = d.ws /\ d.running)
    BY <1>1, <2>1, <2>3 DEF SessionInv, Loading
  <2>6. Wanting(d) => wanted'
    BY <1>1, <1>2 DEF SessionInv, Wanting
  <2>7. SessionInv' /\ Rests(d, client')
    <3>1. loading' \in SUBSET Flows /\ outdated' \in BOOLEAN /\ wanted' \in BOOLEAN
      BY <1>1, <1>2, <2>1
    <3>2. QED
      BY <1>1, <2>1, <2>3, <2>4, <2>5, <2>6, <3>1, TaskKeeps
  <2>8. QED
    BY <2>3, <2>7 DEF Rests, FinalOutcome
<1>5. QED
  BY <1>3, <1>4

\* The server answers a ping.
LEMMA RecvPongKeeps ==
    ASSUME SessionInv, NEW s \in Flows, RecvPong(s) PROVE SessionInv' /\ FinalOutcome
<1> DEFINE d == IF Heeds(client, s)
                THEN [client EXCEPT !.missedPongs = 0, !.awaitingPong = FALSE] ELSE client
<1>1. PageInv(client) /\ peer \in [Flows -> Peers] /\ outdated \in BOOLEAN /\ wanted \in BOOLEAN
  BY DEF SessionInv
<1>2. Task(d, link, peer) /\ loading' = loading /\ outdated' = outdated /\ wanted' = wanted
  BY DEF RecvPong
<1>3. PageInv(d) /\ Ends(client, d)
  <2>1. CASE Heeds(client, s)
    BY <1>1, <2>1, PongEnds
  <2>2. CASE ~Heeds(client, s)
    BY <1>1, <2>2 DEF Ends
  <2>3. QED
    BY <2>1, <2>2
<1> HIDE DEF d
<1>4. QED
  BY <1>1, <1>2, <1>3, EndsStep DEF FinalOutcome

-----------------------------------------------------------------------------
(* The theorems.                                                           *)

\* Every step of the page, the network and the server keeps the invariant,
\* and takes back no outcome.
LEMMA StepKeeps ==
    ASSUME SessionInv, [Next]_vars PROVE SessionInv' /\ FinalOutcome
<1>1. CASE Next
  <2>1. CASE \E s \in Flows : SocketLost(s) \/ LinkDies(s)
    BY <2>1, NetworkKeeps
  <2>2. CASE \E s \in Flows : FinishLoading(s) \/ SocketOpens(s)
    BY <2>2, FinishLoadingKeeps, SocketOpensKeeps
  <2>3. CASE \E s \in Flows : OpenTimeout(s)
    BY <2>3, TimersKeep
  <2>4. CASE \E s \in Flows : RecvAuthRequired(s) \/ RecvWelcome(s) \/ RecvPong(s)
    BY <2>4, RecvAuthRequiredKeeps, RecvWelcomeKeeps, RecvPongKeeps
  <2>5. CASE \E s \in Flows : \E ok, expired \in BOOLEAN : RecvAuthResult(s, ok, expired)
    BY <2>5, RecvAuthResultKeeps
  <2>6. CASE \/ PressConnect \/ PressDisconnect \/ LogOut \/ EditForm \/ ShowOtherForm
             \/ WelcomeTimeout \/ RetryTimer \/ HeartbeatTick \/ ReloadPage \/ ServerUpgraded
    BY <2>6, PressConnectKeeps, UserKeeps, TimersKeep, RetryTimerKeeps, ReloadPageKeeps,
       NetworkKeeps
  <2>7. QED
    BY <1>1, <2>1, <2>2, <2>3, <2>4, <2>5, <2>6 DEF Next
<1>2. CASE UNCHANGED vars
  <2>1. /\ client' = client /\ loading' = loading /\ outdated' = outdated /\ wanted' = wanted
        /\ peer' = peer /\ link' = link
    BY <1>2 DEF vars
  <2>2. QED
    BY <2>1 DEF SessionInv, PageInv, Sockets, Attempts, Flags, Loading, Wanting, Opening,
                FinalOutcome, PageType
<1>3. QED
  BY <1>1, <1>2

\* The page, its network and its user's wish belong together in every
\* reachable state: the inductive invariant of this module.
THEOREM SessionInvariant == Spec => []SessionInv
<1>1. Init => SessionInv
  BY InitKeeps
<1>2. SessionInv /\ [Next]_vars => SessionInv'
  BY StepKeeps
<1>3. QED
  BY <1>1, <1>2, PTL DEF Spec

\* One socket at most can speak to the page, it is the one in use, and no
\* session runs without its heartbeat.
THEOREM SessionIsConsistent == Spec => []SessionConsistent
<1>1. SessionInv => SessionConsistent
  <2>1. SUFFICES ASSUME SessionInv PROVE SessionConsistent
    OBVIOUS
  <2>2. TypeOK
    BY <2>1 DEF SessionInv, PageInv, PageType, TypeOK
  <2>3. OnlyTheCurrentSocketSpeaks
    BY <2>1 DEF SessionInv, PageInv, Sockets, OnlyTheCurrentSocketSpeaks, IsCurrent
  <2>4. RunningIsWatched
    BY <2>1 DEF SessionInv, PageInv, Flags, RunningIsWatched
  <2>5. QED
    BY <2>2, <2>3, <2>4 DEF SessionConsistent
<1>2. QED
  BY <1>1, SessionInvariant, PTL

\* Whatever failed, was aborted or timed out, the Connect button comes back.
THEOREM ConnectComesBack == Spec => []ConnectIsNeverStuck
<1>1. SessionInv => ConnectIsNeverStuck
  <2>1. SUFFICES ASSUME SessionInv PROVE ConnectIsNeverStuck
    OBVIOUS
  <2>2. Sockets(client) /\ Attempts(client) /\ Flags(client)
    BY <2>1 DEF SessionInv, PageInv
  <2>3. client.connecting =>
             client.flow \in client.openTimers \/ client.welcomeTimer = client.flow
    BY <2>2 DEF Sockets, Attempts
  <2>4. QED
    BY <2>2, <2>3 DEF Flags, ConnectIsNeverStuck
<1>2. QED
  BY <1>1, SessionInvariant, PTL

\* No retry, timer or late welcome brings back who disconnected, logged out or
\* was refused.
THEOREM WhoLeftStaysOut == Spec => []NobodyIsBroughtBack
<1>1. SessionInv => NobodyIsBroughtBack
  BY DEF SessionInv, Wanting, NobodyIsBroughtBack
<1>2. QED
  BY <1>1, SessionInvariant, PTL

\* A connect flow reports one outcome: what was reported as failed is never
\* reported as connected later.
THEOREM OneOutcome == Spec => OutcomeIsFinal
<1>1. SessionInv /\ [Next]_vars =>
          [client.settled \cap client'.accepted \subseteq client.accepted]_vars
  BY StepKeeps DEF FinalOutcome
<1>2. QED
  BY <1>1, SessionInvariant, PTL DEF Spec, OutcomeIsFinal
=============================================================================
