------------------------------ MODULE Session ------------------------------
(***************************************************************************)
(* The browser's way into and out of the grid: the WebSocket wrapper       *)
(* (network/signalingClient.ts), the connect and disconnect flows          *)
(* (session/connectionFlow.ts), the retry loop (session/reconnect.ts), the *)
(* sign-in controller (session/authController.ts), and the part of main.ts *)
(* that owns the heartbeat, the abort controllers and the welcome.         *)
(*                                                                         *)
(* The page is single threaded: one action is one browser task (an event   *)
(* handler or a timer) together with the promise reactions that run before *)
(* the next task.  `client` is the memory of the page; operators from      *)
(* records to records stand for the functions the handlers call, in the    *)
(* order in which they call them.  A connect flow, and the socket it       *)
(* opens, have the same name; a name is free again when nothing is left of *)
(* the flow: no handler, no loading welcome, no abort controller.          *)
(***************************************************************************)
EXTENDS Naturals, FiniteSets

CONSTANTS
    Flows,         \* names for the connect flows, used again when one is over
    MaxTries,      \* attempts of a reconnect sequence; 3 in reconnect.ts
    StaleAfter     \* missed pongs that make a link stale; 2 in reconnectPolicy.ts

ASSUME BoundsAssumption ==
    /\ Flows \subseteq Nat \ {0}
    /\ MaxTries \in Nat \ {0}  /\ StaleAfter \in Nat \ {0}

VARIABLES
    client,        \* the page: sockets, flow, timers, sign-in form, flags
    link,          \* link[s]: what the network has made of socket s
    peer,          \* peer[s]: how far the server has come with socket s
    loading,       \* flows whose welcome handler awaits the first audio refresh
    outdated,      \* the server now expects another build of the client
    wanted         \* history: the user connected, and has not left since

vars == <<client, link, peer, loading, outdated, wanted>>

None == 0

Links == {"closed", "connecting", "open", "dead"}
Peers == {"hello", "asked", "authed", "inside"}

-----------------------------------------------------------------------------
(* The page before anything is connected.                                  *)

NewPage ==
    [ flow       |-> 0,       \* the newest connect flow
      gen        |-> 0,       \* socketGeneration: the newest socket
      ws         |-> None,    \* SignalingClient.ws
      handlers   |-> {},      \* sockets whose on... handlers are attached
      cleanup    |-> None,    \* socket that activeSocketCleanup would clean up
      pendingConnect |-> None,
      openTimers |-> {},      \* sockets with a live ten-second timer
      settled    |-> {}, accepted |-> {}, aborted |-> {},   \* of the flows
      welcomeTimer   |-> None,   \* flow whose eight-second timer runs
      connectionAbort |-> None,  \* flow that connectionAbort would abort
      credentials |-> {},     \* sockets that carry an unanswered sign-in packet
      retry      |-> "idle",  \* "idle", "waiting" or "trying"
      attempt    |-> 0,
      running    |-> FALSE,
      connecting |-> FALSE,
      disabled   |-> FALSE,   \* connectButton.disabled
      heartbeat  |-> FALSE, awaitingPong |-> FALSE, missedPongs |-> 0,
      authMode   |-> "login",
      filled     |-> FALSE,   \* the visible form makes a sign-in packet
      hint       |-> FALSE,   \* a saved account name
      pendingAuth |-> FALSE,
      reload     |-> FALSE ]  \* reloadScheduledForVersionMismatch

Init ==
    /\ client = NewPage
    /\ link = [s \in Flows |-> "closed"]
    /\ peer = [s \in Flows |-> "hello"]
    /\ loading = {}
    /\ outdated = FALSE
    /\ wanted = FALSE

-----------------------------------------------------------------------------
(* Functions of the page.                                                  *)

\* updateConnectAvailability(): the state of the Connect button.
UpdateConnectAvailability(c) ==
    [c EXCEPT !.disabled =
        \/ c.running
        \/ c.connecting
        \/ c.authMode = "register" /\ ~c.filled]

\* cleanupSocket(): detach the handlers and forget the socket.
CleanupSocket(c, s) ==
    [c EXCEPT !.openTimers = @ \ {s},
              !.handlers = @ \ {s},
              !.ws = IF @ = s /\ c.gen = s THEN None ELSE @,
              !.cleanup = IF @ = s THEN None ELSE @]

ActiveSocketCleanup(c) ==
    IF c.cleanup = None THEN c ELSE CleanupSocket(c, c.cleanup)

\* Fault: the reference to the socket is dropped, its handlers stay attached.
SignalingForget(c) ==
    [c EXCEPT !.pendingConnect = None, !.cleanup = None, !.ws = None]

\* SignalingClient.disconnect(); the rejected promise reaches a settled flow.
SignalingDisconnect(c) ==
    [ActiveSocketCleanup([c EXCEPT !.pendingConnect = None])
        EXCEPT !.cleanup = None, !.ws = None]

\* Fault: a flow that has ended can end again.
FinishAgain(c, f, connected) ==
    IF f = None THEN c
    ELSE IF connected
    THEN [c EXCEPT !.settled = @ \cup {f}, !.accepted = @ \cup {f},
                   !.welcomeTimer = IF @ = f THEN None ELSE @]
    ELSE UpdateConnectAvailability(
             [SignalingDisconnect([c EXCEPT !.settled = @ \cup {f}])
                EXCEPT !.connecting = FALSE])

\* finish() of a connect flow: only its first call counts.
Finish(c, f, connected) ==
    IF f = None \/ f \in c.settled THEN c
    ELSE LET ended == [c EXCEPT !.settled = @ \cup {f},
                                !.accepted = IF connected THEN @ \cup {f} ELSE @,
                                !.welcomeTimer = IF @ = f THEN None ELSE @]
         IN  IF connected THEN ended
             ELSE UpdateConnectAvailability(
                      [SignalingDisconnect(ended) EXCEPT !.connecting = FALSE])

\* controller.abort(): the flow's cancel listener runs synchronously.
Abort(c, f) ==
    IF f = None THEN c
    ELSE Finish([c EXCEPT !.aborted = @ \cup {f}], f, FALSE)

\* Fault: the retry loop is not told that the user left.
CancelNothing(c) == c

\* cancelReconnect(): a wait ends at once, a pending attempt is aborted.
CancelReconnect(c) ==
    LET idle == [c EXCEPT !.retry = "idle", !.attempt = 0]
    IN  IF c.retry = "trying" THEN Abort(idle, c.connectionAbort) ELSE idle

\* stopHeartbeat()
StopHeartbeat(c) ==
    [c EXCEPT !.heartbeat = FALSE, !.awaitingPong = FALSE, !.missedPongs = 0]

\* runDisconnectFlow(): the media, peer and world state is in other modules.
RunDisconnectFlow(c) ==
    UpdateConnectAvailability(
        [SignalingDisconnect(c) EXCEPT !.running = FALSE, !.connecting = FALSE])

\* disconnect() of main.ts
Disconnect(c) ==
    LET cancelled == CancelReconnect(c)
        aborted == [Abort(cancelled, cancelled.connectionAbort)
                        EXCEPT !.connectionAbort = None]
    IN  RunDisconnectFlow(StopHeartbeat(aborted))

\* reconnectWithRetry(): tear the session down, then wait before attempt 1.
ReconnectWithRetry(c) ==
    IF c.retry # "idle" \/ ~c.running THEN c
    ELSE [Disconnect(c) EXCEPT !.retry = "waiting", !.attempt = 1]

\* handleSignalingStatus('Disconnected.')
HandleDisconnectedStatus(c) ==
    IF c.running /\ c.retry = "idle" THEN ReconnectWithRetry(c) ELSE c

\* The body of the loop of runReconnectAttempts() after `await connect()`.
AfterAttempt(c, connected) ==
    IF connected \/ c.attempt >= MaxTries
    THEN [c EXCEPT !.retry = "idle", !.attempt = 0]
    ELSE [c EXCEPT !.retry = "waiting", !.attempt = @ + 1]

\* Promise reactions: a settled attempt resumes the loop that awaits it.
Reactions(c) ==
    IF c.retry = "trying" /\ c.flow \in c.settled
    THEN AfterAttempt(c, c.flow \in c.accepted)
    ELSE c

\* sendAuthRequest(): without a filled form the saved session must do.
SendAuthRequest(c) ==
    IF c.filled THEN [c EXCEPT !.pendingAuth = TRUE, !.credentials = @ \cup {c.ws}]
    ELSE UpdateConnectAvailability(
             [c EXCEPT !.pendingAuth = FALSE, !.connecting = FALSE])

\* Fault: no timer is set for the welcome.
AwaitWelcomeForever(c, f) ==
    IF f \in c.settled THEN c ELSE SendAuthRequest(c)

\* The reaction of a flow to an open socket: wait for the welcome, sign in.
AwaitWelcome(c, f) ==
    IF f \in c.settled THEN c
    ELSE SendAuthRequest([c EXCEPT !.welcomeTimer = f])

\* SignalingClient.connect(): an open or a pending socket is used again.
SignalingConnect(c, f) ==
    IF c.ws # None /\ link[c.ws] = "open" THEN AwaitWelcome(c, f)
    ELSE IF c.pendingConnect # None /\ c.ws = c.pendingConnect THEN c
    ELSE [ActiveSocketCleanup(c)
            EXCEPT !.gen = f, !.ws = f, !.cleanup = f, !.pendingConnect = f,
                   !.handlers = @ \cup {f}, !.openTimers = @ \cup {f}]

\* connectAttempt() and runConnectFlow(); a refused call answers FALSE at once.
MayStartFlow(c) == ~c.connecting /\ ~c.running

ConnectAttempt(c, f) ==
    IF MayStartFlow(c)
    THEN SignalingConnect(
             UpdateConnectAvailability(
                 [c EXCEPT !.flow = f, !.connectionAbort = f, !.connecting = TRUE,
                           !.settled = @ \ {f}, !.accepted = @ \ {f},
                           !.aborted = @ \ {f}]), f)
    ELSE [c EXCEPT !.connectionAbort = None]

\* isCurrentSocket()
IsCurrent(c, s) == c.ws = s /\ c.gen = s

\* failUnexpectedly() and onclose: end the flow, then report the loss.
SocketGone(c, s) ==
    IF ~IsCurrent(c, s) THEN CleanupSocket(c, s)
    ELSE LET gone == Finish(
                         CleanupSocket(
                             [c EXCEPT !.pendingConnect = IF @ = s THEN None ELSE @],
                             s),
                         s, FALSE)
         IN  HandleDisconnectedStatus(gone)

\* The filter in front of every message of a flow's socket.
Heeds(c, s) ==
    /\ IsCurrent(c, s)
    /\ s \notin c.aborted
    /\ s \notin c.settled \/ s \in c.accepted

\* A version mismatch schedules one reload of the page.
MustReload(c) == outdated /\ ~c.reload

\* setAuthMode()
SetAuthMode(c, mode) == UpdateConnectAvailability([c EXCEPT !.authMode = mode])

\* resetSavedSessionHint(): both user name fields are emptied.
ResetSavedSessionHint(c) == [c EXCEPT !.hint = FALSE, !.filled = FALSE]

\* handleAuthRequired(): answer with the form unless an answer is under way.
HandleAuthRequired(c) ==
    LET idle == [c EXCEPT !.pendingAuth = FALSE]
    IN  IF c.pendingAuth THEN idle
        ELSE IF c.filled
        THEN [idle EXCEPT !.pendingAuth = TRUE, !.credentials = @ \cup {c.ws}]
        ELSE UpdateConnectAvailability(
                 [(IF c.hint THEN SetAuthMode(ResetSavedSessionHint(idle), "login")
                   ELSE idle) EXCEPT !.connecting = FALSE])

\* handleAuthResult(): a refusal ends the connection and the retries.
HandleAuthResult(c, ok, expired) ==
    LET answered == [c EXCEPT !.pendingAuth = FALSE, !.filled = FALSE]
    IN  IF ok THEN [answered EXCEPT !.hint = TRUE]
        ELSE Disconnect(
                 UpdateConnectAvailability(
                     [(IF expired THEN ResetSavedSessionHint(answered) ELSE answered)
                        EXCEPT !.connecting = FALSE]))

\* startHeartbeat(): a first ping, then one every interval.
StartHeartbeat(c) ==
    [StopHeartbeat(c) EXCEPT !.heartbeat = TRUE, !.awaitingPong = TRUE]

\* What onAppMessage(welcome) does before its first await.
EnterWorld(c) ==
    UpdateConnectAvailability([c EXCEPT !.running = TRUE, !.connecting = FALSE])

\* onSignalingMessage(welcome) up to that await.
HandleWelcome(c) ==
    IF MustReload(c) THEN [c EXCEPT !.reload = TRUE]
    ELSE EnterWorld(StartHeartbeat(c))

\* Fault: every ping sent counts as answered.
HeartbeatDeaf(c) == IF ~c.running THEN c ELSE [c EXCEPT !.awaitingPong = TRUE]

\* The interval of startHeartbeat(), with nextHeartbeatState().
Heartbeat(c) ==
    IF ~c.running THEN c
    ELSE LET missed == IF c.awaitingPong THEN c.missedPongs + 1 ELSE 0
             stale == missed >= StaleAfter
             counted == [c EXCEPT !.missedPongs = IF stale THEN StaleAfter ELSE missed]
         IN  IF stale THEN ReconnectWithRetry(counted)
             ELSE [counted EXCEPT !.awaitingPong = TRUE]

\* The flows of which something is left.
Asked(c) == c.handlers \cup loading \cup ({c.flow, c.connectionAbort} \ {None})

-----------------------------------------------------------------------------
(* One task of the page: the handler's effect, the promise reactions after *)
(* it, and what becomes of the sockets it opened or closed.  What is known *)
(* of a flow is forgotten when nothing of it is left that could ask.       *)

Forget(c) ==
    [c EXCEPT !.settled = @ \cap Asked(c), !.accepted = @ \cap Asked(c),
              !.aborted = @ \cap Asked(c), !.credentials = @ \cap c.handlers]

Task(c, links, peers) ==
    \E handled \in {c} : \E woken \in {Reactions(handled)} :
    \E after \in {Forget(woken)} :
        /\ client' = after
        /\ link' = [s \in Flows |->
                       IF s \notin after.handlers THEN "closed"
                       ELSE IF s \in client.handlers THEN links[s] ELSE "connecting"]
        /\ peer' = [s \in Flows |->
                       IF s \in after.handlers THEN peers[s] ELSE "hello"]

-----------------------------------------------------------------------------
(* What the user does.                                                     *)

\* connect(): the button, or Enter in the form.
PressConnect ==
    /\ ~client.disabled /\ ~client.running
    /\ wanted' = TRUE
    /\ LET alone == CancelReconnect(client)
           ready == Abort(alone, alone.connectionAbort)
       IN  \E f \in Flows \ Asked(ready) : Task(ConnectAttempt(ready, f), link, peer)
    /\ UNCHANGED <<loading, outdated>>

\* The Disconnect button, also shown while retries are under way.
PressDisconnect ==
    /\ client.running \/ client.retry # "idle"
    /\ wanted' = FALSE
    /\ Task(Disconnect(client), link, peer)
    /\ UNCHANGED <<loading, outdated>>

\* logOutAccount()
LogOut ==
    /\ client.running \/ client.hint
    /\ wanted' = FALSE
    /\ Task(SetAuthMode(Disconnect([client EXCEPT !.hint = FALSE]), "login"), link, peer)
    /\ UNCHANGED <<loading, outdated>>

\* The two forms of the sign-in view.
EditForm ==
    /\ ~client.running /\ ~client.hint
    /\ Task(UpdateConnectAvailability([client EXCEPT !.filled = ~@]), link, peer)
    /\ UNCHANGED <<loading, outdated, wanted>>

ShowOtherForm ==
    /\ ~client.running /\ ~client.hint
    /\ \E filled \in BOOLEAN :
          Task(SetAuthMode([client EXCEPT !.filled = filled],
                           IF client.authMode = "login" THEN "register" ELSE "login"),
               link, peer)
    /\ UNCHANGED <<loading, outdated, wanted>>

-----------------------------------------------------------------------------
(* Timers of the page.                                                     *)

OpenTimeout(s) ==
    /\ s \in client.openTimers /\ link[s] # "open"
    /\ LET fired == [client EXCEPT !.openTimers = @ \ {s}]
           failed == CleanupSocket(
                         [fired EXCEPT !.pendingConnect = IF @ = s THEN None ELSE @], s)
       IN  Task(IF IsCurrent(fired, s) THEN Finish(failed, s, FALSE) ELSE fired,
                link, peer)
    /\ UNCHANGED <<loading, outdated, wanted>>

WelcomeTimeout ==
    /\ client.welcomeTimer # None
    /\ Task(Finish(client, client.welcomeTimer, FALSE), link, peer)
    /\ UNCHANGED <<loading, outdated, wanted>>

\* waitForRetry() ends after five seconds or when the page becomes visible.
RetryTimer ==
    /\ client.retry = "waiting"
    /\ \E f \in Flows \ Asked(client) :
         LET trying == ConnectAttempt([client EXCEPT !.retry = "trying"], f)
         IN  Task(IF MayStartFlow(client) THEN trying ELSE AfterAttempt(trying, FALSE),
                  link, peer)
    /\ UNCHANGED <<loading, outdated, wanted>>

HeartbeatTick ==
    /\ client.heartbeat
    /\ Task(Heartbeat(client), link, peer)
    /\ UNCHANGED <<loading, outdated, wanted>>

ReloadPage ==
    /\ client.reload
    /\ Task([NewPage EXCEPT !.hint = client.hint], link, peer)
    /\ loading' = {} /\ outdated' = FALSE /\ wanted' = FALSE

\* The first audio refresh of flow f is done: the rest of the welcome.
FinishLoading(f) ==
    /\ f \in loading
    /\ loading' = loading \ {f}
    /\ Task(IF f \in client.aborted THEN client ELSE Finish(client, f, TRUE), link, peer)
    /\ UNCHANGED <<outdated, wanted>>

-----------------------------------------------------------------------------
(* The network and the server.                                             *)

SocketOpens(s) ==
    /\ s \in client.handlers /\ link[s] = "connecting"
    /\ LET settled == [client EXCEPT !.openTimers = @ \ {s},
                                     !.pendingConnect = IF @ = s THEN None ELSE @]
       IN  Task(IF IsCurrent(client, s) THEN AwaitWelcome(settled, s)
                ELSE CleanupSocket(client, s),
                [link EXCEPT ![s] = "open"], peer)
    /\ UNCHANGED <<loading, outdated, wanted>>

\* onerror or onclose
SocketLost(s) ==
    /\ s \in client.handlers /\ link[s] \in {"connecting", "open", "dead"}
    /\ Task(SocketGone(client, s), link, peer)
    /\ UNCHANGED <<loading, outdated, wanted>>

\* A half-open link: nothing arrives any more and no event says so.
LinkDies(s) ==
    /\ s \in client.handlers /\ link[s] = "open"
    /\ link' = [link EXCEPT ![s] = "dead"]
    /\ UNCHANGED <<client, peer, loading, outdated, wanted>>

ServerUpgraded ==
    /\ ~outdated
    /\ outdated' = TRUE
    /\ UNCHANGED <<client, link, peer, loading, wanted>>

Arrives(s, stages) ==
    s \in client.handlers /\ link[s] = "open" /\ peer[s] \in stages

RecvAuthRequired(s) ==
    /\ Arrives(s, {"hello"})
    /\ Task(IF ~Heeds(client, s) THEN client
            ELSE IF MustReload(client) THEN [client EXCEPT !.reload = TRUE]
            ELSE HandleAuthRequired(client),
            link, [peer EXCEPT ![s] = "asked"])
    /\ UNCHANGED <<loading, outdated, wanted>>

\* The answer to a sign-in packet, or to the saved session of the cookie.
RecvAuthResult(s, ok, expired) ==
    /\ Arrives(s, IF s \in client.credentials THEN {"hello", "asked"} ELSE {"hello"})
    /\ LET answered == [client EXCEPT !.credentials = @ \ {s}]
       IN  Task(IF Heeds(client, s) THEN HandleAuthResult(answered, ok, expired)
                ELSE answered,
                link, [peer EXCEPT ![s] = IF ok THEN "authed" ELSE "asked"])
    /\ wanted' = (wanted /\ (ok \/ ~Heeds(client, s)))
    /\ UNCHANGED <<loading, outdated>>

RecvWelcome(s) ==
    /\ Arrives(s, {"authed"})
    /\ Task(IF Heeds(client, s) THEN HandleWelcome(client) ELSE client,
            link, [peer EXCEPT ![s] = "inside"])
    /\ loading' = IF Heeds(client, s) /\ ~MustReload(client)
                  THEN loading \cup {s} ELSE loading
    /\ UNCHANGED <<outdated, wanted>>

RecvPong(s) ==
    /\ Arrives(s, {"inside"}) /\ client.awaitingPong
    /\ Task(IF Heeds(client, s)
            THEN [client EXCEPT !.missedPongs = 0, !.awaitingPong = FALSE] ELSE client,
            link, peer)
    /\ UNCHANGED <<loading, outdated, wanted>>

-----------------------------------------------------------------------------
Next ==
    \/ PressConnect \/ PressDisconnect \/ LogOut \/ EditForm \/ ShowOtherForm
    \/ WelcomeTimeout \/ RetryTimer \/ HeartbeatTick \/ ReloadPage
    \/ ServerUpgraded
    \/ \E s \in Flows :
          \/ OpenTimeout(s) \/ FinishLoading(s)
          \/ SocketOpens(s) \/ SocketLost(s) \/ LinkDies(s)
          \/ RecvAuthRequired(s) \/ RecvWelcome(s) \/ RecvPong(s)
          \/ \E ok, expired \in BOOLEAN : RecvAuthResult(s, ok, expired)

Spec == Init /\ [][Next]_vars

\* The browser fires its timers and finishes loading; the rest may never come.
Fairness ==
    /\ WF_vars(WelcomeTimeout) /\ WF_vars(RetryTimer) /\ WF_vars(HeartbeatTick)
    /\ \A s \in Flows : WF_vars(OpenTimeout(s)) /\ WF_vars(FinishLoading(s))

FairSpec == Spec /\ Fairness
-----------------------------------------------------------------------------
(* Properties.                                                             *)

\* The page's memory has the shape the functions above expect.
TypeOK ==
    /\ client \in
         [ flow : Flows \cup {None}, gen : Flows \cup {None}, ws : Flows \cup {None},
           handlers : SUBSET Flows, cleanup : Flows \cup {None},
           pendingConnect : Flows \cup {None}, openTimers : SUBSET Flows,
           settled : SUBSET Flows, accepted : SUBSET Flows, aborted : SUBSET Flows,
           welcomeTimer : Flows \cup {None}, connectionAbort : Flows \cup {None},
           credentials : SUBSET Flows,
           retry : {"idle", "waiting", "trying"}, attempt : 0 .. MaxTries,
           running : BOOLEAN, connecting : BOOLEAN, disabled : BOOLEAN,
           heartbeat : BOOLEAN, awaitingPong : BOOLEAN,
           missedPongs : 0 .. StaleAfter,
           authMode : {"login", "register"}, filled : BOOLEAN, hint : BOOLEAN,
           pendingAuth : BOOLEAN, reload : BOOLEAN ]
    /\ link \in [Flows -> Links] /\ peer \in [Flows -> Peers]
    /\ loading \in SUBSET Flows
    /\ outdated \in BOOLEAN /\ wanted \in BOOLEAN

\* A socket that was replaced or given up can never speak to the page again:
\* whatever its handlers are still attached to is the socket in use.
OnlyTheCurrentSocketSpeaks ==
    /\ \A s \in client.handlers : IsCurrent(client, s) /\ client.cleanup = s
    /\ client.ws # None => client.ws \in client.handlers

\* While the Connect button is held back a timer is running that will give it
\* back, and it is held back for nothing else but an incomplete registration.
ConnectIsNeverStuck ==
    /\ client.connecting =>
         \/ client.flow \in client.openTimers
         \/ client.welcomeTimer = client.flow
    /\ client.disabled =>
         \/ client.running \/ client.connecting
         \/ client.authMode = "register" /\ ~client.filled

\* Nobody is brought back into the grid, or kept connecting, who pressed
\* Disconnect, logged out or was refused, however many retries, timers and
\* half-loaded welcomes were under way.
NobodyIsBroughtBack ==
    client.running \/ client.connecting \/ client.retry # "idle" => wanted

\* Every running session is watched: the welcome starts the heartbeat before
\* the session runs, and only the teardown stops it.
RunningIsWatched == client.running => client.heartbeat

\* What the page holds of its sockets, flows and timers belongs together: one
\* socket that can speak, and no session that nobody watches.
SessionConsistent == TypeOK /\ OnlyTheCurrentSocketSpeaks /\ RunningIsWatched

\* A flow that was reported as failed is never reported as connected later,
\* though its welcome may still be loading when it fails.
OutcomeIsFinal ==
    [][client.settled \cap client'.accepted \subseteq client.accepted]_vars

\* The link of a running session is lost, silently or while the welcome was
\* loading during a retry, when the server can no longer be heard.
Unheard ==
    client.running /\ (client.ws = None \/ link[client.ws] = "dead")

\* A session that has lost its server is torn down in the end.
LostLinksAreNoticed == Unheard ~> ~Unheard

\* A reconnect sequence ends, with a session or without.
ReconnectEnds == (client.retry # "idle") ~> (client.retry = "idle")

\* Whatever becomes of its links, a page comes to know where it stands.
SessionSettles == LostLinksAreNoticed /\ ReconnectEnds
=============================================================================
