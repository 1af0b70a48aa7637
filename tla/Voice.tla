------------------------------- MODULE Voice -------------------------------
(***************************************************************************)
(* Voice in the browser: the LiveKit room and the voices it brings         *)
(* (webrtc/peerManager.ts, the remote streams of audio/audioEngine.ts) and *)
(* the user's microphone (session/mediaSession.ts, and the sign-in         *)
(* controller's voice permission).                                         *)
(*                                                                         *)
(* `page` is the memory of the page.  Everything that waits for a promise  *)
(* is in it too: a join that connects or publishes, a capture that asks    *)
(* for the device, configures or publishes it, a voice whose element is    *)
(* about to play.  `library` is what LiveKit knows: the state of the rooms *)
(* and, of every person, whether a microphone is published, whether the    *)
(* page asked for it, and whether it was delivered.  LiveKit is taken to   *)
(* answer the requests for one track in their order, and to keep a promise *)
(* of connect() or publishTrack() pending for a bounded time only.         *)
(***************************************************************************)
EXTENDS Naturals, FiniteSets

CONSTANTS
    People,        \* the other people of the grid
    Rooms,         \* names for Room objects, used again when one is forgotten
    Captures,      \* names for localMediaGeneration, used again likewise
    Delays,        \* number of recovery delays; 3 in peerManager.ts
    MaxTokens,     \* bound on the credentials under way
    MaxPlays       \* bound on the pending play() calls of one voice

ASSUME VoiceAssumption ==
    /\ Rooms \subseteq Nat \ {0}  /\ Captures \subseteq Nat \ {0}
    /\ Captures # {}
    /\ Delays \in Nat \ {0} /\ MaxTokens \in Nat \ {0} /\ MaxPlays \in Nat \ {0}

VARIABLES page, library

vars == <<page, library>>

None == 0

NewPage ==
    [ running |-> FALSE, allowed |-> FALSE, muted |-> FALSE,
      tokens |-> 0,           \* credentials under way to the page
      room |-> None,          \* PeerManager.room
      joins |-> [r \in Rooms |-> "none"],   \* pending connectToRoom() calls
      heals |-> {},           \* rooms whose Reconnected handler publishes
      offered |-> FALSE,      \* PeerManager.localTrack is set
      outbound |-> FALSE,     \* PeerManager.outboundTrack is set
      timer |-> "off", attempts |-> 0, recovering |-> FALSE, reported |-> FALSE,
      known |-> {}, near |-> {},            \* the peers; those in earshot
      pending |-> {}, stream |-> {},        \* tracks of strangers; of peers
      voiceLayer |-> TRUE,
      graph |-> [p \in People |-> "none"],  \* the peer's audio graph
      plays |-> [p \in People |-> 0],       \* attachRemoteStream() calls that wait
      orphanPlays |-> {},                   \* the same, for a peer that has gone
      stray |-> {},                         \* connected graphs nobody refers to
      gen |-> CHOOSE g \in Captures : TRUE, \* localMediaGeneration
      local |-> None, enabled |-> FALSE,    \* localStream and its track
      origin |-> "none",                    \* who asked for localStream
      live |-> {},                          \* captures that have not been stopped
      setups |-> {},                        \* pending setupLocalMedia() calls
      preparing |-> 0 ]                     \* setupMediaAfterAuth() lists devices

NewLibrary ==
    [ status |-> [r \in Rooms |-> "none"],
      present |-> {},                       \* people who publish a microphone
      left |-> {},                          \* of them, those who left the grid
      wanted |-> People,                    \* subscribed, as a room begins
      given |-> [p \in People |-> "no"] ]

w == [page |-> page, library |-> library]

Init == page = NewPage /\ library = NewLibrary

-----------------------------------------------------------------------------
(* Remote voices: functions of a state s with the fields page and library. *)

ShouldSubscribe(s, p) == p \in s.page.near

\* AudioEngine.cleanupPeerAudio()
CleanupPeerAudio(s, p) == [s EXCEPT !.page.graph[p] = "none"]

\* AudioEngine.attachRemoteStream() up to the play() it awaits.
Attach(s, p) ==
    [CleanupPeerAudio(s, p) EXCEPT !.page.plays[p] = @ + 1]

\* attachRemoteStream() of the peer manager
AttachRemoteStream(s, p) ==
    LET kept == [CleanupPeerAudio(s, p) EXCEPT !.page.stream = @ \cup {p}]
    IN  IF s.page.voiceLayer THEN Attach(kept, p) ELSE kept

ClearRemoteStream(s, p) ==
    LET cleared == [s EXCEPT !.page.pending = @ \ {p}]
    IN  IF p \notin s.page.known THEN cleared
        ELSE [CleanupPeerAudio(cleared, p) EXCEPT !.page.stream = @ \ {p}]

SetRemoteStream(s, p) ==
    IF p \notin s.page.known THEN [s EXCEPT !.page.pending = @ \cup {p}]
    ELSE IF ShouldSubscribe(s, p) THEN AttachRemoteStream(s, p) ELSE s

\* publication.setSubscribed(): the room will act on it in its own time.
SetSubscribed(s, p, subscribed) ==
    IF subscribed THEN [s EXCEPT !.library.wanted = @ \cup {p}]
    ELSE [s EXCEPT !.library.wanted = @ \ {p},
                   !.library.given[p] = IF @ = "yes" THEN "leaving" ELSE @]

\* room.remoteParticipants holds p, with a publication.
InRoom(s, p) ==
    /\ s.page.room # None /\ p \in s.library.present
    /\ s.library.status[s.page.room] \in {"connected", "interrupted"}

SyncParticipant(s, p) ==
    IF p \notin s.page.known \/ ~InRoom(s, p) THEN s
    ELSE IF ShouldSubscribe(s, p) THEN SetSubscribed(s, p, TRUE)
    ELSE ClearRemoteStream(SetSubscribed(s, p, FALSE), p)

\* Fault: a voice that is not wanted any more plays until the room ends it.
SyncFloorSubscriptionsGently(s) ==
    LET out == {p \in s.page.known : InRoom(s, p) /\ ~ShouldSubscribe(s, p)}
        in == {p \in s.page.known : InRoom(s, p) /\ ShouldSubscribe(s, p)}
    IN  [s EXCEPT
           !.library.wanted = (@ \ out) \cup in,
           !.library.given = [p \in People |->
                                 IF p \in out /\ @[p] = "yes" THEN "leaving" ELSE @[p]]]

\* Fault: who was out of earshot is not asked for again.
SyncFloorSubscriptionsOnce(s) ==
    LET out == {p \in s.page.known : InRoom(s, p) /\ ~ShouldSubscribe(s, p)}
    IN  [s EXCEPT
           !.library.wanted = @ \ out,
           !.library.given = [p \in People |->
                                 IF p \in out /\ @[p] = "yes" THEN "leaving" ELSE @[p]],
           !.page.pending = @ \ out, !.page.stream = @ \ out,
           !.page.graph = [p \in People |-> IF p \in out THEN "none" ELSE @[p]]]

\* syncFloorSubscriptions(): every peer on its own, in one task.
SyncFloorSubscriptions(s) ==
    LET out == {p \in s.page.known : InRoom(s, p) /\ ~ShouldSubscribe(s, p)}
        in == {p \in s.page.known : InRoom(s, p) /\ ShouldSubscribe(s, p)}
    IN  [s EXCEPT
           !.library.wanted = (@ \ out) \cup in,
           !.library.given = [p \in People |->
                                 IF p \in out /\ @[p] = "yes" THEN "leaving" ELSE @[p]],
           !.page.pending = @ \ out, !.page.stream = @ \ out,
           !.page.graph = [p \in People |-> IF p \in out THEN "none" ELSE @[p]]]

EnsurePeer(s, p) ==
    LET added == [s EXCEPT !.page.known = @ \cup {p}, !.page.pending = @ \ {p}]
    IN  IF p \in s.page.known THEN s
        ELSE SyncParticipant(
                 IF p \in s.page.pending /\ ShouldSubscribe(s, p)
                 THEN AttachRemoteStream(added, p) ELSE added, p)

\* removePeer(): what still waits for its element goes on for an orphan.
RemovePeer(s, p) ==
    LET gone == [s EXCEPT !.page.pending = @ \ {p}]
    IN  IF p \notin s.page.known THEN gone
        ELSE [CleanupPeerAudio(gone, p)
                EXCEPT !.page.known = @ \ {p}, !.page.stream = @ \ {p},
                       !.page.plays[p] = 0,
                       !.page.orphanPlays =
                           IF s.page.plays[p] > 0 THEN @ \cup {p} ELSE @]

\* suspendRemoteAudio() and resumeRemoteAudio(); the latter awaits each voice
\* in turn, here all of them begin to wait at once.
SetVoiceLayer(s, enabled) ==
    [s EXCEPT
       !.page.voiceLayer = enabled,
       !.page.graph = [p \in People |->
                          IF p \in s.page.known /\ (enabled => p \in s.page.stream)
                          THEN "none" ELSE @[p]],
       !.page.plays = [p \in People |->
                          IF enabled /\ p \in s.page.stream THEN @[p] + 1 ELSE @[p]]]

-----------------------------------------------------------------------------
(* The room and its recovery.                                              *)

\* Room.disconnect(): a join under way may still come through.
CloseRoom(s, r) ==
    IF r = None THEN s
    ELSE [s EXCEPT !.library.status[r] = IF @ = "connecting" THEN @ ELSE "none"]

\* releaseRoom()
ReleaseRoom(s) ==
    LET closed == CloseRoom(s, s.page.room)
    IN  [closed EXCEPT
           !.page.room = None, !.page.offered = FALSE,
           !.page.pending = {}, !.page.stream = {},
           !.page.graph = [p \in People |-> "none"],
           !.library.wanted = People,
           !.library.given = [p \in People |-> "no"]]

\* Fault: a recovery that goes on is taken for one that has its timer.
ScheduleRecoveryOnce(s) ==
    IF ~s.page.running \/ s.page.recovering THEN s
    ELSE [s EXCEPT !.page.recovering = TRUE, !.page.attempts = 0,
                   !.page.reported = FALSE, !.page.timer = "retry"]

\* scheduleRecovery()
ScheduleRecovery(s) ==
    IF ~s.page.running THEN s
    ELSE LET begun == IF s.page.recovering THEN s
                      ELSE [s EXCEPT !.page.recovering = TRUE, !.page.attempts = 0,
                                     !.page.reported = FALSE]
         IN  IF begun.page.timer # "off" \/ begun.page.reported THEN begun
             ELSE IF begun.page.attempts >= Delays
             THEN [begun EXCEPT !.page.reported = TRUE]
             ELSE [begun EXCEPT !.page.timer = "retry"]

\* recovery.requestToken(): the server answers with fresh credentials.
RequestToken(s) ==
    [s EXCEPT !.page.tokens = IF @ < MaxTokens THEN @ + 1 ELSE @]

\* The callback of the recovery timer.
RecoveryFires(s) ==
    LET fired == [s EXCEPT !.page.timer = "off"]
        tried == [fired EXCEPT !.page.attempts = @ + 1]
    IN  IF ~s.page.running \/ ~s.page.recovering \/ s.page.attempts >= Delays THEN fired
        ELSE RequestToken(
                 IF tried.page.attempts < Delays THEN ScheduleRecovery(tried)
                 ELSE [tried EXCEPT !.page.timer = "giveUp"])

\* The callback of the last timer: reportRecoveryFailure()
GivesUp(s) ==
    [s EXCEPT !.page.timer = "off",
              !.page.reported = @ \/ (s.page.running /\ s.page.recovering)]

\* publishOutboundTrack() has to wait for the room to take a new track.
MustPublish(s) ==
    /\ s.page.room # None /\ s.library.status[s.page.room] = "connected"
    /\ s.page.outbound /\ ~s.page.offered

Publish(s) == IF MustPublish(s) THEN [s EXCEPT !.page.offered = TRUE] ELSE s

\* The end of connectToRoom(), when everything went well.
Joined(s, r) ==
    LET over == [s EXCEPT !.page.joins[r] = "none"]
    IN  IF s.page.room # r THEN over
        ELSE [over EXCEPT !.page.recovering = FALSE, !.page.attempts = 0,
                          !.page.reported = FALSE]

\* Its catch clause.
JoinFailed(s, r) ==
    LET over == [s EXCEPT !.page.joins[r] = "none"]
    IN  IF s.page.room # r THEN over ELSE ScheduleRecovery(ReleaseRoom(over))

\* Fault: the room that was given up is taken for the one in use.
ConnectedUnchecked(s, r) ==
    LET published == Publish(SyncFloorSubscriptions(s))
    IN  IF MustPublish(SyncFloorSubscriptions(s))
        THEN [published EXCEPT !.page.joins[r] = "publishing"]
        ELSE Joined(published, r)

\* connectToRoom() after `await room.connect()`.
Connected(s, r) ==
    IF s.page.room # r
    THEN CloseRoom([s EXCEPT !.page.joins[r] = "none"], r)
    ELSE LET synced == SyncFloorSubscriptions(s)
         IN  IF MustPublish(synced)
             THEN [Publish(synced) EXCEPT !.page.joins[r] = "publishing"]
             ELSE Joined(Publish(synced), r)

\* connectToRoom() up to `await room.connect()`.
ConnectToRoom(s, r) ==
    LET cleared == [s EXCEPT !.page.timer = "off"]
    IN  IF ~s.page.running THEN cleared
        ELSE [ReleaseRoom(cleared)
                EXCEPT !.page.room = r, !.page.joins[r] = "connecting",
                       !.library.status[r] = "connecting"]

\* The Reconnected handler.
Healed(s, r) ==
    IF ~s.page.running THEN s
    ELSE IF MustPublish(s) THEN [Publish(s) EXCEPT !.page.heals = @ \cup {r}]
    ELSE s

\* cleanupAll()
CleanupAll(s) ==
    LET released == ReleaseRoom([s EXCEPT !.page.timer = "off", !.page.recovering = FALSE,
                                          !.page.attempts = 0, !.page.reported = FALSE])
    IN  [released EXCEPT
           !.page.orphanPlays = @ \cup {p \in s.page.known : s.page.plays[p] > 0},
           !.page.plays = [p \in People |-> 0],
           !.page.known = {}, !.page.near = {}, !.page.outbound = FALSE]

-----------------------------------------------------------------------------
(* The microphone.                                                         *)

MicrophoneEnabled(s) == s.page.allowed /\ ~s.page.muted

\* A generation no pending capture has.
Fresh(s) == CHOOSE g \in Captures : \A t \in s.page.setups : t.gen # g

\* stopLocalMedia()
StopLocalMedia(s) ==
    [s EXCEPT !.page.gen = Fresh(s), !.page.local = None, !.page.enabled = FALSE,
              !.page.origin = "none",
              !.page.live = @ \ {s.page.local}]

\* setupLocalMedia() up to the answer of getUserMedia().
SetupLocalMedia(s, by) ==
    LET stopped == StopLocalMedia(s)
    IN  [stopped EXCEPT
           !.page.setups = @ \cup {[gen |-> stopped.page.gen, stage |-> "asking", by |-> by]}]

CanSetUp(s) == Cardinality(s.page.setups) + 1 < Cardinality(Captures)

Drop(s, t) == [s EXCEPT !.page.setups = @ \ {t}]

Advance(s, t, stage) ==
    [s EXCEPT !.page.setups = (@ \ {t}) \cup {[t EXCEPT !.stage = stage]}]

\* Fault: a late capture is not recognised as one.
CapturedLate(s, t) ==
    Advance([s EXCEPT !.page.local = t.gen, !.page.live = @ \cup {t.gen},
                      !.page.enabled = MicrophoneEnabled(s)], t, "configuring")

\* The device answers: a late capture is stopped at once.
Captured(s, t) ==
    IF t.gen # s.page.gen THEN Drop(s, t)
    ELSE Advance([s EXCEPT !.page.local = t.gen, !.page.live = @ \cup {t.gen},
                           !.page.origin = t.by,
                           !.page.enabled = MicrophoneEnabled(s)], t, "configuring")

\* applyVoiceSendPermission() and applyMuteToTrack(), alike in their effect.
ApplyPolicy(s) ==
    IF s.page.local = None THEN s ELSE [s EXCEPT !.page.enabled = MicrophoneEnabled(s)]

\* After configureOutboundStream(): replaceOutgoingTrack(), and what follows
\* in main.ts when nothing has to be awaited.
Configured(s, t) ==
    IF t.gen # s.page.gen THEN ApplyPolicy(Drop(s, t))
    ELSE LET replaced == [s EXCEPT !.page.enabled = MicrophoneEnabled(s),
                                   !.page.outbound = TRUE]
         IN  IF MustPublish(replaced) THEN Advance(Publish(replaced), t, "publishing")
             ELSE ApplyPolicy(Drop(Publish(replaced), t))

\* A capture was refused, or its track could not be published.
SetupFailed(s, t) ==
    LET over == Drop(s, t)
    IN  IF t.by = "fallback" /\ t.gen = s.page.gen /\ s.page.running
        THEN StopLocalMedia(over) ELSE over

-----------------------------------------------------------------------------
(* Tasks of the page.  Become(s) makes s the state; a name of a room is    *)
(* free when no call of its own is pending and the room is closed.         *)

Become(s) == \E next \in {s} : page' = next.page /\ library' = next.library

FreeRooms ==
    {r \in Rooms : /\ page.joins[r] = "none" /\ r \notin page.heals
                   /\ library.status[r] = "none" /\ page.room # r}

\* The welcome of a session; credentials follow it.
Welcome(users, near) ==
    /\ ~page.running /\ users \cap library.left = {}
    /\ LET entered == [w EXCEPT !.page.running = TRUE, !.page.tokens = 1,
                                !.page.near = near, !.page.allowed = TRUE]
           met == [entered EXCEPT !.page.known = users]   \* no room, no track waits
       IN  Become(ApplyPolicy(met))

\* The teardown of a session: stopLocalMedia(), then cleanupAll().
Disconnect ==
    /\ page.running
    /\ Become([CleanupAll(StopLocalMedia(w)) EXCEPT !.page.running = FALSE,
                                                    !.page.tokens = 0])

\* livekit_token: the loop over the peers after a join finds them all known.
RecvToken ==
    /\ page.tokens > 0
    /\ \E r \in FreeRooms :
          Become(ConnectToRoom([w EXCEPT !.page.tokens = @ - 1], r))

JoinResolves(r) ==
    /\ page.joins[r] = "connecting"
    /\ Become(Connected([w EXCEPT !.library.status[r] = "connected"], r))

JoinRejects(r) ==
    /\ page.joins[r] = "connecting"
    /\ Become(JoinFailed([w EXCEPT !.library.status[r] = "none"], r))

\* publishTrack() of a join settles.
JoinPublished(r, taken) ==
    /\ page.joins[r] = "publishing"
    /\ Become(IF taken THEN Joined(w, r) ELSE JoinFailed(w, r))

\* publishTrack() of a Reconnected handler settles.
HealPublished(r, taken) ==
    /\ r \in page.heals
    /\ LET over == [w EXCEPT !.page.heals = @ \ {r}]
       IN  Become(IF taken \/ page.room # r \/ ~page.running THEN over
                  ELSE ScheduleRecovery(ReleaseRoom(over)))

RoomInterrupted(r) ==
    /\ page.room = r /\ library.status[r] = "connected"
    /\ Become([w EXCEPT !.library.status[r] = "interrupted"])

RoomHeals(r) ==
    /\ page.room = r /\ library.status[r] = "interrupted"
    /\ r \notin page.heals
    /\ Become(Healed([w EXCEPT !.library.status[r] = "connected"], r))

\* The Disconnected handler.
RoomLost(r) ==
    /\ page.room = r /\ library.status[r] \in {"connected", "interrupted"}
    /\ Become(ScheduleRecovery(ReleaseRoom(w)))

RecoveryTimer ==
    /\ page.timer # "off"
    /\ Become(IF page.timer = "retry" THEN RecoveryFires(w) ELSE GivesUp(w))

\* update_position of another person, who may be new: the server gives every
\* connection an id of its own, so that who left does not come back as p.
PeerUpdates(p, near) ==
    /\ page.running /\ p \notin library.left
    /\ LET moved == [w EXCEPT !.page.near = IF near THEN @ \cup {p} ELSE @ \ {p}]
       IN  Become(SyncFloorSubscriptions(EnsurePeer(moved, p)))

\* The listener changes floor or zone, or an elevator connects two zones.
ListenerMoves(near) ==
    /\ page.running
    /\ Become(SyncFloorSubscriptions([w EXCEPT !.page.near = near]))

PeerLeaves(p) ==
    /\ p \in page.known
    /\ Become(RemovePeer([w EXCEPT !.page.near = @ \ {p},
                                   !.library.left = IF p \in library.present
                                                    THEN @ \cup {p} ELSE @], p))

ToggleVoiceLayer ==
    /\ \A p \in People : page.plays[p] < MaxPlays
    /\ Become(SetVoiceLayer(w, ~page.voiceLayer))

\* audioElement.play() settles, for a peer or for what was one.
PlayBegins(p) ==
    /\ page.plays[p] > 0
    /\ Become([w EXCEPT !.page.plays[p] = @ - 1,
                        !.page.stray = IF page.graph[p] = "wired" THEN @ \cup {p} ELSE @,
                        !.page.graph[p] = IF page.voiceLayer THEN "wired" ELSE "detached"])

OrphanPlayBegins(p) ==
    /\ p \in page.orphanPlays
    /\ Become([w EXCEPT !.page.orphanPlays = @ \ {p},
                        !.page.stray = IF page.voiceLayer THEN @ \cup {p} ELSE @])

-----------------------------------------------------------------------------
(* The room's events about one person.                                     *)

Hears == page.room # None /\ library.status[page.room] = "connected"

PersonPublishes(p) ==
    /\ p \notin library.present
    /\ LET there == [w EXCEPT !.library.present = @ \cup {p}]
       IN  Become(IF Hears
                  THEN SetSubscribed(there, p, p \in page.known /\ ShouldSubscribe(w, p))
                  ELSE there)

PersonLeavesVoice(p) ==
    /\ p \in library.present
    /\ Become(ClearRemoteStream(
                  [w EXCEPT !.library.present = @ \ {p}, !.library.left = @ \ {p},
                            !.library.given[p] = "no",
                            !.library.wanted = @ \cup {p}], p))

TrackSubscribed(p) ==
    /\ Hears /\ p \in library.present /\ p \in library.wanted
    /\ library.given[p] = "no" /\ page.plays[p] < MaxPlays
    /\ LET arrived == [w EXCEPT !.library.given[p] = "yes"]
       IN  Become(IF p \in page.known /\ ~ShouldSubscribe(w, p)
                  THEN SetSubscribed(arrived, p, FALSE)
                  ELSE SetRemoteStream(arrived, p))

TrackUnsubscribed(p) ==
    /\ Hears /\ library.given[p] = "leaving"
    /\ Become(ClearRemoteStream([w EXCEPT !.library.given[p] = "no"], p))

-----------------------------------------------------------------------------
(* Tasks about the microphone.                                             *)

\* setupMediaAfterAuth() begins: the permission and the devices are awaited.
PrepareMicrophone ==
    /\ page.running /\ page.preparing = 0
    /\ Become([w EXCEPT !.page.preparing = 1])

DevicesListed ==
    /\ page.preparing = 1 /\ CanSetUp(w)
    /\ Become(SetupLocalMedia([w EXCEPT !.page.preparing = 0], "welcome"))

\* The input device is changed in the settings, connected or not.
ChooseInput ==
    /\ CanSetUp(w)
    /\ Become(SetupLocalMedia(w, "settings"))

\* onLocalTrackEnded(): the device was unplugged.
TrackEnded ==
    /\ page.local # None /\ page.local \in page.live /\ CanSetUp(w)
    /\ LET ended == [w EXCEPT !.page.live = @ \ {page.local}]
       IN  Become(IF page.running THEN SetupLocalMedia(ended, "fallback") ELSE ended)

CaptureSettles(t) ==
    \/ t.stage = "asking" /\ \/ Become(Captured(w, t))
                             \/ Become(SetupFailed(w, t))
    \/ t.stage = "configuring" /\ Become(Configured(w, t))
    \/ t.stage = "publishing" /\ \/ Become(ApplyPolicy(Drop(w, t)))
                                 \/ Become(SetupFailed(w, t))

ToggleMute ==
    /\ page.running /\ page.allowed
    /\ Become(ApplyPolicy([w EXCEPT !.page.muted = ~@]))

\* auth_permissions: voice.send is granted or revoked.
RecvPermissions ==
    /\ page.running
    /\ Become(ApplyPolicy([w EXCEPT !.page.allowed = ~@]))

-----------------------------------------------------------------------------
Microphone ==
    \/ PrepareMicrophone \/ DevicesListed \/ ChooseInput \/ TrackEnded
    \/ ToggleMute \/ RecvPermissions
    \/ \E t \in page.setups : CaptureSettles(t)

RoomEvents ==
    \/ RecvToken \/ RecoveryTimer
    \/ \E r \in Rooms :
          \/ JoinResolves(r) \/ JoinRejects(r)
          \/ RoomInterrupted(r) \/ RoomHeals(r) \/ RoomLost(r)
          \/ \E taken \in BOOLEAN : JoinPublished(r, taken) \/ HealPublished(r, taken)

Voices ==
    \/ ToggleVoiceLayer
    \/ \E near \in SUBSET page.known : ListenerMoves(near)
    \/ \E p \in People :
          \/ PeerLeaves(p) \/ PlayBegins(p) \/ OrphanPlayBegins(p)
          \/ PersonPublishes(p) \/ PersonLeavesVoice(p)
          \/ TrackSubscribed(p) \/ TrackUnsubscribed(p)
          \/ \E near \in BOOLEAN : PeerUpdates(p, near)

Sessions ==
    \/ Disconnect
    \/ \E users \in SUBSET People : \E near \in SUBSET users : Welcome(users, near)

Next == Sessions \/ RoomEvents \/ Voices \/ Microphone

Spec == Init /\ [][Next]_vars

\* The page's timers fire, and LiveKit settles what it was asked for.
Fairness ==
    /\ WF_vars(RecoveryTimer)
    /\ \A r \in Rooms :
          /\ WF_vars(JoinResolves(r) \/ JoinRejects(r))
          /\ WF_vars(\E taken \in BOOLEAN : JoinPublished(r, taken))
    /\ \A p \in People :
          /\ WF_vars(TrackSubscribed(p)) /\ WF_vars(TrackUnsubscribed(p))
          /\ WF_vars(PlayBegins(p))

FairSpec == Spec /\ Fairness
-----------------------------------------------------------------------------
(* Properties.                                                             *)

Stages == {"asking", "configuring", "publishing"}

\* The page and the library have the shape the functions above expect; there
\* are never more attempts than delays.
TypeOK ==
    /\ page.room \in Rooms \cup {None}
    /\ page.joins \in [Rooms -> {"none", "connecting", "publishing"}]
    /\ page.heals \subseteq Rooms
    /\ page.timer \in {"off", "retry", "giveUp"} /\ page.attempts \in 0 .. Delays
    /\ page.tokens \in 0 .. MaxTokens
    /\ page.known \subseteq People /\ page.near \subseteq page.known
    /\ page.graph \in [People -> {"none", "detached", "wired"}]
    /\ page.plays \in [People -> 0 .. MaxPlays]
    /\ page.gen \in Captures /\ page.local \in Captures \cup {None}
    /\ page.live \subseteq Captures
    /\ \A t \in page.setups : t.gen \in Captures /\ t.stage \in Stages
    /\ library.status \in [Rooms -> {"none", "connecting", "connected", "interrupted"}]
    /\ library.given \in [People -> {"no", "yes", "leaving"}]

\* The tracks the page keeps are those of known people in earshot, though
\* tracks arrive after the zone was left, before the person is known, or after
\* both.
TracksAreInEarshot ==
    /\ page.stream \subseteq page.known \cap page.near
    /\ page.pending \cap page.known = {}
    /\ page.room = None => page.stream \cup page.pending = {}

\* A kept track sounds or waits for its element, and with the layer off nobody
\* sounds, though an element may begin to play after any change of the layer.
GraphsFollowTheLayer ==
    /\ \A p \in page.stream :
          page.voiceLayer => page.graph[p] = "wired" \/ page.plays[p] > 0
    /\ \A p \in People :
          page.graph[p] = "wired" => page.voiceLayer /\ p \in page.known

\* What the page keeps of the voices belongs together.  It does not say that
\* who is wired is in earshot: an element that begins to play after its track
\* was given up is wired all the same, and the next frame sets its gain, nought
\* out of earshot.  Nor does it tell the tracks of one person apart.
VoicesConsistent == TracksAreInEarshot /\ GraphsFollowTheLayer

\* However joins, releases and credentials race, no room is left open but the
\* one in use; a join that was given up closes its room when it comes through.
OneRoom ==
    \A r \in Rooms : library.status[r] \in {"connected", "interrupted"} => r = page.room

\* A microphone that is ready is offered to the room whenever the room is
\* connected, whichever of the two became ready first or was interrupted.
MicrophoneIsOffered ==
    Hears /\ page.outbound => page.offered

\* While voice recovers something is under way that will end the recovery: a
\* timer, a join, or the user has been told that it failed.
RecoveryIsDriven ==
    page.running /\ page.recovering =>
        page.timer # "off" \/ page.room # None \/ page.reported

\* Failure is reported when every attempt was used, and never before.
FailureIsLast ==
    page.reported => page.recovering /\ page.attempts = Delays

\* Rooms, joins, timers and attempts belong together.
RoomConsistent == TypeOK /\ OneRoom /\ RecoveryIsDriven /\ FailureIsLast

\* No capture records but the one in use: late and replaced ones are stopped.
OnlyTheLatestCaptureLives == page.live \subseteq {page.local}

\* The track in use is enabled exactly when the account may speak and the user
\* is not muted, also while a capture is only half set up.
MicrophoneFollowsPolicy ==
    page.local # None => page.enabled = (page.allowed /\ ~page.muted)

\* One microphone, open as the account and the user want it, in the room as
\* soon as there is one, however captures, mutes and joins cross.
MicrophoneConsistent ==
    OnlyTheLatestCaptureLives /\ MicrophoneFollowsPolicy /\ MicrophoneIsOffered

\* A recovery ends: with a room, with the report of its failure, or with the
\* session.
RecoveryEnds == page.recovering ~> (~page.recovering \/ page.reported)

Audible(p) ==
    /\ page.running /\ Hears /\ \A r \in Rooms : page.joins[r] = "none"
    /\ p \in page.known \cap page.near /\ p \in library.present

Sounds(p) == p \in page.stream /\ (page.voiceLayer => page.graph[p] = "wired")

\* Whoever speaks in earshot is heard, unless the layer is off, in whatever
\* order the grid and the room told of the person, of the zone and of the track.
VoicesInEarshotAreHeard ==
    \A p \in People : Audible(p) ~> (Sounds(p) \/ ~Audible(p))

\* docs/runtime-flow.md:106: "Late captures after cleanup or a newer device
\* selection are discarded."  A device chosen in the settings is not late.
LateCapturesAreDiscarded ==
    page.local # None /\ ~page.running =>
        page.local \notin page.live \/ page.origin = "settings"

\* docs/audio-architecture.md:28: "Voice: remote peer audio graph is detached;
\* resumes by reattaching stored remote streams."  A graph whose place in the
\* peer was taken by that of a later play() stays connected.
LayerOffDetaches ==
    ~page.voiceLayer => \A p \in page.stream : page.graph[p] # "wired" /\ p \notin page.stray
=============================================================================
