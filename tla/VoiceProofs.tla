----------------------------- MODULE VoiceProofs -----------------------------
(***************************************************************************)
(* The tracks kept are those of people in earshot and they follow the      *)
(* layer of voices, one room is open and its recovery is driven to an end, *)
(* and one microphone is open as it should be: for any people, rooms,      *)
(* captures and delays, and for the whole next-state relation.             *)
(*                                                                         *)
(* The code's functions are composed of each other, and so are their       *)
(* lemmas.  Each says what a function changes (... Is) or what it keeps of *)
(* the invariant (... Keeps); Quiet, Aside, Timing and Booked are the      *)
(* steps that leave alone what the lemma does not name.                    *)
(***************************************************************************)
EXTENDS Voice, TLAPS, FiniteSetTheorems

\* The shape of the two variables.
PageType ==
    [ running : BOOLEAN, allowed : BOOLEAN, muted : BOOLEAN, tokens : 0 .. MaxTokens,
      room : Rooms \cup {None},
      joins : [Rooms -> {"none", "connecting", "publishing"}], heals : SUBSET Rooms,
      offered : BOOLEAN, outbound : BOOLEAN,
      timer : {"off", "retry", "giveUp"}, attempts : 0 .. Delays,
      recovering : BOOLEAN, reported : BOOLEAN,
      known : SUBSET People, near : SUBSET People,
      pending : SUBSET People, stream : SUBSET People, voiceLayer : BOOLEAN,
      graph : [People -> {"none", "detached", "wired"}],
      plays : [People -> 0 .. MaxPlays], orphanPlays : SUBSET People, stray : SUBSET People,
      gen : Captures, local : Captures \cup {None}, enabled : BOOLEAN,
      origin : {"none", "welcome", "settings", "fallback"}, live : SUBSET Captures,
      setups : SUBSET [gen : Captures, stage : Stages, by : {"welcome", "settings", "fallback"}],
      preparing : {0, 1} ]

LibraryType ==
    [ status : [Rooms -> {"none", "connecting", "connected", "interrupted"}],
      present : SUBSET People, left : SUBSET People, wanted : SUBSET People,
      given : [People -> {"no", "yes", "leaving"}] ]

StateType == [page : PageType, library : LibraryType]

\* A track that is kept sounds or waits for its element; with the layer off
\* nobody sounds.
SoundInv(s) ==
    /\ \A p \in s.page.stream :
          s.page.voiceLayer => s.page.graph[p] = "wired" \/ s.page.plays[p] > 0
    /\ \A p \in People :
          s.page.graph[p] = "wired" => s.page.voiceLayer /\ p \in s.page.known

\* Tracks are attached for peers, and delivered by a room that is open.
TracksInv(s) ==
    /\ s.page.stream \subseteq s.page.known
    /\ s.page.pending \cap s.page.known = {}
    /\ s.page.stream \cup s.page.pending \subseteq s.library.present
    /\ s.page.stream \cup s.page.pending # {} =>
         /\ s.page.room # None
         /\ s.library.status[s.page.room] \in {"connected", "interrupted"}
    /\ \A p \in People \ s.page.known : s.page.plays[p] = 0
    /\ ~s.page.running => s.page.known = {}
    /\ SoundInv(s)

\* The part of it that does not depend on the room.
PeersInv(s) ==
    /\ s.page.near \subseteq s.page.known
    /\ \A p \in People \ s.page.known : s.page.plays[p] = 0
    /\ ~s.page.running => s.page.known = {}

\* Once the subscriptions are in order they are attached in earshot only.
VoicesInv(s) ==
    /\ TracksInv(s)
    /\ s.page.near \subseteq s.page.known
    /\ s.page.stream \subseteq s.page.near

\* Only the room in use is open, and timers know how many attempts were made.
RoomBase(s) ==
    /\ ~s.page.running => s.page.room = None /\ ~s.page.recovering
    /\ s.page.timer # "off" => s.page.room = None /\ s.page.recovering
    /\ s.page.timer = "retry" => s.page.attempts < Delays /\ ~s.page.reported
    /\ s.page.timer = "giveUp" => s.page.attempts = Delays
    /\ s.page.reported => s.page.recovering /\ s.page.attempts = Delays
    /\ \A r \in Rooms :
          s.library.status[r] \in {"connected", "interrupted"} => r = s.page.room

\* Besides, a recovery that is under way has a timer, a room or its report.
RoomInv(s) ==
    /\ RoomBase(s)
    /\ s.page.recovering => s.page.timer # "off" \/ s.page.room # None \/ s.page.reported

\* One capture is in use, it is the newest, and a name is left for the next.
DeviceInv(s) ==
    /\ s.page.local \in {None, s.page.gen}
    /\ s.page.live \subseteq {s.page.local}
    /\ IsFiniteSet(s.page.setups)
    /\ IsFiniteSet(Captures) => Cardinality(s.page.setups) < Cardinality(Captures)

\* Its track is enabled as the account and the user want it.
MicrophoneInv(s) ==
    /\ DeviceInv(s)
    /\ s.page.local # None => s.page.enabled = MicrophoneEnabled(s)

\* A connected room has been offered the microphone that is ready.
OfferInv(s) ==
    /\ s.page.room # None /\ s.library.status[s.page.room] = "connected" /\ s.page.outbound
    => s.page.offered

VoiceInv(s) == s \in StateType /\ VoicesInv(s) /\ RoomInv(s) /\ MicrophoneInv(s) /\ OfferInv(s)

-----------------------------------------------------------------------------
(* What a function of the state may leave alone.                           *)

\* The room and its recovery.
SameRoom(s, t) ==
    /\ t.page.running = s.page.running /\ t.page.room = s.page.room
    /\ t.page.timer = s.page.timer /\ t.page.attempts = s.page.attempts
    /\ t.page.recovering = s.page.recovering /\ t.page.reported = s.page.reported
    /\ t.library.status = s.library.status

\* What is offered to it.
SameOffer(s, t) ==
    t.page.outbound = s.page.outbound /\ t.page.offered = s.page.offered

\* The capture in use, those under way, and what governs its track.
SameMicrophone(s, t) ==
    /\ t.page.local = s.page.local /\ t.page.enabled = s.page.enabled
    /\ t.page.live = s.page.live /\ t.page.gen = s.page.gen /\ t.page.setups = s.page.setups
    /\ t.page.allowed = s.page.allowed /\ t.page.muted = s.page.muted

\* The peers and their tracks.
SameTracks(s, t) ==
    /\ t.page.known = s.page.known /\ t.page.near = s.page.near
    /\ t.page.pending = s.page.pending /\ t.page.stream = s.page.stream
    /\ t.page.plays = s.page.plays /\ t.library.present = s.library.present

\* Their audio graphs and the layer besides.
SameVoices(s, t) ==
    /\ t.page.known = s.page.known /\ t.page.near = s.page.near
    /\ t.page.pending = s.page.pending /\ t.page.stream = s.page.stream
    /\ t.page.plays = s.page.plays /\ t.library.present = s.library.present
    /\ t.page.graph = s.page.graph /\ t.page.voiceLayer = s.page.voiceLayer

\* A step of the voices leaves the room and the microphone alone.
Quiet(s, t) ==
    t \in StateType /\ SameRoom(s, t) /\ SameOffer(s, t) /\ SameMicrophone(s, t)

\* Quiet steps follow one another.
LEMMA QuietTransitive ==
    ASSUME NEW s, NEW t, NEW u, Quiet(s, t), Quiet(t, u) PROVE Quiet(s, u)
BY DEF Quiet, SameRoom, SameOffer, SameMicrophone

\* What is left alone keeps its part of the invariant.
LEMMA QuietKeeps ==
    ASSUME NEW s, VoiceInv(s), NEW t, Quiet(s, t)
    PROVE  /\ RoomInv(t) /\ MicrophoneInv(t) /\ OfferInv(t)
           /\ VoicesInv(t) => VoiceInv(t)
<1>1. RoomInv(t)
  BY DEF VoiceInv, RoomInv, RoomBase, Quiet, SameRoom
<1>2. MicrophoneInv(t)
  BY DEF VoiceInv, MicrophoneInv, DeviceInv, Quiet, SameMicrophone, MicrophoneEnabled
<1>3. OfferInv(t)
  BY DEF VoiceInv, OfferInv, Quiet, SameOffer, SameRoom
<1>4. QED
  BY <1>1, <1>2, <1>3 DEF VoiceInv, Quiet

-----------------------------------------------------------------------------
(* The functions of the remote voices.                                     *)

\* cleanupPeerAudio() touches the audio graph only.
LEMMA CleanupPeerAudioIs ==
    ASSUME NEW s \in StateType, NEW p \in People
    PROVE  LET t == CleanupPeerAudio(s, p)
           IN  /\ Quiet(s, t) /\ SameTracks(s, t)
               /\ t.page.voiceLayer = s.page.voiceLayer
               /\ t.page.graph = [s.page.graph EXCEPT ![p] = "none"]
<1>1. PICK t : t = CleanupPeerAudio(s, p)
  OBVIOUS
<1>2. t.page = [s.page EXCEPT !.graph[p] = "none"] /\ t.library = s.library
      /\ t = [page |-> t.page, library |-> t.library]
  BY <1>1 DEF CleanupPeerAudio, StateType
<1>3. t.page \in PageType /\ t.library \in LibraryType
  <2>1. PICK g \in [People -> {"none", "detached", "wired"}] : g = [s.page.graph EXCEPT ![p] = "none"]
    BY DEF StateType, PageType
  <2>2. t.page = [s.page EXCEPT !.graph = g]
    BY <1>2, <2>1
  <2>3. s.page \in PageType /\ s.library \in LibraryType
    BY DEF StateType
  <2>4. [s.page EXCEPT !.graph = g] \in PageType
    BY <2>3 DEF PageType
  <2>5. QED
    BY <1>2, <2>2, <2>3, <2>4
<1>4. t \in StateType
  BY <1>2, <1>3 DEF StateType
<1>5. SameRoom(s, t) /\ SameOffer(s, t) /\ SameMicrophone(s, t) /\ SameTracks(s, t)
  BY <1>2 DEF StateType, PageType, SameRoom, SameOffer, SameMicrophone, SameTracks
<1>6. t.page.voiceLayer = s.page.voiceLayer /\ t.page.graph = [s.page.graph EXCEPT ![p] = "none"]
  BY <1>2 DEF StateType, PageType
<1>7. QED
  BY <1>1, <1>4, <1>5, <1>6 DEF Quiet

\* attachRemoteStream() adds the stream, and a play() that waits.
LEMMA AttachIs ==
    ASSUME NEW s \in StateType, NEW p \in People, s.page.plays[p] < MaxPlays
    PROVE  LET t == AttachRemoteStream(s, p)
           IN  /\ Quiet(s, t)
               /\ t.page.known = s.page.known /\ t.page.near = s.page.near
               /\ t.page.pending = s.page.pending
               /\ t.page.stream = s.page.stream \cup {p}
               /\ \A q \in People \ {p} : t.page.plays[q] = s.page.plays[q]
               /\ t.library = s.library
               /\ SoundInv(s) => SoundInv(t)
<1>1. PICK a : a = CleanupPeerAudio(s, p)
  OBVIOUS
<1>2. Quiet(s, a) /\ SameTracks(s, a) /\ a \in StateType /\ a.library = s.library
      /\ a.page.voiceLayer = s.page.voiceLayer
      /\ a.page.graph = [s.page.graph EXCEPT ![p] = "none"]
  BY <1>1, CleanupPeerAudioIs DEF Quiet, CleanupPeerAudio, StateType
<1>3. PICK b : b = [a EXCEPT !.page.stream = @ \cup {p}]
  OBVIOUS
<1>4. /\ b.page = [a.page EXCEPT !.stream = @ \cup {p}] /\ b.library = a.library
      /\ b = [page |-> b.page, library |-> b.library]
  BY <1>2, <1>3 DEF StateType
<1>5. b.page \in PageType
  BY <1>2, <1>4 DEF StateType, PageType
<1>6. Quiet(a, b) /\ b.page.stream = s.page.stream \cup {p}
      /\ b.page.known = s.page.known /\ b.page.near = s.page.near
      /\ b.page.pending = s.page.pending /\ b.page.plays = s.page.plays
      /\ b.page.voiceLayer = a.page.voiceLayer /\ b.page.graph = a.page.graph
  <2>1. b \in StateType
    BY <1>2, <1>4, <1>5 DEF StateType
  <2>2. QED
    BY <1>2, <1>4, <2>1 DEF Quiet, StateType, PageType, SameRoom, SameOffer, SameMicrophone, SameTracks
<1>7. PICK c : c = CleanupPeerAudio(b, p)
  OBVIOUS
<1>8. Quiet(b, c) /\ SameTracks(b, c) /\ c \in StateType /\ c.library = b.library
      /\ c.page.voiceLayer = b.page.voiceLayer
      /\ c.page.graph = [b.page.graph EXCEPT ![p] = "none"]
  BY <1>6, <1>7, CleanupPeerAudioIs DEF Quiet, CleanupPeerAudio, StateType
<1>9. PICK d : d = [c EXCEPT !.page.plays[p] = @ + 1]
  OBVIOUS
<1>10. /\ d.page = [c.page EXCEPT !.plays[p] = @ + 1] /\ d.library = c.library
       /\ d = [page |-> d.page, library |-> d.library]
  BY <1>8, <1>9 DEF StateType
<1>11. d.page \in PageType
  <2>1. c.page \in PageType /\ c.page.plays[p] + 1 \in 0 .. MaxPlays
    BY <1>6, <1>8, VoiceAssumption DEF SameTracks, StateType, PageType
  <2>2. PICK n \in [People -> 0 .. MaxPlays] : n = [c.page.plays EXCEPT ![p] = @ + 1]
    BY <2>1 DEF PageType
  <2>3. d.page = [c.page EXCEPT !.plays = n]
    BY <1>10, <2>2
  <2>4. QED
    BY <2>1, <2>3 DEF PageType
<1>12. Quiet(c, d) /\ d.page.stream = c.page.stream
       /\ d.page.known = c.page.known /\ d.page.near = c.page.near
       /\ d.page.pending = c.page.pending
       /\ d.page.voiceLayer = c.page.voiceLayer /\ d.page.graph = c.page.graph
       /\ d.page.plays[p] = c.page.plays[p] + 1
       /\ \A q \in People \ {p} : d.page.plays[q] = c.page.plays[q]
  <2>1. d \in StateType
    BY <1>8, <1>10, <1>11 DEF StateType
  <2>2. QED
    BY <1>8, <1>10, <2>1 DEF Quiet, StateType, PageType, SameRoom, SameOffer, SameMicrophone
<1>13. AttachRemoteStream(s, p) = IF s.page.voiceLayer THEN d ELSE b
  BY <1>1, <1>3, <1>7, <1>9 DEF AttachRemoteStream, Attach
<1>14. CASE s.page.voiceLayer
  <2>1. Quiet(s, d)
    BY <1>2, <1>6, <1>8, <1>12, QuietTransitive
  <2>2. /\ d.page.known = s.page.known /\ d.page.near = s.page.near
        /\ d.page.pending = s.page.pending /\ d.page.stream = s.page.stream \cup {p}
    BY <1>6, <1>8, <1>12 DEF SameTracks
  <2>3. d.library = s.library
    BY <1>2, <1>4, <1>8, <1>10
  <2>4. \A q \in People \ {p} : d.page.plays[q] = s.page.plays[q]
    BY <1>6, <1>8, <1>12 DEF SameTracks
  <2>5. AttachRemoteStream(s, p) = d
    BY <1>13, <1>14
  <2>6. ASSUME SoundInv(s) PROVE SoundInv(d)
    <3>1. d.page.plays[p] > 0 /\ d.page.voiceLayer = s.page.voiceLayer
      <4>1. s.page.plays[p] \in Nat
        BY VoiceAssumption DEF StateType, PageType
      <4>2. c.page.plays = s.page.plays
        BY <1>6, <1>8 DEF SameTracks
      <4>3. d.page.plays[p] = c.page.plays[p] + 1
        BY <1>12
      <4>4. d.page.voiceLayer = s.page.voiceLayer
        BY <1>2, <1>6, <1>8, <1>12
      <4>5. QED
        BY <4>1, <4>2, <4>3, <4>4
    <3>2. d.page.graph[p] = "none" /\ \A q \in People \ {p} : d.page.graph[q] = s.page.graph[q]
      <4>1. d.page.graph = [[s.page.graph EXCEPT ![p] = "none"] EXCEPT ![p] = "none"]
        BY <1>2, <1>6, <1>8, <1>12
      <4>2. PICK f : f = s.page.graph
        OBVIOUS
      <4>3. f \in [People -> {"none", "detached", "wired"}]
        BY <4>2 DEF StateType, PageType
      <4>4. QED
        BY <4>1, <4>2, <4>3
    <3>3. QED
      BY <2>2, <2>4, <2>6, <3>1, <3>2 DEF SoundInv, StateType, PageType
  <2>7. QED
    BY <2>1, <2>2, <2>3, <2>4, <2>5, <2>6
<1>15. CASE ~s.page.voiceLayer
  <2>1. ASSUME SoundInv(s) PROVE SoundInv(b)
    <3>1. ~b.page.voiceLayer /\ \A q \in People : b.page.graph[q] # "wired"
      BY <1>2, <1>6, <1>15, <2>1 DEF SoundInv, StateType, PageType
    <3>2. QED
      BY <3>1 DEF SoundInv
  <2>2. QED
    BY <1>2, <1>4, <1>6, <1>13, <1>15, <2>1, QuietTransitive
<1>16. QED
  BY <1>14, <1>15

\* setSubscribed() is the library's business.
LEMMA SetSubscribedIs ==
    ASSUME NEW s \in StateType, NEW p \in People, NEW subscribed \in BOOLEAN
    PROVE  LET t == SetSubscribed(s, p, subscribed) IN Quiet(s, t) /\ SameVoices(s, t)
<1>1. PICK t : t = SetSubscribed(s, p, subscribed)
  OBVIOUS
<1>2. t \in StateType /\ t.page = s.page
  BY <1>1 DEF SetSubscribed, StateType, LibraryType
<1>3. t.library.status = s.library.status /\ t.library.present = s.library.present
  BY <1>1 DEF SetSubscribed, StateType, LibraryType
<1>4. QED
  BY <1>1, <1>2, <1>3 DEF Quiet, SameRoom, SameOffer, SameMicrophone, SameVoices

\* clearRemoteStream() forgets a track, pending or attached.
LEMMA ClearRemoteStreamIs ==
    ASSUME NEW s \in StateType, NEW p \in People, s.page.stream \subseteq s.page.known
    PROVE  LET t == ClearRemoteStream(s, p)
           IN  /\ Quiet(s, t)
               /\ t.page.known = s.page.known /\ t.page.near = s.page.near
               /\ t.page.plays = s.page.plays
               /\ t.page.pending = s.page.pending \ {p} /\ t.page.stream = s.page.stream \ {p}
               /\ t.library = s.library
               /\ SoundInv(s) => SoundInv(t)
<1>1. PICK a : a = [s EXCEPT !.page.pending = @ \ {p}]
  OBVIOUS
<1>2. /\ a.page = [s.page EXCEPT !.pending = @ \ {p}] /\ a.library = s.library
      /\ a = [page |-> a.page, library |-> a.library]
  BY <1>1 DEF StateType
<1>3. a \in StateType
  <2>1. a.page \in PageType
    BY <1>2 DEF StateType, PageType
  <2>2. QED
    BY <1>2, <2>1 DEF StateType
<1>4. Quiet(s, a) /\ a.page.known = s.page.known /\ a.page.near = s.page.near
      /\ a.page.plays = s.page.plays
      /\ a.page.pending = s.page.pending \ {p} /\ a.page.stream = s.page.stream
      /\ a.page.voiceLayer = s.page.voiceLayer /\ a.page.graph = s.page.graph
  BY <1>2, <1>3 DEF Quiet, StateType, PageType, SameRoom, SameOffer, SameMicrophone
<1>5. PICK b : b = CleanupPeerAudio(a, p)
  OBVIOUS
<1>6. Quiet(a, b) /\ SameTracks(a, b) /\ b \in StateType /\ b.library = a.library
      /\ b.page.voiceLayer = a.page.voiceLayer
      /\ b.page.graph = [a.page.graph EXCEPT ![p] = "none"]
  BY <1>3, <1>5, CleanupPeerAudioIs DEF Quiet, CleanupPeerAudio, StateType
<1>7. PICK c : c = [b EXCEPT !.page.stream = @ \ {p}]
  OBVIOUS
<1>8. /\ c.page = [b.page EXCEPT !.stream = @ \ {p}] /\ c.library = b.library
      /\ c = [page |-> c.page, library |-> c.library]
  BY <1>6, <1>7 DEF StateType
<1>9. c \in StateType
  <2>1. c.page \in PageType
    <3>1. PICK x \in PageType : x = b.page
      BY <1>6 DEF StateType
    <3>2. PICK y \in SUBSET People : y = x.stream \ {p}
      BY <3>1 DEF PageType
    <3>3. [x EXCEPT !.stream = y] \in PageType
      BY <3>1, <3>2 DEF PageType
    <3>4. QED
      BY <1>8, <3>1, <3>2, <3>3
  <2>2. QED
    BY <1>6, <1>8, <2>1 DEF StateType
<1>10. Quiet(b, c) /\ c.page.known = b.page.known /\ c.page.near = b.page.near
       /\ c.page.plays = b.page.plays
       /\ c.page.pending = b.page.pending /\ c.page.stream = b.page.stream \ {p}
       /\ c.page.voiceLayer = b.page.voiceLayer /\ c.page.graph = b.page.graph
  BY <1>6, <1>8, <1>9 DEF Quiet, StateType, PageType, SameRoom, SameOffer, SameMicrophone
<1>11. ClearRemoteStream(s, p) = IF p \notin s.page.known THEN a ELSE c
  BY <1>1, <1>5, <1>7 DEF ClearRemoteStream
<1>12. CASE p \notin s.page.known
  <2>1. s.page.stream \ {p} = s.page.stream
    BY <1>12
  <2>2. SoundInv(s) => SoundInv(a)
    BY <1>4 DEF SoundInv
  <2>3. QED
    BY <1>2, <1>4, <1>11, <1>12, <2>1, <2>2
<1>13. CASE p \in s.page.known
  <2>1. Quiet(s, c)
    BY <1>4, <1>6, <1>10, QuietTransitive
  <2>2. /\ c.page.known = s.page.known /\ c.page.near = s.page.near /\ c.page.plays = s.page.plays
        /\ c.page.pending = s.page.pending \ {p} /\ c.page.stream = s.page.stream \ {p}
        /\ c.library = s.library
    BY <1>2, <1>4, <1>6, <1>8, <1>10 DEF SameTracks
  <2>3. c.page.voiceLayer = s.page.voiceLayer /\ c.page.graph = [s.page.graph EXCEPT ![p] = "none"]
    BY <1>4, <1>6, <1>10
  <2>4. SoundInv(s) => SoundInv(c)
    BY <2>2, <2>3 DEF SoundInv, StateType, PageType
  <2>5. QED
    BY <1>11, <1>13, <2>1, <2>2, <2>4
<1>14. QED
  BY <1>12, <1>13

\* A voice that ends is forgotten, wherever it was kept.
LEMMA ClearKeeps ==
    ASSUME NEW s \in StateType, TracksInv(s), NEW p \in People
    PROVE  LET t == ClearRemoteStream(s, p)
           IN  /\ Quiet(s, t) /\ TracksInv(t)
               /\ t.page.known = s.page.known /\ t.page.near = s.page.near
               /\ t.page.stream \subseteq s.page.stream
               /\ t.library = s.library
<1>1. PICK t : t = ClearRemoteStream(s, p)
  OBVIOUS
<1>2. /\ Quiet(s, t)
      /\ t.page.known = s.page.known /\ t.page.near = s.page.near
      /\ t.page.plays = s.page.plays
      /\ t.page.pending = s.page.pending \ {p} /\ t.page.stream = s.page.stream \ {p}
      /\ t.library = s.library /\ SoundInv(t)
  BY <1>1, ClearRemoteStreamIs DEF TracksInv
<1>3. TracksInv(t)
  BY <1>2 DEF TracksInv, Quiet, SameRoom
<1>4. QED
  BY <1>1, <1>2, <1>3

\* A subscription is asked for, or given up.
LEMMA SubscribedKeeps ==
    ASSUME NEW s \in StateType, TracksInv(s), NEW p \in People, NEW subscribed \in BOOLEAN
    PROVE  LET t == SetSubscribed(s, p, subscribed)
           IN  Quiet(s, t) /\ SameVoices(s, t) /\ TracksInv(t)
BY SetSubscribedIs DEF TracksInv, SoundInv, Quiet, SameRoom, SameVoices

\* One peer's subscription is put in order.
LEMMA SyncParticipantKeeps ==
    ASSUME NEW s \in StateType, TracksInv(s), NEW p \in People
    PROVE  LET t == SyncParticipant(s, p)
           IN  /\ Quiet(s, t) /\ TracksInv(t)
               /\ t.page.known = s.page.known /\ t.page.near = s.page.near
<1>1. CASE p \notin s.page.known \/ ~InRoom(s, p)
  BY <1>1 DEF SyncParticipant, Quiet, SameRoom, SameOffer, SameMicrophone
<1>2. CASE ~(p \notin s.page.known \/ ~InRoom(s, p)) /\ ShouldSubscribe(s, p)
  <2>1. SyncParticipant(s, p) = SetSubscribed(s, p, TRUE)
    BY <1>2 DEF SyncParticipant
  <2>2. QED
    BY <2>1, SubscribedKeeps DEF SameVoices
<1>3. CASE ~(p \notin s.page.known \/ ~InRoom(s, p)) /\ ~ShouldSubscribe(s, p)
  <2>1. PICK a : a = SetSubscribed(s, p, FALSE)
    OBVIOUS
  <2>2. Quiet(s, a) /\ SameVoices(s, a) /\ TracksInv(a) /\ a \in StateType
    BY <2>1, SubscribedKeeps DEF Quiet
  <2>3. PICK t : t = ClearRemoteStream(a, p)
    OBVIOUS
  <2>4. /\ Quiet(a, t) /\ TracksInv(t)
        /\ t.page.known = a.page.known /\ t.page.near = a.page.near
    BY <2>2, <2>3, ClearKeeps
  <2>5. Quiet(s, t) /\ t.page.known = s.page.known /\ t.page.near = s.page.near
    BY <2>2, <2>4, QuietTransitive DEF SameVoices
  <2>6. SyncParticipant(s, p) = t
    BY <1>3, <2>1, <2>3 DEF SyncParticipant
  <2>7. QED
    BY <2>4, <2>5, <2>6
<1>4. QED
  BY <1>1, <1>2, <1>3

\* A stranger becomes a peer, and takes the track that waited.
LEMMA EnsurePeerKeeps ==
    ASSUME NEW s \in StateType, TracksInv(s), NEW p \in People,
           s.page.near \subseteq s.page.known \cup {p}, s.page.running
    PROVE  LET t == EnsurePeer(s, p)
           IN  Quiet(s, t) /\ TracksInv(t) /\ t.page.near \subseteq t.page.known
<1>1. CASE p \in s.page.known
  BY <1>1 DEF EnsurePeer, Quiet, SameRoom, SameOffer, SameMicrophone
<1>2. CASE p \notin s.page.known
  <2>1. PICK a : a = [s EXCEPT !.page.known = @ \cup {p}, !.page.pending = @ \ {p}]
    OBVIOUS
  <2>2. /\ a.page = [s.page EXCEPT !.known = @ \cup {p}, !.pending = @ \ {p}]
        /\ a.library = s.library /\ a = [page |-> a.page, library |-> a.library]
    BY <2>1 DEF StateType
  <2>3. a \in StateType
    <3>1. PICK x : x = [s.page EXCEPT !.known = @ \cup {p}]
      OBVIOUS
    <3>2. x \in PageType
      BY <3>1 DEF StateType, PageType
    <3>3. a.page = [x EXCEPT !.pending = @ \ {p}]
      BY <2>2, <3>1 DEF StateType, PageType
    <3>4. a.page \in PageType
      BY <3>2, <3>3 DEF PageType
    <3>5. QED
      BY <2>2, <3>4 DEF StateType
  <2>4. /\ Quiet(s, a) /\ a.page.known = s.page.known \cup {p}
        /\ a.page.pending = s.page.pending \ {p} /\ a.page.stream = s.page.stream
        /\ a.page.near = s.page.near /\ a.page.plays = s.page.plays
        /\ a.page.graph = s.page.graph /\ a.page.voiceLayer = s.page.voiceLayer
    BY <2>2, <2>3, ZenonT(60) DEF Quiet, StateType, PageType, SameRoom, SameOffer, SameMicrophone
  <2>5. TracksInv(a) /\ a.page.near \subseteq a.page.known /\ a.page.plays[p] < MaxPlays
    <3>1. SoundInv(a)
      BY <2>4 DEF TracksInv, SoundInv
    <3>2. QED
      BY <1>2, <2>2, <2>4, <3>1, VoiceAssumption DEF TracksInv, Quiet, SameRoom
  <2>6. PICK b : b = IF p \in s.page.pending /\ ShouldSubscribe(s, p)
                     THEN AttachRemoteStream(a, p) ELSE a
    OBVIOUS
  <2>7. Quiet(a, b) /\ TracksInv(b) /\ b.page.known = a.page.known /\ b.page.near = a.page.near
    <3>1. CASE p \in s.page.pending /\ ShouldSubscribe(s, p)
      <4>1. /\ Quiet(a, b) /\ b.page.known = a.page.known /\ b.page.near = a.page.near
            /\ b.page.pending = a.page.pending /\ b.page.stream = a.page.stream \cup {p}
            /\ \A q \in People \ {p} : b.page.plays[q] = a.page.plays[q]
            /\ b.library = a.library /\ SoundInv(b)
        BY <2>3, <2>5, <2>6, <3>1, AttachIs DEF TracksInv
      <4>2. TracksInv(b)
        BY <2>2, <2>4, <2>5, <3>1, <4>1 DEF TracksInv, Quiet, SameRoom
      <4>3. QED
        BY <4>1, <4>2
    <3>2. CASE ~(p \in s.page.pending /\ ShouldSubscribe(s, p))
      BY <2>3, <2>5, <2>6, <3>2 DEF Quiet, SameRoom, SameOffer, SameMicrophone
    <3>3. QED
      BY <3>1, <3>2
  <2>8. PICK t : t = SyncParticipant(b, p)
    OBVIOUS
  <2>9. /\ Quiet(b, t) /\ TracksInv(t)
        /\ t.page.known = b.page.known /\ t.page.near = b.page.near
    BY <2>7, <2>8, SyncParticipantKeeps DEF Quiet
  <2>10. Quiet(s, t)
    BY <2>4, <2>7, <2>9, QuietTransitive
  <2>11. EnsurePeer(s, p) = t
    BY <1>2, <2>1, <2>6, <2>8 DEF EnsurePeer
  <2>12. QED
    BY <2>5, <2>7, <2>9, <2>10, <2>11
<1>3. QED
  BY <1>1, <1>2

\* Whatever moved, the subscriptions are in order afterwards.
LEMMA SyncKeeps ==
    ASSUME NEW s \in StateType, TracksInv(s), s.page.near \subseteq s.page.known
    PROVE  LET t == SyncFloorSubscriptions(s) IN Quiet(s, t) /\ VoicesInv(t)
<1> DEFINE out == {p \in s.page.known : InRoom(s, p) /\ ~ShouldSubscribe(s, p)}
           in == {p \in s.page.known : InRoom(s, p) /\ ShouldSubscribe(s, p)}
<1>1. out \subseteq People /\ in \subseteq People
  BY DEF StateType, PageType
<1>2. \A p \in s.page.stream : p \in out \/ p \in s.page.near
  BY DEF TracksInv, InRoom, ShouldSubscribe
<1>3. PICK g \in [People -> {"no", "yes", "leaving"}] :
          g = [p \in People |-> IF p \in out /\ s.library.given[p] = "yes" THEN "leaving"
                                ELSE s.library.given[p]]
  BY DEF StateType, LibraryType
<1>4. PICK h \in [People -> {"none", "detached", "wired"}] :
          h = [p \in People |-> IF p \in out THEN "none" ELSE s.page.graph[p]]
  BY DEF StateType, PageType
<1>5. PICK t : t = SyncFloorSubscriptions(s)
  OBVIOUS
<1>6. /\ t.page = [s.page EXCEPT !.pending = @ \ out, !.stream = @ \ out, !.graph = h]
      /\ t.library = [s.library EXCEPT !.wanted = (@ \ out) \cup in, !.given = g]
      /\ t = [page |-> t.page, library |-> t.library]
  BY <1>3, <1>4, <1>5 DEF SyncFloorSubscriptions, StateType
<1> HIDE DEF out, in
<1>7. t \in StateType
  <2>1. t.page \in PageType
    <3>1. PICK x : x = [s.page EXCEPT !.pending = @ \ out, !.stream = @ \ out]
      OBVIOUS
    <3>2. x \in PageType
      BY <3>1, ZenonT(60) DEF StateType, PageType
    <3>3. t.page = [x EXCEPT !.graph = h]
      BY <1>6, <3>1
    <3>4. QED
      BY <3>2, <3>3 DEF PageType
  <2>2. t.library \in LibraryType
    BY <1>1, <1>6, ZenonT(60) DEF StateType, LibraryType
  <2>3. QED
    BY <1>6, <2>1, <2>2 DEF StateType
<1>8. /\ t.page.known = s.page.known /\ t.page.near = s.page.near
      /\ t.page.plays = s.page.plays /\ t.page.pending = s.page.pending \ out
      /\ t.page.stream = s.page.stream \ out /\ t.library.present = s.library.present
      /\ t.page.graph = h /\ t.page.voiceLayer = s.page.voiceLayer
  BY <1>6 DEF StateType, PageType, LibraryType
<1>9. Quiet(s, t)
  BY <1>6, <1>7 DEF Quiet, StateType, PageType, LibraryType, SameRoom, SameOffer, SameMicrophone
<1>10. VoicesInv(t)
  <2>1. TracksInv(t)
    <3>1. SoundInv(t)
      BY <1>4, <1>8 DEF TracksInv, SoundInv, StateType, PageType
    <3>2. QED
      BY <1>8, <1>9, <3>1 DEF TracksInv, Quiet, SameRoom
  <2>2. QED
    BY <1>2, <1>8, <2>1 DEF VoicesInv
<1>11. QED
  BY <1>5, <1>9, <1>10

-----------------------------------------------------------------------------
(* The tasks of the voices.                                                *)

\* The invariant of the specification.
VoiceSafe == VoiceInv(w)

\* A task that ends in a good state.
LEMMA BecomeKeeps ==
    ASSUME NEW t, VoiceInv(t), Become(t) PROVE VoiceSafe'
<1>1. page' = t.page /\ library' = t.library
  BY DEF Become
<1>2. t = [page |-> t.page, library |-> t.library]
  BY DEF VoiceInv, StateType
<1>3. w' = t
  BY <1>1, <1>2 DEF w
<1>4. QED
  BY <1>3 DEF VoiceSafe

\* The state is well formed, and is what the variables hold.
LEMMA StateIs == ASSUME VoiceSafe PROVE VoiceInv(w) /\ w \in StateType /\ w.page = page /\ w.library = library
BY DEF VoiceSafe, VoiceInv, w

\* Somebody's position is known anew.
LEMMA NearIs ==
    ASSUME NEW s \in StateType, TracksInv(s), NEW n \in SUBSET People
    PROVE  LET t == [s EXCEPT !.page.near = n]
           IN  Quiet(s, t) /\ TracksInv(t) /\ t.page.known = s.page.known /\ t.page.near = n
<1>1. PICK t : t = [s EXCEPT !.page.near = n]
  OBVIOUS
<1>2. /\ t.page = [s.page EXCEPT !.near = n]
      /\ t.library = s.library /\ t = [page |-> t.page, library |-> t.library]
  BY <1>1 DEF StateType
<1>3. t \in StateType
  <2>1. t.page \in PageType
    BY <1>2 DEF StateType, PageType
  <2>2. QED
    BY <1>2, <2>1 DEF StateType
<1>4. Quiet(s, t) /\ t.page.known = s.page.known /\ t.page.near = n
  BY <1>2, <1>3 DEF Quiet, StateType, PageType, SameRoom, SameOffer, SameMicrophone
<1>5. TracksInv(t)
  <2>1. SoundInv(t)
    BY <1>2 DEF StateType, PageType, TracksInv, SoundInv
  <2>2. QED
    BY <1>2, <1>4, <2>1 DEF StateType, PageType, TracksInv
<1>6. QED
  BY <1>1, <1>4, <1>5

\* Someone moves, or appears: the voices are put in order.
LEMMA PeerUpdatesKeeps ==
    ASSUME VoiceSafe, NEW p \in People, NEW near \in BOOLEAN, PeerUpdates(p, near)
    PROVE  VoiceSafe'
<1> DEFINE n == IF near THEN w.page.near \cup {p} ELSE w.page.near \ {p}
<1>1. /\ VoiceInv(w) /\ w \in StateType /\ TracksInv(w) /\ w.page.near \subseteq w.page.known
      /\ w.page.running
  BY StateIs DEF VoiceInv, VoicesInv, PeerUpdates
<1>2. n \in SUBSET People /\ n \subseteq w.page.known \cup {p}
  BY <1>1 DEF StateType, PageType
<1>3. PICK a : a = [w EXCEPT !.page.near = n]
  OBVIOUS
<1>4. Quiet(w, a) /\ TracksInv(a) /\ a.page.known = w.page.known /\ a.page.near = n
  BY <1>1, <1>2, <1>3, NearIs
<1>5. PICK b : b = EnsurePeer(a, p)
  OBVIOUS
<1>6. Quiet(a, b) /\ TracksInv(b) /\ b.page.near \subseteq b.page.known
  BY <1>1, <1>2, <1>4, <1>5, EnsurePeerKeeps DEF Quiet, SameRoom
<1>7. PICK t : t = SyncFloorSubscriptions(b)
  OBVIOUS
<1>8. Quiet(b, t) /\ VoicesInv(t)
  BY <1>6, <1>7, SyncKeeps DEF Quiet
<1>9. Become(t)
  <2>1. a = [w EXCEPT !.page.near = IF near THEN @ \cup {p} ELSE @ \ {p}]
    BY <1>3
  <2>2. QED
    BY <2>1, <1>5, <1>7 DEF PeerUpdates
<1>10. QED
  BY <1>1, <1>4, <1>6, <1>8, <1>9, QuietTransitive, QuietKeeps, BecomeKeeps

\* The listener moves: likewise.
LEMMA ListenerMovesKeeps ==
    ASSUME VoiceSafe, NEW near \in SUBSET page.known, ListenerMoves(near)
    PROVE  VoiceSafe'
<1>1. /\ VoiceInv(w) /\ w \in StateType /\ TracksInv(w) /\ near \subseteq w.page.known
      /\ near \in SUBSET People
  BY StateIs DEF VoiceInv, VoicesInv, StateType, PageType
<1>2. PICK a : a = [w EXCEPT !.page.near = near]
  OBVIOUS
<1>3. Quiet(w, a) /\ TracksInv(a) /\ a.page.near \subseteq a.page.known
  BY <1>1, <1>2, NearIs
<1>4. PICK t : t = SyncFloorSubscriptions(a)
  OBVIOUS
<1>5. Quiet(a, t) /\ VoicesInv(t)
  BY <1>3, <1>4, SyncKeeps DEF Quiet
<1>6. Become(t)
  BY <1>2, <1>4 DEF ListenerMoves
<1>7. QED
  BY <1>1, <1>3, <1>5, <1>6, QuietTransitive, QuietKeeps, BecomeKeeps

\* Who leaves the grid leaves no voice behind.
LEMMA PeerLeavesKeeps ==
    ASSUME VoiceSafe, NEW p \in People, PeerLeaves(p) PROVE VoiceSafe'
<1> DEFINE l == IF p \in library.present THEN w.library.left \cup {p} ELSE w.library.left
           o == IF w.page.plays[p] > 0 THEN w.page.orphanPlays \cup {p} ELSE w.page.orphanPlays
<1>1. VoiceInv(w) /\ w \in StateType /\ VoicesInv(w) /\ p \in w.page.known
  BY StateIs DEF VoiceInv, PeerLeaves
<1>2. l \in SUBSET People /\ o \in SUBSET People
  BY <1>1 DEF StateType, LibraryType, PageType
<1>3. PICK a : a = [w EXCEPT !.page.near = @ \ {p}, !.library.left = l]
  OBVIOUS
<1> DEFINE b == [a EXCEPT !.page.pending = @ \ {p}]
           c == CleanupPeerAudio(b, p)
           t == [c EXCEPT !.page.known = @ \ {p}, !.page.stream = @ \ {p},
                          !.page.plays[p] = 0,
                          !.page.orphanPlays = IF a.page.plays[p] > 0 THEN @ \cup {p} ELSE @]
<1>4. Become(t)
  <2>1. a.page.known = w.page.known
    BY <1>1, <1>3 DEF StateType, PageType
  <2>2. a = [w EXCEPT !.page.near = @ \ {p},
                      !.library.left = IF p \in library.present THEN @ \cup {p} ELSE @]
    BY <1>3
  <2>3. RemovePeer(a, p) = t
    BY <1>1, <2>1 DEF RemovePeer
  <2>4. QED
    BY <2>2, <2>3 DEF PeerLeaves
<1>5. PICK g \in [People -> {"none", "detached", "wired"}] : g = [w.page.graph EXCEPT ![p] = "none"]
  BY <1>1 DEF StateType, PageType
<1>6. PICK n \in [People -> 0 .. MaxPlays] : n = [w.page.plays EXCEPT ![p] = 0]
  <2>1. 0 \in 0 .. MaxPlays /\ w.page.plays \in [People -> 0 .. MaxPlays]
    BY <1>1, VoiceAssumption DEF StateType, PageType
  <2>2. [w.page.plays EXCEPT ![p] = 0] \in [People -> 0 .. MaxPlays]
    BY <2>1
  <2>3. QED
    BY <2>2
<1>7. /\ a.page = [w.page EXCEPT !.near = @ \ {p}] /\ a.library = [w.library EXCEPT !.left = l]
      /\ a = [page |-> a.page, library |-> a.library]
  BY <1>1, <1>3 DEF StateType
<1>8. /\ b.page = [w.page EXCEPT !.near = @ \ {p}, !.pending = @ \ {p}] /\ b.library = a.library
      /\ b = [page |-> b.page, library |-> b.library]
  BY <1>1, <1>7 DEF StateType, PageType
<1> HIDE DEF b
<1>9. /\ c.page = [w.page EXCEPT !.near = @ \ {p}, !.pending = @ \ {p}, !.graph = g]
      /\ c.library = a.library /\ c = [page |-> c.page, library |-> c.library]
  BY <1>1, <1>5, <1>8 DEF StateType, PageType, CleanupPeerAudio
<1> HIDE DEF c
<1>10. a.page.plays[p] = w.page.plays[p]
  BY <1>1, <1>7 DEF StateType, PageType
<1>11. /\ t.page = [w.page EXCEPT !.near = @ \ {p}, !.pending = @ \ {p}, !.graph = g,
                                  !.known = @ \ {p}, !.stream = @ \ {p}, !.plays = n,
                                  !.orphanPlays = o]
       /\ t.library = [w.library EXCEPT !.left = l]
       /\ t = [page |-> t.page, library |-> t.library]
  <2>1. c.page.plays = w.page.plays /\ c.page.orphanPlays = w.page.orphanPlays
    BY <1>1, <1>9 DEF StateType, PageType
  <2>2. /\ t.page = [c.page EXCEPT !.known = @ \ {p}, !.stream = @ \ {p},
                         !.plays[p] = 0,
                         !.orphanPlays = IF a.page.plays[p] > 0 THEN @ \cup {p} ELSE @]
        /\ t.library = c.library /\ t = [page |-> t.page, library |-> t.library]
    <3>1. PICK x, y : c = [page |-> x, library |-> y]
      BY <1>9
    <3>2. t.library = c.library
      BY <3>1
    <3>3. t.page = [c.page EXCEPT !.known = @ \ {p}, !.stream = @ \ {p},
                         !.plays[p] = 0,
                         !.orphanPlays = IF a.page.plays[p] > 0 THEN @ \cup {p} ELSE @]
      BY <3>1
    <3>4. t = [page |-> t.page, library |-> t.library]
      <4>1. PICK e : e = [c EXCEPT !.page.known = @ \ {p}, !.page.stream = @ \ {p}]
        OBVIOUS
      <4>2. e = [page |-> e.page, library |-> e.library]
        BY <3>1, <4>1
      <4>3. PICK f : f = [e EXCEPT !.page.plays[p] = 0]
        OBVIOUS
      <4>4. f = [page |-> f.page, library |-> f.library]
        BY <4>2, <4>3
      <4>5. t = [f EXCEPT !.page.orphanPlays = IF a.page.plays[p] > 0 THEN @ \cup {p} ELSE @]
        BY <4>1, <4>3
      <4>6. PICK q : q = IF a.page.plays[p] > 0 THEN f.page.orphanPlays \cup {p}
                         ELSE f.page.orphanPlays
        OBVIOUS
      <4>7. t = [f EXCEPT !.page.orphanPlays = q]
        BY <4>5, <4>6
      <4> HIDE DEF t
      <4>8. QED
        BY <4>4, <4>7
    <3>5. QED
      BY <3>2, <3>3, <3>4
  <2>3. PICK y : y = [c.page EXCEPT !.known = @ \ {p}, !.stream = @ \ {p}]
    OBVIOUS
  <2>4. y.plays = w.page.plays /\ y.orphanPlays = w.page.orphanPlays /\ "plays" \in DOMAIN y
        /\ "orphanPlays" \in DOMAIN y
    BY <1>1, <1>9, <2>3 DEF StateType, PageType
  <2>5. t.page = [y EXCEPT !.plays = n, !.orphanPlays = o]
    BY <1>6, <1>10, <2>2, <2>3, <2>4
  <2>6. QED
    BY <1>7, <1>9, <2>2, <2>3, <2>5
<1> HIDE DEF t
<1>12. t \in StateType
  <2>1. PICK x : x = [w.page EXCEPT !.near = @ \ {p}, !.pending = @ \ {p}, !.graph = g]
    OBVIOUS
  <2>2. x \in PageType
    BY <1>1, <2>1, ZenonT(60) DEF StateType, PageType
  <2>3. PICK y : y = [x EXCEPT !.known = @ \ {p}, !.stream = @ \ {p}]
    OBVIOUS
  <2>4. y \in PageType
    BY <2>2, <2>3, ZenonT(60) DEF PageType
  <2>5. t.page = [y EXCEPT !.plays = n, !.orphanPlays = o]
    BY <1>1, <1>11, <2>1, <2>3 DEF StateType, PageType
  <2>6. t.page \in PageType
    <3>1. PICK z : z = [y EXCEPT !.plays = n]
      OBVIOUS
    <3>2. z \in PageType
      BY <2>4, <3>1 DEF PageType
    <3>3. t.page = [z EXCEPT !.orphanPlays = o] /\ o \in SUBSET People
      BY <1>2, <2>5, <3>1
    <3> HIDE DEF o
    <3>4. QED
      BY <3>2, <3>3 DEF PageType
  <2>7. t.library \in LibraryType
    BY <1>1, <1>2, <1>11 DEF StateType, LibraryType
  <2>8. QED
    BY <1>11, <2>6, <2>7 DEF StateType
<1>13. /\ t.page.known = w.page.known \ {p} /\ t.page.near = w.page.near \ {p}
       /\ t.page.pending = w.page.pending \ {p} /\ t.page.stream = w.page.stream \ {p}
       /\ t.page.plays = n /\ t.library.present = w.library.present
       /\ t.page.graph = g /\ t.page.voiceLayer = w.page.voiceLayer
       /\ Quiet(w, t)
  BY <1>1, <1>11, <1>12 DEF StateType, PageType, LibraryType, Quiet, SameRoom, SameOffer, SameMicrophone
<1>14. VoicesInv(t)
  <2>1. SoundInv(t)
    BY <1>1, <1>5, <1>6, <1>13 DEF VoicesInv, TracksInv, SoundInv, StateType, PageType
  <2>2. QED
    BY <1>1, <1>6, <1>13, <2>1 DEF VoicesInv, TracksInv, Quiet, SameRoom, StateType, PageType
<1>15. QED
  BY <1>1, <1>4, <1>13, <1>14, QuietKeeps, BecomeKeeps

\* What LiveKit delivers changes nothing on the page by itself.
LEMMA GivenIs ==
    ASSUME NEW s \in StateType, NEW p \in People, NEW x \in {"no", "yes", "leaving"}
    PROVE  LET t == [s EXCEPT !.library.given[p] = x]
           IN  Quiet(s, t) /\ SameVoices(s, t)
<1>1. PICK t : t = [s EXCEPT !.library.given[p] = x]
  OBVIOUS
<1>2. PICK g \in [People -> {"no", "yes", "leaving"}] : g = [s.library.given EXCEPT ![p] = x]
  BY DEF StateType, LibraryType
<1>3. /\ t.library = [s.library EXCEPT !.given = g] /\ t.page = s.page
      /\ t = [page |-> t.page, library |-> t.library]
  BY <1>1, <1>2 DEF StateType, LibraryType
<1>4. t \in StateType
  <2>1. t.library \in LibraryType
    BY <1>3 DEF StateType, LibraryType
  <2>2. QED
    BY <1>3, <2>1 DEF StateType
<1>5. t.library.status = s.library.status /\ t.library.present = s.library.present
  BY <1>3 DEF StateType, LibraryType
<1>6. QED
  BY <1>1, <1>3, <1>4, <1>5 DEF Quiet, SameRoom, SameOffer, SameMicrophone, SameVoices

\* Where the voices are the same, the invariant about them is.
LEMMA SameVoicesKeep ==
    ASSUME NEW s, VoicesInv(s), NEW t, Quiet(s, t), SameVoices(s, t) PROVE VoicesInv(t)
BY DEF VoicesInv, TracksInv, SoundInv, Quiet, SameRoom, SameVoices

\* A track arrives: for a peer, for a stranger, or too late.
LEMMA TrackSubscribedKeeps ==
    ASSUME VoiceSafe, NEW p \in People, TrackSubscribed(p) PROVE VoiceSafe'
<1>1. /\ VoiceInv(w) /\ w \in StateType /\ VoicesInv(w)
      /\ p \in w.library.present /\ w.page.plays[p] < MaxPlays
      /\ w.page.room # None /\ w.library.status[w.page.room] = "connected"
  BY StateIs DEF VoiceInv, TrackSubscribed, Hears
<1>2. PICK a : a = [w EXCEPT !.library.given[p] = "yes"]
  OBVIOUS
<1>3. Quiet(w, a) /\ SameVoices(w, a)
  BY <1>1, <1>2, GivenIs
<1>4. a \in StateType /\ VoicesInv(a)
  BY <1>1, <1>3, SameVoicesKeep DEF Quiet
<1>5. CASE p \in page.known /\ ~ShouldSubscribe(w, p)
  <2>1. PICK t : t = SetSubscribed(a, p, FALSE)
    OBVIOUS
  <2>2. Quiet(a, t) /\ SameVoices(a, t)
    BY <1>4, <2>1, SetSubscribedIs
  <2>3. Become(t)
    BY <1>2, <1>5, <2>1 DEF TrackSubscribed
  <2>4. QED
    BY <1>1, <1>3, <1>4, <2>2, <2>3, SameVoicesKeep, QuietTransitive, QuietKeeps, BecomeKeeps
<1>6. CASE ~(p \in page.known /\ ~ShouldSubscribe(w, p))
  <2>1. PICK t : t = SetRemoteStream(a, p)
    OBVIOUS
  <2>2. Become(t)
    BY <1>2, <1>6, <2>1 DEF TrackSubscribed
  <2>3. Quiet(a, t) /\ VoicesInv(t)
    <3>1. CASE p \notin a.page.known
      <4>1. t = [a EXCEPT !.page.pending = @ \cup {p}]
        BY <2>1, <3>1 DEF SetRemoteStream
      <4>2. /\ t.page = [a.page EXCEPT !.pending = @ \cup {p}]
            /\ t.library = a.library /\ t = [page |-> t.page, library |-> t.library]
        BY <1>4, <4>1 DEF StateType
      <4>3. t \in StateType
        <5>1. t.page \in PageType
          BY <1>4, <4>2 DEF StateType, PageType
        <5>2. QED
          BY <1>4, <4>2, <5>1 DEF StateType
      <4>4. /\ Quiet(a, t) /\ t.page.pending = a.page.pending \cup {p}
            /\ t.page.known = a.page.known /\ t.page.near = a.page.near
            /\ t.page.stream = a.page.stream /\ t.page.plays = a.page.plays
            /\ t.page.graph = a.page.graph /\ t.page.voiceLayer = a.page.voiceLayer
        BY <1>4, <4>2, <4>3 DEF Quiet, StateType, PageType, SameRoom, SameOffer, SameMicrophone
      <4>5. VoicesInv(t)
        <5>1. SoundInv(t)
          BY <1>4, <4>4 DEF VoicesInv, TracksInv, SoundInv
        <5>2. QED
          BY <1>1, <1>3, <1>4, <3>1, <4>2, <4>4, <5>1
          DEF VoicesInv, TracksInv, Quiet, SameRoom, SameVoices
      <4>6. QED
        BY <4>4, <4>5
    <3>2. CASE p \in a.page.known /\ ShouldSubscribe(a, p)
      <4>1. t = AttachRemoteStream(a, p) /\ a.page.plays[p] < MaxPlays
        BY <1>1, <1>3, <2>1, <3>2 DEF SetRemoteStream, SameVoices
      <4>2. /\ Quiet(a, t)
            /\ t.page.known = a.page.known /\ t.page.near = a.page.near
            /\ t.page.pending = a.page.pending /\ t.page.stream = a.page.stream \cup {p}
            /\ \A q \in People \ {p} : t.page.plays[q] = a.page.plays[q]
            /\ t.library = a.library /\ SoundInv(t)
        BY <1>4, <4>1, AttachIs DEF VoicesInv, TracksInv
      <4>3. VoicesInv(t)
        BY <1>1, <1>3, <1>4, <3>2, <4>2
        DEF VoicesInv, TracksInv, Quiet, SameRoom, SameVoices, ShouldSubscribe
      <4>4. QED
        BY <4>2, <4>3
    <3>3. CASE p \in a.page.known /\ ~ShouldSubscribe(a, p)
      BY <1>4, <2>1, <3>3 DEF SetRemoteStream, Quiet, SameRoom, SameOffer, SameMicrophone
    <3>4. QED
      BY <3>1, <3>2, <3>3
  <2>4. QED
    BY <1>1, <1>3, <2>2, <2>3, QuietTransitive, QuietKeeps, BecomeKeeps
<1>7. QED
  BY <1>5, <1>6

\* A track is taken away.
LEMMA TrackUnsubscribedKeeps ==
    ASSUME VoiceSafe, NEW p \in People, TrackUnsubscribed(p) PROVE VoiceSafe'
<1>1. VoiceInv(w) /\ w \in StateType /\ VoicesInv(w)
  BY StateIs DEF VoiceInv
<1>2. PICK a : a = [w EXCEPT !.library.given[p] = "no"]
  OBVIOUS
<1>3. Quiet(w, a) /\ SameVoices(w, a)
  BY <1>1, <1>2, GivenIs
<1>4. a \in StateType /\ VoicesInv(a)
  BY <1>1, <1>3, SameVoicesKeep DEF Quiet
<1>5. PICK t : t = ClearRemoteStream(a, p)
  OBVIOUS
<1>6. /\ Quiet(a, t) /\ TracksInv(t)
      /\ t.page.known = a.page.known /\ t.page.near = a.page.near
      /\ t.page.stream \subseteq a.page.stream
  BY <1>4, <1>5, ClearKeeps DEF VoicesInv
<1>7. VoicesInv(t)
  BY <1>4, <1>6 DEF VoicesInv
<1>8. Become(t)
  BY <1>2, <1>5 DEF TrackUnsubscribed
<1>9. QED
  BY <1>1, <1>3, <1>6, <1>7, <1>8, QuietTransitive, QuietKeeps, BecomeKeeps

\* A person turns the microphone on.
LEMMA PersonPublishesKeeps ==
    ASSUME VoiceSafe, NEW p \in People, PersonPublishes(p) PROVE VoiceSafe'
<1>1. VoiceInv(w) /\ w \in StateType /\ VoicesInv(w)
  BY StateIs DEF VoiceInv
<1>2. PICK a : a = [w EXCEPT !.library.present = @ \cup {p}]
  OBVIOUS
<1>3. /\ a.library = [w.library EXCEPT !.present = @ \cup {p}] /\ a.page = w.page
      /\ a = [page |-> a.page, library |-> a.library]
  BY <1>1, <1>2 DEF StateType
<1>4. a \in StateType
  <2>1. a.library \in LibraryType
    BY <1>1, <1>3 DEF StateType, LibraryType
  <2>2. QED
    BY <1>1, <1>3, <2>1 DEF StateType
<1>5. a.library.status = w.library.status /\ a.library.present = w.library.present \cup {p}
  BY <1>1, <1>3 DEF StateType, LibraryType
<1>6. Quiet(w, a)
  BY <1>3, <1>4, <1>5 DEF Quiet, SameRoom, SameOffer, SameMicrophone
<1>7. VoicesInv(a)
  <2>1. SoundInv(a)
    BY <1>1, <1>3 DEF VoicesInv, TracksInv, SoundInv
  <2>2. QED
    BY <1>1, <1>3, <1>5, <2>1 DEF VoicesInv, TracksInv
<1> DEFINE asked == p \in page.known /\ ShouldSubscribe(w, p)
<1>8. asked \in BOOLEAN
  OBVIOUS
<1>9. PICK t : t = IF Hears THEN SetSubscribed(a, p, asked) ELSE a
  OBVIOUS
<1>10. Become(t)
  BY <1>2, <1>9 DEF PersonPublishes
<1> HIDE DEF asked
<1>11. Quiet(a, t) /\ VoicesInv(t)
  <2>1. CASE Hears
    BY <1>4, <1>7, <1>8, <1>9, <2>1, SetSubscribedIs, SameVoicesKeep
  <2>2. CASE ~Hears
    BY <1>4, <1>7, <1>9, <2>2 DEF Quiet, SameRoom, SameOffer, SameMicrophone
  <2>3. QED
    BY <2>1, <2>2
<1>12. QED
  BY <1>1, <1>6, <1>10, <1>11, QuietTransitive, QuietKeeps, BecomeKeeps

\* A person leaves the room of voices.
LEMMA PersonLeavesVoiceKeeps ==
    ASSUME VoiceSafe, NEW p \in People, PersonLeavesVoice(p) PROVE VoiceSafe'
<1>1. VoiceInv(w) /\ w \in StateType /\ VoicesInv(w)
  BY StateIs DEF VoiceInv
<1>2. PICK a : a = [w EXCEPT !.library.present = @ \ {p}, !.library.left = @ \ {p},
                            !.library.given[p] = "no",
                            !.library.wanted = @ \cup {p}]
  OBVIOUS
<1>3. PICK g \in [People -> {"no", "yes", "leaving"}] : g = [w.library.given EXCEPT ![p] = "no"]
  BY <1>1 DEF StateType, LibraryType
<1>4. /\ a.library = [w.library EXCEPT !.present = @ \ {p}, !.left = @ \ {p},
                                       !.given = g, !.wanted = @ \cup {p}]
      /\ a.page = w.page
      /\ a = [page |-> a.page, library |-> a.library]
  BY <1>1, <1>2, <1>3 DEF StateType, LibraryType
<1>5. a \in StateType
  <2>1. PICK x : x = [w.library EXCEPT !.present = @ \ {p}, !.left = @ \ {p}]
    OBVIOUS
  <2>2. x \in LibraryType
    BY <1>1, <2>1 DEF StateType, LibraryType
  <2>3. a.library = [x EXCEPT !.given = g, !.wanted = @ \cup {p}]
    BY <1>1, <1>4, <2>1 DEF StateType, LibraryType
  <2>4. a.library \in LibraryType
    BY <2>2, <2>3, ZenonT(60) DEF LibraryType
  <2>5. QED
    BY <1>1, <1>4, <2>4 DEF StateType
<1>6. a.library.status = w.library.status /\ a.library.present = w.library.present \ {p}
  BY <1>1, <1>4 DEF StateType, LibraryType
<1>7. Quiet(w, a)
  BY <1>4, <1>5, <1>6 DEF Quiet, SameRoom, SameOffer, SameMicrophone
<1>8. PICK t : t = ClearRemoteStream(a, p)
  OBVIOUS
<1>9. Become(t)
  BY <1>2, <1>8 DEF PersonLeavesVoice
<1>10. /\ Quiet(a, t)
       /\ t.page.known = a.page.known /\ t.page.near = a.page.near
       /\ t.page.plays = a.page.plays
       /\ t.page.pending = a.page.pending \ {p} /\ t.page.stream = a.page.stream \ {p}
       /\ t.library = a.library /\ SoundInv(t)
  <2>1. a.page.stream \subseteq a.page.known /\ SoundInv(a)
    BY <1>1, <1>4 DEF VoicesInv, TracksInv, SoundInv
  <2>2. QED
    BY <1>5, <1>8, <2>1, ClearRemoteStreamIs
<1>11. VoicesInv(t)
  BY <1>1, <1>4, <1>6, <1>10 DEF VoicesInv, TracksInv, Quiet, SameRoom
<1>12. QED
  BY <1>1, <1>7, <1>9, <1>10, <1>11, QuietTransitive, QuietKeeps, BecomeKeeps

\* An element begins to play, for a peer or for nobody.
LEMMA PlaysKeep ==
    ASSUME VoiceSafe, NEW p \in People, PlayBegins(p) \/ OrphanPlayBegins(p)
    PROVE  VoiceSafe'
<1>1. VoiceInv(w) /\ w \in StateType /\ VoicesInv(w) /\ w.page = page
  BY StateIs DEF VoiceInv
<1>2. CASE PlayBegins(p)
  <2> DEFINE layer == IF page.voiceLayer THEN "wired" ELSE "detached"
             y == IF page.graph[p] = "wired" THEN page.stray \cup {p} ELSE page.stray
  <2>1. PICK n \in [People -> 0 .. MaxPlays] : n = [w.page.plays EXCEPT ![p] = @ - 1]
    <3>1. w.page.plays \in [People -> 0 .. MaxPlays] /\ w.page.plays[p] - 1 \in 0 .. MaxPlays
      BY <1>1, <1>2, VoiceAssumption DEF StateType, PageType, PlayBegins
    <3>2. QED
      BY <3>1
  <2>2. PICK g \in [People -> {"none", "detached", "wired"}] : g = [w.page.graph EXCEPT ![p] = layer]
    BY <1>1 DEF StateType, PageType
  <2>3. PICK t : t = [w EXCEPT !.page.plays = n, !.page.stray = y, !.page.graph = g]
    OBVIOUS
  <2>4. Become(t)
    <3>1. t = [w EXCEPT !.page.plays[p] = @ - 1,
                        !.page.stray = IF page.graph[p] = "wired" THEN @ \cup {p} ELSE @,
                        !.page.graph[p] = IF page.voiceLayer THEN "wired" ELSE "detached"]
      <4>1. PICK a : a = [w EXCEPT !.page.plays[p] = @ - 1]
        OBVIOUS
      <4>2. a = [w EXCEPT !.page.plays = n] /\ a.page.stray = page.stray
            /\ a.page.graph = w.page.graph
        BY <1>1, <2>1, <4>1 DEF StateType, PageType
      <4>3. PICK b : b = [a EXCEPT !.page.stray = IF page.graph[p] = "wired" THEN @ \cup {p} ELSE @]
        OBVIOUS
      <4>4. b = [a EXCEPT !.page.stray = y] /\ b.page.graph = w.page.graph
        BY <1>1, <4>2, <4>3 DEF StateType, PageType
      <4>5. PICK c : c = [b EXCEPT !.page.graph[p] =
                                      IF page.voiceLayer THEN "wired" ELSE "detached"]
        OBVIOUS
      <4>6. c = [b EXCEPT !.page.graph = g]
        BY <2>2, <4>4, <4>5
      <4>7. t = c
        <5> HIDE DEF y
        <5>1. QED
          BY <2>3, <4>2, <4>4, <4>6
      <4>8. c = [w EXCEPT !.page.plays[p] = @ - 1,
                        !.page.stray = IF page.graph[p] = "wired" THEN @ \cup {p} ELSE @,
                        !.page.graph[p] = IF page.voiceLayer THEN "wired" ELSE "detached"]
        <5>1. b = [w EXCEPT !.page.plays[p] = @ - 1,
                        !.page.stray = IF page.graph[p] = "wired" THEN @ \cup {p} ELSE @]
          BY <4>1, <4>3
        <5>2. QED
          BY <4>5, <5>1
      <4>9. QED
        BY <4>7, <4>8
    <3>2. QED
      BY <1>2, <3>1 DEF PlayBegins
  <2>5. y \in SUBSET People /\ p \in w.page.known
    BY <1>1, <1>2 DEF StateType, PageType, PlayBegins, VoicesInv, TracksInv
  <2>51. layer = IF w.page.voiceLayer THEN "wired" ELSE "detached"
    BY <1>1
  <2> HIDE DEF y, layer
  <2>6. /\ t.page = [w.page EXCEPT !.plays = n, !.stray = y, !.graph = g]
        /\ t.library = w.library /\ t = [page |-> t.page, library |-> t.library]
    BY <1>1, <2>3 DEF StateType
  <2>7. t \in StateType
    <3>1. PICK x : x = [w.page EXCEPT !.plays = n, !.stray = y]
      OBVIOUS
    <3>2. x \in PageType
      <4>1. PICK z : z = [w.page EXCEPT !.plays = n]
        OBVIOUS
      <4>2. z \in PageType
        BY <1>1, <4>1 DEF StateType, PageType
      <4>3. x = [z EXCEPT !.stray = y]
        BY <3>1, <4>1
      <4>4. QED
        BY <2>5, <4>2, <4>3 DEF PageType
    <3>3. t.page = [x EXCEPT !.graph = g]
      BY <2>6, <3>1
    <3>4. t.page \in PageType
      BY <3>2, <3>3 DEF PageType
    <3>5. QED
      BY <1>1, <2>6, <3>4 DEF StateType
  <2>8. /\ Quiet(w, t) /\ t.page.plays = n
        /\ t.page.graph = g /\ t.page.voiceLayer = w.page.voiceLayer
        /\ t.page.known = w.page.known /\ t.page.near = w.page.near
        /\ t.page.pending = w.page.pending /\ t.page.stream = w.page.stream
    BY <1>1, <2>6, <2>7 DEF Quiet, StateType, PageType, SameRoom, SameOffer, SameMicrophone
  <2>9. \A q \in People \ w.page.known : n[q] = w.page.plays[q]
    BY <1>1, <2>1, <2>5 DEF StateType, PageType
  <2>10. VoicesInv(t)
    <3>1. SoundInv(t)
      <4>1. g[p] = layer /\ \A q \in People \ {p} : g[q] = w.page.graph[q] /\ n[q] = w.page.plays[q]
        BY <1>1, <2>1, <2>2 DEF StateType, PageType
      <4>2. QED
        BY <1>1, <2>5, <2>51, <2>8, <4>1 DEF VoicesInv, TracksInv, SoundInv, StateType, PageType
    <3>2. QED
      BY <1>1, <2>6, <2>8, <2>9, <3>1 DEF VoicesInv, TracksInv, Quiet, SameRoom
  <2>11. QED
    BY <1>1, <2>4, <2>8, <2>10, QuietKeeps, BecomeKeeps
<1>3. CASE OrphanPlayBegins(p)
  <2> DEFINE y == IF page.voiceLayer THEN page.stray \cup {p} ELSE page.stray
  <2>1. PICK t : t = [w EXCEPT !.page.orphanPlays = @ \ {p}, !.page.stray = y]
    OBVIOUS
  <2>2. Become(t)
    <3>1. t = [w EXCEPT !.page.orphanPlays = @ \ {p},
                        !.page.stray = IF page.voiceLayer THEN @ \cup {p} ELSE @]
      <4>1. PICK a : a = [w EXCEPT !.page.orphanPlays = @ \ {p}]
        OBVIOUS
      <4>2. a.page.stray = page.stray
        BY <1>1, <4>1 DEF StateType, PageType
      <4>3. QED
        BY <2>1, <4>1, <4>2
    <3>2. QED
      BY <1>3, <3>1 DEF OrphanPlayBegins
  <2>3. y \in SUBSET People
    BY <1>1 DEF StateType, PageType
  <2> HIDE DEF y
  <2>4. /\ t.page = [w.page EXCEPT !.orphanPlays = @ \ {p}, !.stray = y]
        /\ t.library = w.library /\ t = [page |-> t.page, library |-> t.library]
    BY <1>1, <2>1 DEF StateType
  <2>5. t \in StateType
    <3>1. PICK x : x = [w.page EXCEPT !.orphanPlays = @ \ {p}]
      OBVIOUS
    <3>2. x \in PageType
      BY <1>1, <3>1 DEF StateType, PageType
    <3>3. t.page = [x EXCEPT !.stray = y]
      BY <2>4, <3>1
    <3>4. t.page \in PageType
      BY <2>3, <3>2, <3>3 DEF PageType
    <3>5. QED
      BY <1>1, <2>4, <3>4 DEF StateType
  <2>6. Quiet(w, t) /\ SameVoices(w, t)
    BY <1>1, <2>4, <2>5
    DEF Quiet, StateType, PageType, SameRoom, SameOffer, SameMicrophone, SameVoices
  <2>7. QED
    BY <1>1, <2>2, <2>6, SameVoicesKeep, QuietKeeps, BecomeKeeps
<1>4. QED
  BY <1>2, <1>3

\* The layer of voices is silenced or restored.
LEMMA ToggleVoiceLayerKeeps ==
    ASSUME VoiceSafe, ToggleVoiceLayer PROVE VoiceSafe'
<1> DEFINE enabled == ~page.voiceLayer
<1>1. VoiceInv(w) /\ w \in StateType /\ VoicesInv(w) /\ w.page = page
      /\ \A p \in People : w.page.plays[p] < MaxPlays
  BY StateIs DEF VoiceInv, ToggleVoiceLayer
<1>2. enabled \in BOOLEAN
  OBVIOUS
<1>3. PICK t : t = SetVoiceLayer(w, enabled)
  OBVIOUS
<1>4. Become(t)
  BY <1>3 DEF ToggleVoiceLayer
<1>41. enabled = ~w.page.voiceLayer
  BY <1>1
<1> HIDE DEF enabled
<1>5. PICK g \in [People -> {"none", "detached", "wired"}] :
          g = [p \in People |-> IF p \in w.page.known /\ (enabled => p \in w.page.stream)
                                THEN "none" ELSE w.page.graph[p]]
  BY <1>1 DEF StateType, PageType
<1>6. PICK n \in [People -> 0 .. MaxPlays] :
          n = [p \in People |-> IF enabled /\ p \in w.page.stream THEN w.page.plays[p] + 1
                                ELSE w.page.plays[p]]
  <2>1. \A p \in People : w.page.plays[p] \in 0 .. MaxPlays /\ w.page.plays[p] + 1 \in 0 .. MaxPlays
    BY <1>1, VoiceAssumption DEF StateType, PageType
  <2>2. QED
    BY <2>1
<1>7. /\ t.page = [w.page EXCEPT !.voiceLayer = enabled, !.graph = g, !.plays = n]
      /\ t.library = w.library /\ t = [page |-> t.page, library |-> t.library]
  BY <1>1, <1>3, <1>5, <1>6 DEF SetVoiceLayer, StateType, PageType
<1>8. t \in StateType
  <2>1. PICK x : x = [w.page EXCEPT !.voiceLayer = enabled, !.graph = g]
    OBVIOUS
  <2>2. x \in PageType
    BY <1>1, <1>2, <2>1, ZenonT(60) DEF StateType, PageType
  <2>3. t.page = [x EXCEPT !.plays = n]
    BY <1>7, <2>1
  <2>4. t.page \in PageType
    BY <2>2, <2>3 DEF PageType
  <2>5. QED
    BY <1>1, <1>7, <2>4 DEF StateType
<1>9. /\ Quiet(w, t) /\ t.page.plays = n /\ t.page.graph = g /\ t.page.voiceLayer = enabled
      /\ t.page.known = w.page.known /\ t.page.near = w.page.near
      /\ t.page.pending = w.page.pending /\ t.page.stream = w.page.stream
  BY <1>1, <1>7, <1>8 DEF Quiet, StateType, PageType, SameRoom, SameOffer, SameMicrophone
<1>10. \A q \in People \ w.page.known : n[q] = w.page.plays[q]
  BY <1>1, <1>6 DEF VoicesInv, TracksInv
<1>11. VoicesInv(t)
  <2>1. \A q \in People : g[q] # "wired"
    BY <1>1, <1>5, <1>41 DEF VoicesInv, TracksInv, SoundInv
  <2>2. \A q \in w.page.stream : enabled => n[q] > 0
    <3>1. w.page.stream \subseteq People /\ \A q \in People : w.page.plays[q] \in Nat
      BY <1>1, VoiceAssumption DEF StateType, PageType
    <3>2. QED
      BY <1>6, <3>1
  <2>3. SoundInv(t)
    BY <1>9, <2>1, <2>2 DEF SoundInv
  <2>4. QED
    BY <1>1, <1>7, <1>9, <1>10, <2>3 DEF VoicesInv, TracksInv, Quiet, SameRoom
<1>12. QED
  BY <1>1, <1>4, <1>9, <1>11, QuietKeeps, BecomeKeeps

\* Nothing that happens to a voice moves the room or the microphone.
LEMMA VoicesKeep == ASSUME VoiceSafe, Voices PROVE VoiceSafe'
BY ToggleVoiceLayerKeeps, ListenerMovesKeeps, PeerLeavesKeeps, PlaysKeep, PersonPublishesKeeps,
   PersonLeavesVoiceKeeps, TrackSubscribedKeeps, TrackUnsubscribedKeeps, PeerUpdatesKeeps
   DEF Voices

-----------------------------------------------------------------------------
(* The functions of the microphone.                                        *)

\* A step of the microphone leaves the room and the voices alone.
Aside(s, t) == t \in StateType /\ SameRoom(s, t) /\ SameVoices(s, t)

\* Such steps follow one another.
LEMMA AsideTransitive ==
    ASSUME NEW s, NEW t, NEW u, Aside(s, t), Aside(t, u) PROVE Aside(s, u)
BY DEF Aside, SameRoom, SameVoices

\* So do steps that leave the offer alone.
LEMMA SameOfferTransitive ==
    ASSUME NEW s, NEW t, NEW u, SameOffer(s, t), SameOffer(t, u) PROVE SameOffer(s, u)
BY DEF SameOffer

\* The microphone's part is all that has to be shown of them.
LEMMA AsideKeeps ==
    ASSUME NEW s, VoiceInv(s), NEW t, Aside(s, t), MicrophoneInv(t), SameOffer(s, t) \/ OfferInv(t)
    PROVE  VoiceInv(t)
<1>1. RoomInv(t)
  BY DEF VoiceInv, RoomInv, RoomBase, Aside, SameRoom
<1>2. VoicesInv(t)
  BY DEF VoiceInv, VoicesInv, TracksInv, SoundInv, Aside, SameRoom, SameVoices
<1>3. OfferInv(t)
  BY DEF VoiceInv, OfferInv, Aside, SameOffer, SameRoom
<1>4. QED
  BY <1>1, <1>2, <1>3 DEF VoiceInv, Aside

\* A name is free for the next capture while not all of them wait.
LEMMA FreshExists ==
    ASSUME NEW s \in StateType, DeviceInv(s) PROVE Fresh(s) \in Captures
<1> DEFINE S == s.page.setups
           T == {t.gen : t \in S}
           f == [t \in S |-> t.gen]
<1>1. IsFiniteSet(S) /\ (IsFiniteSet(Captures) => Cardinality(S) < Cardinality(Captures))
  BY DEF DeviceInv
<1>2. f \in Surjection(S, T)
  BY DEF Surjection
<1>3. IsFiniteSet(T) /\ Cardinality(T) <= Cardinality(S)
  BY <1>1, <1>2, FS_Surjection
<1>4. \E g \in Captures : \A t \in S : t.gen # g
  <2>1. SUFFICES ASSUME \A g \in Captures : \E t \in S : t.gen = g PROVE FALSE
    OBVIOUS
  <2>2. Captures \in SUBSET T
    BY <2>1
  <2> HIDE DEF T, f, S
  <2>3. IsFiniteSet(Captures) /\ Cardinality(Captures) <= Cardinality(T)
    BY <1>3, <2>2, FS_Subset
  <2>4. Cardinality(S) < Cardinality(Captures)
    BY <1>1, <2>3
  <2>5. Cardinality(S) \in Nat /\ Cardinality(T) \in Nat /\ Cardinality(Captures) \in Nat
    BY <1>1, <1>3, <2>3, FS_CardinalityType
  <2>6. QED
    BY <1>3, <2>3, <2>4, <2>5
<1>5. QED
  BY <1>4 DEF Fresh

\* stopLocalMedia() lets the capture in use go.
LEMMA StopIs ==
    ASSUME NEW s \in StateType, MicrophoneInv(s)
    PROVE  LET t == StopLocalMedia(s)
           IN  /\ Aside(s, t) /\ SameOffer(s, t) /\ MicrophoneInv(t)
               /\ t.page.setups = s.page.setups
<1>1. PICK g : g = Fresh(s)
  OBVIOUS
<1>2. g \in Captures
  BY <1>1, FreshExists DEF MicrophoneInv
<1>3. PICK t : t = StopLocalMedia(s)
  OBVIOUS
<1>4. t = [s EXCEPT !.page.gen = g, !.page.local = None, !.page.enabled = FALSE,
                    !.page.origin = "none", !.page.live = @ \ {s.page.local}]
  BY <1>1, <1>3 DEF StopLocalMedia
<1>5. /\ t.page = [s.page EXCEPT !.gen = g, !.local = None, !.enabled = FALSE,
                                 !.origin = "none", !.live = @ \ {s.page.local}]
      /\ t.library = s.library /\ t = [page |-> t.page, library |-> t.library]
  BY <1>4 DEF StateType
<1>6. t \in StateType
  <2>1. PICK x : x = [s.page EXCEPT !.gen = g, !.local = None, !.enabled = FALSE]
    OBVIOUS
  <2>2. x \in PageType
    BY <1>2, <2>1, ZenonT(60) DEF StateType, PageType
  <2>3. t.page = [x EXCEPT !.origin = "none", !.live = @ \ {s.page.local}]
    BY <1>5, <2>1
  <2>4. PICK y : y = [x EXCEPT !.origin = "none"]
    OBVIOUS
  <2>5. y \in PageType
    BY <2>2, <2>4 DEF PageType
  <2>6. t.page = [y EXCEPT !.live = @ \ {s.page.local}]
    BY <2>2, <2>3, <2>4 DEF PageType
  <2>7. t.page \in PageType
    BY <2>5, <2>6 DEF PageType
  <2>8. QED
    BY <1>5, <2>7 DEF StateType
<1>7. /\ t.page.gen = g /\ t.page.local = None /\ t.page.live = s.page.live \ {s.page.local}
      /\ t.page.setups = s.page.setups
      /\ Aside(s, t) /\ SameOffer(s, t)
  BY <1>5, <1>6 DEF StateType, PageType, Aside, SameRoom, SameVoices, SameOffer
<1>8. MicrophoneInv(t)
  BY <1>7 DEF MicrophoneInv, DeviceInv
<1>9. QED
  BY <1>3, <1>7, <1>8

\* The pending captures are other ones, not more than before.
LEMMA SetupsAre ==
    ASSUME NEW s \in StateType, DeviceInv(s),
           NEW S \in SUBSET [gen : Captures, stage : Stages, by : {"welcome", "settings", "fallback"}],
           IsFiniteSet(S), IsFiniteSet(Captures) => Cardinality(S) < Cardinality(Captures)
    PROVE  LET t == [s EXCEPT !.page.setups = S]
           IN  /\ Aside(s, t) /\ SameOffer(s, t) /\ DeviceInv(t)
               /\ MicrophoneInv(s) => MicrophoneInv(t)
               /\ t.page = [s.page EXCEPT !.setups = S]
<1>1. PICK t : t = [s EXCEPT !.page.setups = S]
  OBVIOUS
<1>2. /\ t.page = [s.page EXCEPT !.setups = S]
      /\ t.library = s.library /\ t = [page |-> t.page, library |-> t.library]
  BY <1>1 DEF StateType
<1>3. t \in StateType
  <2>1. t.page \in PageType
    BY <1>2 DEF StateType, PageType
  <2>2. QED
    BY <1>2, <2>1 DEF StateType
<1>4. /\ t.page.gen = s.page.gen /\ t.page.local = s.page.local /\ t.page.live = s.page.live
      /\ t.page.enabled = s.page.enabled /\ t.page.allowed = s.page.allowed
      /\ t.page.muted = s.page.muted /\ t.page.setups = S
      /\ Aside(s, t) /\ SameOffer(s, t)
  BY <1>2, <1>3 DEF StateType, PageType, Aside, SameRoom, SameVoices, SameOffer
<1>5. DeviceInv(t) /\ (MicrophoneInv(s) => MicrophoneInv(t))
  BY <1>4 DEF MicrophoneInv, DeviceInv, MicrophoneEnabled
<1>6. QED
  BY <1>1, <1>2, <1>4, <1>5

\* A capture is over.
LEMMA DropIs ==
    ASSUME NEW s \in StateType, DeviceInv(s), NEW u
    PROVE  LET t == Drop(s, u)
           IN  /\ Aside(s, t) /\ SameOffer(s, t) /\ DeviceInv(t)
               /\ MicrophoneInv(s) => MicrophoneInv(t)
               /\ t.page.running = s.page.running /\ t.page.gen = s.page.gen
<1> DEFINE S == s.page.setups \ {u}
<1>1. /\ IsFiniteSet(S)
      /\ IsFiniteSet(Captures) => Cardinality(S) < Cardinality(Captures)
  <2>1. IsFiniteSet(s.page.setups)
    BY DEF DeviceInv
  <2>2. IsFiniteSet(S) /\ Cardinality(S) <= Cardinality(s.page.setups)
    BY <2>1, FS_Subset
  <2>3. Cardinality(S) \in Nat /\ Cardinality(s.page.setups) \in Nat
    BY <2>1, <2>2, FS_CardinalityType
  <2>4. IsFiniteSet(Captures) => Cardinality(Captures) \in Nat
    BY FS_CardinalityType
  <2> HIDE DEF S
  <2>5. QED
    BY <2>2, <2>3, <2>4 DEF DeviceInv
<1>2. S \in SUBSET [gen : Captures, stage : Stages, by : {"welcome", "settings", "fallback"}]
  BY DEF StateType, PageType
<1>3. Drop(s, u) = [s EXCEPT !.page.setups = S]
  BY DEF Drop
<1> HIDE DEF S
<1>4. PICK t : t = Drop(s, u)
  OBVIOUS
<1>5. /\ Aside(s, t) /\ SameOffer(s, t) /\ DeviceInv(t)
      /\ MicrophoneInv(s) => MicrophoneInv(t)
      /\ t.page = [s.page EXCEPT !.setups = S]
  BY <1>1, <1>2, <1>3, <1>4, SetupsAre
<1>6. t.page.running = s.page.running /\ t.page.gen = s.page.gen
  BY <1>5 DEF StateType, PageType
<1>7. QED
  BY <1>4, <1>5, <1>6

\* A capture goes on to its next stage.
LEMMA AdvanceIs ==
    ASSUME NEW s \in StateType, DeviceInv(s), NEW u \in s.page.setups, NEW stage \in Stages
    PROVE  LET t == Advance(s, u, stage)
           IN  /\ Aside(s, t) /\ SameOffer(s, t) /\ DeviceInv(t)
               /\ MicrophoneInv(s) => MicrophoneInv(t)
<1>1. PICK v : v = [u EXCEPT !.stage = stage]
  OBVIOUS
<1> DEFINE S == (s.page.setups \ {u}) \cup {v}
<1>2. /\ IsFiniteSet(S)
      /\ IsFiniteSet(Captures) => Cardinality(S) < Cardinality(Captures)
  <2> DEFINE R == s.page.setups \ {u}
  <2>1. IsFiniteSet(s.page.setups)
    BY DEF DeviceInv
  <2>2. IsFiniteSet(R) /\ Cardinality(R) = Cardinality(s.page.setups) - 1
    BY <2>1, FS_RemoveElement
  <2>3. Cardinality(R) \in Nat /\ Cardinality(s.page.setups) \in Nat
    BY <2>1, <2>2, FS_CardinalityType
  <2> HIDE DEF R
  <2>4. /\ IsFiniteSet(R \cup {v})
        /\ Cardinality(R \cup {v}) = IF v \in R THEN Cardinality(R) ELSE Cardinality(R) + 1
    BY <2>2, FS_AddElement
  <2>5. IsFiniteSet(Captures) => Cardinality(Captures) \in Nat
    BY FS_CardinalityType
  <2>6. /\ IsFiniteSet(R \cup {v})
        /\ IsFiniteSet(Captures) => Cardinality(R \cup {v}) < Cardinality(Captures)
    BY <2>2, <2>3, <2>4, <2>5 DEF DeviceInv
  <2>7. QED
    BY <2>6 DEF R
<1>3. S \in SUBSET [gen : Captures, stage : Stages, by : {"welcome", "settings", "fallback"}]
  <2>1. u \in [gen : Captures, stage : Stages, by : {"welcome", "settings", "fallback"}]
    BY DEF StateType, PageType
  <2>2. v \in [gen : Captures, stage : Stages, by : {"welcome", "settings", "fallback"}]
    BY <1>1, <2>1
  <2>3. QED
    BY <2>2 DEF StateType, PageType
<1>4. Advance(s, u, stage) = [s EXCEPT !.page.setups = S]
  BY <1>1 DEF Advance
<1> HIDE DEF S
<1>5. QED
  BY <1>2, <1>3, <1>4, SetupsAre

\* setupLocalMedia(): the microphone is let go before the device is asked for.
LEMMA SetupIs ==
    ASSUME NEW s \in StateType, MicrophoneInv(s), CanSetUp(s),
           NEW by \in {"welcome", "settings", "fallback"}
    PROVE  LET t == SetupLocalMedia(s, by)
           IN  Aside(s, t) /\ SameOffer(s, t) /\ MicrophoneInv(t)
<1>1. PICK a : a = StopLocalMedia(s)
  OBVIOUS
<1>2. Aside(s, a) /\ SameOffer(s, a) /\ MicrophoneInv(a) /\ a.page.setups = s.page.setups
  BY <1>1, StopIs
<1>3. PICK v : v = [gen |-> a.page.gen, stage |-> "asking", by |-> by]
  OBVIOUS
<1> DEFINE S == a.page.setups \cup {v}
<1>4. /\ IsFiniteSet(S)
      /\ IsFiniteSet(Captures) => Cardinality(S) < Cardinality(Captures)
  <2>1. IsFiniteSet(a.page.setups)
    BY <1>2 DEF MicrophoneInv, DeviceInv
  <2>2. /\ IsFiniteSet(S)
        /\ Cardinality(S) = IF v \in a.page.setups THEN Cardinality(a.page.setups)
                            ELSE Cardinality(a.page.setups) + 1
    BY <2>1, FS_AddElement
  <2>3. Cardinality(a.page.setups) \in Nat
    BY <2>1, FS_CardinalityType
  <2>4. IsFiniteSet(Captures) => Cardinality(Captures) \in Nat
    BY FS_CardinalityType
  <2>5. Cardinality(a.page.setups) + 1 < Cardinality(Captures)
    BY <1>2 DEF CanSetUp
  <2> HIDE DEF S
  <2>6. QED
    BY <2>2, <2>3, <2>4, <2>5
<1>5. S \in SUBSET [gen : Captures, stage : Stages, by : {"welcome", "settings", "fallback"}]
  <2>1. a.page.gen \in Captures /\ a.page.setups \in
            SUBSET [gen : Captures, stage : Stages, by : {"welcome", "settings", "fallback"}]
    BY <1>2 DEF Aside, StateType, PageType
  <2>2. QED
    BY <1>3, <2>1 DEF Stages
<1>6. SetupLocalMedia(s, by) = [a EXCEPT !.page.setups = S]
  BY <1>1, <1>3 DEF SetupLocalMedia
<1> HIDE DEF S
<1>7. PICK t : t = SetupLocalMedia(s, by)
  OBVIOUS
<1>8. Aside(a, t) /\ SameOffer(a, t) /\ MicrophoneInv(t)
  BY <1>2, <1>4, <1>5, <1>6, <1>7, SetupsAre DEF Aside, MicrophoneInv
<1>9. QED
  BY <1>2, <1>7, <1>8, AsideTransitive, SameOfferTransitive

\* Afterwards the track is enabled as it should be.
LEMMA PolicyIs ==
    ASSUME NEW s \in StateType, DeviceInv(s)
    PROVE  LET t == ApplyPolicy(s)
           IN  Aside(s, t) /\ SameOffer(s, t) /\ MicrophoneInv(t)
<1>1. CASE s.page.local = None
  BY <1>1 DEF ApplyPolicy, Aside, SameRoom, SameVoices, SameOffer, MicrophoneInv
<1>2. CASE s.page.local # None
  <2>1. PICK b : b = MicrophoneEnabled(s)
    OBVIOUS
  <2>2. b \in BOOLEAN
    BY <2>1 DEF MicrophoneEnabled
  <2>3. PICK t : t = ApplyPolicy(s)
    OBVIOUS
  <2>4. t = [s EXCEPT !.page.enabled = b]
    BY <1>2, <2>1, <2>3 DEF ApplyPolicy
  <2>5. /\ t.page = [s.page EXCEPT !.enabled = b]
        /\ t.library = s.library /\ t = [page |-> t.page, library |-> t.library]
    BY <2>4 DEF StateType
  <2>6. t \in StateType
    <3>1. t.page \in PageType
      BY <2>2, <2>5 DEF StateType, PageType
    <3>2. QED
      BY <2>5, <3>1 DEF StateType
  <2>7. /\ t.page.gen = s.page.gen /\ t.page.local = s.page.local /\ t.page.live = s.page.live
        /\ t.page.enabled = b /\ t.page.allowed = s.page.allowed
        /\ t.page.muted = s.page.muted /\ t.page.setups = s.page.setups
        /\ Aside(s, t) /\ SameOffer(s, t)
    BY <2>5, <2>6 DEF StateType, PageType, Aside, SameRoom, SameVoices, SameOffer
  <2>8. MicrophoneInv(t)
    BY <2>1, <2>7 DEF MicrophoneInv, DeviceInv, MicrophoneEnabled
  <2>9. QED
    BY <2>3, <2>7, <2>8
<1>3. QED
  BY <1>1, <1>2

\* What the room has to take it is offered.
LEMMA PublishIs ==
    ASSUME NEW s \in StateType
    PROVE  LET t == Publish(s)
           IN  /\ Aside(s, t) /\ SameMicrophone(s, t) /\ OfferInv(t)
               /\ t.page.setups = s.page.setups
<1>1. PICK t : t = Publish(s)
  OBVIOUS
<1>2. CASE MustPublish(s)
  <2>1. t = [s EXCEPT !.page.offered = TRUE]
    BY <1>1, <1>2 DEF Publish
  <2>2. /\ t.page = [s.page EXCEPT !.offered = TRUE]
        /\ t.library = s.library /\ t = [page |-> t.page, library |-> t.library]
    BY <2>1 DEF StateType
  <2>3. t \in StateType
    <3>1. t.page \in PageType
      <4>1. PICK b \in BOOLEAN : t.page = [s.page EXCEPT !.offered = b]
        BY <2>2
      <4>2. QED
        BY <4>1 DEF StateType, PageType
    <3>2. QED
      BY <2>2, <3>1 DEF StateType
  <2>4. t.page.offered = TRUE /\ Aside(s, t) /\ SameMicrophone(s, t)
    BY <2>2, <2>3 DEF StateType, PageType, Aside, SameRoom, SameVoices, SameMicrophone
  <2>5. QED
    BY <1>1, <2>4 DEF OfferInv, SameMicrophone
<1>3. CASE ~MustPublish(s)
  BY <1>1, <1>3 DEF Publish, MustPublish, OfferInv, Aside, SameRoom, SameVoices, SameMicrophone
<1>4. QED
  BY <1>2, <1>3

-----------------------------------------------------------------------------
(* The tasks of the microphone.                                            *)

\* What a task may do to fields no invariant reads.
LEMMA PreparingIs ==
    ASSUME NEW s \in StateType, NEW n \in {0, 1}
    PROVE  LET t == [s EXCEPT !.page.preparing = n]
           IN  Aside(s, t) /\ SameOffer(s, t) /\ SameMicrophone(s, t)
<1>1. PICK t : t = [s EXCEPT !.page.preparing = n]
  OBVIOUS
<1>2. /\ t.page = [s.page EXCEPT !.preparing = n]
      /\ t.library = s.library /\ t = [page |-> t.page, library |-> t.library]
  BY <1>1 DEF StateType
<1>3. t \in StateType
  <2>1. t.page \in PageType
    BY <1>2 DEF StateType, PageType
  <2>2. QED
    BY <1>2, <2>1 DEF StateType
<1>4. Aside(s, t) /\ SameOffer(s, t) /\ SameMicrophone(s, t)
  BY <1>2, <1>3
  DEF StateType, PageType, Aside, SameRoom, SameVoices, SameOffer, SameMicrophone
<1>5. QED
  BY <1>1, <1>4

\* A microphone that is left alone stays sound.
LEMMA SameMicrophoneKeeps ==
    ASSUME NEW s, NEW t, SameMicrophone(s, t), MicrophoneInv(s)
    PROVE  MicrophoneInv(t)
BY DEF SameMicrophone, MicrophoneInv, DeviceInv, MicrophoneEnabled

\* A capture is prepared, or begins.
LEMMA PrepareKeeps ==
    ASSUME VoiceSafe, PrepareMicrophone \/ DevicesListed \/ ChooseInput PROVE VoiceSafe'
<1>1. VoiceInv(w) /\ w \in StateType /\ MicrophoneInv(w)
  BY StateIs DEF VoiceInv
<1>2. CASE PrepareMicrophone
  <2>1. PICK n \in {0, 1} : n = 1
    OBVIOUS
  <2>2. PICK t : t = [w EXCEPT !.page.preparing = n]
    OBVIOUS
  <2>3. Become(t)
    BY <1>2, <2>1, <2>2 DEF PrepareMicrophone
  <2>4. Aside(w, t) /\ SameOffer(w, t) /\ SameMicrophone(w, t)
    BY <1>1, <2>2, PreparingIs
  <2>5. QED
    BY <1>1, <2>3, <2>4, SameMicrophoneKeeps, AsideKeeps, BecomeKeeps
<1>3. CASE DevicesListed
  <2>1. PICK n \in {0, 1} : n = 0
    OBVIOUS
  <2>2. PICK a : a = [w EXCEPT !.page.preparing = n]
    OBVIOUS
  <2>3. Aside(w, a) /\ SameOffer(w, a) /\ SameMicrophone(w, a)
    BY <1>1, <2>2, PreparingIs
  <2>4. a \in StateType /\ MicrophoneInv(a) /\ CanSetUp(a)
    BY <1>1, <1>3, <2>3, SameMicrophoneKeeps
    DEF Aside, DevicesListed, CanSetUp, SameMicrophone
  <2>5. PICK t : t = SetupLocalMedia(a, "welcome")
    OBVIOUS
  <2>6. Become(t)
    BY <1>3, <2>1, <2>2, <2>5 DEF DevicesListed
  <2>7. Aside(a, t) /\ SameOffer(a, t) /\ MicrophoneInv(t)
    BY <2>4, <2>5, SetupIs
  <2>8. QED
    BY <1>1, <2>3, <2>6, <2>7, AsideTransitive, SameOfferTransitive, AsideKeeps, BecomeKeeps
<1>4. CASE ChooseInput
  <2>1. PICK t : t = SetupLocalMedia(w, "settings")
    OBVIOUS
  <2>2. Become(t) /\ CanSetUp(w)
    BY <1>4, <2>1 DEF ChooseInput
  <2>3. Aside(w, t) /\ SameOffer(w, t) /\ MicrophoneInv(t)
    BY <1>1, <2>1, <2>2, SetupIs
  <2>4. QED
    BY <1>1, <2>2, <2>3, AsideKeeps, BecomeKeeps
<1>5. QED
  BY <1>2, <1>3, <1>4

\* The device is unplugged.
LEMMA TrackEndedKeeps ==
    ASSUME VoiceSafe, TrackEnded PROVE VoiceSafe'
<1>1. VoiceInv(w) /\ w \in StateType /\ MicrophoneInv(w) /\ CanSetUp(w)
  BY StateIs DEF VoiceInv, TrackEnded
<1>2. PICK a : a = [w EXCEPT !.page.live = @ \ {page.local}]
  OBVIOUS
<1>3. /\ a.page = [w.page EXCEPT !.live = @ \ {page.local}]
      /\ a.library = w.library /\ a = [page |-> a.page, library |-> a.library]
  BY <1>1, <1>2 DEF StateType
<1>4. a \in StateType
  <2>1. a.page \in PageType
    BY <1>1, <1>3 DEF StateType, PageType
  <2>2. QED
    BY <1>1, <1>3, <2>1 DEF StateType
<1>5. /\ a.page.gen = w.page.gen /\ a.page.local = w.page.local
      /\ a.page.live = w.page.live \ {page.local}
      /\ a.page.enabled = w.page.enabled /\ a.page.allowed = w.page.allowed
      /\ a.page.muted = w.page.muted /\ a.page.setups = w.page.setups
      /\ Aside(w, a) /\ SameOffer(w, a)
  BY <1>1, <1>3, <1>4 DEF StateType, PageType, Aside, SameRoom, SameVoices, SameOffer
<1>6. MicrophoneInv(a) /\ CanSetUp(a)
  BY <1>1, <1>5 DEF MicrophoneInv, DeviceInv, MicrophoneEnabled, CanSetUp
<1>7. PICK t : t = IF page.running THEN SetupLocalMedia(a, "fallback") ELSE a
  OBVIOUS
<1>8. Become(t)
  BY <1>2, <1>7 DEF TrackEnded
<1>9. Aside(w, t) /\ SameOffer(w, t) /\ MicrophoneInv(t)
  <2>1. CASE page.running
    <3>1. Aside(a, t) /\ SameOffer(a, t) /\ MicrophoneInv(t)
      BY <1>4, <1>6, <1>7, <2>1, SetupIs
    <3>2. QED
      BY <1>5, <3>1, AsideTransitive, SameOfferTransitive
  <2>2. CASE ~page.running
    BY <1>5, <1>6, <1>7, <2>2
  <2>3. QED
    BY <2>1, <2>2
<1>10. QED
  BY <1>1, <1>8, <1>9, AsideKeeps, BecomeKeeps

\* The mute and the permission are obeyed at once.
LEMMA PermissionsKeep ==
    ASSUME VoiceSafe, ToggleMute \/ RecvPermissions PROVE VoiceSafe'
<1>1. VoiceInv(w) /\ w \in StateType /\ DeviceInv(w)
  BY StateIs DEF VoiceInv, MicrophoneInv
<1>2. PICK a : /\ a \in StateType
               /\ Aside(w, a) /\ SameOffer(w, a) /\ DeviceInv(a) /\ Become(ApplyPolicy(a))
  <2>1. CASE ToggleMute
    <3>1. PICK b \in BOOLEAN : b = ~w.page.muted
      BY <1>1 DEF StateType, PageType
    <3>2. PICK a : a = [w EXCEPT !.page.muted = b]
      OBVIOUS
    <3>3. Become(ApplyPolicy(a))
      BY <2>1, <3>1, <3>2 DEF ToggleMute
    <3>4. /\ a.page = [w.page EXCEPT !.muted = b]
          /\ a.library = w.library /\ a = [page |-> a.page, library |-> a.library]
      BY <1>1, <3>2 DEF StateType
    <3>5. a \in StateType
      <4>1. a.page \in PageType
        BY <1>1, <3>4 DEF StateType, PageType
      <4>2. QED
        BY <1>1, <3>4, <4>1 DEF StateType
    <3>6. /\ a.page.gen = w.page.gen /\ a.page.local = w.page.local /\ a.page.live = w.page.live
          /\ a.page.setups = w.page.setups /\ Aside(w, a) /\ SameOffer(w, a)
      BY <1>1, <3>4, <3>5 DEF StateType, PageType, Aside, SameRoom, SameVoices, SameOffer
    <3>7. DeviceInv(a)
      BY <1>1, <3>6 DEF DeviceInv
    <3>8. QED
      BY <3>3, <3>5, <3>6, <3>7
  <2>2. CASE RecvPermissions
    <3>1. PICK b \in BOOLEAN : b = ~w.page.allowed
      BY <1>1 DEF StateType, PageType
    <3>2. PICK a : a = [w EXCEPT !.page.allowed = b]
      OBVIOUS
    <3>3. Become(ApplyPolicy(a))
      BY <2>2, <3>1, <3>2 DEF RecvPermissions
    <3>4. /\ a.page = [w.page EXCEPT !.allowed = b]
          /\ a.library = w.library /\ a = [page |-> a.page, library |-> a.library]
      BY <1>1, <3>2 DEF StateType
    <3>5. a \in StateType
      <4>1. a.page \in PageType
        BY <1>1, <3>4 DEF StateType, PageType
      <4>2. QED
        BY <1>1, <3>4, <4>1 DEF StateType
    <3>6. /\ a.page.gen = w.page.gen /\ a.page.local = w.page.local /\ a.page.live = w.page.live
          /\ a.page.setups = w.page.setups /\ Aside(w, a) /\ SameOffer(w, a)
      BY <1>1, <3>4, <3>5 DEF StateType, PageType, Aside, SameRoom, SameVoices, SameOffer
    <3>7. DeviceInv(a)
      BY <1>1, <3>6 DEF DeviceInv
    <3>8. QED
      BY <3>3, <3>5, <3>6, <3>7
  <2>3. QED
    BY <2>1, <2>2
<1>3. PICK t : t = ApplyPolicy(a)
  OBVIOUS
<1>4. Aside(a, t) /\ SameOffer(a, t) /\ MicrophoneInv(t)
  BY <1>2, <1>3, PolicyIs
<1>5. QED
  BY <1>1, <1>2, <1>3, <1>4, AsideTransitive, SameOfferTransitive, AsideKeeps, BecomeKeeps

\* A capture that failed only takes back the microphone it asked for.
LEMMA SetupFailedIs ==
    ASSUME NEW s \in StateType, MicrophoneInv(s), NEW u
    PROVE  LET t == SetupFailed(s, u)
           IN  Aside(s, t) /\ SameOffer(s, t) /\ MicrophoneInv(t)
<1>1. PICK a : a = Drop(s, u)
  OBVIOUS
<1>2. Aside(s, a) /\ SameOffer(s, a) /\ MicrophoneInv(a) /\ a \in StateType
  BY <1>1, DropIs DEF MicrophoneInv, Aside
<1>3. PICK b : b = StopLocalMedia(a)
  OBVIOUS
<1>4. Aside(a, b) /\ SameOffer(a, b) /\ MicrophoneInv(b)
  BY <1>2, <1>3, StopIs
<1>5. SetupFailed(s, u) \in {a, b}
  BY <1>1, <1>3 DEF SetupFailed
<1>6. QED
  BY <1>2, <1>4, <1>5, AsideTransitive, SameOfferTransitive

\* The device answers: its track is used when it is the newest.
LEMMA CapturedIs ==
    ASSUME NEW s \in StateType, MicrophoneInv(s), NEW u \in s.page.setups
    PROVE  LET t == Captured(s, u)
           IN  Aside(s, t) /\ SameOffer(s, t) /\ MicrophoneInv(t)
<1>1. CASE u.gen # s.page.gen
  BY <1>1, DropIs DEF Captured, MicrophoneInv
<1>2. CASE u.gen = s.page.gen
  <2>1. PICK b : b = MicrophoneEnabled(s)
    OBVIOUS
  <2>2. b \in BOOLEAN
    BY <2>1 DEF MicrophoneEnabled
  <2>3. u \in [gen : Captures, stage : Stages, by : {"welcome", "settings", "fallback"}]
    BY DEF StateType, PageType
  <2>4. PICK a : a = [s EXCEPT !.page.local = u.gen, !.page.live = @ \cup {u.gen},
                               !.page.origin = u.by, !.page.enabled = b]
    OBVIOUS
  <2>5. /\ a.page = [s.page EXCEPT !.local = u.gen, !.live = @ \cup {u.gen},
                                   !.origin = u.by, !.enabled = b]
        /\ a.library = s.library /\ a = [page |-> a.page, library |-> a.library]
    BY <2>4 DEF StateType
  <2>6. a \in StateType
    <3>1. PICK x : x = [s.page EXCEPT !.local = u.gen]
      OBVIOUS
    <3>2. x \in PageType
      BY <2>3, <3>1 DEF StateType, PageType
    <3>3. PICK y : y = [x EXCEPT !.live = @ \cup {u.gen}]
      OBVIOUS
    <3>4. y \in PageType
      BY <2>3, <3>2, <3>3 DEF PageType
    <3>5. a.page = [y EXCEPT !.origin = u.by, !.enabled = b]
      BY <2>5, <3>1, <3>2, <3>3 DEF StateType, PageType
    <3>6. u.by \in {"none", "welcome", "settings", "fallback"}
      BY <2>3
    <3>7. PICK z : z = [y EXCEPT !.origin = u.by]
      OBVIOUS
    <3>8. z \in PageType
      BY <3>4, <3>6, <3>7 DEF PageType
    <3>9. a.page = [z EXCEPT !.enabled = b]
      BY <3>5, <3>7
    <3>10. a.page \in PageType
      BY <2>2, <3>8, <3>9 DEF PageType
    <3>11. QED
      BY <2>5, <3>10 DEF StateType
  <2>7. /\ a.page.gen = s.page.gen /\ a.page.local = u.gen
        /\ a.page.live = s.page.live \cup {u.gen}
        /\ a.page.enabled = b /\ a.page.allowed = s.page.allowed
        /\ a.page.muted = s.page.muted /\ a.page.setups = s.page.setups
        /\ Aside(s, a) /\ SameOffer(s, a)
    BY <2>5, <2>6 DEF StateType, PageType, Aside, SameRoom, SameVoices, SameOffer
  <2>8. s.page.live \subseteq {u.gen}
    <3>1. s.page.live \subseteq {None, u.gen} /\ s.page.live \subseteq Captures
      BY <1>2 DEF MicrophoneInv, DeviceInv, StateType, PageType
    <3>2. None \notin Captures
      BY VoiceAssumption DEF None
    <3>3. QED
      BY <3>1, <3>2
  <2>9. MicrophoneInv(a)
    BY <1>2, <2>1, <2>7, <2>8 DEF MicrophoneInv, DeviceInv, MicrophoneEnabled
  <2>10. PICK t : t = Advance(a, u, "configuring")
    OBVIOUS
  <2>11. Aside(a, t) /\ SameOffer(a, t) /\ MicrophoneInv(t)
    <3>1. DeviceInv(a) /\ u \in a.page.setups /\ "configuring" \in Stages
      BY <2>7, <2>9 DEF MicrophoneInv, Stages
    <3>2. QED
      BY <2>6, <2>9, <2>10, <3>1, AdvanceIs
  <2>12. Captured(s, u) = t
    BY <1>2, <2>1, <2>4, <2>10 DEF Captured
  <2>13. QED
    BY <2>7, <2>11, <2>12, AsideTransitive, SameOfferTransitive
<1>3. QED
  BY <1>1, <1>2

\* The capture is configured: its track goes to the room.
LEMMA ConfiguredIs ==
    ASSUME NEW s \in StateType, MicrophoneInv(s), NEW u \in s.page.setups
    PROVE  LET t == Configured(s, u)
           IN  Aside(s, t) /\ MicrophoneInv(t) /\ (SameOffer(s, t) \/ OfferInv(t))
<1>1. CASE u.gen # s.page.gen
  <2>1. PICK a : a = Drop(s, u)
    OBVIOUS
  <2>2. Aside(s, a) /\ SameOffer(s, a) /\ DeviceInv(a)
    BY <2>1, DropIs DEF MicrophoneInv
  <2>3. PICK t : t = ApplyPolicy(a)
    OBVIOUS
  <2>4. Aside(a, t) /\ SameOffer(a, t) /\ MicrophoneInv(t)
    BY <2>2, <2>3, PolicyIs DEF Aside
  <2>5. Configured(s, u) = t
    BY <1>1, <2>1, <2>3 DEF Configured
  <2>6. QED
    BY <2>2, <2>4, <2>5, AsideTransitive, SameOfferTransitive
<1>2. CASE u.gen = s.page.gen
  <2>1. PICK b : b = MicrophoneEnabled(s)
    OBVIOUS
  <2>2. b \in BOOLEAN
    BY <2>1 DEF MicrophoneEnabled
  <2>3. PICK a : a = [s EXCEPT !.page.enabled = b, !.page.outbound = TRUE]
    OBVIOUS
  <2>4. /\ a.page = [s.page EXCEPT !.enabled = b, !.outbound = TRUE]
        /\ a.library = s.library /\ a = [page |-> a.page, library |-> a.library]
    BY <2>3 DEF StateType
  <2>5. a \in StateType
    <3>1. a.page \in PageType
      <4>1. PICK x \in BOOLEAN : a.page = [s.page EXCEPT !.enabled = b, !.outbound = x]
        BY <2>4
      <4>2. PICK y : y = [s.page EXCEPT !.enabled = b]
        OBVIOUS
      <4>3. y \in PageType
        BY <2>2, <4>2 DEF StateType, PageType
      <4>4. a.page = [y EXCEPT !.outbound = x]
        BY <4>1, <4>2
      <4>5. QED
        BY <4>3, <4>4 DEF PageType
    <3>2. QED
      BY <2>4, <3>1 DEF StateType
  <2>6. /\ a.page.gen = s.page.gen /\ a.page.local = s.page.local /\ a.page.live = s.page.live
        /\ a.page.enabled = b /\ a.page.allowed = s.page.allowed
        /\ a.page.muted = s.page.muted /\ a.page.setups = s.page.setups
        /\ Aside(s, a)
    BY <2>4, <2>5 DEF StateType, PageType, Aside, SameRoom, SameVoices
  <2>7. MicrophoneInv(a)
    BY <2>1, <2>6 DEF MicrophoneInv, DeviceInv, MicrophoneEnabled
  <2>8. PICK p : p = Publish(a)
    OBVIOUS
  <2>9. Aside(a, p) /\ SameMicrophone(a, p) /\ OfferInv(p) /\ p.page.setups = a.page.setups
    BY <2>5, <2>8, PublishIs
  <2>10. MicrophoneInv(p) /\ DeviceInv(p) /\ p \in StateType /\ u \in p.page.setups
    BY <2>6, <2>7, <2>9, SameMicrophoneKeeps DEF MicrophoneInv, Aside
  <2>11. Aside(s, p)
    BY <2>6, <2>9, AsideTransitive
  <2>12. CASE MustPublish(a)
    <3>1. PICK t : t = Advance(p, u, "publishing")
      OBVIOUS
    <3>2. Aside(p, t) /\ SameOffer(p, t) /\ MicrophoneInv(t)
      BY <2>10, <3>1, AdvanceIs DEF Stages
    <3>3. Configured(s, u) = t
      BY <1>2, <2>1, <2>3, <2>8, <2>12, <3>1 DEF Configured
    <3>4. OfferInv(t)
      BY <2>9, <3>2 DEF OfferInv, SameOffer, Aside, SameRoom
    <3>5. QED
      BY <2>11, <3>2, <3>3, <3>4, AsideTransitive
  <2>13. CASE ~MustPublish(a)
    <3>1. PICK d : d = Drop(p, u)
      OBVIOUS
    <3>2. Aside(p, d) /\ SameOffer(p, d) /\ DeviceInv(d)
      BY <2>10, <3>1, DropIs
    <3>3. PICK t : t = ApplyPolicy(d)
      OBVIOUS
    <3>4. Aside(d, t) /\ SameOffer(d, t) /\ MicrophoneInv(t)
      BY <3>2, <3>3, PolicyIs DEF Aside
    <3>5. Configured(s, u) = t
      BY <1>2, <2>1, <2>3, <2>8, <2>13, <3>1, <3>3 DEF Configured
    <3>6. Aside(s, t)
      BY <2>11, <3>2, <3>4, AsideTransitive
    <3>7. OfferInv(t)
      BY <2>9, <3>2, <3>4 DEF OfferInv, SameOffer, Aside, SameRoom
    <3>8. QED
      BY <3>4, <3>5, <3>6, <3>7
  <2>14. QED
    BY <2>12, <2>13
<1>3. QED
  BY <1>1, <1>2

\* A capture that waits goes on, fails, or is recognised as late.
LEMMA CaptureSettlesKeeps ==
    ASSUME VoiceSafe, NEW u \in page.setups, CaptureSettles(u) PROVE VoiceSafe'
<1>1. VoiceInv(w) /\ w \in StateType /\ MicrophoneInv(w) /\ u \in w.page.setups
  BY StateIs DEF VoiceInv
<1>2. CASE Become(Captured(w, u))
  <2>1. PICK t : t = Captured(w, u)
    OBVIOUS
  <2>2. Aside(w, t) /\ SameOffer(w, t) /\ MicrophoneInv(t)
    BY <1>1, <2>1, CapturedIs
  <2>3. QED
    BY <1>1, <1>2, <2>1, <2>2, AsideKeeps, BecomeKeeps
<1>3. CASE Become(SetupFailed(w, u))
  <2>1. PICK t : t = SetupFailed(w, u)
    OBVIOUS
  <2>2. Aside(w, t) /\ SameOffer(w, t) /\ MicrophoneInv(t)
    BY <1>1, <2>1, SetupFailedIs
  <2>3. QED
    BY <1>1, <1>3, <2>1, <2>2, AsideKeeps, BecomeKeeps
<1>4. CASE Become(Configured(w, u))
  <2>1. PICK t : t = Configured(w, u)
    OBVIOUS
  <2>2. Aside(w, t) /\ MicrophoneInv(t) /\ (SameOffer(w, t) \/ OfferInv(t))
    BY <1>1, <2>1, ConfiguredIs
  <2>3. QED
    BY <1>1, <1>4, <2>1, <2>2, AsideKeeps, BecomeKeeps
<1>5. CASE Become(ApplyPolicy(Drop(w, u)))
  <2>1. PICK a : a = Drop(w, u)
    OBVIOUS
  <2>2. Aside(w, a) /\ SameOffer(w, a) /\ DeviceInv(a)
    BY <1>1, <2>1, DropIs DEF MicrophoneInv
  <2>3. PICK t : t = ApplyPolicy(a)
    OBVIOUS
  <2>4. Aside(a, t) /\ SameOffer(a, t) /\ MicrophoneInv(t)
    BY <2>2, <2>3, PolicyIs DEF Aside
  <2>5. QED
    BY <1>1, <1>5, <2>1, <2>2, <2>3, <2>4, AsideTransitive, SameOfferTransitive, AsideKeeps,
       BecomeKeeps
<1>6. QED
  BY <1>2, <1>3, <1>4, <1>5 DEF CaptureSettles

\* Nothing that happens to the microphone moves the room or the voices.
LEMMA MicrophoneKeeps == ASSUME VoiceSafe, Microphone PROVE VoiceSafe'
BY PrepareKeeps, TrackEndedKeeps, PermissionsKeep, CaptureSettlesKeeps DEF Microphone

-----------------------------------------------------------------------------
(* The functions of the room.                                              *)

\* A room's state changes: nothing else does.
LEMMA StatusIs ==
    ASSUME NEW s \in StateType, NEW r \in Rooms,
           NEW x \in {"none", "connecting", "connected", "interrupted"}
    PROVE  LET t == [s EXCEPT !.library.status[r] = x]
           IN  /\ t \in StateType /\ t.page = s.page
               /\ t.library.present = s.library.present
               /\ t.library.status = [s.library.status EXCEPT ![r] = x]
<1>1. PICK t : t = [s EXCEPT !.library.status[r] = x]
  OBVIOUS
<1>2. PICK g \in [Rooms -> {"none", "connecting", "connected", "interrupted"}] :
         g = [s.library.status EXCEPT ![r] = x]
  BY DEF StateType, LibraryType
<1>3. /\ t.library = [s.library EXCEPT !.status = g] /\ t.page = s.page
      /\ t = [page |-> t.page, library |-> t.library]
  BY <1>1, <1>2 DEF StateType
<1>4. t \in StateType
  <2>1. t.library \in LibraryType
    BY <1>3 DEF StateType, LibraryType
  <2>2. QED
    BY <1>3, <2>1 DEF StateType
<1>5. t.library.present = s.library.present /\ t.library.status = g
  BY <1>3 DEF StateType, LibraryType
<1>6. QED
  BY <1>1, <1>2, <1>3, <1>4, <1>5

\* Room.disconnect() leaves nothing but a join that is under way.
LEMMA CloseIs ==
    ASSUME NEW s \in StateType, NEW r \in Rooms \cup {None}
    PROVE  LET t == CloseRoom(s, r)
           IN  /\ t \in StateType /\ t.page = s.page
               /\ t.library.present = s.library.present
               /\ \A q \in Rooms : t.library.status[q] =
                      IF q = r /\ s.library.status[q] # "connecting" THEN "none"
                      ELSE s.library.status[q]
<1>1. CASE r = None
  <2>1. \A q \in Rooms : q # r
    BY <1>1, VoiceAssumption DEF None
  <2>2. QED
    BY <1>1, <2>1 DEF CloseRoom
<1>2. CASE r # None
  <2>1. r \in Rooms /\ s.library.status \in [Rooms -> {"none", "connecting", "connected", "interrupted"}]
    BY <1>2 DEF StateType, LibraryType
  <2>2. PICK x \in {"none", "connecting", "connected", "interrupted"} :
           x = IF s.library.status[r] = "connecting" THEN s.library.status[r] ELSE "none"
    BY <2>1
  <2>3. PICK t : t = CloseRoom(s, r)
    OBVIOUS
  <2>4. t = [s EXCEPT !.library.status[r] = x]
    BY <1>2, <2>1, <2>2, <2>3 DEF CloseRoom, StateType, LibraryType
  <2>5. /\ t \in StateType /\ t.page = s.page
        /\ t.library.present = s.library.present
        /\ t.library.status = [s.library.status EXCEPT ![r] = x]
    BY <2>1, <2>4, StatusIs, ZenonT(60)
  <2>6. QED
    BY <2>1, <2>2, <2>3, <2>5
<1>3. QED
  BY <1>1, <1>2

\* What releaseRoom() leaves behind.
Released(s, t) ==
    /\ t \in StateType /\ SameMicrophone(s, t)
    /\ t.page.running = s.page.running /\ t.page.timer = s.page.timer
    /\ t.page.attempts = s.page.attempts /\ t.page.recovering = s.page.recovering
    /\ t.page.reported = s.page.reported
    /\ t.page.known = s.page.known /\ t.page.near = s.page.near /\ t.page.plays = s.page.plays
    /\ t.page.room = None /\ t.page.pending = {} /\ t.page.stream = {}
    /\ \A p \in People : t.page.graph[p] = "none"
    /\ t.library.present = s.library.present
    /\ \A r \in Rooms : t.library.status[r] =
          IF r = s.page.room /\ s.library.status[r] # "connecting" THEN "none"
          ELSE s.library.status[r]

\* releaseRoom() does that.
LEMMA ReleaseIs ==
    ASSUME NEW s \in StateType PROVE Released(s, ReleaseRoom(s))
<1>1. PICK c : c = CloseRoom(s, s.page.room)
  OBVIOUS
<1>2. s.page.room \in Rooms \cup {None}
  BY DEF StateType, PageType
<1>3. /\ c \in StateType /\ c.page = s.page
      /\ c.library.present = s.library.present
      /\ \A q \in Rooms : c.library.status[q] =
             IF q = s.page.room /\ s.library.status[q] # "connecting" THEN "none"
             ELSE s.library.status[q]
  BY <1>1, <1>2, CloseIs
<1>4. PICK t : t = ReleaseRoom(s)
  OBVIOUS
<1>5. PICK g \in [People -> {"none", "detached", "wired"}] : g = [p \in People |-> "none"]
  OBVIOUS
<1>6. PICK h \in [People -> {"no", "yes", "leaving"}] : h = [p \in People |-> "no"]
  OBVIOUS
<1>7. t = [c EXCEPT !.page.room = None, !.page.offered = FALSE,
                    !.page.pending = {}, !.page.stream = {}, !.page.graph = g,
                    !.library.wanted = People, !.library.given = h]
  BY <1>1, <1>4, <1>5, <1>6 DEF ReleaseRoom
<1>8. /\ t.page = [c.page EXCEPT !.room = None, !.offered = FALSE,
                                 !.pending = {}, !.stream = {}, !.graph = g]
      /\ t.library = [c.library EXCEPT !.wanted = People, !.given = h]
      /\ t = [page |-> t.page, library |-> t.library]
  BY <1>3, <1>7 DEF StateType
<1>9. t.page \in PageType
  <2>1. c.page \in PageType
    BY <1>3 DEF StateType
  <2>2. PICK b \in BOOLEAN : b = FALSE
    OBVIOUS
  <2>3. PICK x : x = [c.page EXCEPT !.room = None, !.offered = b]
    OBVIOUS
  <2>4. x \in PageType
    BY <2>1, <2>3, ZenonT(60) DEF PageType
  <2>5. PICK y : y = [x EXCEPT !.pending = {}, !.stream = {}]
    OBVIOUS
  <2>6. y \in PageType
    BY <2>4, <2>5, ZenonT(60) DEF PageType
  <2>7. t.page = [y EXCEPT !.graph = g]
    BY <1>8, <2>1, <2>2, <2>3, <2>5 DEF PageType
  <2>8. QED
    BY <2>6, <2>7 DEF PageType
<1>10. t.library \in LibraryType
  <2>1. PICK x : x = [c.library EXCEPT !.wanted = People]
    OBVIOUS
  <2>2. x \in LibraryType
    BY <1>3, <2>1 DEF StateType, LibraryType
  <2>3. t.library = [x EXCEPT !.given = h]
    BY <1>8, <2>1
  <2>4. QED
    BY <2>2, <2>3 DEF LibraryType
<1>11. t \in StateType
  BY <1>8, <1>9, <1>10 DEF StateType
<1>12. /\ SameMicrophone(s, t)
       /\ t.page.running = s.page.running /\ t.page.timer = s.page.timer
       /\ t.page.attempts = s.page.attempts /\ t.page.recovering = s.page.recovering
       /\ t.page.reported = s.page.reported
       /\ t.page.known = s.page.known /\ t.page.near = s.page.near /\ t.page.plays = s.page.plays
       /\ t.page.room = None /\ t.page.pending = {} /\ t.page.stream = {}
       /\ t.page.graph = g
  BY <1>3, <1>8, <1>9 DEF StateType, PageType, SameMicrophone
<1>13. t.library.present = c.library.present /\ t.library.status = c.library.status
  BY <1>3, <1>8, <1>10 DEF StateType, LibraryType
<1>14. QED
  BY <1>3, <1>4, <1>5, <1>11, <1>12, <1>13 DEF Released

\* Without a room there are no voices, and the rest is as it should be.
LEMMA ReleasedKeeps ==
    ASSUME NEW s, NEW t, Released(s, t), PeersInv(s), RoomBase(s), MicrophoneInv(s)
    PROVE  VoicesInv(t) /\ RoomBase(t) /\ MicrophoneInv(t) /\ OfferInv(t) /\ PeersInv(t)
<1>1. VoicesInv(t) /\ PeersInv(t)
  BY DEF Released, PeersInv, VoicesInv, TracksInv, SoundInv
<1>2. RoomBase(t)
  BY DEF Released, RoomBase
<1>3. MicrophoneInv(t)
  BY SameMicrophoneKeeps DEF Released
<1>4. OfferInv(t)
  BY DEF Released, OfferInv
<1>5. QED
  BY <1>1, <1>2, <1>3, <1>4

\* A step of the recovery's own book leaves all else alone.
Timing(s, t) ==
    /\ t \in StateType /\ SameVoices(s, t) /\ SameOffer(s, t) /\ SameMicrophone(s, t)
    /\ t.page.running = s.page.running /\ t.page.room = s.page.room
    /\ t.library.status = s.library.status

\* Such steps follow one another.
LEMMA TimingTransitive ==
    ASSUME NEW s, NEW t, NEW u, Timing(s, t), Timing(t, u) PROVE Timing(s, u)
BY DEF Timing, SameVoices, SameOffer, SameMicrophone

\* What is left alone keeps its part of the invariant.
LEMMA TimingKeeps ==
    ASSUME NEW s, NEW t, Timing(s, t)
    PROVE  /\ VoicesInv(s) => VoicesInv(t)
           /\ PeersInv(s) => PeersInv(t)
           /\ MicrophoneInv(s) => MicrophoneInv(t)
           /\ OfferInv(s) => OfferInv(t)
<1>1. (VoicesInv(s) => VoicesInv(t)) /\ (PeersInv(s) => PeersInv(t))
  BY DEF Timing, SameVoices, VoicesInv, TracksInv, SoundInv, PeersInv
<1>2. MicrophoneInv(s) => MicrophoneInv(t)
  BY SameMicrophoneKeeps DEF Timing
<1>3. OfferInv(s) => OfferInv(t)
  BY DEF Timing, SameOffer, OfferInv
<1>4. QED
  BY <1>1, <1>2, <1>3

\* The recovery timer is set or cleared.
LEMMA TimerIs ==
    ASSUME NEW s \in StateType, NEW x \in {"off", "retry", "giveUp"}
    PROVE  LET t == [s EXCEPT !.page.timer = x]
           IN  /\ Timing(s, t) /\ t.page.timer = x
               /\ t.page.attempts = s.page.attempts /\ t.page.recovering = s.page.recovering /\ t.page.reported = s.page.reported
<1>1. PICK t : t = [s EXCEPT !.page.timer = x]
  OBVIOUS
<1>2. /\ t.page = [s.page EXCEPT !.timer = x]
      /\ t.library = s.library /\ t = [page |-> t.page, library |-> t.library]
  BY <1>1 DEF StateType
<1>3. t \in StateType
  <2>1. t.page \in PageType
    BY <1>2 DEF StateType, PageType
  <2>2. QED
    BY <1>2, <2>1 DEF StateType
<1>4. /\ Timing(s, t) /\ t.page.timer = x
      /\ t.page.attempts = s.page.attempts /\ t.page.recovering = s.page.recovering /\ t.page.reported = s.page.reported
  BY <1>2, <1>3 DEF StateType, PageType, Timing, SameVoices, SameOffer, SameMicrophone
<1>5. QED
  BY <1>1, <1>4

\* The attempts are counted.
LEMMA AttemptsAre ==
    ASSUME NEW s \in StateType, NEW x \in 0 .. Delays
    PROVE  LET t == [s EXCEPT !.page.attempts = x]
           IN  /\ Timing(s, t) /\ t.page.attempts = x
               /\ t.page.timer = s.page.timer /\ t.page.recovering = s.page.recovering /\ t.page.reported = s.page.reported
<1>1. PICK t : t = [s EXCEPT !.page.attempts = x]
  OBVIOUS
<1>2. /\ t.page = [s.page EXCEPT !.attempts = x]
      /\ t.library = s.library /\ t = [page |-> t.page, library |-> t.library]
  BY <1>1 DEF StateType
<1>3. t \in StateType
  <2>1. t.page \in PageType
    BY <1>2 DEF StateType, PageType
  <2>2. QED
    BY <1>2, <2>1 DEF StateType
<1>4. /\ Timing(s, t) /\ t.page.attempts = x
      /\ t.page.timer = s.page.timer /\ t.page.recovering = s.page.recovering /\ t.page.reported = s.page.reported
  BY <1>2, <1>3 DEF StateType, PageType, Timing, SameVoices, SameOffer, SameMicrophone
<1>5. QED
  BY <1>1, <1>4

\* A recovery begins or ends.
LEMMA RecoveringIs ==
    ASSUME NEW s \in StateType, NEW x \in BOOLEAN
    PROVE  LET t == [s EXCEPT !.page.recovering = x]
           IN  /\ Timing(s, t) /\ t.page.recovering = x
               /\ t.page.timer = s.page.timer /\ t.page.attempts = s.page.attempts /\ t.page.reported = s.page.reported
<1>1. PICK t : t = [s EXCEPT !.page.recovering = x]
  OBVIOUS
<1>2. /\ t.page = [s.page EXCEPT !.recovering = x]
      /\ t.library = s.library /\ t = [page |-> t.page, library |-> t.library]
  BY <1>1 DEF StateType
<1>3. t \in StateType
  <2>1. t.page \in PageType
    BY <1>2 DEF StateType, PageType
  <2>2. QED
    BY <1>2, <2>1 DEF StateType
<1>4. /\ Timing(s, t) /\ t.page.recovering = x
      /\ t.page.timer = s.page.timer /\ t.page.attempts = s.page.attempts /\ t.page.reported = s.page.reported
  BY <1>2, <1>3 DEF StateType, PageType, Timing, SameVoices, SameOffer, SameMicrophone
<1>5. QED
  BY <1>1, <1>4

\* The failure of a recovery is reported, or forgotten.
LEMMA ReportedIs ==
    ASSUME NEW s \in StateType, NEW x \in BOOLEAN
    PROVE  LET t == [s EXCEPT !.page.reported = x]
           IN  /\ Timing(s, t) /\ t.page.reported = x
               /\ t.page.timer = s.page.timer /\ t.page.attempts = s.page.attempts /\ t.page.recovering = s.page.recovering
<1>1. PICK t : t = [s EXCEPT !.page.reported = x]
  OBVIOUS
<1>2. /\ t.page = [s.page EXCEPT !.reported = x]
      /\ t.library = s.library /\ t = [page |-> t.page, library |-> t.library]
  BY <1>1 DEF StateType
<1>3. t \in StateType
  <2>1. t.page \in PageType
    BY <1>2 DEF StateType, PageType
  <2>2. QED
    BY <1>2, <2>1 DEF StateType
<1>4. /\ Timing(s, t) /\ t.page.reported = x
      /\ t.page.timer = s.page.timer /\ t.page.attempts = s.page.attempts /\ t.page.recovering = s.page.recovering
  BY <1>2, <1>3 DEF StateType, PageType, Timing, SameVoices, SameOffer, SameMicrophone
<1>5. QED
  BY <1>1, <1>4

\* A recovery begins anew, or is over.
Renewed(s, x) ==
    [s EXCEPT !.page.recovering = x, !.page.attempts = 0, !.page.reported = FALSE]

\* It is a step of the recovery's own book.
LEMMA RenewedIs ==
    ASSUME NEW s \in StateType, NEW x \in BOOLEAN
    PROVE  LET t == Renewed(s, x)
           IN  /\ Timing(s, t) /\ t.page.timer = s.page.timer
               /\ t.page.recovering = x /\ t.page.attempts = 0 /\ ~t.page.reported
<1>2. PICK no \in BOOLEAN : no = FALSE
  OBVIOUS
<1>3. PICK a : a = [s EXCEPT !.page.recovering = x]
  OBVIOUS
<1>4. Timing(s, a) /\ a.page.recovering = x /\ a.page.timer = s.page.timer
  BY <1>3, RecoveringIs
<1>5. PICK n \in 0 .. Delays : n = 0
  <2>1. 0 \in 0 .. Delays
    BY VoiceAssumption
  <2>2. QED
    BY <2>1
<1>6. PICK b : b = [a EXCEPT !.page.attempts = n]
  OBVIOUS
<1>7. Timing(a, b) /\ b.page.recovering = x /\ b.page.timer = s.page.timer /\ b.page.attempts = 0
  BY <1>4, <1>5, <1>6, AttemptsAre DEF Timing
<1>8. PICK c : c = [b EXCEPT !.page.reported = no]
  OBVIOUS
<1>9. /\ Timing(b, c) /\ c.page.recovering = x /\ c.page.timer = s.page.timer
      /\ c.page.attempts = 0 /\ ~c.page.reported
  BY <1>2, <1>7, <1>8, ReportedIs DEF Timing
<1>10. Timing(s, c)
  BY <1>4, <1>7, <1>9, TimingTransitive
<1>11. c = Renewed(s, x)
  BY <1>2, <1>3, <1>5, <1>6, <1>8 DEF Renewed
<1>12. QED
  BY <1>9, <1>10, <1>11

\* scheduleRecovery(): whoever has no room any more gets a timer or a report.
LEMMA ScheduleIs ==
    ASSUME NEW s \in StateType, RoomBase(s), s.page.room = None
    PROVE  LET t == ScheduleRecovery(s) IN Timing(s, t) /\ RoomInv(t)
<1>1. CASE ~s.page.running
  BY <1>1 DEF ScheduleRecovery, RoomInv, RoomBase, Timing, SameVoices, SameOffer, SameMicrophone
<1>2. CASE s.page.running
  <2>1. PICK a : a = IF s.page.recovering THEN s ELSE Renewed(s, TRUE)
    OBVIOUS
  <2>2. Timing(s, a) /\ RoomBase(a) /\ a.page.recovering
    <3>1. CASE s.page.recovering
      BY <2>1, <3>1 DEF Timing, SameVoices, SameOffer, SameMicrophone
    <3>2. CASE ~s.page.recovering
      <4>1. /\ Timing(s, a) /\ a.page.timer = s.page.timer
            /\ a.page.recovering /\ a.page.attempts = 0 /\ ~a.page.reported
        BY <2>1, <3>2, RenewedIs
      <4>2. s.page.timer = "off"
        BY <3>2 DEF RoomBase
      <4>3. QED
        BY <1>2, <4>1, <4>2 DEF RoomBase, Timing
    <3>3. QED
      BY <3>1, <3>2
  <2>3. PICK b \in BOOLEAN : b = TRUE
    OBVIOUS
  <2>4. PICK failed : failed = [a EXCEPT !.page.reported = b]
    OBVIOUS
  <2>5. PICK retried : retried = [a EXCEPT !.page.timer = "retry"]
    OBVIOUS
  <2>6. ScheduleRecovery(s) = IF a.page.timer # "off" \/ a.page.reported THEN a
                              ELSE IF a.page.attempts >= Delays THEN failed ELSE retried
    BY <1>2, <2>1, <2>3, <2>4, <2>5 DEF ScheduleRecovery, Renewed
  <2>7. a \in StateType /\ a.page.attempts \in 0 .. Delays /\ a.page.room = None /\ a.page.running
    BY <1>2, <2>2 DEF Timing, StateType, PageType
  <2>8. CASE a.page.timer # "off" \/ a.page.reported
    BY <2>2, <2>6, <2>8 DEF RoomInv
  <2>9. CASE ~(a.page.timer # "off" \/ a.page.reported) /\ a.page.attempts >= Delays
    <3>1. /\ Timing(a, failed) /\ failed.page.reported /\ failed.page.timer = a.page.timer
          /\ failed.page.attempts = a.page.attempts /\ failed.page.recovering = a.page.recovering
      BY <2>3, <2>4, <2>7, ReportedIs
    <3>2. a.page.attempts = Delays
      BY <2>7, <2>9, VoiceAssumption
    <3>3. RoomInv(failed)
      BY <2>2, <2>7, <2>9, <3>1, <3>2 DEF RoomInv, RoomBase, Timing
    <3>4. QED
      BY <2>2, <2>6, <2>9, <3>1, <3>3, TimingTransitive
  <2>10. CASE ~(a.page.timer # "off" \/ a.page.reported) /\ ~(a.page.attempts >= Delays)
    <3>1. /\ Timing(a, retried) /\ retried.page.reported = a.page.reported
          /\ retried.page.timer = "retry"
          /\ retried.page.attempts = a.page.attempts /\ retried.page.recovering = a.page.recovering
      BY <2>5, <2>7, TimerIs
    <3>2. a.page.attempts < Delays
      BY <2>7, <2>10, VoiceAssumption
    <3>3. RoomInv(retried)
      BY <2>2, <2>7, <2>10, <3>1, <3>2 DEF RoomInv, RoomBase, Timing
    <3>4. QED
      BY <2>2, <2>6, <2>10, <3>1, <3>3, TimingTransitive
  <2>11. QED
    BY <2>8, <2>9, <2>10
<1>3. QED
  BY <1>1, <1>2

\* The room is given up, and its recovery goes on.
LEMMA GivenUpKeeps ==
    ASSUME NEW s \in StateType, PeersInv(s), RoomBase(s), MicrophoneInv(s)
    PROVE  VoiceInv(ScheduleRecovery(ReleaseRoom(s)))
<1>1. PICK a : a = ReleaseRoom(s)
  OBVIOUS
<1>2. Released(s, a)
  BY <1>1, ReleaseIs
<1>3. /\ VoicesInv(a) /\ RoomBase(a) /\ MicrophoneInv(a) /\ OfferInv(a)
      /\ a \in StateType /\ a.page.room = None
  BY <1>2, ReleasedKeeps DEF Released
<1>4. PICK t : t = ScheduleRecovery(a)
  OBVIOUS
<1>5. Timing(a, t) /\ RoomInv(t)
  BY <1>3, <1>4, ScheduleIs
<1>6. VoicesInv(t) /\ MicrophoneInv(t) /\ OfferInv(t) /\ t \in StateType
  BY <1>3, <1>5, TimingKeeps DEF Timing
<1>7. QED
  BY <1>1, <1>4, <1>5, <1>6 DEF VoiceInv

\* A step that only takes note of what is under way.
Booked(s, t) == Quiet(s, t) /\ SameVoices(s, t)

\* Such a step keeps every part of the invariant.
LEMMA BookedKeeps ==
    ASSUME NEW s, NEW t, Booked(s, t)
    PROVE  /\ TracksInv(s) => TracksInv(t)
           /\ VoicesInv(s) => VoicesInv(t)
           /\ PeersInv(s) => PeersInv(t)
           /\ RoomBase(s) => RoomBase(t)
           /\ MicrophoneInv(s) => MicrophoneInv(t)
           /\ VoiceInv(s) => VoiceInv(t)
<1>1. (TracksInv(s) => TracksInv(t)) /\ (VoicesInv(s) => VoicesInv(t)) /\ (PeersInv(s) => PeersInv(t))
  BY DEF Booked, Quiet, SameRoom, SameVoices, VoicesInv, TracksInv, SoundInv, PeersInv
<1>2. RoomBase(s) => RoomBase(t)
  BY DEF Booked, Quiet, SameRoom, RoomBase
<1>3. MicrophoneInv(s) => MicrophoneInv(t)
  BY SameMicrophoneKeeps DEF Booked, Quiet
<1>4. VoiceInv(s) => VoiceInv(t)
  BY <1>1, QuietKeeps DEF Booked, VoiceInv
<1>5. QED
  BY <1>1, <1>2, <1>3, <1>4

\* A join goes on, or is over.
LEMMA JoinsAre ==
    ASSUME NEW s \in StateType, NEW r \in Rooms, NEW x \in {"none", "connecting", "publishing"}
    PROVE  Booked(s, [s EXCEPT !.page.joins[r] = x])
<1>1. PICK t : t = [s EXCEPT !.page.joins[r] = x]
  OBVIOUS
<1>2. PICK g \in [Rooms -> {"none", "connecting", "publishing"}] : g = [s.page.joins EXCEPT ![r] = x]
  BY DEF StateType, PageType
<1>3. /\ t.page = [s.page EXCEPT !.joins = g]
      /\ t.library = s.library /\ t = [page |-> t.page, library |-> t.library]
  BY <1>1, <1>2 DEF StateType
<1>4. t \in StateType
  <2>1. t.page \in PageType
    BY <1>3 DEF StateType, PageType
  <2>2. QED
    BY <1>3, <2>1 DEF StateType
<1>5. SameRoom(s, t) /\ SameOffer(s, t) /\ SameMicrophone(s, t) /\ SameVoices(s, t)
  BY <1>3 DEF StateType, PageType, SameRoom, SameOffer, SameMicrophone, SameVoices
<1>6. QED
  BY <1>1, <1>4, <1>5 DEF Booked, Quiet

\* A Reconnected handler publishes, or is done.
LEMMA HealsAre ==
    ASSUME NEW s \in StateType, NEW h \in SUBSET Rooms
    PROVE  Booked(s, [s EXCEPT !.page.heals = h])
<1>1. PICK t : t = [s EXCEPT !.page.heals = h]
  OBVIOUS
<1>3. /\ t.page = [s.page EXCEPT !.heals = h]
      /\ t.library = s.library /\ t = [page |-> t.page, library |-> t.library]
  BY <1>1 DEF StateType
<1>4. t \in StateType
  <2>1. t.page \in PageType
    BY <1>3 DEF StateType, PageType
  <2>2. QED
    BY <1>3, <2>1 DEF StateType
<1>5. SameRoom(s, t) /\ SameOffer(s, t) /\ SameMicrophone(s, t) /\ SameVoices(s, t)
  BY <1>3 DEF StateType, PageType, SameRoom, SameOffer, SameMicrophone, SameVoices
<1>6. QED
  BY <1>1, <1>4, <1>5 DEF Booked, Quiet

\* Credentials are asked for, or arrive.
LEMMA TokensAre ==
    ASSUME NEW s \in StateType, NEW n \in 0 .. MaxTokens
    PROVE  Booked(s, [s EXCEPT !.page.tokens = n])
<1>1. PICK t : t = [s EXCEPT !.page.tokens = n]
  OBVIOUS
<1>3. /\ t.page = [s.page EXCEPT !.tokens = n]
      /\ t.library = s.library /\ t = [page |-> t.page, library |-> t.library]
  BY <1>1 DEF StateType
<1>4. t \in StateType
  <2>1. t.page \in PageType
    BY <1>3 DEF StateType, PageType
  <2>2. QED
    BY <1>3, <2>1 DEF StateType
<1>5. SameRoom(s, t) /\ SameOffer(s, t) /\ SameMicrophone(s, t) /\ SameVoices(s, t)
  BY <1>3 DEF StateType, PageType, SameRoom, SameOffer, SameMicrophone, SameVoices
<1>6. QED
  BY <1>1, <1>4, <1>5 DEF Booked, Quiet

\* The end of a join in a good state.
LEMMA JoinedKeeps ==
    ASSUME NEW s, VoiceInv(s), NEW r \in Rooms PROVE VoiceInv(Joined(s, r))
<1>1. PICK a : a = [s EXCEPT !.page.joins[r] = "none"]
  OBVIOUS
<1>2. s \in StateType
  BY DEF VoiceInv
<1>3. Booked(s, a)
  BY <1>1, <1>2, JoinsAre
<1>4. VoiceInv(a) /\ a \in StateType /\ a.page.room = s.page.room
  BY <1>3, BookedKeeps DEF VoiceInv, Booked, Quiet, SameRoom
<1>5. PICK t : t = Renewed(a, FALSE)
  OBVIOUS
<1>6. Joined(s, r) = IF s.page.room # r THEN a ELSE t
  BY <1>1, <1>5 DEF Joined, Renewed
<1>7. ASSUME s.page.room = r PROVE VoiceInv(t)
  <2>1. PICK x \in BOOLEAN : x = FALSE
    OBVIOUS
  <2>2. /\ Timing(a, t) /\ t.page.timer = a.page.timer
        /\ ~t.page.recovering /\ t.page.attempts = 0 /\ ~t.page.reported
    BY <1>4, <1>5, <2>1, RenewedIs
  <2>3. a.page.timer = "off"
    BY <1>4, <1>7, VoiceAssumption DEF VoiceInv, RoomInv, RoomBase, None
  <2>4. RoomInv(t)
    BY <1>4, <2>2, <2>3 DEF VoiceInv, RoomInv, RoomBase, Timing
  <2>5. VoicesInv(t) /\ MicrophoneInv(t) /\ OfferInv(t) /\ t \in StateType
    BY <1>4, <2>2, TimingKeeps DEF VoiceInv, Timing
  <2>6. QED
    BY <2>4, <2>5 DEF VoiceInv
<1>8. QED
  BY <1>4, <1>6, <1>7

\* A join that failed is given up, unless its room was given up before.
LEMMA JoinFailedKeeps ==
    ASSUME NEW s \in StateType, PeersInv(s), RoomBase(s), MicrophoneInv(s), NEW r \in Rooms,
           s.page.room # r => VoiceInv(s)
    PROVE  VoiceInv(JoinFailed(s, r))
<1>1. PICK a : a = [s EXCEPT !.page.joins[r] = "none"]
  OBVIOUS
<1>2. Booked(s, a)
  BY <1>1, JoinsAre
<1>3. PeersInv(a) /\ RoomBase(a) /\ MicrophoneInv(a) /\ (VoiceInv(s) => VoiceInv(a))
      /\ a \in StateType
  BY <1>2, BookedKeeps DEF Booked, Quiet
<1>4. JoinFailed(s, r) = IF s.page.room # r THEN a ELSE ScheduleRecovery(ReleaseRoom(a))
  BY <1>1 DEF JoinFailed
<1>5. VoiceInv(ScheduleRecovery(ReleaseRoom(a)))
  BY <1>3, GivenUpKeeps
<1>6. QED
  BY <1>3, <1>4, <1>5

\* The parts of the invariant that outlive the room.
LEMMA PartsAre ==
    ASSUME NEW s, VoiceInv(s)
    PROVE  s \in StateType /\ PeersInv(s) /\ RoomBase(s) /\ MicrophoneInv(s) /\ VoicesInv(s)
BY DEF VoiceInv, VoicesInv, TracksInv, PeersInv, RoomInv

\* The publication of a join settles.
LEMMA JoinPublishedKeeps ==
    ASSUME VoiceSafe, NEW r \in Rooms, NEW taken \in BOOLEAN, JoinPublished(r, taken)
    PROVE  VoiceSafe'
<1>1. VoiceInv(w)
  BY DEF VoiceSafe
<1>2. VoiceInv(Joined(w, r)) /\ VoiceInv(JoinFailed(w, r))
  BY <1>1, PartsAre, JoinedKeeps, JoinFailedKeeps
<1>3. PICK t : t = IF taken THEN Joined(w, r) ELSE JoinFailed(w, r)
  OBVIOUS
<1>4. VoiceInv(t) /\ Become(t)
  BY <1>2, <1>3 DEF JoinPublished
<1>5. QED
  BY <1>4, BecomeKeeps

\* A room that opens or closes, while another one or none is in use.
LEMMA OtherStatusKeeps ==
    ASSUME NEW s, VoiceInv(s), NEW t \in StateType, SameVoices(s, t), SameOffer(s, t),
           SameMicrophone(s, t), NEW r \in Rooms,
           t.page.running = s.page.running, t.page.room = s.page.room,
           t.page.timer = s.page.timer, t.page.attempts = s.page.attempts,
           t.page.recovering = s.page.recovering, t.page.reported = s.page.reported,
           \A q \in Rooms \ {r} : t.library.status[q] = s.library.status[q],
           t.library.status[r] = "none", s.page.room # r
    PROVE  VoiceInv(t)
<1>1. s \in StateType /\ s.page.room \in Rooms \cup {None}
  BY DEF VoiceInv, StateType, PageType
<1>2. s.page.room # None => t.library.status[s.page.room] = s.library.status[s.page.room]
  BY <1>1
<1>3. VoicesInv(t)
  BY <1>2 DEF VoiceInv, VoicesInv, TracksInv, SoundInv, SameVoices
<1>4. RoomInv(t)
  BY DEF VoiceInv, RoomInv, RoomBase
<1>5. MicrophoneInv(t)
  BY SameMicrophoneKeeps DEF VoiceInv
<1>6. OfferInv(t)
  BY <1>2 DEF VoiceInv, OfferInv, SameOffer
<1>7. QED
  BY <1>3, <1>4, <1>5, <1>6 DEF VoiceInv

\* room.connect() is refused.
LEMMA JoinRejectsKeeps ==
    ASSUME VoiceSafe, NEW r \in Rooms, JoinRejects(r) PROVE VoiceSafe'
<1>1. VoiceInv(w) /\ w \in StateType /\ PeersInv(w) /\ RoomBase(w) /\ MicrophoneInv(w)
  BY PartsAre DEF VoiceSafe
<1>2. PICK a : a = [w EXCEPT !.library.status[r] = "none"]
  OBVIOUS
<1>3. /\ a \in StateType /\ a.page = w.page
      /\ a.library.present = w.library.present
      /\ a.library.status = [w.library.status EXCEPT ![r] = "none"]
  BY <1>1, <1>2, StatusIs
<1>4. w.library.status \in [Rooms -> {"none", "connecting", "connected", "interrupted"}]
  BY <1>1 DEF StateType, LibraryType
<1>5. PeersInv(a) /\ MicrophoneInv(a)
  BY <1>1, <1>3 DEF PeersInv, MicrophoneInv, DeviceInv, MicrophoneEnabled
<1>6. RoomBase(a)
  BY <1>1, <1>3, <1>4 DEF RoomBase
<1>7. a.page.room # r => VoiceInv(a)
  BY <1>1, <1>3, <1>4, OtherStatusKeeps DEF SameVoices, SameOffer, SameMicrophone
<1>8. VoiceInv(JoinFailed(a, r)) /\ Become(JoinFailed(a, r))
  BY <1>2, <1>3, <1>5, <1>6, <1>7, JoinFailedKeeps DEF JoinRejects
<1>9. QED
  BY <1>8, BecomeKeeps

\* room.connect() succeeds, for the room in use or one given up.
LEMMA JoinResolvesKeeps ==
    ASSUME VoiceSafe, NEW r \in Rooms, JoinResolves(r) PROVE VoiceSafe'
<1>1. VoiceInv(w) /\ w \in StateType /\ PeersInv(w) /\ RoomBase(w) /\ MicrophoneInv(w)
      /\ VoicesInv(w)
  BY PartsAre DEF VoiceSafe
<1>2. PICK s : s = [w EXCEPT !.library.status[r] = "connected"]
  OBVIOUS
<1>3. /\ s \in StateType /\ s.page = w.page
      /\ s.library.present = w.library.present
      /\ s.library.status = [w.library.status EXCEPT ![r] = "connected"]
  BY <1>1, <1>2, StatusIs
<1>4. w.library.status \in [Rooms -> {"none", "connecting", "connected", "interrupted"}]
  BY <1>1 DEF StateType, LibraryType
<1>5. PICK t : t = Connected(s, r)
  OBVIOUS
<1>6. CASE w.page.room # r
  <2>1. PICK a : a = [s EXCEPT !.page.joins[r] = "none"]
    OBVIOUS
  <2>2. Booked(s, a) /\ a \in StateType
    BY <1>3, <2>1, JoinsAre DEF Booked, Quiet
  <2>3. t = CloseRoom(a, r)
    BY <1>3, <1>5, <1>6, <2>1 DEF Connected
  <2>4. /\ t \in StateType /\ t.page = a.page
        /\ t.library.present = a.library.present
        /\ \A q \in Rooms : t.library.status[q] =
               IF q = r /\ a.library.status[q] # "connecting" THEN "none"
               ELSE a.library.status[q]
    BY <2>2, <2>3, CloseIs
  <2>5. /\ t.library.status[r] = "none"
        /\ \A q \in Rooms \ {r} : t.library.status[q] = w.library.status[q]
    BY <1>3, <1>4, <2>2, <2>4 DEF Booked, Quiet, SameRoom
  <2>6. SameVoices(w, t) /\ SameOffer(w, t) /\ SameMicrophone(w, t)
    BY <1>3, <2>2, <2>4 DEF Booked, Quiet, SameVoices, SameOffer, SameMicrophone
  <2>7. /\ t.page.running = w.page.running /\ t.page.room = w.page.room
        /\ t.page.timer = w.page.timer /\ t.page.attempts = w.page.attempts
        /\ t.page.recovering = w.page.recovering /\ t.page.reported = w.page.reported
    BY <1>3, <2>2, <2>4 DEF Booked, Quiet, SameRoom
  <2>8. QED
    BY <1>1, <1>6, <2>4, <2>5, <2>6, <2>7, OtherStatusKeeps, <1>2, <1>5, BecomeKeeps DEF JoinResolves
<1>7. CASE w.page.room = r
  <2>1. TracksInv(s) /\ s.page.near \subseteq s.page.known
    <3>1. SoundInv(s)
      BY <1>1, <1>3 DEF VoicesInv, TracksInv, SoundInv
    <3>2. QED
      BY <1>1, <1>3, <1>4, <1>7, <3>1 DEF VoicesInv, TracksInv
  <2>2. RoomInv(s)
    BY <1>1, <1>3, <1>4, <1>7 DEF VoiceInv, RoomInv, RoomBase
  <2>3. MicrophoneInv(s)
    BY <1>1, <1>3 DEF MicrophoneInv, DeviceInv, MicrophoneEnabled
  <2>4. PICK synced : synced = SyncFloorSubscriptions(s)
    OBVIOUS
  <2>5. Quiet(s, synced) /\ VoicesInv(synced) /\ synced \in StateType
    BY <1>3, <2>1, <2>4, SyncKeeps DEF Quiet
  <2>6. RoomInv(synced) /\ MicrophoneInv(synced)
    BY <2>2, <2>3, <2>5, SameMicrophoneKeeps DEF RoomInv, RoomBase, Quiet, SameRoom
  <2>7. PICK p : p = Publish(synced)
    OBVIOUS
  <2>8. Aside(synced, p) /\ SameMicrophone(synced, p) /\ OfferInv(p) /\ p \in StateType
    BY <2>5, <2>7, PublishIs DEF Aside
  <2>9. RoomInv(p) /\ MicrophoneInv(p) /\ VoicesInv(p)
    BY <2>5, <2>6, <2>8, SameMicrophoneKeeps
       DEF RoomInv, RoomBase, Aside, SameRoom, SameVoices, VoicesInv, TracksInv, SoundInv
  <2>10. VoiceInv(p)
    BY <2>8, <2>9 DEF VoiceInv
  <2>11. PICK waiting : waiting = [p EXCEPT !.page.joins[r] = "publishing"]
    OBVIOUS
  <2>12. Booked(p, waiting)
    BY <2>8, <2>11, JoinsAre
  <2>13. VoiceInv(waiting)
    BY <2>10, <2>12, BookedKeeps
  <2>14. t = IF MustPublish(synced) THEN waiting ELSE Joined(p, r)
    BY <1>3, <1>5, <1>7, <2>4, <2>7, <2>11 DEF Connected
  <2>15. VoiceInv(t)
    BY <2>10, <2>13, <2>14, JoinedKeeps
  <2>16. QED
    BY <2>15, <1>2, <1>5, BecomeKeeps DEF JoinResolves
<1>8. QED
  BY <1>6, <1>7

\* The room in use is interrupted, or heals: only its state changes.
LEMMA OwnStatusIs ==
    ASSUME NEW s, VoiceInv(s), NEW r \in Rooms, NEW x \in {"connected", "interrupted"}
    PROVE  LET t == [s EXCEPT !.library.status[r] = x]
           IN  s.page.room = r =>
               /\ t \in StateType /\ VoicesInv(t) /\ RoomInv(t) /\ MicrophoneInv(t)
               /\ x = "interrupted" => OfferInv(t)
               /\ t.page = s.page
<1>1. PICK t : t = [s EXCEPT !.library.status[r] = x]
  OBVIOUS
<1>2. /\ t \in StateType /\ t.page = s.page
      /\ t.library.present = s.library.present
      /\ t.library.status = [s.library.status EXCEPT ![r] = x]
  <2>1. s \in StateType
    BY DEF VoiceInv
  <2>2. x \in {"none", "connecting", "connected", "interrupted"}
    OBVIOUS
  <2>3. QED
    BY <1>1, <2>1, <2>2, StatusIs, ZenonT(60)
<1>3. s.library.status \in [Rooms -> {"none", "connecting", "connected", "interrupted"}]
  BY DEF VoiceInv, StateType, LibraryType
<1>4. s.page.room = r => VoicesInv(t)
  BY <1>2, <1>3 DEF VoiceInv, VoicesInv, TracksInv, SoundInv
<1>5. s.page.room = r => RoomInv(t)
  BY <1>2, <1>3 DEF VoiceInv, RoomInv, RoomBase
<1>6. MicrophoneInv(t)
  BY <1>2 DEF VoiceInv, MicrophoneInv, DeviceInv, MicrophoneEnabled
<1>7. s.page.room = r /\ x = "interrupted" => OfferInv(t)
  BY <1>2, <1>3 DEF OfferInv
<1>8. QED
  BY <1>1, <1>2, <1>4, <1>5, <1>6, <1>7

\* The room in use is interrupted.
LEMMA RoomInterruptedKeeps ==
    ASSUME VoiceSafe, NEW r \in Rooms, RoomInterrupted(r) PROVE VoiceSafe'
<1>1. VoiceInv(w) /\ w.page.room = r
  BY StateIs DEF VoiceSafe, RoomInterrupted
<1>2. PICK t : t = [w EXCEPT !.library.status[r] = "interrupted"]
  OBVIOUS
<1>3. VoiceInv(t)
  BY <1>1, <1>2, OwnStatusIs DEF VoiceInv
<1>4. QED
  BY <1>2, <1>3, BecomeKeeps DEF RoomInterrupted

\* It heals, and is offered the microphone it missed.
LEMMA RoomHealsKeeps ==
    ASSUME VoiceSafe, NEW r \in Rooms, RoomHeals(r) PROVE VoiceSafe'
<1>1. VoiceInv(w) /\ w.page.room = r
  BY StateIs DEF VoiceSafe, RoomHeals
<1>2. PICK s : s = [w EXCEPT !.library.status[r] = "connected"]
  OBVIOUS
<1>3. s \in StateType /\ VoicesInv(s) /\ RoomInv(s) /\ MicrophoneInv(s) /\ s.page = w.page
  BY <1>1, <1>2, OwnStatusIs
<1>4. s.page.running
  BY <1>1, <1>3, VoiceAssumption DEF RoomInv, RoomBase, None
<1>5. PICK p : p = Publish(s)
  OBVIOUS
<1>6. Aside(s, p) /\ SameMicrophone(s, p) /\ OfferInv(p) /\ p \in StateType
  BY <1>3, <1>5, PublishIs DEF Aside
<1>7. RoomInv(p) /\ MicrophoneInv(p) /\ VoicesInv(p)
  BY <1>3, <1>6, SameMicrophoneKeeps
     DEF RoomInv, RoomBase, Aside, SameRoom, SameVoices, VoicesInv, TracksInv, SoundInv
<1>8. VoiceInv(p)
  BY <1>6, <1>7 DEF VoiceInv
<1>9. PICK h \in SUBSET Rooms : h = p.page.heals \cup {r}
  BY <1>6 DEF StateType, PageType
<1>10. PICK waiting : waiting = [p EXCEPT !.page.heals = h]
  OBVIOUS
<1>11. VoiceInv(waiting)
  BY <1>6, <1>8, <1>10, HealsAre, BookedKeeps
<1>12. PICK t : t = Healed(s, r)
  OBVIOUS
<1>13. t = waiting \/ t = p
  <2>1. ~MustPublish(s) => p = s
    BY <1>5 DEF Publish
  <2>2. [p EXCEPT !.page.heals = @ \cup {r}] = waiting
    BY <1>6, <1>9, <1>10 DEF StateType, PageType
  <2>3. QED
    BY <1>4, <1>5, <1>12, <2>1, <2>2 DEF Healed
<1>14. VoiceInv(t)
  BY <1>8, <1>11, <1>13
<1>15. QED
  BY <1>2, <1>12, <1>14, BecomeKeeps DEF RoomHeals

\* It is lost for good.
LEMMA RoomLostKeeps ==
    ASSUME VoiceSafe, NEW r \in Rooms, RoomLost(r) PROVE VoiceSafe'
BY PartsAre, GivenUpKeeps, BecomeKeeps DEF VoiceSafe, RoomLost

\* The publication after an interruption settles.
LEMMA HealPublishedKeeps ==
    ASSUME VoiceSafe, NEW r \in Rooms, NEW taken \in BOOLEAN, HealPublished(r, taken)
    PROVE  VoiceSafe'
<1>1. VoiceInv(w) /\ w \in StateType
  BY StateIs DEF VoiceSafe
<1>2. PICK h \in SUBSET Rooms : h = w.page.heals \ {r}
  BY <1>1 DEF StateType, PageType
<1>3. PICK over : over = [w EXCEPT !.page.heals = h]
  OBVIOUS
<1>4. VoiceInv(over)
  BY <1>1, <1>3, HealsAre, BookedKeeps
<1>5. over = [w EXCEPT !.page.heals = @ \ {r}]
  BY <1>1, <1>2, <1>3 DEF StateType, PageType
<1>6. VoiceInv(ScheduleRecovery(ReleaseRoom(over)))
  BY <1>4, PartsAre, GivenUpKeeps
<1>7. Become(IF taken \/ page.room # r \/ ~page.running THEN over
             ELSE ScheduleRecovery(ReleaseRoom(over)))
  BY <1>5 DEF HealPublished
<1>8. QED
  BY <1>4, <1>6, <1>7, BecomeKeeps

\* connectToRoom() up to its await: another room is given up first.
LEMMA ConnectToRoomKeeps ==
    ASSUME NEW s, VoiceInv(s), NEW r \in Rooms PROVE VoiceInv(ConnectToRoom(s, r))
<1>1. s \in StateType /\ PeersInv(s) /\ RoomBase(s) /\ MicrophoneInv(s) /\ VoicesInv(s)
  BY PartsAre
<1>2. PICK a : a = [s EXCEPT !.page.timer = "off"]
  OBVIOUS
<1>3. /\ Timing(s, a) /\ a.page.timer = "off" /\ a.page.attempts = s.page.attempts
      /\ a.page.recovering = s.page.recovering /\ a.page.reported = s.page.reported
      /\ a \in StateType
  BY <1>1, <1>2, TimerIs DEF Timing
<1>4. /\ PeersInv(a) /\ MicrophoneInv(a) /\ VoicesInv(a) /\ OfferInv(a)
  BY <1>1, <1>3, TimingKeeps DEF VoiceInv
<1>5. RoomBase(a)
  BY <1>1, <1>3 DEF RoomBase, Timing
<1>6. ASSUME ~s.page.running PROVE VoiceInv(a)
  BY <1>3, <1>4, <1>5, <1>6 DEF VoiceInv, RoomInv, RoomBase, Timing
<1>7. PICK b : b = ReleaseRoom(a)
  OBVIOUS
<1>8. Released(a, b) /\ b \in StateType
  BY <1>3, <1>7, ReleaseIs DEF Released
<1>9. PeersInv(b) /\ MicrophoneInv(b) /\ VoicesInv(b) /\ RoomBase(b)
      /\ b.page.timer = "off" /\ b.page.running = s.page.running /\ b.page.stream = {}
      /\ b.page.pending = {}
  BY <1>3, <1>4, <1>5, <1>8, ReleasedKeeps DEF Released, Timing
<1>10. PICK c : c = [b EXCEPT !.page.room = r]
  OBVIOUS
<1>11. /\ c.page = [b.page EXCEPT !.room = r]
       /\ c.library = b.library /\ c = [page |-> c.page, library |-> c.library]
  BY <1>8, <1>10 DEF StateType
<1>12. c \in StateType
  <2>1. c.page \in PageType
    BY <1>8, <1>11 DEF StateType, PageType
  <2>2. QED
    BY <1>8, <1>11, <2>1 DEF StateType
<1>13. /\ c.page.room = r /\ SameVoices(b, c) /\ SameMicrophone(b, c)
       /\ c.page.running = b.page.running /\ c.page.timer = b.page.timer
       /\ c.page.attempts = b.page.attempts /\ c.page.recovering = b.page.recovering
       /\ c.page.reported = b.page.reported /\ c.library = b.library
  BY <1>8, <1>11 DEF StateType, PageType, SameVoices, SameMicrophone
<1>14. PICK d : d = [c EXCEPT !.page.joins[r] = "connecting"]
  OBVIOUS
<1>15. Booked(c, d) /\ d \in StateType
  BY <1>12, <1>14, JoinsAre DEF Booked, Quiet
<1>16. PICK t : t = [d EXCEPT !.library.status[r] = "connecting"]
  OBVIOUS
<1>17. /\ t \in StateType /\ t.page = d.page
       /\ t.library.present = d.library.present
       /\ t.library.status = [d.library.status EXCEPT ![r] = "connecting"]
  BY <1>15, <1>16, StatusIs
<1>18. ConnectToRoom(s, r) = IF ~s.page.running THEN a ELSE t
  BY <1>2, <1>7, <1>10, <1>14, <1>16 DEF ConnectToRoom
<1>19. ASSUME s.page.running PROVE VoiceInv(t)
  <2>1. /\ t.page.room = r /\ t.page.timer = "off" /\ t.page.running
        /\ t.page.attempts = b.page.attempts /\ t.page.recovering = b.page.recovering
        /\ t.page.reported = b.page.reported
    BY <1>9, <1>13, <1>15, <1>17, <1>19 DEF Booked, Quiet, SameRoom
  <2>2. SameVoices(b, t) /\ SameMicrophone(b, t)
    BY <1>13, <1>15, <1>17 DEF Booked, Quiet, SameVoices, SameMicrophone
  <2>3. t.library.status = [b.library.status EXCEPT ![r] = "connecting"]
    BY <1>13, <1>15, <1>17 DEF Booked, Quiet, SameRoom
  <2>4. b.library.status \in [Rooms -> {"none", "connecting", "connected", "interrupted"}]
    BY <1>8 DEF StateType, LibraryType
  <2>5. VoicesInv(t)
    BY <1>9, <2>1, <2>2 DEF VoicesInv, TracksInv, SoundInv, SameVoices
  <2>6. RoomInv(t)
    <3>1. \A q \in Rooms : b.library.status[q] \notin {"connected", "interrupted"}
      BY <1>5, <1>8 DEF RoomBase, Released
    <3>2. r # None
      BY VoiceAssumption DEF None
    <3>3. QED
      BY <1>9, <2>1, <2>3, <2>4, <3>1, <3>2 DEF RoomInv, RoomBase
  <2>7. MicrophoneInv(t)
    BY <1>9, <2>2, SameMicrophoneKeeps
  <2>8. OfferInv(t)
    BY <2>1, <2>3, <2>4 DEF OfferInv
  <2>9. QED
    BY <1>17, <2>5, <2>6, <2>7, <2>8 DEF VoiceInv
<1>20. QED
  BY <1>6, <1>18, <1>19

\* Credentials arrive.
LEMMA RecvTokenKeeps ==
    ASSUME VoiceSafe, RecvToken PROVE VoiceSafe'
<1>1. VoiceInv(w) /\ w \in StateType /\ w.page.tokens > 0
  BY StateIs DEF VoiceSafe, RecvToken
<1>2. PICK r \in Rooms : Become(ConnectToRoom([w EXCEPT !.page.tokens = @ - 1], r))
  BY DEF RecvToken, FreeRooms
<1>3. PICK n \in 0 .. MaxTokens : n = w.page.tokens - 1
  BY <1>1, VoiceAssumption DEF StateType, PageType
<1>4. PICK a : a = [w EXCEPT !.page.tokens = n]
  OBVIOUS
<1>5. VoiceInv(a)
  BY <1>1, <1>4, TokensAre, BookedKeeps
<1>6. a = [w EXCEPT !.page.tokens = @ - 1]
  BY <1>1, <1>3, <1>4 DEF StateType, PageType
<1>7. QED
  BY <1>2, <1>5, <1>6, ConnectToRoomKeeps, BecomeKeeps

\* The server is asked for credentials.
LEMMA RequestTokenKeeps ==
    ASSUME NEW s, VoiceInv(s) PROVE VoiceInv(RequestToken(s))
<1>1. s \in StateType /\ s.page.tokens \in 0 .. MaxTokens
  BY DEF VoiceInv, StateType, PageType
<1>2. PICK n \in 0 .. MaxTokens :
         n = IF s.page.tokens < MaxTokens THEN s.page.tokens + 1 ELSE s.page.tokens
  BY <1>1, VoiceAssumption
<1>3. [s EXCEPT !.page.tokens = n] = RequestToken(s)
  BY <1>1, <1>2 DEF RequestToken, StateType, PageType
<1>4. VoiceInv([s EXCEPT !.page.tokens = n])
  BY <1>1, <1>2, TokensAre, BookedKeeps
<1>5. QED
  BY <1>3, <1>4

\* A timer begins an attempt, or the last one ends the recovery.
LEMMA RecoveryTimerKeeps ==
    ASSUME VoiceSafe, RecoveryTimer PROVE VoiceSafe'
<1>1. /\ VoiceInv(w) /\ w \in StateType /\ RoomBase(w) /\ w.page.timer # "off"
      /\ RoomInv(w)
  BY StateIs DEF VoiceSafe, RecoveryTimer, VoiceInv, RoomInv
<1>2. /\ w.page.running /\ w.page.recovering /\ w.page.room = None
      /\ w.page.attempts \in 0 .. Delays
  BY <1>1 DEF RoomBase, StateType, PageType
<1>3. PICK fired : fired = [w EXCEPT !.page.timer = "off"]
  OBVIOUS
<1>4. /\ Timing(w, fired) /\ fired.page.timer = "off" /\ fired \in StateType
      /\ fired.page.attempts = w.page.attempts /\ fired.page.recovering = w.page.recovering
      /\ fired.page.reported = w.page.reported
  BY <1>1, <1>3, TimerIs DEF Timing
<1>5. ASSUME NEW u, Timing(w, u), RoomInv(u) PROVE VoiceInv(u)
  BY <1>1, <1>5, TimingKeeps DEF VoiceInv, Timing
<1>6. CASE w.page.timer = "retry"
  <2>1. w.page.attempts < Delays /\ ~w.page.reported
    BY <1>1, <1>6 DEF RoomBase
  <2>2. PICK n \in 0 .. Delays : n = w.page.attempts + 1
    BY <1>2, <2>1, VoiceAssumption
  <2>3. PICK tried : tried = [fired EXCEPT !.page.attempts = n]
    OBVIOUS
  <2>4. /\ Timing(fired, tried) /\ tried.page.timer = "off" /\ tried \in StateType
        /\ tried.page.attempts = n /\ tried.page.recovering = w.page.recovering
        /\ tried.page.reported = w.page.reported
    BY <1>4, <2>3, AttemptsAre DEF Timing
  <2>5. Timing(w, tried)
    BY <1>4, <2>4, TimingTransitive
  <2>6. RoomBase(tried) /\ tried.page.room = None
    BY <1>1, <1>2, <2>1, <2>4, <2>5 DEF RoomBase, Timing
  <2>7. PICK again : again = ScheduleRecovery(tried)
    OBVIOUS
  <2>8. VoiceInv(again)
    BY <2>4, <2>5, <2>6, <2>7, ScheduleIs, TimingTransitive, <1>5
  <2>9. PICK last : last = [tried EXCEPT !.page.timer = "giveUp"]
    OBVIOUS
  <2>10. /\ Timing(tried, last) /\ last.page.timer = "giveUp"
         /\ last.page.attempts = n /\ last.page.recovering = w.page.recovering
         /\ last.page.reported = w.page.reported
    BY <2>4, <2>9, TimerIs
  <2>11. ASSUME ~(n < Delays) PROVE VoiceInv(last)
    <3>1. n = Delays
      BY <2>11, VoiceAssumption
    <3>2. Timing(w, last)
      BY <2>5, <2>10, TimingTransitive
    <3>3. RoomInv(last)
      BY <1>1, <1>2, <2>1, <2>10, <3>1, <3>2 DEF RoomInv, RoomBase, Timing
    <3>4. QED
      BY <3>2, <3>3, <1>5
  <2>12. PICK u : u = IF n < Delays THEN again ELSE last
    OBVIOUS
  <2>13. VoiceInv(u)
    BY <2>8, <2>11, <2>12
  <2>14. RecoveryFires(w) = RequestToken(u)
    <3>1. tried = [fired EXCEPT !.page.attempts = @ + 1]
      BY <1>4, <2>2, <2>3 DEF StateType, PageType
    <3>2. ~(~w.page.running \/ ~w.page.recovering \/ w.page.attempts >= Delays)
      BY <1>2, <2>1, VoiceAssumption
    <3>3. RecoveryFires(w) = RequestToken(IF tried.page.attempts < Delays THEN ScheduleRecovery(tried)
                                          ELSE [tried EXCEPT !.page.timer = "giveUp"])
      BY <1>3, <3>1, <3>2 DEF RecoveryFires
    <3>4. QED
      BY <2>4, <2>7, <2>9, <2>12, <3>3
  <2>15. Become(RecoveryFires(w))
    BY <1>6, StateIs DEF RecoveryTimer
  <2>16. QED
    BY <2>13, <2>14, <2>15, RequestTokenKeeps, BecomeKeeps
<1>7. CASE w.page.timer # "retry"
  <2>1. w.page.timer = "giveUp" /\ w.page.attempts = Delays
    BY <1>1, <1>7 DEF RoomBase, StateType, PageType
  <2>2. PICK b \in BOOLEAN : b = (w.page.reported \/ (w.page.running /\ w.page.recovering))
    OBVIOUS
  <2>3. b
    BY <1>2, <2>2
  <2>4. PICK t : t = [fired EXCEPT !.page.reported = b]
    OBVIOUS
  <2>5. /\ Timing(fired, t) /\ t.page.timer = "off" /\ t.page.reported = b
        /\ t.page.attempts = w.page.attempts /\ t.page.recovering = w.page.recovering
    BY <1>4, <2>4, ReportedIs
  <2>6. Timing(w, t)
    BY <1>4, <2>5, TimingTransitive
  <2>7. RoomInv(t)
    BY <1>1, <1>2, <2>1, <2>3, <2>5, <2>6 DEF RoomInv, RoomBase, Timing
  <2>8. GivesUp(w) = t
    BY <1>1, <1>3, <1>4, <2>2, <2>4 DEF GivesUp, StateType, PageType
  <2>9. Become(GivesUp(w))
    BY <1>7, StateIs DEF RecoveryTimer
  <2>10. QED
    BY <2>6, <2>7, <2>8, <2>9, <1>5, BecomeKeeps
<1>8. QED
  BY <1>6, <1>7

\* Every event of the room keeps the invariant.
LEMMA RoomEventsKeep == ASSUME VoiceSafe, RoomEvents PROVE VoiceSafe'
BY RecvTokenKeeps, RecoveryTimerKeeps, JoinResolvesKeeps, JoinRejectsKeeps, RoomInterruptedKeeps,
   RoomHealsKeeps, RoomLostKeeps, JoinPublishedKeeps, HealPublishedKeeps DEF RoomEvents

-----------------------------------------------------------------------------
(* The session begins and ends.                                            *)

\* The teardown leaves no room, no voice, no recovery and no capture.
LEMMA DisconnectKeeps ==
    ASSUME VoiceSafe, Disconnect PROVE VoiceSafe'
<1>1. VoiceInv(w) /\ w \in StateType /\ MicrophoneInv(w)
  BY StateIs DEF VoiceInv
<1>2. PICK a : a = StopLocalMedia(w)
  OBVIOUS
<1>3. VoiceInv(a)
  BY <1>1, <1>2, StopIs, AsideKeeps
<1>4. a \in StateType /\ PeersInv(a) /\ RoomBase(a) /\ MicrophoneInv(a)
  BY <1>3, PartsAre
<1>5. PICK b : b = [a EXCEPT !.page.timer = "off"]
  OBVIOUS
<1>6. /\ Timing(a, b) /\ b.page.timer = "off" /\ b \in StateType
  BY <1>4, <1>5, TimerIs DEF Timing
<1>7. PICK no \in BOOLEAN : no = FALSE
  OBVIOUS
<1>8. PICK c : c = Renewed(b, no)
  OBVIOUS
<1>9. /\ Timing(b, c) /\ c.page.timer = "off" /\ ~c.page.recovering
      /\ ~c.page.reported /\ c \in StateType
  BY <1>6, <1>7, <1>8, RenewedIs DEF Timing
<1>10. Timing(a, c)
  BY <1>6, <1>9, TimingTransitive
<1>11. PeersInv(c) /\ MicrophoneInv(c) /\ RoomBase(c)
  BY <1>4, <1>9, <1>10, TimingKeeps DEF RoomBase, Timing
<1>12. PICK d : d = ReleaseRoom(c)
  OBVIOUS
<1>13. Released(c, d) /\ d \in StateType /\ MicrophoneInv(d) /\ RoomBase(d) /\ PeersInv(d)
  BY <1>9, <1>11, <1>12, ReleaseIs, ReleasedKeeps DEF Released
<1> DEFINE o == d.page.orphanPlays \cup {p \in a.page.known : a.page.plays[p] > 0}
<1>14. o \in SUBSET People
  BY <1>4, <1>13 DEF StateType, PageType
<1> HIDE DEF o
<1>15. PICK n \in [People -> 0 .. MaxPlays] : n = [p \in People |-> 0]
  <2>1. 0 \in 0 .. MaxPlays
    BY VoiceAssumption
  <2>2. QED
    BY <2>1
<1>16. PICK z \in 0 .. MaxTokens : z = 0
  <2>1. 0 \in 0 .. MaxTokens
    BY VoiceAssumption
  <2>2. QED
    BY <2>1
<1>17. PICK e : e = [d EXCEPT !.page.orphanPlays = o, !.page.plays = n,
                             !.page.known = {}, !.page.near = {}, !.page.outbound = no]
  OBVIOUS
<1>18. PICK t : t = [e EXCEPT !.page.running = no, !.page.tokens = z]
  OBVIOUS
<1>19. t = [CleanupAll(StopLocalMedia(w)) EXCEPT !.page.running = FALSE, !.page.tokens = 0]
  <2>1. c = [a EXCEPT !.page.timer = "off", !.page.recovering = FALSE,
                      !.page.attempts = 0, !.page.reported = FALSE]
    BY <1>5, <1>7, <1>8 DEF Renewed
  <2>2. e = [d EXCEPT !.page.orphanPlays = @ \cup {p \in a.page.known : a.page.plays[p] > 0},
                      !.page.plays = [p \in People |-> 0],
                      !.page.known = {}, !.page.near = {}, !.page.outbound = FALSE]
    BY <1>7, <1>13, <1>15, <1>17 DEF o, StateType, PageType
  <2>3. e = CleanupAll(a)
    BY <1>12, <2>1, <2>2 DEF CleanupAll
  <2>4. QED
    BY <1>2, <1>7, <1>16, <1>18, <2>3
<1>20. /\ e.page = [d.page EXCEPT !.orphanPlays = o, !.plays = n,
                                  !.known = {}, !.near = {}, !.outbound = no]
       /\ e.library = d.library /\ e = [page |-> e.page, library |-> e.library]
  BY <1>13, <1>17 DEF StateType
<1>21. e.page \in PageType
  <2>1. PICK x : x = [d.page EXCEPT !.orphanPlays = o, !.plays = n]
    OBVIOUS
  <2>2. x \in PageType
    BY <1>13, <1>14, <2>1, ZenonT(60) DEF StateType, PageType
  <2>3. PICK y : y = [x EXCEPT !.known = {}, !.near = {}]
    OBVIOUS
  <2>4. y \in PageType
    BY <2>2, <2>3, ZenonT(60) DEF PageType
  <2>5. e.page = [y EXCEPT !.outbound = no]
    BY <1>20, <2>1, <2>3
  <2>6. QED
    BY <2>4, <2>5 DEF PageType
<1>22. e \in StateType
  BY <1>13, <1>20, <1>21 DEF StateType
<1>23. /\ t.page = [e.page EXCEPT !.running = no, !.tokens = z]
       /\ t.library = e.library /\ t = [page |-> t.page, library |-> t.library]
  BY <1>18, <1>22 DEF StateType
<1>24. t.page \in PageType
  <2>1. PICK x : x = [e.page EXCEPT !.running = no]
    OBVIOUS
  <2>2. x \in PageType
    BY <1>21, <2>1 DEF PageType
  <2>3. t.page = [x EXCEPT !.tokens = z]
    BY <1>23, <2>1
  <2>4. QED
    BY <2>2, <2>3 DEF PageType
<1>25. t \in StateType
  BY <1>22, <1>23, <1>24 DEF StateType
<1>26. /\ SameMicrophone(d, e) /\ e.page.room = d.page.room /\ e.page.timer = d.page.timer
       /\ e.page.recovering = d.page.recovering /\ e.page.reported = d.page.reported
       /\ e.page.pending = d.page.pending /\ e.page.stream = d.page.stream
       /\ e.page.known = {} /\ e.page.near = {} /\ e.page.plays = n
       /\ e.page.graph = d.page.graph
  BY <1>13, <1>20, <1>21 DEF StateType, PageType, SameMicrophone
<1>27. /\ SameMicrophone(e, t) /\ t.page.room = e.page.room /\ t.page.timer = e.page.timer
       /\ t.page.recovering = e.page.recovering /\ t.page.reported = e.page.reported
       /\ t.page.pending = e.page.pending /\ t.page.stream = e.page.stream
       /\ t.page.known = e.page.known /\ t.page.near = e.page.near /\ t.page.plays = e.page.plays
       /\ ~t.page.running /\ t.page.graph = e.page.graph
  BY <1>7, <1>21, <1>23, <1>24 DEF PageType, SameMicrophone
<1>28. /\ t.page.room = None /\ t.page.timer = "off" /\ ~t.page.recovering /\ ~t.page.reported
       /\ t.page.pending = {} /\ t.page.stream = {}
  BY <1>9, <1>13, <1>26, <1>27 DEF Released
<1>29. VoicesInv(t)
  <2>1. SoundInv(t)
    BY <1>13, <1>26, <1>27, <1>28 DEF Released, SoundInv
  <2>2. QED
    BY <1>15, <1>26, <1>27, <1>28, <2>1 DEF VoicesInv, TracksInv
<1>30. RoomInv(t)
  BY <1>13, <1>20, <1>23, <1>28, <1>26, <1>27 DEF RoomInv, RoomBase
<1>31. MicrophoneInv(t)
  BY <1>13, <1>26, <1>27, SameMicrophoneKeeps
<1>32. OfferInv(t)
  BY <1>28 DEF OfferInv
<1>33. VoiceInv(t)
  BY <1>25, <1>29, <1>30, <1>31, <1>32 DEF VoiceInv
<1>34. QED
  BY <1>19, <1>33, BecomeKeeps DEF Disconnect

\* A session begins with peers, and without a room.
LEMMA WelcomeKeeps ==
    ASSUME VoiceSafe, NEW users \in SUBSET People, NEW near \in SUBSET users, Welcome(users, near)
    PROVE  VoiceSafe'
<1>1. /\ VoiceInv(w) /\ w \in StateType /\ MicrophoneInv(w) /\ VoicesInv(w) /\ RoomBase(w)
      /\ ~w.page.running
  BY StateIs, PartsAre DEF VoiceSafe, Welcome
<1>2. /\ w.page.room = None /\ ~w.page.recovering /\ w.page.timer = "off" /\ ~w.page.reported
      /\ w.page.stream = {} /\ w.page.pending = {}
      /\ \A p \in People : w.page.plays[p] = 0 /\ w.page.graph[p] # "wired"
  BY <1>1 DEF RoomBase, VoicesInv, TracksInv, SoundInv
<1>3. PICK yes \in BOOLEAN : yes = TRUE
  OBVIOUS
<1>4. PICK z \in 0 .. MaxTokens : z = 1
  <2>1. 1 \in 0 .. MaxTokens
    BY VoiceAssumption
  <2>2. QED
    BY <2>1
<1>5. near \in SUBSET People
  OBVIOUS
<1>6. PICK a : a = [w EXCEPT !.page.running = yes, !.page.tokens = z]
  OBVIOUS
<1>7. PICK b : b = [a EXCEPT !.page.near = near, !.page.allowed = yes]
  OBVIOUS
<1>8. PICK c : c = [b EXCEPT !.page.known = users]
  OBVIOUS
<1>9. c = [[w EXCEPT !.page.running = TRUE, !.page.tokens = 1,
                     !.page.near = near, !.page.allowed = TRUE] EXCEPT !.page.known = users]
  BY <1>3, <1>4, <1>6, <1>7, <1>8
<1>10. /\ a.page = [w.page EXCEPT !.running = yes, !.tokens = z]
       /\ a.library = w.library /\ a = [page |-> a.page, library |-> a.library]
  BY <1>1, <1>6 DEF StateType
<1>11. a.page \in PageType /\ a \in StateType
  <2>1. PICK x : x = [w.page EXCEPT !.running = yes]
    OBVIOUS
  <2>2. x \in PageType
    BY <1>1, <2>1 DEF StateType, PageType
  <2>3. a.page = [x EXCEPT !.tokens = z]
    BY <1>10, <2>1
  <2>4. a.page \in PageType
    BY <2>2, <2>3 DEF PageType
  <2>5. QED
    BY <1>1, <1>10, <2>4 DEF StateType
<1>12. /\ b.page = [a.page EXCEPT !.near = near, !.allowed = yes]
       /\ b.library = a.library /\ b = [page |-> b.page, library |-> b.library]
  BY <1>7, <1>11 DEF StateType
<1>13. b.page \in PageType /\ b \in StateType
  <2>1. PICK x : x = [a.page EXCEPT !.near = near]
    OBVIOUS
  <2>2. x \in PageType
    BY <1>5, <1>11, <2>1 DEF PageType
  <2>3. b.page = [x EXCEPT !.allowed = yes]
    BY <1>12, <2>1
  <2>4. b.page \in PageType
    BY <2>2, <2>3 DEF PageType
  <2>5. QED
    BY <1>11, <1>12, <2>4 DEF StateType
<1>14. /\ c.page = [b.page EXCEPT !.known = users]
       /\ c.library = b.library /\ c = [page |-> c.page, library |-> c.library]
  BY <1>8, <1>13 DEF StateType
<1>15. c.page \in PageType /\ c \in StateType
  <2>1. c.page \in PageType
    BY <1>13, <1>14 DEF PageType
  <2>2. QED
    BY <1>13, <1>14, <2>1 DEF StateType
<1>16. /\ c.page.local = w.page.local /\ c.page.live = w.page.live /\ c.page.gen = w.page.gen
       /\ c.page.setups = w.page.setups
       /\ c.page.room = w.page.room /\ c.page.recovering = w.page.recovering
       /\ c.page.timer = w.page.timer /\ c.page.reported = w.page.reported
       /\ c.page.attempts = w.page.attempts
       /\ c.page.stream = w.page.stream /\ c.page.pending = w.page.pending
       /\ c.page.plays = w.page.plays /\ c.page.graph = w.page.graph
       /\ c.page.near = near /\ c.page.known = users /\ c.page.running
  <2>1. /\ a.page.local = w.page.local /\ a.page.live = w.page.live /\ a.page.gen = w.page.gen
        /\ a.page.setups = w.page.setups
        /\ a.page.room = w.page.room /\ a.page.recovering = w.page.recovering
        /\ a.page.timer = w.page.timer /\ a.page.reported = w.page.reported
        /\ a.page.attempts = w.page.attempts
        /\ a.page.stream = w.page.stream /\ a.page.pending = w.page.pending
        /\ a.page.plays = w.page.plays /\ a.page.running /\ a.page.graph = w.page.graph
    BY <1>1, <1>3, <1>10, <1>11 DEF StateType, PageType
  <2>2. /\ b.page.local = a.page.local /\ b.page.live = a.page.live /\ b.page.gen = a.page.gen
        /\ b.page.setups = a.page.setups
        /\ b.page.room = a.page.room /\ b.page.recovering = a.page.recovering
        /\ b.page.timer = a.page.timer /\ b.page.reported = a.page.reported
        /\ b.page.attempts = a.page.attempts
        /\ b.page.stream = a.page.stream /\ b.page.pending = a.page.pending
        /\ b.page.graph = a.page.graph
        /\ b.page.plays = a.page.plays /\ b.page.running = a.page.running /\ b.page.near = near
    BY <1>11, <1>12, <1>13 DEF PageType
  <2>3. /\ c.page.local = b.page.local /\ c.page.live = b.page.live /\ c.page.gen = b.page.gen
        /\ c.page.setups = b.page.setups
        /\ c.page.room = b.page.room /\ c.page.recovering = b.page.recovering
        /\ c.page.timer = b.page.timer /\ c.page.reported = b.page.reported
        /\ c.page.attempts = b.page.attempts
        /\ c.page.stream = b.page.stream /\ c.page.pending = b.page.pending
        /\ c.page.graph = b.page.graph
        /\ c.page.plays = b.page.plays /\ c.page.running = b.page.running
        /\ c.page.near = b.page.near /\ c.page.known = users
    BY <1>13, <1>14, <1>15 DEF PageType
  <2>4. QED
    BY <2>1, <2>2, <2>3
<1>17. VoicesInv(c)
  <2>1. SoundInv(c)
    BY <1>2, <1>16 DEF SoundInv
  <2>2. QED
    BY <1>2, <1>16, <2>1 DEF VoicesInv, TracksInv
<1>18. RoomInv(c)
  BY <1>1, <1>2, <1>10, <1>12, <1>14, <1>16 DEF RoomInv, RoomBase
<1>19. DeviceInv(c)
  BY <1>1, <1>16 DEF MicrophoneInv, DeviceInv
<1>20. OfferInv(c)
  BY <1>2, <1>16 DEF OfferInv
<1>21. PICK t : t = ApplyPolicy(c)
  OBVIOUS
<1>22. Aside(c, t) /\ SameOffer(c, t) /\ MicrophoneInv(t)
  BY <1>15, <1>19, <1>21, PolicyIs
<1>23. VoicesInv(t)
  BY <1>17, <1>22 DEF VoicesInv, TracksInv, SoundInv, Aside, SameRoom, SameVoices
<1>24. RoomInv(t) /\ OfferInv(t)
  BY <1>18, <1>20, <1>22 DEF RoomInv, RoomBase, OfferInv, Aside, SameRoom, SameOffer
<1>25. VoiceInv(t)
  BY <1>22, <1>23, <1>24 DEF VoiceInv, Aside
<1>26. Become(t)
  BY <1>9, <1>21 DEF Welcome
<1>27. QED
  BY <1>25, <1>26, BecomeKeeps

\* Both ends of a session keep the invariant.
LEMMA SessionsKeep == ASSUME VoiceSafe, Sessions PROVE VoiceSafe'
BY DisconnectKeeps, WelcomeKeeps DEF Sessions

-----------------------------------------------------------------------------
(* The theorems.                                                           *)

\* A page that has just been loaded.
LEMMA InitSafe == ASSUME Init PROVE VoiceSafe
<1>1. page = NewPage /\ library = NewLibrary /\ w = [page |-> page, library |-> library]
  BY DEF Init, w
<1>2. (CHOOSE g \in Captures : TRUE) \in Captures
  BY VoiceAssumption
<1>3. 0 \in 0 .. MaxTokens /\ 0 \in 0 .. MaxPlays /\ 0 \in 0 .. Delays
  BY VoiceAssumption
<1>4. page \in PageType
  BY <1>1, <1>2, <1>3 DEF NewPage, PageType, None
<1>5. library \in LibraryType
  BY <1>1 DEF NewLibrary, LibraryType
<1>6. w \in StateType /\ w.page = page /\ w.library = library
  BY <1>1, <1>4, <1>5 DEF StateType
<1>7. VoicesInv(w)
  BY <1>1, <1>6 DEF VoicesInv, TracksInv, SoundInv, NewPage, NewLibrary
<1>8. RoomInv(w)
  BY <1>1, <1>6 DEF RoomInv, RoomBase, NewPage, NewLibrary
<1>9. MicrophoneInv(w)
  <2>1. IsFiniteSet({}) /\ Cardinality({}) = 0
    BY FS_EmptySet
  <2>2. ASSUME IsFiniteSet(Captures) PROVE 0 < Cardinality(Captures)
    <3>1. Cardinality(Captures) \in Nat /\ Cardinality(Captures) # 0
      BY <2>2, FS_CardinalityType, FS_EmptySet, VoiceAssumption
    <3>2. QED
      BY <3>1
  <2>3. /\ w.page.setups = {} /\ w.page.local = None /\ w.page.live = {}
    BY <1>1, <1>6 DEF NewPage
  <2>4. QED
    BY <2>1, <2>2, <2>3 DEF MicrophoneInv, DeviceInv
<1>10. OfferInv(w)
  BY <1>1, <1>6 DEF OfferInv, NewPage
<1>11. QED
  BY <1>6, <1>7, <1>8, <1>9, <1>10 DEF VoiceSafe, VoiceInv

\* Every step does.
LEMMA StepSafe == ASSUME VoiceSafe, [Next]_vars PROVE VoiceSafe'
<1>1. CASE Next
  BY <1>1, SessionsKeep, RoomEventsKeep, VoicesKeep, MicrophoneKeeps DEF Next
<1>2. CASE UNCHANGED vars
  BY <1>2 DEF vars, w, VoiceSafe
<1>3. QED
  BY <1>1, <1>2

\* Voice is sound in every state: tracks, room, recovery, microphone, offer.
THEOREM VoiceInvariant == Spec => []VoiceSafe
<1>1. Init => VoiceSafe
  BY InitSafe
<1>2. VoiceSafe /\ [Next]_vars => VoiceSafe'
  BY StepSafe
<1>3. QED
  BY <1>1, <1>2, PTL DEF Spec

\* The tracks kept are those of known people in earshot, and of nobody when
\* there is no room; each of them sounds or waits for its element, and nobody
\* sounds with the layer off, in whatever order positions, tracks, joins,
\* elements and changes of the layer arrive.
THEOREM VoicesAreConsistent == Spec => []VoicesConsistent
<1>1. VoiceSafe => TracksAreInEarshot
  BY StateIs DEF VoiceInv, VoicesInv, TracksInv, TracksAreInEarshot
<1>2. VoiceSafe => GraphsFollowTheLayer
  BY StateIs DEF VoiceInv, VoicesInv, TracksInv, SoundInv, GraphsFollowTheLayer
<1>3. VoiceSafe => VoicesConsistent
  BY <1>1, <1>2 DEF VoicesConsistent
<1>4. QED
  BY <1>3, VoiceInvariant, PTL

\* No room stays open but the one in use, and a recovery is always driven to
\* its end, its failure reported only after the last attempt.
THEOREM RoomIsConsistent == Spec => []RoomConsistent
<1>1. VoiceSafe => TypeOK
  <2>1. SUFFICES ASSUME VoiceSafe PROVE TypeOK
    OBVIOUS
  <2>2. page \in PageType /\ library \in LibraryType /\ page.near \subseteq page.known
    BY <2>1, StateIs DEF VoiceInv, VoicesInv, StateType
  <2>3. QED
    BY <2>2 DEF PageType, LibraryType, TypeOK
<1>2. VoiceSafe => OneRoom /\ RecoveryIsDriven /\ FailureIsLast
  BY StateIs DEF VoiceInv, RoomInv, RoomBase, OneRoom, RecoveryIsDriven, FailureIsLast
<1>3. VoiceSafe => RoomConsistent
  BY <1>1, <1>2 DEF RoomConsistent
<1>4. QED
  BY <1>3, VoiceInvariant, PTL

\* One capture lives, its track is enabled as the account and the user want it,
\* and it is offered to every room that is connected.
THEOREM MicrophoneIsConsistent == Spec => []MicrophoneConsistent
<1>1. VoiceSafe => OnlyTheLatestCaptureLives /\ MicrophoneFollowsPolicy
  BY StateIs DEF VoiceInv, MicrophoneInv, DeviceInv, MicrophoneEnabled,
     OnlyTheLatestCaptureLives, MicrophoneFollowsPolicy
<1>2. VoiceSafe => MicrophoneIsOffered
  BY StateIs DEF VoiceInv, OfferInv, MicrophoneIsOffered, Hears
<1>3. VoiceSafe => MicrophoneConsistent
  BY <1>1, <1>2 DEF MicrophoneConsistent
<1>4. QED
  BY <1>3, VoiceInvariant, PTL
=============================================================================
