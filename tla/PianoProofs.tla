----------------------------- MODULE PianoProofs -----------------------------
(***************************************************************************)
(* Piano keeps its types, its playbacks stay reachable and apart from its  *)
(* recordings, and the browsers' recording state is that of the server:    *)
(* for any connections, pianos and tasks, any limit and any queues.        *)
(***************************************************************************)
EXTENDS Piano, SequenceTheorems, TLAPS

Session    == [owner : Client \cup {NoOne}, paused : BOOLEAN, spent : 0..Limit]
TaskState  == [item : Piano \cup {NoPiano},
               at : {"free", "new", "playing", "ending", "cancelled"}]
PacketType == [item : Piano, kind : PacketKind]
StatusType == [item : Piano, shows : StatusKind]

\* The two parts of the type invariant: what the server owns, and what
\* travels.
ServerTypes ==
    /\ alive \subseteq Piano
    /\ rec \in [Piano -> Session]
    /\ songs \subseteq Piano
    /\ playing \in [Piano -> Task \cup {NoTask}]
    /\ task \in [Task -> TaskState]
    /\ pc \in [Client -> {"idle", "stopping", "leaving"}]
    /\ todo \in [Client -> SUBSET Piano]
    /\ unsaid \subseteq Client \X Piano

TravelTypes ==
    /\ sent \in [Client -> Seq(PacketType)]
    /\ told \in [Client -> Seq(StatusType)]
    /\ mode \in [Client -> Piano \cup {NoPiano}]
    /\ light \in [Client -> {"idle", "recording", "paused"}]

Types == ServerTypes /\ TravelTypes

LEMMA TypesSplit == Types => TypeOK
BY DEF Types, TypeOK, ServerTypes, TravelTypes, Session, TaskState, PacketType, StatusType

LEMMA FreshTypes == NoRec \in Session /\ Free \in TaskState
BY PianoAssumption DEF NoRec, Free, Session, TaskState

LEMMA CancelledType ==
    ASSUME ServerTypes, NEW p \in Piano PROVE Cancelled(p) \in [Task -> TaskState]
<1>1. ASSUME NEW t \in Task PROVE [task[t] EXCEPT !.at = "cancelled"] \in TaskState
  <2>1. task[t] \in TaskState
    BY DEF ServerTypes
  <2>2. QED
    BY <2>1 DEF TaskState
<1>2. ASSUME NEW t \in Task PROVE task[t] \in TaskState
  BY DEF ServerTypes
<1>3. QED
  BY <1>1, <1>2, FreshTypes DEF Cancelled

\* Sending, handling, telling and hearing keep the queues' types.
LEMMA SendTypes ==
    ASSUME Types, NEW c \in Client, NEW q \in Seq(PacketType), Send(c, q)
    PROVE  sent' \in [Client -> Seq(PacketType)] /\ told' = told /\ mode' = mode /\ ServerTypes'
<1>1. sent \in [Client -> Seq(PacketType)] /\ ServerTypes
  BY DEF Types, TravelTypes
<1>2. sent[c] \o q \in Seq(PacketType)
  BY <1>1, ConcatProperties
<1>3. QED
  BY <1>1, <1>2 DEF Send, ServerTypes, server, tasks

LEMMA HandleTypes ==
    ASSUME Types, NEW c \in Client, NEW kind, NEW p, Handle(c, kind, p)
    PROVE  sent' \in [Client -> Seq(PacketType)] /\ mode' = mode /\ light' = light
<1>1. sent \in [Client -> Seq(PacketType)] /\ sent[c] # <<>>
  BY DEF Types, TravelTypes, Handle
<1>2. Tail(sent[c]) \in Seq(PacketType)
  BY <1>1, HeadTailProperties
<1>3. QED
  BY <1>1, <1>2 DEF Handle, browser

LEMMA TellTypes ==
    ASSUME Types, NEW c \in Client, NEW p \in Piano, NEW shows \in StatusKind, Tell(c, p, shows)
    PROVE  told' \in [Client -> Seq(StatusType)] /\ unsaid' \subseteq Client \X Piano
<1>1. told \in [Client -> Seq(StatusType)] /\ unsaid \subseteq Client \X Piano
  BY DEF Types, TravelTypes, ServerTypes
<1>2. Status(p, shows) \in StatusType
  BY DEF Status, StatusType
<1>3. Append(told[c], Status(p, shows)) \in Seq(StatusType)
  BY <1>1, <1>2, AppendProperties
<1>4. QED
  BY <1>1, <1>3 DEF Tell

LEMMA TypesInit == Init => Types
<1>1. SUFFICES ASSUME Init PROVE ServerTypes /\ TravelTypes
  BY DEF Types
<1>2. ServerTypes
  BY <1>1, FreshTypes DEF Init, ServerTypes
<1>3. TravelTypes
  BY <1>1, EmptySeq DEF Init, TravelTypes
<1>4. QED
  BY <1>2, <1>3

LEMMA BrowserTypes ==
    ASSUME Types, NEW c \in Client, Browser(c) PROVE Types'
<1>0. ServerTypes /\ TravelTypes
  BY DEF Types
<1>1. ASSUME NEW kind \in PacketKind, NEW p \in Piano
      PROVE  <<Packet(kind, p)>> \in Seq(PacketType)
  BY DEF Packet, PacketType
<1>2. CASE \E p \in Piano : Use(c, p)
  <2>1. PICK p \in Piano : Use(c, p)
    BY <1>2
  <2>2. <<Packet("use", p)>> \in Seq(PacketType)
    BY <1>1 DEF PacketKind
  <2>3. Send(c, <<Packet("use", p)>>) /\ light' = light
    BY <2>1 DEF Use
  <2>4. QED
    BY <1>0, <2>2, <2>3, SendTypes DEF Types, TravelTypes
<1>3. CASE Press(c)
  <2>1. PICK kind \in PacketKind : Send(c, <<Packet(kind, mode[c])>>)
    BY <1>3 DEF Press, PacketKind
  <2>2. mode[c] \in Piano /\ light' = light
    BY <1>0, <1>3 DEF Press, TravelTypes
  <2>3. <<Packet(kind, mode[c])>> \in Seq(PacketType)
    BY <1>1, <2>2
  <2>4. QED
    BY <1>0, <2>1, <2>2, <2>3, SendTypes DEF Types, TravelTypes
<1>4. CASE PressStop(c)
  <2>1. mode[c] \in Piano
    BY <1>0, <1>4 DEF PressStop, TravelTypes
  <2>2. Packet("stop_playback", mode[c]) \in PacketType /\ Packet("stop_record", mode[c]) \in PacketType
    BY <2>1 DEF Packet, PacketType, PacketKind
  <2>3. <<Packet("stop_playback", mode[c]), Packet("stop_record", mode[c])>> \in Seq(PacketType)
    BY <2>2
  <2>4. light' \in [Client -> {"idle", "recording", "paused"}]
    BY <1>0, <1>4 DEF PressStop, TravelTypes
  <2>5. QED
    BY <1>0, <1>4, <2>3, <2>4, SendTypes DEF Types, PressStop, TravelTypes
<1>5. CASE Escape(c)
  BY <1>0, <1>5 DEF Types, Escape, TravelTypes, ServerTypes, server, tasks
<1>6. CASE Hear(c)
  <2>1. Tail(told[c]) \in Seq(StatusType) /\ Head(told[c]) \in StatusType
    BY <1>0, <1>6, HeadTailProperties DEF Hear, TravelTypes
  <2>2. told' \in [Client -> Seq(StatusType)]
    BY <1>0, <1>6, <2>1 DEF Hear, TravelTypes
  <2>3. /\ mode' \in [Client -> Piano \cup {NoPiano}]
        /\ light' \in [Client -> {"idle", "recording", "paused"}]
    BY <1>0, <1>6, <2>1 DEF Hear, TravelTypes, StatusType, StatusKind, browser
  <2>4. ServerTypes' /\ sent' = sent
    BY <1>0, <1>6 DEF Hear, ServerTypes, server, tasks
  <2>5. QED
    BY <1>0, <2>2, <2>3, <2>4 DEF Types, TravelTypes
<1>7. QED
  BY <1>2, <1>3, <1>4, <1>5, <1>6 DEF Browser

LEMMA CancelTypes ==
    ASSUME Types, NEW p \in Piano, CancelPlayback(p)
    PROVE  playing' \in [Piano -> Task \cup {NoTask}] /\ task' \in [Task -> TaskState]
BY CancelledType DEF CancelPlayback, Types, ServerTypes

LEMMA FinalizeTypes ==
    ASSUME Types, NEW p \in Piano, Finalize(p)
    PROVE  rec' \in [Piano -> Session] /\ songs' \subseteq Piano
BY FreshTypes DEF Finalize, Types, ServerTypes

LEMMA FinalizeForTypes ==
    ASSUME Types, NEW c \in Client, NEW p \in Piano, FinalizeFor(c, p)
    PROVE  ServerTypes' /\ told' = told
BY FinalizeTypes DEF FinalizeFor, Types, ServerTypes, tasks

LEMMA ServerStepTypes ==
    ASSUME Types, NEW c \in Client, Server(c) PROVE Types'
<1>0. ServerTypes /\ TravelTypes
  BY DEF Types
<1>1. CASE Refuse(c)
  <2>1. PICK p \in Piano, kind \in PacketKind : Handle(c, kind, p)
    BY <1>1 DEF Refuse
  <2>2. QED
    BY <1>0, <1>1, <2>1, HandleTypes DEF Refuse, Types, ServerTypes, TravelTypes, server, tasks
<1>2. CASE Stopped(c)
  <2>1. PICK p \in Piano : Tell(c, p, "idle")
    BY <1>0, <1>2 DEF Stopped, ServerTypes
  <2>2. told' \in [Client -> Seq(StatusType)] /\ unsaid' \subseteq Client \X Piano
    BY <2>1, TellTypes DEF StatusKind
  <2>3. QED
    BY <1>0, <1>2, <2>2 DEF Stopped, Types, ServerTypes, TravelTypes, tasks, browser
<1>3. CASE LeaveOne(c)
  <2>1. PICK p \in todo[c] :
          /\ todo' = [todo EXCEPT ![c] = @ \ {p}]
          /\ \/ Recording(p) /\ Finalize(p) /\ unsaid' = Unsaid(p)
             \/ ~Recording(p) /\ UNCHANGED <<rec, songs, unsaid>>
    BY <1>3 DEF LeaveOne
  <2>2. p \in Piano
    BY <1>0 DEF ServerTypes
  <2>3. unsaid' \subseteq Client \X Piano
    BY <1>0, <2>1, <2>2 DEF Unsaid, ServerTypes
  <2>4. rec' \in [Piano -> Session] /\ songs' \subseteq Piano
    BY <1>0, <2>1, <2>2, FinalizeTypes DEF ServerTypes
  <2>5. QED
    BY <1>0, <1>3, <2>1, <2>3, <2>4 DEF LeaveOne, Types, ServerTypes, TravelTypes, tasks, browser
<1>4. ASSUME NEW p \in Piano, Enter(c, p) PROVE Types'
  <2>1. Handle(c, "use", p) /\ Tell(c, p, "entered")
    BY <1>4 DEF Enter
  <2>2. QED
    BY <1>0, <1>4, <2>1, HandleTypes, TellTypes
    DEF Enter, Types, ServerTypes, TravelTypes, tasks, StatusKind
<1>5. ASSUME NEW p \in Piano, Note(c, p) PROVE Types'
  <2>1. Handle(c, "note", p) /\ FinalizeFor(c, p)
    BY <1>5 DEF Note
  <2>2. QED
    BY <1>0, <2>1, HandleTypes, FinalizeForTypes DEF Types, TravelTypes
<1>6. ASSUME NEW p \in Piano, Start(c, p) PROVE Types'
  <2>1. Handle(c, "toggle_record", p) /\ Tell(c, p, "recording") /\ CancelPlayback(p)
    BY <1>6 DEF Start
  <2>2. [NoRec EXCEPT !.owner = c] \in Session
    BY FreshTypes DEF Session
  <2>3. rec' \in [Piano -> Session]
    BY <1>0, <1>6, <2>2 DEF Start, ServerTypes
  <2>4. QED
    BY <1>0, <1>6, <2>1, <2>3, HandleTypes, TellTypes, CancelTypes
    DEF Start, Types, ServerTypes, TravelTypes, StatusKind
<1>7. ASSUME NEW p \in Piano, Pause(c, p) PROVE Types'
  <2>1. Handle(c, "toggle_record", p)
    BY <1>7 DEF Pause
  <2>2. PICK shows \in StatusKind : Tell(c, p, shows)
    BY <1>7 DEF Pause, StatusKind
  <2>3. [rec[p] EXCEPT !.paused = ~@] \in Session
    BY <1>0 DEF ServerTypes, Session
  <2>4. rec' \in [Piano -> Session]
    BY <1>0, <1>7, <2>3 DEF Pause, ServerTypes
  <2>5. QED
    BY <1>0, <1>7, <2>1, <2>2, <2>4, HandleTypes, TellTypes
    DEF Pause, Types, ServerTypes, TravelTypes, tasks
<1>8. ASSUME NEW p \in Piano, StopRecord(c, p) PROVE Types'
  <2>1. Handle(c, "stop_record", p)
    BY <1>8 DEF StopRecord
  <2>2. CASE FinalizeFor(c, p)
    BY <1>0, <2>1, <2>2, HandleTypes, FinalizeForTypes DEF Types, TravelTypes
  <2>3. CASE Tell(c, p, "idle") /\ UNCHANGED <<alive, rec, songs, tasks, pc, todo>>
    BY <1>0, <2>1, <2>3, HandleTypes, TellTypes
    DEF Types, ServerTypes, TravelTypes, tasks, StatusKind
  <2>4. QED
    BY <1>8, <2>2, <2>3 DEF StopRecord
<1>9. ASSUME NEW p \in Piano, Playback(c, p) PROVE Types'
  <2>1. Handle(c, "playback", p) /\ Tell(c, p, "idle")
    BY <1>9 DEF Playback
  <2>2. PICK t \in Task :
          /\ playing' = [playing EXCEPT ![p] = t]
          /\ task' = [Cancelled(p) EXCEPT ![t] = [item |-> p, at |-> "new"]]
    BY <1>9 DEF Playback
  <2>3. [item |-> p, at |-> "new"] \in TaskState
    BY DEF TaskState
  <2>4. task' \in [Task -> TaskState] /\ playing' \in [Piano -> Task \cup {NoTask}]
    BY <1>0, <2>2, <2>3, CancelledType DEF ServerTypes
  <2>5. QED
    BY <1>0, <1>9, <2>1, <2>4, HandleTypes, TellTypes
    DEF Playback, Types, ServerTypes, TravelTypes, StatusKind
<1>10. ASSUME NEW p \in Piano, StopPlayback(c, p) PROVE Types'
  <2>1. Handle(c, "stop_playback", p) /\ Tell(c, p, "idle") /\ CancelPlayback(p)
    BY <1>10 DEF StopPlayback
  <2>2. QED
    BY <1>0, <1>10, <2>1, HandleTypes, TellTypes, CancelTypes
    DEF StopPlayback, Types, ServerTypes, TravelTypes, StatusKind
<1>11. QED
  BY <1>1, <1>2, <1>3, <1>4, <1>5, <1>6, <1>7, <1>8, <1>9, <1>10 DEF Server

LEMMA LeaveTypes ==
    ASSUME Types, NEW c \in Client, Leave(c) PROVE Types'
BY EmptySeq DEF Leave, Types, ServerTypes, TravelTypes, tasks

LEMMA DeleteTypes ==
    ASSUME Types, NEW p \in Piano, Delete(p) PROVE Types'
<1>1. Status(p, "removed") \in StatusType
  BY DEF Status, StatusType, StatusKind
<1>2. ASSUME NEW c \in Client
      PROVE  told[c] \in Seq(StatusType) /\ Append(told[c], Status(p, "removed")) \in Seq(StatusType)
  <2>1. told[c] \in Seq(StatusType)
    BY DEF Types, TravelTypes
  <2>2. QED
    BY <1>1, <2>1, AppendProperties
<1>3. told' \in [Client -> Seq(StatusType)]
  BY <1>2 DEF Delete
<1>4. QED
  BY <1>3, FreshTypes, CancelTypes DEF Delete, Types, ServerTypes, TravelTypes, browser

LEMMA ClockTypes ==
    ASSUME Types, Clock PROVE Types'
<1>0. ServerTypes /\ TravelTypes
  BY DEF Types
<1>1. ASSUME NEW p \in Piano, Tick(p) PROVE Types'
  <2>1. [rec[p] EXCEPT !.spent = @ + 1] \in Session
    BY <1>0, <1>1, PianoAssumption DEF Tick, ServerTypes, Session
  <2>2. QED
    BY <1>0, <1>1, <2>1 DEF Tick, Types, ServerTypes, TravelTypes, tasks, browser
<1>2. ASSUME NEW p \in Piano, AutoStop(p) PROVE Types'
  <2>1. unsaid' \subseteq Client \X Piano
    BY <1>0, <1>2 DEF AutoStop, Unsaid, ServerTypes
  <2>2. QED
    BY <1>0, <1>2, <2>1, FinalizeTypes DEF AutoStop, Types, ServerTypes, TravelTypes, tasks, browser
<1>3. ASSUME NEW t \in Task, PlaybackStarts(t) PROVE Types'
  <2>1. [task[t] EXCEPT !.at = "playing"] \in TaskState
    BY <1>0 DEF ServerTypes, TaskState
  <2>2. PICK next \in TaskState : task' = [task EXCEPT ![t] = next]
    BY <1>3, <2>1, FreshTypes DEF PlaybackStarts
  <2>3. QED
    BY <1>0, <1>3, <2>2 DEF PlaybackStarts, Types, ServerTypes, TravelTypes, browser
<1>4. ASSUME NEW t \in Task, PlaybackEnds(t) PROVE Types'
  <2>1. [task[t] EXCEPT !.at = "ending"] \in TaskState
    BY <1>0 DEF ServerTypes, TaskState
  <2>2. QED
    BY <1>0, <1>4, <2>1 DEF PlaybackEnds, Types, ServerTypes, TravelTypes, browser
<1>5. ASSUME NEW t \in Task, Released(t) PROVE Types'
  BY <1>0, <1>5, FreshTypes DEF Released, Types, ServerTypes, TravelTypes, browser
<1>6. QED
  BY <1>1, <1>2, <1>3, <1>4, <1>5 DEF Clock

LEMMA StutterTypes ==
    ASSUME Types, UNCHANGED vars PROVE Types'
BY DEF Types, ServerTypes, TravelTypes, vars, server, tasks, browser

LEMMA StepTypes ==
    ASSUME Types, [Next]_vars PROVE Types'
BY BrowserTypes, ServerStepTypes, LeaveTypes, DeleteTypes, ClockTypes, StutterTypes DEF Next

\* Every variable of Piano keeps its type: nobody but a client owns a
\* recording, and none passes the limit.
THEOREM PianoTypes == Spec => []TypeOK
<1>1. Init => Types
  BY TypesInit
<1>2. Types /\ [Next]_vars => Types'
  BY StepTypes
<1>3. Types => TypeOK
  BY TypesSplit
<1>4. QED
  BY <1>1, <1>2, <1>3, PTL DEF Spec

-----------------------------------------------------------------------------
(* The playbacks.                                                          *)

PlaybackInv == Types /\ OnePlayback

\* Steps that leave the tasks alone may end recordings, not start them.
LEMMA PlaybackKept ==
    ASSUME OnePlayback, UNCHANGED <<tasks, alive>>,
           \A p \in Piano : Recording(p)' => Recording(p), Types
    PROVE  OnePlayback'
BY PianoAssumption DEF OnePlayback, Live, tasks, Types, ServerTypes, TaskState, Recording

\* A cancelled playback is not live, and the others are not touched.
LEMMA CancelledLive ==
    ASSUME Types, OnePlayback, NEW p \in Piano, NEW t \in Task,
           Cancelled(p)[t].at \in {"new", "playing", "ending"}
    PROVE  /\ t # playing[p] /\ Cancelled(p)[t] = task[t] /\ Live(t)
           /\ task[t].item # p
BY DEF Cancelled, Free, Live, OnePlayback, Types, ServerTypes, TaskState

\* What a recording's start, a stop and a deletion do to the tasks.
LEMMA PlaybackCancelled ==
    ASSUME PlaybackInv, NEW p \in Piano, CancelPlayback(p),
           \A q \in Piano \ {p} : (Recording(q)' => Recording(q)) /\ (q \in alive => q \in alive')
    PROVE  OnePlayback'
<1>1. SUFFICES ASSUME NEW t \in Task, Cancelled(p)[t].at \in {"new", "playing", "ending"}
               PROVE  LET i == Cancelled(p)[t].item IN
                      playing'[i] = t /\ rec'[i].owner = NoOne /\ i \in alive'
  BY DEF OnePlayback, Live, CancelPlayback, Recording
<1>2. /\ t # playing[p] /\ Cancelled(p)[t] = task[t] /\ Live(t) /\ task[t].item # p
  BY <1>1, CancelledLive DEF PlaybackInv
<1>3. playing[task[t].item] = t /\ ~Recording(task[t].item) /\ task[t].item \in alive
  BY <1>2 DEF PlaybackInv, OnePlayback
<1>4. task[t].item \in Piano
  BY <1>3 DEF PlaybackInv, Types, ServerTypes
<1>5. QED
  BY <1>2, <1>3, <1>4 DEF CancelPlayback, PlaybackInv, Types, ServerTypes, Recording

LEMMA FinalizedRecording ==
    ASSUME Types, NEW p \in Piano, Finalize(p)
    PROVE  \A q \in Piano : Recording(q)' => Recording(q)
BY DEF Finalize, Recording, NoRec, Types, ServerTypes

LEMMA PlaybackServer ==
    ASSUME PlaybackInv, NEW c \in Client, Server(c) PROVE OnePlayback'
<1>0. Types /\ OnePlayback /\ ServerTypes
  BY DEF PlaybackInv, Types
<1>1. CASE Refuse(c)
  BY <1>0, <1>1, PlaybackKept DEF Refuse, server, tasks, Recording
<1>2. CASE Stopped(c)
  BY <1>0, <1>2, PlaybackKept DEF Stopped, tasks, Recording
<1>3. CASE LeaveOne(c)
  <2>1. PICK p \in Piano : \/ Finalize(p)
                          \/ rec' = rec
    BY <1>0, <1>3 DEF LeaveOne, ServerTypes
  <2>2. UNCHANGED <<tasks, alive>>
    BY <1>3 DEF LeaveOne
  <2>3. QED
    BY <1>0, <2>1, <2>2, PlaybackKept, FinalizedRecording DEF Recording
<1>4. ASSUME NEW p \in Piano, Enter(c, p) PROVE OnePlayback'
  BY <1>0, <1>4, PlaybackKept DEF Enter, tasks, Recording
<1>5. ASSUME NEW p \in Piano, Note(c, p) PROVE OnePlayback'
  BY <1>0, <1>5, PlaybackKept, FinalizedRecording DEF Note, FinalizeFor
<1>6. ASSUME NEW p \in Piano, Start(c, p) PROVE OnePlayback'
  <2>1. CancelPlayback(p)
    BY <1>6 DEF Start
  <2>2. \A q \in Piano \ {p} : (Recording(q)' => Recording(q)) /\ (q \in alive => q \in alive')
    BY <1>0, <1>6 DEF Start, Recording, ServerTypes
  <2>3. QED
    BY <2>1, <2>2, PlaybackCancelled
<1>7. ASSUME NEW p \in Piano, Pause(c, p) PROVE OnePlayback'
  <2>1. \A q \in Piano : Recording(q)' => Recording(q)
    BY <1>0, <1>7 DEF Pause, Recording, ServerTypes, Session
  <2>2. QED
    BY <1>0, <1>7, <2>1, PlaybackKept DEF Pause
<1>8. ASSUME NEW p \in Piano, StopRecord(c, p) PROVE OnePlayback'
  BY <1>0, <1>8, PlaybackKept, FinalizedRecording DEF StopRecord, FinalizeFor, Recording
<1>9. ASSUME NEW p \in Piano, Playback(c, p) PROVE OnePlayback'
  <2>1. PICK t \in Task :
          /\ playing' = [playing EXCEPT ![p] = t]
          /\ task' = [Cancelled(p) EXCEPT ![t] = [item |-> p, at |-> "new"]]
    BY <1>9 DEF Playback
  <2>2. p \in alive /\ ~Recording(p) /\ UNCHANGED <<alive, rec>>
    BY <1>9 DEF Playback
  <2>3. SUFFICES ASSUME NEW u \in Task, Live(u)'
                 PROVE  /\ playing'[task'[u].item] = u
                        /\ rec'[task'[u].item].owner = NoOne
                        /\ task'[u].item \in alive'
    BY DEF OnePlayback, Recording
  <2>4. Cancelled(p) \in [Task -> TaskState]
    BY <1>0, CancelledType
  <2>5. CASE u = t
    BY <1>0, <2>1, <2>2, <2>4, <2>5 DEF ServerTypes, Recording
  <2>6. CASE u # t
    <3>1. task'[u] = Cancelled(p)[u] /\ Cancelled(p)[u].at \in {"new", "playing", "ending"}
      BY <2>1, <2>3, <2>4, <2>6 DEF Live
    <3>2. /\ Cancelled(p)[u] = task[u] /\ Live(u) /\ task[u].item # p
      BY <1>0, <3>1, CancelledLive
    <3>3. playing[task[u].item] = u /\ ~Recording(task[u].item) /\ task[u].item \in alive
      BY <1>0, <3>2 DEF OnePlayback
    <3>4. QED
      BY <1>0, <2>1, <2>2, <3>1, <3>2, <3>3 DEF ServerTypes, Recording
  <2>7. QED
    BY <2>5, <2>6
<1>10. ASSUME NEW p \in Piano, StopPlayback(c, p) PROVE OnePlayback'
  <2>1. CancelPlayback(p) /\ UNCHANGED <<rec, alive>>
    BY <1>10 DEF StopPlayback
  <2>2. QED
    BY <2>1, PlaybackCancelled DEF Recording
<1>11. QED
  BY <1>1, <1>2, <1>3, <1>4, <1>5, <1>6, <1>7, <1>8, <1>9, <1>10 DEF Server

LEMMA PlaybackClock ==
    ASSUME PlaybackInv, Clock PROVE OnePlayback'
<1>0. Types /\ OnePlayback /\ ServerTypes
  BY DEF PlaybackInv, Types
<1>1. ASSUME NEW p \in Piano, Tick(p) PROVE OnePlayback'
  <2>1. \A q \in Piano : Recording(q)' => Recording(q)
    BY <1>0, <1>1 DEF Tick, Recording, ServerTypes, Session
  <2>2. QED
    BY <1>0, <1>1, <2>1, PlaybackKept DEF Tick
<1>2. ASSUME NEW p \in Piano, AutoStop(p) PROVE OnePlayback'
  BY <1>0, <1>2, PlaybackKept, FinalizedRecording DEF AutoStop
<1>3. ASSUME NEW t \in Task, PlaybackStarts(t) PROVE OnePlayback'
  <2>1. PICK next \in {[task[t] EXCEPT !.at = "playing"], Free} : task' = [task EXCEPT ![t] = next]
    BY <1>3 DEF PlaybackStarts
  <2>2. next.at = "free" \/ (next.item = task[t].item /\ Live(t))
    BY <1>0, <1>3, <2>1 DEF PlaybackStarts, Free, Live, ServerTypes, TaskState
  <2>3. UNCHANGED <<alive, rec, playing>>
    BY <1>3 DEF PlaybackStarts
  <2>4. QED
    BY <1>0, <2>1, <2>2, <2>3 DEF OnePlayback, Live, Recording, ServerTypes
<1>4. ASSUME NEW t \in Task, PlaybackEnds(t) PROVE OnePlayback'
  BY <1>0, <1>4 DEF PlaybackEnds, OnePlayback, Live, Recording, ServerTypes, TaskState
<1>5. ASSUME NEW t \in Task, Released(t) PROVE OnePlayback'
  <2>1. SUFFICES ASSUME NEW u \in Task, Live(u)'
                 PROVE  /\ playing'[task'[u].item] = u
                        /\ rec'[task'[u].item].owner = NoOne
                        /\ task'[u].item \in alive'
    BY DEF OnePlayback, Recording
  <2>2. u # t /\ task'[u] = task[u] /\ Live(u)
    BY <1>0, <1>5, <2>1 DEF Released, Live, Free, ServerTypes
  <2>3. playing[task[u].item] = u /\ ~Recording(task[u].item) /\ task[u].item \in alive
    BY <1>0, <2>2 DEF OnePlayback
  <2>4. QED
    BY <1>0, <1>5, <2>2, <2>3 DEF Released, ServerTypes, Recording
<1>6. QED
  BY <1>1, <1>2, <1>3, <1>4, <1>5 DEF Clock

LEMMA PlaybackStep ==
    ASSUME PlaybackInv, [Next]_vars PROVE PlaybackInv'
<1>0. Types /\ OnePlayback /\ ServerTypes
  BY DEF PlaybackInv, Types
<1>1. SUFFICES OnePlayback'
  BY <1>0, StepTypes DEF PlaybackInv
<1>2. ASSUME NEW c \in Client, Browser(c) PROVE OnePlayback'
  <2>1. UNCHANGED server
    BY <1>2 DEF Browser, Press, PressStop, Escape, Hear, Use, Send
  <2>2. QED
    BY <1>0, <2>1, PlaybackKept DEF server, tasks, Recording
<1>3. ASSUME NEW c \in Client, Leave(c) PROVE OnePlayback'
  BY <1>0, <1>3, PlaybackKept DEF Leave, Recording
<1>4. ASSUME NEW p \in Piano, Delete(p) PROVE OnePlayback'
  <2>1. CancelPlayback(p)
    BY <1>4 DEF Delete
  <2>2. \A q \in Piano \ {p} : (Recording(q)' => Recording(q)) /\ (q \in alive => q \in alive')
    BY <1>0, <1>4 DEF Delete, Recording, ServerTypes
  <2>3. QED
    BY <2>1, <2>2, PlaybackCancelled
<1>5. CASE UNCHANGED vars
  BY <1>0, <1>5, PlaybackKept DEF vars, server, tasks, Recording
<1>6. ASSUME NEW c \in Client, Server(c) PROVE OnePlayback'
  BY <1>6, PlaybackServer
<1>7. CASE Clock
  BY <1>7, PlaybackClock
<1>8. QED
  BY <1>2, <1>3, <1>4, <1>5, <1>6, <1>7 DEF Next

\* At most one playback of a piano goes on, it can be reached, and none goes
\* on during a recording.
THEOREM PlaybacksApart == Spec => []OnePlayback
<1>1. Init => PlaybackInv
  BY TypesInit DEF Init, PlaybackInv, OnePlayback, Live, Free
<1>2. PlaybackInv /\ [Next]_vars => PlaybackInv'
  BY PlaybackStep
<1>3. PlaybackInv => OnePlayback
  BY DEF PlaybackInv
<1>4. QED
  BY <1>1, <1>2, <1>3, PTL DEF Spec

-----------------------------------------------------------------------------
(* The light.                                                              *)

\* What the browser of c shows for p is so, or c was never told of the end,
\* or its handler is about to tell it.
Settled(c, p, shows) ==
    \/ rec[p].owner = c /\ shows = (IF rec[p].paused THEN "paused" ELSE "recording")
    \/ <<c, p>> \in unsaid
    \/ pc[c] = "stopping" /\ p \in todo[c]

\* A message is the last word on its piano if none under way follows on it.
LastWord(c, k) ==
    \A j \in 1..Len(told[c]) : j > k => told[c][j].item # told[c][k].item

\* What is shown is settled unless a message on that piano is under way, and
\* so is the last word of every piano.
ScreenOf(c) ==
    light[c] # "idle" /\ (\A j \in 1..Len(told[c]) : told[c][j].item # mode[c])
        => Settled(c, mode[c], light[c])

MailOf(c) ==
    \A k \in 1..Len(told[c]) :
        told[c][k].shows \in {"recording", "paused"} /\ LastWord(c, k)
            => Settled(c, told[c][k].item, told[c][k].shows)

\* A handler that is stopping has one piano to tell of; a browser that has
\* left shows nothing and is told nothing.
HandlerOf(c) ==
    /\ pc[c] = "stopping" => \E p \in Piano : todo[c] = {p}
    /\ pc[c] = "leaving" => told[c] = <<>> /\ light[c] = "idle"

LightInv ==
    /\ Types
    /\ \A c \in Client : ScreenOf(c) /\ MailOf(c) /\ HandlerOf(c)

\* A step that neither shows nor tells c anything.
LEMMA Unheard ==
    ASSUME NEW c, told'[c] = told[c], light'[c] = light[c], mode'[c] = mode[c],
           ScreenOf(c), MailOf(c),
           \A p, shows : Settled(c, p, shows) => Settled(c, p, shows)'
    PROVE  ScreenOf(c)' /\ MailOf(c)'
<1>1. ScreenOf(c)'
  BY DEF ScreenOf
<1>2. \A k : LastWord(c, k)' => LastWord(c, k)
  BY DEF LastWord
<1>3. MailOf(c)'
  BY <1>2 DEF MailOf
<1>4. QED
  BY <1>1, <1>3

\* A step that tells c of p.
LEMMA Heard ==
    ASSUME Types, NEW c \in Client, NEW m \in StatusType,
           told'[c] = Append(told[c], m), light'[c] = light[c], mode'[c] = mode[c],
           ScreenOf(c), MailOf(c),
           \A p, shows : p # m.item /\ Settled(c, p, shows) => Settled(c, p, shows)',
           m.shows \in {"recording", "paused"} => Settled(c, m.item, m.shows)'
    PROVE  ScreenOf(c)' /\ MailOf(c)'
<1>1. told[c] \in Seq(StatusType) /\ Len(told[c]) \in Nat
  BY LenProperties DEF Types, TravelTypes
<1>2. /\ Len(told'[c]) = Len(told[c]) + 1
      /\ \A j \in 1..Len(told[c]) : told'[c][j] = told[c][j]
      /\ told'[c][Len(told[c]) + 1] = m
  BY <1>1, AppendProperties
<1>3. ScreenOf(c)'
  BY <1>1, <1>2 DEF ScreenOf
<1>4. ASSUME NEW k \in 1..Len(told'[c]), NEW p, NEW shows,
             p = told'[c][k].item, shows = told'[c][k].shows,
             shows \in {"recording", "paused"}, LastWord(c, k)'
      PROVE  Settled(c, p, shows)'
  <2>1. CASE k = Len(told[c]) + 1
    BY <1>2, <1>4, <2>1
  <2>2. CASE k \in 1..Len(told[c])
    <3>1. told[c][k].item = p /\ told[c][k].shows = shows /\ p # m.item
      BY <1>1, <1>2, <1>4, <2>2 DEF LastWord
    <3>2. LastWord(c, k)
      BY <1>1, <1>2, <1>4, <2>2 DEF LastWord
    <3>3. Settled(c, p, shows)
      BY <1>4, <2>2, <3>1, <3>2 DEF MailOf
    <3>4. QED
      BY <3>1, <3>3
  <2>3. QED
    BY <1>1, <1>2, <2>1, <2>2
<1>5. MailOf(c)'
  BY <1>4 DEF MailOf, Settled
<1>6. QED
  BY <1>3, <1>5

\* A step that leaves recordings, handlers and history alone settles as before.
LEMMA SettledSame ==
    ASSUME UNCHANGED <<rec, pc, todo, unsaid>>
    PROVE  \A c, p, shows : Settled(c, p, shows) => Settled(c, p, shows)'
BY DEF Settled

LEMMA HandlerSame ==
    ASSUME NEW c, pc'[c] = pc[c], todo'[c] = todo[c], HandlerOf(c),
           pc[c] = "leaving" => told'[c] = told[c] /\ light'[c] = light[c]
    PROVE  HandlerOf(c)'
BY DEF HandlerOf

\* Another client's step, or one that tells nobody.
LEMMA LightUnheard ==
    ASSUME LightInv, NEW c \in Client,
           told'[c] = told[c], light'[c] = light[c], mode'[c] = mode[c],
           pc'[c] = pc[c], todo'[c] = todo[c],
           \A p, shows : Settled(c, p, shows) => Settled(c, p, shows)'
    PROVE  ScreenOf(c)' /\ MailOf(c)' /\ HandlerOf(c)'
BY Unheard, HandlerSame DEF LightInv

\* What the browser itself does.
LEMMA LightBrowser ==
    ASSUME LightInv, NEW c \in Client, Browser(c),
           NEW d \in Client
    PROVE  ScreenOf(d)' /\ MailOf(d)' /\ HandlerOf(d)'
<1>0. Types /\ TravelTypes /\ ScreenOf(d) /\ MailOf(d) /\ HandlerOf(d)
  BY DEF LightInv, Types
<1>1. UNCHANGED <<rec, pc, todo, unsaid>>
  BY DEF Browser, Press, PressStop, Escape, Hear, Use, Send, server
<1>2. \A p, shows : Settled(d, p, shows) => Settled(d, p, shows)'
  BY <1>1, SettledSame
<1>3. CASE d # c
  <2>1. told'[d] = told[d] /\ light'[d] = light[d] /\ mode'[d] = mode[d]
    BY <1>0, <1>3 DEF Browser, Press, PressStop, Escape, Hear, Use, Send, browser, TravelTypes
  <2>2. QED
    BY <1>1, <1>2, <2>1, LightUnheard
<1>4. CASE Press(c) \/ \E p \in Piano : Use(c, p)
  <2>1. UNCHANGED <<told, light, mode>>
    BY <1>4 DEF Press, Use, Send
  <2>2. QED
    BY <1>1, <1>2, <2>1, LightUnheard
<1>5. CASE d = c /\ (PressStop(c) \/ Escape(c))
  <2>1. told' = told /\ light'[c] = "idle"
    BY <1>0, <1>5 DEF PressStop, Escape, Send, TravelTypes
  <2>2. ScreenOf(c)' /\ HandlerOf(c)'
    BY <1>0, <1>1, <1>5, <2>1 DEF ScreenOf, HandlerOf
  <2>3. \A k : LastWord(c, k)' => LastWord(c, k)
    BY <2>1 DEF LastWord
  <2>4. MailOf(c)'
    BY <1>0, <1>2, <1>5, <2>1, <2>3 DEF MailOf
  <2>5. QED
    BY <1>5, <2>2, <2>4
<1>6. CASE d = c /\ Hear(c)
  <2>1. told[c] \in Seq(StatusType) /\ told[c] # <<>> /\ told'[c] = Tail(told[c])
    BY <1>0, <1>6 DEF Hear, TravelTypes
  <2>2. Len(told[c]) \in Nat \ {0}
    BY <2>1, EmptySeq
  <2>3. /\ Len(told'[c]) = Len(told[c]) - 1
        /\ \A j \in 1..Len(told'[c]) : told'[c][j] = told[c][j + 1]
        /\ Head(told[c]) = told[c][1]
    BY <2>1, HeadTailProperties
  <2>4. ASSUME NEW k \in 1..Len(told'[c]), LastWord(c, k)' PROVE LastWord(c, k + 1)
    <3>1. SUFFICES ASSUME NEW j \in 1..Len(told[c]), j > k + 1
                   PROVE  told[c][j].item # told[c][k + 1].item
      BY DEF LastWord
    <3>2. j - 1 \in 1..Len(told'[c]) /\ j - 1 > k /\ told'[c][j - 1] = told[c][j]
      BY <2>2, <2>3, <3>1
    <3>3. told'[c][k] = told[c][k + 1]
      BY <2>3
    <3>4. QED
      BY <2>4, <3>2, <3>3 DEF LastWord
  <2>5. MailOf(c)'
    <3>1. SUFFICES ASSUME NEW k \in 1..Len(told'[c]), NEW p, NEW shows,
                          p = told'[c][k].item, shows = told'[c][k].shows,
                          shows \in {"recording", "paused"}, LastWord(c, k)'
                   PROVE  Settled(c, p, shows)'
      BY DEF MailOf, Settled
    <3>2. LastWord(c, k + 1) /\ k + 1 \in 1..Len(told[c]) /\ told'[c][k] = told[c][k + 1]
      BY <2>2, <2>3, <2>4, <3>1
    <3>3. Settled(c, p, shows)
      BY <1>0, <1>6, <3>1, <3>2 DEF MailOf
    <3>4. QED
      BY <1>2, <1>6, <3>3
  <2>6. HandlerOf(c)'
    BY <1>0, <1>1, <1>6, <2>1 DEF HandlerOf
  <2>7. \A p : (\A j \in 1..Len(told'[c]) : told'[c][j].item # p) /\ Head(told[c]).item # p
               => \A j \in 1..Len(told[c]) : told[c][j].item # p
    <3>1. SUFFICES ASSUME NEW p, \A j \in 1..Len(told'[c]) : told'[c][j].item # p,
                          Head(told[c]).item # p, NEW j \in 1..Len(told[c])
                   PROVE  told[c][j].item # p
      OBVIOUS
    <3>2. CASE j = 1
      BY <2>3, <3>1, <3>2
    <3>3. CASE j # 1
      <4>1. j - 1 \in 1..Len(told'[c])
        BY <2>2, <2>3, <3>1, <3>3
      <4>2. told'[c][j - 1] = told[c][j]
        BY <2>3, <4>1
      <4>3. QED
        BY <3>1, <4>1, <4>2
    <3>4. QED
      BY <3>2, <3>3
  <2>8. ScreenOf(c)'
    <3>1. CASE light'[c] = "idle"
      BY <3>1 DEF ScreenOf
    <3>2. CASE light' = light /\ mode' = mode /\ Head(told[c]).item # mode[c]
      <4>1. SUFFICES ASSUME light[c] # "idle", \A j \in 1..Len(told'[c]) : told'[c][j].item # mode[c]
                     PROVE  Settled(c, mode[c], light[c])
        BY <1>1, <3>2 DEF ScreenOf, Settled
      <4>2. QED
        BY <1>0, <1>6, <2>7, <3>2, <4>1 DEF ScreenOf
    <3>3. CASE /\ light'[c] = Head(told[c]).shows /\ mode' = mode /\ Head(told[c]).item = mode[c]
               /\ Head(told[c]).shows \in {"recording", "paused"}
      <4>1. SUFFICES ASSUME \A j \in 1..Len(told'[c]) : told'[c][j].item # mode[c]
                     PROVE  Settled(c, mode[c], Head(told[c]).shows)
        BY <1>1, <3>3 DEF ScreenOf, Settled
      <4>2. LastWord(c, 1)
        <5>1. SUFFICES ASSUME NEW j \in 1..Len(told[c]), j > 1
                       PROVE  told[c][j].item # told[c][1].item
          BY DEF LastWord
        <5>2. j - 1 \in 1..Len(told'[c]) /\ told'[c][j - 1] = told[c][j]
          BY <2>2, <2>3, <5>1
        <5>3. QED
          BY <2>3, <3>3, <4>1, <5>2
      <4>3. QED
        BY <1>0, <1>6, <2>2, <2>3, <3>3, <4>2 DEF MailOf
    <3>4. Head(told[c]) \in StatusType
      BY <2>1, HeadTailProperties
    <3>5. QED
      BY <1>0, <1>6, <3>1, <3>2, <3>3, <3>4 DEF Hear, browser, TravelTypes, StatusType, StatusKind
  <2>9. QED
    BY <1>6, <2>5, <2>6, <2>8
<1>7. QED
  BY <1>3, <1>4, <1>5, <1>6 DEF Browser

\* A handler tells its client of p.
LEMMA LightTold ==
    ASSUME LightInv, NEW c \in Client, NEW p \in Piano, NEW shows \in StatusKind,
           Tell(c, p, shows), UNCHANGED browser, NEW d \in Client,
           \A q, s : (d # c \/ q # p) /\ Settled(d, q, s) => Settled(d, q, s)',
           shows \in {"recording", "paused"} => Settled(c, p, shows)'
    PROVE  ScreenOf(d)' /\ MailOf(d)'
<1>0. Types /\ TravelTypes /\ ScreenOf(d) /\ MailOf(d)
  BY DEF LightInv, Types
<1>1. CASE d # c
  <2>1. told'[d] = told[d] /\ light'[d] = light[d] /\ mode'[d] = mode[d]
    BY <1>0, <1>1 DEF Tell, browser, TravelTypes
  <2>2. \A q, s : Settled(d, q, s) => Settled(d, q, s)'
    BY <1>1
  <2>3. QED
    BY <1>0, <2>1, <2>2, Unheard
<1>2. CASE d = c
  <2>1. Status(p, shows) \in StatusType /\ Status(p, shows).item = p /\ Status(p, shows).shows = shows
    BY DEF Status, StatusType
  <2>2. /\ told'[c] = Append(told[c], Status(p, shows))
        /\ light'[c] = light[c] /\ mode'[c] = mode[c]
    BY <1>0 DEF Tell, browser, TravelTypes
  <2>3. \A q, s : q # Status(p, shows).item /\ Settled(c, q, s) => Settled(c, q, s)'
    BY <1>2, <2>1
  <2>4. ScreenOf(c) /\ MailOf(c)
    BY <1>0, <1>2
  <2>5. Status(p, shows).shows \in {"recording", "paused"}
           => Settled(c, Status(p, shows).item, Status(p, shows).shows)'
    BY <2>1 DEF Status
  <2>6. ScreenOf(c)' /\ MailOf(c)'
    BY <1>0, <2>1, <2>2, <2>3, <2>4, <2>5, Heard
  <2>7. QED
    BY <1>2, <2>6
<1>3. QED
  BY <1>1, <1>2

\* The answers that change no recording.
LEMMA LightAnswered ==
    ASSUME LightInv, NEW c \in Client, pc[c] = "idle", NEW p \in Piano,
           NEW shows \in StatusKind \ {"recording", "paused"},
           Tell(c, p, shows), UNCHANGED browser, UNCHANGED <<rec, pc, todo>>, NEW d \in Client
    PROVE  ScreenOf(d)' /\ MailOf(d)' /\ HandlerOf(d)'
<1>1. \A q, s : (d # c \/ q # p) /\ Settled(d, q, s) => Settled(d, q, s)'
  BY DEF Settled, Tell
<1>2. ScreenOf(d)' /\ MailOf(d)'
  BY <1>1, LightTold
<1>3. pc[d] = "leaving" => told'[d] = told[d] /\ light'[d] = light[d]
  BY DEF Tell, LightInv, Types, TravelTypes, browser
<1>4. HandlerOf(d)'
  BY <1>3, HandlerSame DEF LightInv
<1>5. QED
  BY <1>2, <1>4

\* A recording has begun, or was paused or resumed, by its owner.
LEMMA LightRecorded ==
    ASSUME LightInv, NEW c \in Client, pc[c] = "idle", NEW p \in Piano,
           rec[p].owner \in {c, NoOne}, rec'[p].owner = c,
           \A q : q # p => rec'[q] = rec[q],
           NEW shows \in StatusKind,
           shows = (IF rec'[p].paused THEN "paused" ELSE "recording"),
           Tell(c, p, shows), UNCHANGED browser, UNCHANGED <<pc, todo>>, NEW d \in Client
    PROVE  ScreenOf(d)' /\ MailOf(d)' /\ HandlerOf(d)'
<1>1. \A q, s : (d # c \/ q # p) /\ Settled(d, q, s) => Settled(d, q, s)'
  BY PianoAssumption DEF Settled, Tell
<1>2. Settled(c, p, shows)'
  BY DEF Settled
<1>3. ScreenOf(d)' /\ MailOf(d)'
  BY <1>1, <1>2, LightTold
<1>4. pc[d] = "leaving" => told'[d] = told[d] /\ light'[d] = light[d]
  BY DEF Tell, LightInv, Types, TravelTypes, browser
<1>5. HandlerOf(d)'
  BY <1>4, HandlerSame DEF LightInv
<1>6. QED
  BY <1>3, <1>5

\* The owner's handler has ended a recording, and has still to tell of it.
LEMMA LightFinalized ==
    ASSUME LightInv, NEW c \in Client, NEW p \in Piano, pc[c] = "idle",
           FinalizeFor(c, p), UNCHANGED browser, NEW d \in Client
    PROVE  ScreenOf(d)' /\ MailOf(d)' /\ HandlerOf(d)'
<1>0. Types /\ ServerTypes /\ ScreenOf(d) /\ MailOf(d) /\ HandlerOf(d)
  BY DEF LightInv, Types
<1>1. told'[d] = told[d] /\ light'[d] = light[d] /\ mode'[d] = mode[d]
  BY DEF FinalizeFor, browser
<1>2. /\ \A q : q # p => rec'[q] = rec[q]
      /\ pc'[c] = "stopping" /\ todo'[c] = {p} /\ unsaid' = unsaid
      /\ d # c => pc'[d] = pc[d] /\ todo'[d] = todo[d]
  BY <1>0 DEF FinalizeFor, Finalize, ServerTypes
<1>3. \A q, s : Settled(d, q, s) => Settled(d, q, s)'
  BY <1>2 DEF Settled, FinalizeFor
<1>4. ScreenOf(d)' /\ MailOf(d)'
  BY <1>0, <1>1, <1>3, Unheard
<1>5. HandlerOf(d)'
  BY <1>0, <1>1, <1>2 DEF HandlerOf
<1>6. QED
  BY <1>4, <1>5

\* A recording has ended without its owner's handler.
LEMMA LightUnsaid ==
    ASSUME LightInv, NEW p \in Piano, Finalize(p), unsaid' = Unsaid(p),
           UNCHANGED <<pc, told, browser>>,
           \A c \in Client : pc[c] # "leaving" => todo'[c] = todo[c], NEW d \in Client
    PROVE  ScreenOf(d)' /\ MailOf(d)' /\ HandlerOf(d)'
<1>0. Types /\ ServerTypes /\ ScreenOf(d) /\ MailOf(d) /\ HandlerOf(d)
  BY DEF LightInv, Types
<1>1. told'[d] = told[d] /\ light'[d] = light[d] /\ mode'[d] = mode[d]
  BY DEF browser
<1>2. CASE pc[d] = "leaving"
  BY <1>0, <1>1, <1>2 DEF ScreenOf, MailOf, HandlerOf
<1>3. CASE pc[d] # "leaving"
  <2>1. \A q : q # p => rec'[q] = rec[q]
    BY <1>0 DEF Finalize, ServerTypes
  <2>2. unsaid \subseteq unsaid' /\ (rec[p].owner = d => <<d, p>> \in unsaid')
    BY <1>3 DEF Unsaid
  <2>3. \A q, s : Settled(d, q, s) => Settled(d, q, s)'
    BY <1>3, <2>1, <2>2 DEF Settled
  <2>4. QED
    BY <1>1, <1>3, <2>3, LightUnheard
<1>4. QED
  BY <1>2, <1>3

\* A handler has told its owner of the end, as it had still to do.
LEMMA LightStopped ==
    ASSUME LightInv, NEW c \in Client, Stopped(c), NEW d \in Client
    PROVE  ScreenOf(d)' /\ MailOf(d)' /\ HandlerOf(d)'
<1>0. Types /\ ServerTypes /\ TravelTypes /\ HandlerOf(c) /\ HandlerOf(d)
  BY DEF LightInv, Types
<1>1. PICK p \in Piano : todo[c] = {p}
  BY <1>0 DEF Stopped, HandlerOf
<1>2. Tell(c, p, "idle")
  BY <1>1 DEF Stopped
<1>3. /\ pc'[c] = "idle" /\ todo'[c] = {} /\ rec' = rec
      /\ d # c => pc'[d] = pc[d] /\ todo'[d] = todo[d]
  BY <1>0 DEF Stopped, ServerTypes
<1>4. \A q, s : (d # c \/ q # p) /\ Settled(d, q, s) => Settled(d, q, s)'
  BY <1>1, <1>2, <1>3 DEF Settled, Tell
<1>5. ScreenOf(d)' /\ MailOf(d)'
  BY <1>2, <1>4, LightTold DEF Stopped, StatusKind
<1>6. d # c => told'[d] = told[d] /\ light'[d] = light[d]
  BY <1>0, <1>2 DEF Tell, TravelTypes, Stopped, browser
<1>7. HandlerOf(d)'
  BY <1>0, <1>3, <1>6 DEF HandlerOf
<1>8. QED
  BY <1>5, <1>7

LEMMA LightServer ==
    ASSUME LightInv, NEW c \in Client, Server(c), NEW d \in Client
    PROVE  ScreenOf(d)' /\ MailOf(d)' /\ HandlerOf(d)'
<1>0. Types /\ ServerTypes /\ TravelTypes
  BY DEF LightInv, Types
<1>1. CASE Refuse(c)
  <2>1. /\ told'[d] = told[d] /\ light'[d] = light[d] /\ mode'[d] = mode[d]
        /\ pc'[d] = pc[d] /\ todo'[d] = todo[d]
        /\ UNCHANGED <<rec, pc, todo, unsaid>>
    BY <1>1 DEF Refuse, Handle, server, browser
  <2>2. \A p, shows : Settled(d, p, shows) => Settled(d, p, shows)'
    BY <2>1, SettledSame
  <2>3. QED
    BY <2>1, <2>2, LightUnheard
<1>2. CASE Stopped(c)
  BY <1>2, LightStopped
<1>3. CASE LeaveOne(c)
  <2>1. PICK p \in Piano :
            /\ todo' = [todo EXCEPT ![c] = @ \ {p}]
            /\ \/ Finalize(p) /\ unsaid' = Unsaid(p)
               \/ UNCHANGED <<rec, unsaid>>
    BY <1>0, <1>3 DEF LeaveOne, ServerTypes
  <2>2. UNCHANGED <<pc, told, browser>> /\ pc[c] = "leaving"
    BY <1>3 DEF LeaveOne
  <2>3. \A e \in Client : pc[e] # "leaving" => todo'[e] = todo[e]
    BY <1>0, <2>1, <2>2 DEF ServerTypes
  <2>4. CASE Finalize(p) /\ unsaid' = Unsaid(p)
    BY <2>2, <2>3, <2>4, LightUnsaid
  <2>5. CASE UNCHANGED <<rec, unsaid>>
    <3>1. \A q, s : Settled(d, q, s) => Settled(d, q, s)'
      BY <2>2, <2>3, <2>5 DEF Settled
    <3>2. ScreenOf(d)' /\ MailOf(d)'
      BY <2>2, <3>1, Unheard DEF LightInv, browser
    <3>3. HandlerOf(d)'
      BY <2>2, <2>3 DEF LightInv, HandlerOf, browser
    <3>4. QED
      BY <3>2, <3>3
  <2>6. QED
    BY <2>1, <2>4, <2>5
<1>4. ASSUME NEW p \in Piano, Enter(c, p) \/ Playback(c, p) \/ StopPlayback(c, p)
      PROVE  ScreenOf(d)' /\ MailOf(d)' /\ HandlerOf(d)'
  <2>1. pc[c] = "idle" /\ UNCHANGED browser /\ UNCHANGED <<rec, pc, todo>>
    BY <1>4 DEF Enter, Playback, StopPlayback, Handle
  <2>2. Tell(c, p, "entered") \/ Tell(c, p, "idle")
    BY <1>4 DEF Enter, Playback, StopPlayback
  <2>3. QED
    BY <2>1, <2>2, LightAnswered DEF StatusKind
<1>5. ASSUME NEW p \in Piano, Start(c, p) \/ Pause(c, p)
      PROVE  ScreenOf(d)' /\ MailOf(d)' /\ HandlerOf(d)'
  <2>1. pc[c] = "idle" /\ UNCHANGED browser /\ UNCHANGED <<pc, todo>>
    BY <1>5 DEF Start, Pause, Handle
  <2>2. PICK shows \in {"recording", "paused"} :
            /\ Tell(c, p, shows)
            /\ rec[p].owner \in {c, NoOne} /\ rec'[p].owner = c
            /\ \A q : q # p => rec'[q] = rec[q]
            /\ shows = (IF rec'[p].paused THEN "paused" ELSE "recording")
    <3>1. CASE Start(c, p)
      <4>1. rec'[p].owner = c /\ rec'[p].paused = FALSE /\ rec[p].owner = NoOne
        BY <1>0, <3>1 DEF Start, Recording, NoRec, ServerTypes
      <4>2. \A q : q # p => rec'[q] = rec[q]
        BY <1>0, <3>1 DEF Start, ServerTypes
      <4>3. QED
        BY <3>1, <4>1, <4>2 DEF Start
    <3>2. CASE Pause(c, p)
      <4>0. rec[p] \in Session
        BY <1>0 DEF ServerTypes
      <4>1. rec'[p] = [rec[p] EXCEPT !.paused = ~rec[p].paused]
        BY <1>0, <3>2 DEF Pause, ServerTypes
      <4>2. rec'[p].owner = c /\ rec'[p].paused = ~rec[p].paused /\ rec[p].owner = c
        BY <3>2, <4>0, <4>1 DEF Pause, Session
      <4>3. \A q : q # p => rec'[q] = rec[q]
        BY <1>0, <3>2 DEF Pause, ServerTypes
      <4>4. CASE rec[p].paused
        BY <3>2, <4>2, <4>3, <4>4 DEF Pause
      <4>5. CASE ~rec[p].paused
        BY <3>2, <4>2, <4>3, <4>5 DEF Pause
      <4>6. QED
        BY <4>4, <4>5
    <3>3. QED
      BY <1>5, <3>1, <3>2
  <2>3. shows \in StatusKind
    BY DEF StatusKind
  <2>4. QED
    BY <2>1, <2>2, <2>3, LightRecorded
<1>6. ASSUME NEW p \in Piano, Note(c, p) \/ StopRecord(c, p)
      PROVE  ScreenOf(d)' /\ MailOf(d)' /\ HandlerOf(d)'
  <2>1. pc[c] = "idle" /\ UNCHANGED browser
    BY <1>6 DEF Note, StopRecord, Handle
  <2>2. CASE FinalizeFor(c, p)
    BY <2>1, <2>2, LightFinalized
  <2>3. CASE Tell(c, p, "idle") /\ UNCHANGED <<rec, pc, todo>>
    BY <2>1, <2>3, LightAnswered DEF StatusKind
  <2>4. QED
    BY <1>6, <2>2, <2>3 DEF Note, StopRecord
<1>7. QED
  BY <1>1, <1>2, <1>3, <1>4, <1>5, <1>6 DEF Server

LEMMA LightLeave ==
    ASSUME LightInv, NEW c \in Client, Leave(c), NEW d \in Client
    PROVE  ScreenOf(d)' /\ MailOf(d)' /\ HandlerOf(d)'
<1>0. ServerTypes /\ TravelTypes
  BY DEF LightInv, Types
<1>1. CASE d = c
  <2>1. told'[c] = <<>> /\ light'[c] = "idle" /\ pc'[c] = "leaving"
    BY <1>0 DEF Leave, ServerTypes, TravelTypes
  <2>2. QED
    BY <1>1, <2>1 DEF ScreenOf, MailOf, HandlerOf
<1>2. CASE d # c
  <2>1. /\ told'[d] = told[d] /\ light'[d] = light[d] /\ mode'[d] = mode[d]
        /\ pc'[d] = pc[d] /\ todo'[d] = todo[d] /\ rec' = rec /\ unsaid' = unsaid
    BY <1>0, <1>2 DEF Leave, ServerTypes, TravelTypes
  <2>2. \A p, shows : Settled(d, p, shows) => Settled(d, p, shows)'
    BY <2>1 DEF Settled
  <2>3. QED
    BY <2>1, <2>2, LightUnheard
<1>3. QED
  BY <1>1, <1>2

LEMMA LightDelete ==
    ASSUME LightInv, NEW p \in Piano, Delete(p), NEW d \in Client
    PROVE  ScreenOf(d)' /\ MailOf(d)' /\ HandlerOf(d)'
<1>0. Types /\ ServerTypes /\ TravelTypes /\ ScreenOf(d) /\ MailOf(d) /\ HandlerOf(d)
  BY DEF LightInv, Types
<1>1. /\ light'[d] = light[d] /\ mode'[d] = mode[d] /\ pc'[d] = pc[d] /\ todo'[d] = todo[d]
      /\ unsaid' = unsaid /\ \A q : q # p => rec'[q] = rec[q]
  BY <1>0 DEF Delete, browser, ServerTypes
<1>2. CASE pc[d] = "leaving"
  <2>1. told'[d] = told[d]
    BY <1>0, <1>2 DEF Delete, TravelTypes
  <2>2. QED
    BY <1>0, <1>1, <1>2, <2>1 DEF ScreenOf, MailOf, HandlerOf
<1>3. CASE pc[d] # "leaving"
  <2>1. told'[d] = Append(told[d], Status(p, "removed"))
    BY <1>0, <1>3 DEF Delete, ServerTypes, TravelTypes
  <2>2. /\ Status(p, "removed") \in StatusType
        /\ Status(p, "removed").item = p /\ Status(p, "removed").shows = "removed"
    BY DEF Status, StatusType, StatusKind
  <2>3. \A q, s : q # Status(p, "removed").item /\ Settled(d, q, s) => Settled(d, q, s)'
    BY <1>1, <2>2 DEF Settled
  <2>4. ScreenOf(d)' /\ MailOf(d)'
    BY <1>0, <1>1, <2>1, <2>2, <2>3, Heard
  <2>5. HandlerOf(d)'
    BY <1>0, <1>1, <1>3 DEF HandlerOf
  <2>6. QED
    BY <2>4, <2>5
<1>4. QED
  BY <1>2, <1>3

LEMMA LightClock ==
    ASSUME LightInv, Clock, NEW d \in Client
    PROVE  ScreenOf(d)' /\ MailOf(d)' /\ HandlerOf(d)'
<1>0. ServerTypes
  BY DEF LightInv, Types
<1>1. ASSUME NEW p \in Piano, AutoStop(p)
      PROVE  ScreenOf(d)' /\ MailOf(d)' /\ HandlerOf(d)'
  BY <1>1, LightUnsaid DEF AutoStop
<1>2. ASSUME NEW p \in Piano, Tick(p)
      PROVE  ScreenOf(d)' /\ MailOf(d)' /\ HandlerOf(d)'
  <2>1. /\ told'[d] = told[d] /\ light'[d] = light[d] /\ mode'[d] = mode[d]
        /\ pc' = pc /\ todo' = todo /\ unsaid' = unsaid
    BY <1>2 DEF Tick, browser
  <2>2. \A q \in Piano : rec[q] \in Session
    BY <1>0 DEF ServerTypes
  <2>3. \A q : rec'[q].owner = rec[q].owner /\ rec'[q].paused = rec[q].paused
    BY <1>0, <1>2, <2>2 DEF Tick, ServerTypes, Session
  <2>4. \A q, s : Settled(d, q, s) => Settled(d, q, s)'
    BY <2>1, <2>3 DEF Settled
  <2>5. QED
    BY <2>1, <2>4, LightUnheard
<1>3. ASSUME NEW t \in Task, PlaybackStarts(t) \/ PlaybackEnds(t) \/ Released(t)
      PROVE  ScreenOf(d)' /\ MailOf(d)' /\ HandlerOf(d)'
  <2>1. /\ told'[d] = told[d] /\ light'[d] = light[d] /\ mode'[d] = mode[d]
        /\ UNCHANGED <<rec, pc, todo, unsaid>>
    BY <1>3 DEF PlaybackStarts, PlaybackEnds, Released, browser
  <2>2. \A q, s : Settled(d, q, s) => Settled(d, q, s)'
    BY <2>1, SettledSame
  <2>3. QED
    BY <2>1, <2>2, LightUnheard
<1>4. QED
  BY <1>1, <1>2, <1>3 DEF Clock

LEMMA LightStep ==
    ASSUME LightInv, [Next]_vars
    PROVE  LightInv'
<1>1. Types'
  BY StepTypes DEF LightInv
<1>2. ASSUME NEW d \in Client
      PROVE  ScreenOf(d)' /\ MailOf(d)' /\ HandlerOf(d)'
  <2>1. CASE UNCHANGED vars
    <3>1. /\ told'[d] = told[d] /\ light'[d] = light[d] /\ mode'[d] = mode[d]
          /\ UNCHANGED <<rec, pc, todo, unsaid>>
      BY <2>1 DEF vars, server, browser
    <3>2. \A q, s : Settled(d, q, s) => Settled(d, q, s)'
      BY <3>1, SettledSame
    <3>3. QED
      BY <3>1, <3>2, LightUnheard
  <2>2. CASE Next
    BY <2>2, LightServer, LightBrowser, LightLeave, LightDelete, LightClock DEF Next
  <2>3. QED
    BY <2>1, <2>2
<1>3. QED
  BY <1>1, <1>2 DEF LightInv

\* A browser that shows a recording, with nothing under way, has it; only the
\* recordings whose owners were not told of their end are excepted.
THEOREM LightIsTrue == Spec => []LightTrue
<1>1. Init => LightInv
  <2>1. SUFFICES ASSUME Init PROVE \A c \in Client : ScreenOf(c) /\ MailOf(c) /\ HandlerOf(c)
    BY TypesInit DEF LightInv
  <2>2. QED
    BY <2>1 DEF Init, ScreenOf, MailOf, HandlerOf
<1>2. LightInv /\ [Next]_vars => LightInv'
  BY LightStep
<1>3. LightInv => LightTrue
  <2>1. SUFFICES ASSUME LightInv, NEW c \in Client, Quiet(c), light[c] # "idle",
                        <<c, mode[c]>> \notin unsaid
                 PROVE  rec[mode[c]].owner = c /\ light[c] = Shown(c)
    BY DEF LightTrue
  <2>2. Settled(c, mode[c], light[c])
    BY <2>1 DEF LightInv, ScreenOf, Quiet
  <2>3. QED
    BY <2>1, <2>2 DEF Settled, Quiet, Shown
<1>4. QED
  BY <1>1, <1>2, <1>3, PTL DEF Spec

\* Playbacks, recordings and pianos belong together, for any number of them.
THEOREM PlaybackIsConsistent == Spec => []PlaybackConsistent
BY PianoTypes, PlaybacksApart, PTL DEF PlaybackConsistent
=============================================================================
