-------------------------------- MODULE Piano --------------------------------
(***************************************************************************)
(* The piano recorder: the recording sessions and playback tasks of        *)
(* PianoRuntime, the handlers that start and stop them, and the browser    *)
(* whose piano mode shows a recording state of its own.                    *)
(*                                                                         *)
(* Packets travel in order in both directions.  Whether a client may use a *)
(* piano - permission, square, carrier - changes at any time, so a handler *)
(* may refuse any packet.  What is played is left out, and so is what a     *)
(* recording holds: its playback may be over at once.                      *)
(***************************************************************************)
EXTENDS Integers, Sequences, FiniteSetsExt

CONSTANTS
    Client,     \* connection ids of one run of the server; none comes back
    Piano,      \* items of type piano
    Task,       \* playback tasks
    Limit,      \* PIANO_RECORDING_MAX_MS, in ticks of the clock
    MaxQueue,   \* bound: a packet is sent only while fewer are under way
    NoOne, NoPiano, NoTask

ASSUME PianoAssumption ==
    /\ NoOne \notin Client /\ NoPiano \notin Piano /\ NoTask \notin Task
    /\ Limit \in Nat \ {0} /\ MaxQueue \in Nat

VARIABLES
    alive,     \* the pianos in ItemService.items
    rec,       \* recording_state_by_item
    songs,     \* the pianos with an entry in piano_songs
    playing,   \* playback_tasks_by_item
    task,      \* the tasks themselves
    pc,        \* where the client's handler is
    todo,      \* the pianos it has still to finish with
    sent,      \* packets from the browser
    told,      \* packets to the browser
    mode,      \* activePianoItemId
    light,     \* activePianoRecordingState
    unsaid     \* history: recordings whose owner was not told of their end

tasks   == <<playing, task>>
server  == <<alive, rec, songs, tasks, pc, todo, unsaid>>
browser == <<mode, light>>
vars    == <<server, sent, told, browser>>

NoRec == [owner |-> NoOne, paused |-> FALSE, spent |-> 0]
Free  == [item |-> NoPiano, at |-> "free"]

Packet(kind, p)  == [kind |-> kind, item |-> p]
Status(p, shows) == [item |-> p, shows |-> shows]

PacketKind == {"use", "note", "toggle_record", "stop_record", "playback", "stop_playback"}
StatusKind == {"entered", "recording", "paused", "idle", "removed"}

Recording(p) == rec[p].owner # NoOne

\* Not cancelled, and not over.
Live(t) == task[t].at \in {"new", "playing", "ending"}

Init ==
    /\ alive = Piano
    /\ rec = [p \in Piano |-> NoRec]
    /\ songs \in SUBSET Piano
    /\ playing = [p \in Piano |-> NoTask]
    /\ task = [t \in Task |-> Free]
    /\ pc = [c \in Client |-> "idle"]
    /\ todo = [c \in Client |-> {}]
    /\ sent = [c \in Client |-> <<>>]
    /\ told = [c \in Client |-> <<>>]
    /\ mode = [c \in Client |-> NoPiano]
    /\ light = [c \in Client |-> "idle"]
    /\ unsaid = {}

-----------------------------------------------------------------------------
(* The browser.                                                            *)

Underway == MapThenSumSet(LAMBDA c : Len(sent[c]) + Len(told[c]), Client)

Send(c, packets) ==
    /\ pc[c] \in {"idle", "stopping"}
    /\ Underway + Len(packets) <= MaxQueue
    /\ sent' = [sent EXCEPT ![c] = @ \o packets]
    /\ UNCHANGED <<server, told, mode>>

Use(c, p) ==
    /\ mode[c] = NoPiano
    /\ Send(c, <<Packet("use", p)>>)
    /\ UNCHANGED light

\* A key; Z; X and Enter, which the mode offers while its state is idle.
Press(c) ==
    /\ mode[c] # NoPiano
    /\ \E kind \in {"note", "toggle_record", "playback", "stop_playback"} :
          /\ kind \in {"playback", "stop_playback"} => light[c] = "idle"
          /\ Send(c, <<Packet(kind, mode[c])>>)
    /\ UNCHANGED light

\* C: stopPlaybackAndRecording.
PressStop(c) ==
    /\ mode[c] # NoPiano
    /\ Send(c, <<Packet("stop_playback", mode[c]), Packet("stop_record", mode[c])>>)
    /\ light' = [light EXCEPT ![c] = "idle"]

\* stopUseMode; a recording goes on.
Escape(c) ==
    /\ mode[c] # NoPiano
    /\ mode' = [mode EXCEPT ![c] = NoPiano]
    /\ light' = [light EXCEPT ![c] = "idle"]
    /\ UNCHANGED <<server, sent, told>>

\* onPianoStatus, and the item_remove that ends the mode.
Hear(c) ==
    /\ told[c] # <<>>
    /\ told' = [told EXCEPT ![c] = Tail(@)]
    /\ LET m == Head(told[c]) IN
          \/ /\ m.shows = "entered"
             /\ mode' = [mode EXCEPT ![c] = m.item]
             /\ light' = [light EXCEPT ![c] = "idle"]
          \/ /\ m.shows = "removed" /\ m.item = mode[c]
             /\ mode' = [mode EXCEPT ![c] = NoPiano]
             /\ light' = [light EXCEPT ![c] = "idle"]
          \/ /\ m.shows \notin {"entered", "removed"} /\ m.item = mode[c]
             /\ light' = [light EXCEPT ![c] = m.shows]
             /\ UNCHANGED mode
          \/ /\ m.shows # "entered" /\ m.item # mode[c]
             /\ UNCHANGED browser
    /\ UNCHANGED <<server, sent>>

-----------------------------------------------------------------------------
(* Playback tasks.                                                         *)

\* _cancel_piano_playback: a task that has not started, or is awaiting its
\* last note-offs, does nothing more; one that plays goes on to release its
\* keys.
Cancelled(p) ==
    [t \in Task |->
        IF t # playing[p] THEN task[t]
        ELSE IF task[t].at = "playing" THEN [task[t] EXCEPT !.at = "cancelled"]
        ELSE Free]

CancelPlayback(p) ==
    /\ playing' = [playing EXCEPT ![p] = NoTask]
    /\ task' = Cancelled(p)

\* Its first turn; a recording without notes returns and stays registered.
PlaybackStarts(t) ==
    /\ task[t].at = "new"
    /\ \E next \in {[task[t] EXCEPT !.at = "playing"], Free} :
          task' = [task EXCEPT ![t] = next]
    /\ UNCHANGED <<alive, rec, songs, playing, pc, todo, unsaid, sent, told, browser>>

\* The last event has been played, or the piano is gone.
PlaybackEnds(t) ==
    /\ task[t].at = "playing"
    /\ task' = [task EXCEPT ![t].at = "ending"]
    /\ UNCHANGED <<alive, rec, songs, playing, pc, todo, unsaid, sent, told, browser>>

\* Fault: the entry is removed without asking whose it is.
ReleaseAny(t) ==
    /\ task[t].at \in {"ending", "cancelled"}
    /\ task' = [task EXCEPT ![t] = Free]
    /\ playing' = [playing EXCEPT ![task[t].item] = NoTask]
    /\ UNCHANGED <<alive, rec, songs, pc, todo, unsaid, sent, told, browser>>

\* The finally block is over: the entry is removed if it is the task's own.
Released(t) ==
    /\ task[t].at \in {"ending", "cancelled"}
    /\ task' = [task EXCEPT ![t] = Free]
    /\ playing' = [p \in Piano |-> IF playing[p] = t THEN NoTask ELSE playing[p]]
    /\ UNCHANGED <<alive, rec, songs, pc, todo, unsaid, sent, told, browser>>

-----------------------------------------------------------------------------
(* The handlers.                                                           *)

Handle(c, kind, p) ==
    /\ pc[c] = "idle"
    /\ sent[c] # <<>> /\ Head(sent[c]) = Packet(kind, p)
    /\ sent' = [sent EXCEPT ![c] = Tail(@)]
    /\ UNCHANGED browser

\* send_status to the client itself.
Tell(c, p, shows) ==
    /\ told' = [told EXCEPT ![c] = Append(@, Status(p, shows))]
    /\ unsaid' = unsaid \ {<<c, p>>}

\* Not permitted, not at hand, gone, or busy with another's recording.
Refuse(c) ==
    /\ \E p \in Piano, kind \in PacketKind : Handle(c, kind, p)
    /\ UNCHANGED <<server, told>>

Enter(c, p) ==
    /\ Handle(c, "use", p) /\ p \in alive
    /\ Tell(c, p, "entered")
    /\ UNCHANGED <<alive, rec, songs, tasks, pc, todo>>

\* _finalize_piano_recording up to the await of its broadcast.
Finalize(p) ==
    /\ rec' = [rec EXCEPT ![p] = NoRec]
    /\ songs' = songs \cup {p}

\* ... by the owner's handler, which will tell the owner after it.
FinalizeFor(c, p) ==
    /\ rec[p].owner = c
    /\ Finalize(p)
    /\ pc' = [pc EXCEPT ![c] = "stopping"]
    /\ todo' = [todo EXCEPT ![c] = {p}]
    /\ UNCHANGED <<alive, tasks, unsaid, told>>

\* handle_note: the owner's first note after the limit ends the recording.
Note(c, p) ==
    /\ Handle(c, "note", p) /\ p \in alive
    /\ ~rec[p].paused /\ rec[p].spent >= Limit
    /\ FinalizeFor(c, p)

Start(c, p) ==
    /\ Handle(c, "toggle_record", p) /\ p \in alive
    /\ ~Recording(p)
    /\ CancelPlayback(p)
    /\ rec' = [rec EXCEPT ![p] = [NoRec EXCEPT !.owner = c]]
    /\ Tell(c, p, "recording")
    /\ UNCHANGED <<alive, songs, pc, todo>>

\* Fault: the time already recorded is forgotten.
PauseAnew(c, p) ==
    /\ Handle(c, "toggle_record", p)
    /\ rec[p].owner = c
    /\ rec' = [rec EXCEPT ![p].paused = ~@, ![p].spent = 0]
    /\ Tell(c, p, IF rec[p].paused THEN "recording" ELSE "paused")
    /\ UNCHANGED <<alive, songs, tasks, pc, todo>>

Pause(c, p) ==
    /\ Handle(c, "toggle_record", p)
    /\ rec[p].owner = c
    /\ rec' = [rec EXCEPT ![p].paused = ~@]
    /\ Tell(c, p, IF rec[p].paused THEN "recording" ELSE "paused")
    /\ UNCHANGED <<alive, songs, tasks, pc, todo>>

StopRecord(c, p) ==
    /\ Handle(c, "stop_record", p) /\ p \in alive
    /\ \/ FinalizeFor(c, p)
       \/ /\ ~Recording(p)
          /\ Tell(c, p, "idle")
          /\ UNCHANGED <<alive, rec, songs, tasks, pc, todo>>

\* Fault: the call that finalizes forgets notify_owner.
StoppedSilently(c) ==
    /\ pc[c] = "stopping"
    /\ pc' = [pc EXCEPT ![c] = "idle"]
    /\ todo' = [todo EXCEPT ![c] = {}]
    /\ UNCHANGED <<alive, rec, songs, tasks, unsaid, sent, told, browser>>

\* The awaits of the broadcast are over.
Stopped(c) ==
    /\ pc[c] = "stopping"
    /\ \E p \in todo[c] : Tell(c, p, "idle")
    /\ pc' = [pc EXCEPT ![c] = "idle"]
    /\ todo' = [todo EXCEPT ![c] = {}]
    /\ UNCHANGED <<alive, rec, songs, tasks, sent, browser>>

Playback(c, p) ==
    /\ Handle(c, "playback", p) /\ p \in alive
    /\ ~Recording(p) /\ p \in songs
    /\ \E t \in Task :
          /\ task[t] = Free /\ \A q \in Piano : playing[q] # t
          /\ playing' = [playing EXCEPT ![p] = t]
          /\ task' = [Cancelled(p) EXCEPT ![t] = [item |-> p, at |-> "new"]]
    /\ Tell(c, p, "idle")
    /\ UNCHANGED <<alive, rec, songs, pc, todo>>

StopPlayback(c, p) ==
    /\ Handle(c, "stop_playback", p) /\ p \in alive
    /\ CancelPlayback(p)
    /\ Tell(c, p, "idle")
    /\ UNCHANGED <<alive, rec, songs, pc, todo>>

-----------------------------------------------------------------------------
(* The limit, deletions and departures.                                    *)

\* The time recorded, which is cut off at the limit.
Tick(p) ==
    /\ Recording(p) /\ ~rec[p].paused
    /\ rec[p].spent < Limit
    /\ rec' = [rec EXCEPT ![p].spent = @ + 1]
    /\ UNCHANGED <<alive, songs, tasks, pc, todo, unsaid, sent, told, browser>>

Unsaid(p) ==
    unsaid \cup {<<c, p>> : c \in {d \in Client : d = rec[p].owner /\ pc[d] # "leaving"}}

\* _auto_stop_piano_recording polls; _finalize_piano_recording then cancels
\* the very task that runs it, so its first await, the broadcast, delivers
\* nothing and nobody is told.
AutoStop(p) ==
    /\ Recording(p) /\ rec[p].spent >= Limit
    /\ Finalize(p)
    /\ unsaid' = Unsaid(p)
    /\ UNCHANGED <<alive, tasks, pc, todo, sent, told, browser>>

\* remove_item of a delete handler, and its item_remove.
Delete(p) ==
    /\ p \in alive
    /\ alive' = alive \ {p}
    /\ rec' = [rec EXCEPT ![p] = NoRec]
    /\ songs' = songs \ {p}
    /\ CancelPlayback(p)
    /\ told' = [c \in Client |->
          IF pc[c] \in {"idle", "stopping"}
          THEN Append(told[c], Status(p, "removed")) ELSE told[c]]
    /\ UNCHANGED <<pc, todo, unsaid, sent, browser>>

\* The connection ends between two packets: client_disconnected lists its
\* recordings.
Leave(c) ==
    /\ pc[c] = "idle"
    /\ pc' = [pc EXCEPT ![c] = "leaving"]
    /\ todo' = [todo EXCEPT ![c] = {p \in Piano : rec[p].owner = c}]
    /\ sent' = [sent EXCEPT ![c] = <<>>]
    /\ told' = [told EXCEPT ![c] = <<>>]
    /\ mode' = [mode EXCEPT ![c] = NoPiano]
    /\ light' = [light EXCEPT ![c] = "idle"]
    /\ UNCHANGED <<alive, rec, songs, tasks, unsaid>>

\* One turn of its loop finalizes what is recorded on the piano by now, and
\* awaits the broadcast.
LeaveOne(c) ==
    /\ pc[c] = "leaving"
    /\ \E p \in todo[c] :
          /\ todo' = [todo EXCEPT ![c] = @ \ {p}]
          /\ \/ /\ Recording(p)
                /\ Finalize(p)
                /\ unsaid' = Unsaid(p)
             \/ /\ ~Recording(p)
                /\ UNCHANGED <<rec, songs, unsaid>>
    /\ UNCHANGED <<alive, tasks, pc, sent, told, browser>>

-----------------------------------------------------------------------------

Server(c) ==
    \/ Refuse(c) \/ Stopped(c) \/ LeaveOne(c)
    \/ \E p \in Piano :
          \/ Enter(c, p) \/ Note(c, p) \/ Start(c, p) \/ Pause(c, p)
          \/ StopRecord(c, p) \/ Playback(c, p) \/ StopPlayback(c, p)

Browser(c) ==
    \/ Press(c) \/ PressStop(c) \/ Escape(c) \/ Hear(c)
    \/ \E p \in Piano : Use(c, p)

Clock ==
    \/ \E p \in Piano : Tick(p) \/ AutoStop(p)
    \/ \E t \in Task : PlaybackStarts(t) \/ PlaybackEnds(t) \/ Released(t)

Next ==
    \/ \E c \in Client : Server(c) \/ Browser(c) \/ Leave(c)
    \/ \E p \in Piano : Delete(p)
    \/ Clock

Spec == Init /\ [][Next]_vars

\* The event loop runs every task that is ready, and time passes while a
\* recording goes on, however often it is paused.
FairSpec ==
    /\ Spec
    /\ \A p \in Piano : SF_vars(Tick(p)) /\ WF_vars(AutoStop(p))

-----------------------------------------------------------------------------
(* Properties.                                                             *)

TypeOK ==
    /\ alive \subseteq Piano
    /\ rec \in [Piano -> [owner : Client \cup {NoOne}, paused : BOOLEAN,
                          spent : 0..Limit]]
    /\ songs \subseteq Piano
    /\ playing \in [Piano -> Task \cup {NoTask}]
    /\ task \in [Task -> [item : Piano \cup {NoPiano},
                          at : {"free", "new", "playing", "ending", "cancelled"}]]
    /\ pc \in [Client -> {"idle", "stopping", "leaving"}]
    /\ todo \in [Client -> SUBSET Piano]
    /\ sent \in [Client -> Seq([item : Piano, kind : PacketKind])]
    /\ told \in [Client -> Seq([item : Piano, shows : StatusKind])]
    /\ mode \in [Client -> Piano \cup {NoPiano}]
    /\ light \in [Client -> {"idle", "recording", "paused"}]
    /\ unsaid \subseteq Client \X Piano

\* At most one playback of a piano goes on, it is the registered one, which
\* stop_playback and a deletion can reach, and there is none while the piano
\* is recorded: cancelled tasks and tasks that are over never take the place
\* of their successors in the table.
OnePlayback ==
    \A t \in Task : Live(t) =>
        /\ playing[task[t].item] = t
        /\ ~Recording(task[t].item)
        /\ task[t].item \in alive

\* Playbacks, recordings and pianos belong together: every table is well formed,
\* no recording passes the limit, and a piano is played back at most once.
PlaybackConsistent == TypeOK /\ OnePlayback

Quiet(c) == pc[c] = "idle" /\ sent[c] = <<>> /\ told[c] = <<>>

Shown(c) == IF rec[mode[c]].paused THEN "paused" ELSE "recording"

\* A browser whose piano mode shows a recording has that recording, in that
\* state, once nothing is under way to it or from it, whatever keys its user
\* pressed meanwhile and however often the mode was left and entered; the
\* recordings whose end was not told are the only others.
LightTrue ==
    \A c \in Client :
        Quiet(c) /\ light[c] # "idle" /\ <<c, mode[c]>> \notin unsaid =>
            rec[mode[c]].owner = c /\ light[c] = Shown(c)

\* src/docs/runtime-flow.md:91, "`item_piano_status`: structured piano
\* mode/record/playback transitions (client runtime state)."
LightAgrees ==
    \A c \in Client :
        Quiet(c) /\ light[c] # "idle" => rec[mode[c]].owner = c /\ light[c] = Shown(c)

\* A piano is not recorded for ever, unless its recording is left paused:
\* the time already recorded survives every pause.
RecordingEnds ==
    \A p \in Piano : []<>~Recording(p) \/ <>[](Recording(p) /\ rec[p].paused)
=============================================================================
