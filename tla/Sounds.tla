------------------------------- MODULE Sounds -------------------------------
(***************************************************************************)
(* The sounds of items in the browser: radios, which share one media       *)
(* element for each stream (audio/radioStationRuntime.ts), emitted sounds  *)
(* (audio/itemEmitRuntime.ts), the elevator's cabin                        *)
(* (items/types/elevator/runtime.ts), and the refreshes and layer switches *)
(* of main.ts that drive all three.                                        *)
(*                                                                         *)
(* A sync of the radios awaits the audio context before it makes an        *)
(* output.  In a running context that takes no time.  In a suspended one   *)
(* it lasts until the browser lets the page play, and the world goes on:   *)
(* such a call is a member of `tasks', with the radio it had read.         *)
(*                                                                         *)
(* How far an item is from the listener is its `place': heard; near, where *)
(* it is fetched before it can be heard; fringe, where it is kept and not  *)
(* begun (the eight squares of hysteresis); far, or acoustically cut off.  *)
(* A time in nextSharedStartAtMs or nextEmitStartAtMs is "wait" until it   *)
(* comes.  A media element is a name; play() ends its pause at once and    *)
(* its promise is pending in `plays' or `emitPlays'.                       *)
(***************************************************************************)
EXTENDS Naturals, Sequences, FiniteSets, SequencesExt

CONSTANTS
    Radios, Emitters, Cabins,    \* the items, natural numbers
    Urls,          \* the streams a radio may be tuned to
    Elements,      \* names for media elements, used again when forgotten
    Attempts,      \* names for sharedStartAttemptIds, used again likewise
    MaxRetries,    \* STREAM_PLAY_MAX_RETRIES; 6 in the code
    MaxTasks,      \* bound on the calls that wait
    MaxPlays       \* bound on the promises of forgotten elements

Items == Radios \cup Emitters \cup Cabins

ASSUME SoundsAssumption ==
    /\ Items \subseteq Nat \ {0} /\ Elements \subseteq Nat \ {0}
    /\ Attempts \subseteq Nat \ {0}
    /\ MaxRetries \in Nat \ {0} /\ MaxTasks \in Nat /\ MaxPlays \in Nat

VARIABLE page

None == 0
Places == {"heard", "near", "fringe", "far"}
Gone == [here |-> FALSE, on |-> FALSE, url |-> None, place |-> "far"]
ItemStates == [here : {TRUE}, on : BOOLEAN, url : Urls \cup {None}, place : Places]

NoOutput == [el |-> None, url |-> None, audible |-> FALSE]

Init == page =
    [ running |-> FALSE, looping |-> FALSE,  \* state.running; gameLoop() runs
      ctx |-> "none",
      media |-> TRUE, item |-> TRUE,         \* audioLayers
      radioOn |-> TRUE, emitOn |-> TRUE, cabinOn |-> TRUE,  \* layerEnabled
      busy |-> FALSE, again |-> FALSE,       \* subscriptionRefresh-
                                             \*   InFlight and -Pending
      tasks |-> << >>,
      items |-> [i \in Items |-> Gone],
      \* RadioStationRuntime
      outputs |-> [i \in Radios |-> NoOutput],
      shared |-> [u \in Urls |-> [el |-> None, refs |-> 0]],
      starting |-> {}, wait |-> {}, fails |-> [u \in Urls |-> 0],
      attempt |-> [u \in Urls |-> None],
      alarms |-> {}, plays |-> {},
      \* ItemEmitRuntime
      emits |-> [i \in Emitters |-> NoOutput],
      emitStarting |-> {}, emitWait |-> {},
      emitFails |-> [i \in Emitters |-> 0], emitPlays |-> {},
      stray |-> {},     \* elements whose output another one has replaced
      \* ElevatorAudioRuntime, and the elements that are being loaded
      cabins |-> [i \in Cabins |-> [el |-> None, ready |-> FALSE]],
      loads |-> {},
      playing |-> {} ]                       \* elements that are not paused

-----------------------------------------------------------------------------
(* Functions of the page, s.                                               *)

Owned(s) ==
    ({s.shared[u].el : u \in Urls} \cup {s.emits[i].el : i \in Emitters}
       \cup {s.cabins[i].el : i \in Cabins}) \ {None}

InUse(s) == Owned(s) \cup s.stray \cup {l.el : l \in s.loads} \cup {p.el : p \in s.plays} \cup {p.el : p \in s.emitPlays}

\* new Audio()
FreeElement(s) == CHOOSE e \in Elements \ InUse(s) :
                      \A f \in Elements \ InUse(s) : e <= f

FreeAttempt(s) ==
    LET used == {p.attempt : p \in s.plays} \cup {s.attempt[u] : u \in Urls}
    IN  CHOOSE a \in Attempts \ used : \A b \in Attempts \ used : a <= b

\* The order of the map of items.
Order == SetToSortSeq(Items, LAMBDA a, b : a < b)
Visited(S) == SelectSeq(Order, LAMBDA i : i \in S)

ShouldKeepRadio(s, i, place) ==
    LET it == s.items[i]
    IN  /\ it.url # None /\ it.on
        /\ \/ place \in {"heard", "near"}
           \/ place = "fringe" /\ s.outputs[i].el # None

\* Emitted sounds: eligible, allowed, and within the same distances.
ShouldKeepEmit(s, i, place) ==
    \/ place \in {"heard", "near"}
    \/ place = "fringe" /\ s.emits[i].el # None

IsEmitEligible(s, i) == s.items[i].on /\ s.items[i].url # None

\* Inside the cabin, or at its open door.
ShouldPlayElevatorAmbience(place) == place \in {"heard", "near"}

-----------------------------------------------------------------------------
(* The radios.                                                             *)

ClearSharedStartAttempt(s, u) ==
    [s EXCEPT !.alarms = {a \in @ : a.url # u \/ a.attempt # s.attempt[u]},
              !.attempt[u] = None,
              !.starting = @ \ {u}]

RecordSharedStartFailure(s, u) ==
    [s EXCEPT !.fails[u] = IF @ + 1 >= MaxRetries THEN 0 ELSE @ + 1,
              !.wait = @ \cup {u}]

\* Fault: a start is watched only when the one before it failed.
TryStartSharedPlaybackUnwatched(s, u) ==
    LET el == s.shared[u].el
        a == FreeAttempt(s)
    IN  IF el \in s.playing \/ u \in s.starting \cup s.wait THEN s
        ELSE [s EXCEPT !.starting = @ \cup {u},
                       !.attempt[u] = a,
                       !.alarms = IF s.fails[u] = 0 THEN @
                                  ELSE @ \cup {[url |-> u, attempt |-> a, el |-> el]},
                       !.playing = @ \cup {el},
                       !.plays = @ \cup {[el |-> el, url |-> u, attempt |-> a]}]

TryStartSharedPlayback(s, u) ==
    LET el == s.shared[u].el
        a == FreeAttempt(s)
    IN  IF el \in s.playing THEN [s EXCEPT !.wait = @ \ {u}]
        ELSE IF u \in s.starting \cup s.wait THEN s
        ELSE [s EXCEPT !.starting = @ \cup {u},
                       !.attempt[u] = a,
                       !.alarms = @ \cup {[url |-> u, attempt |-> a, el |-> el]},
                       !.playing = @ \cup {el},
                       !.plays = @ \cup {[el |-> el, url |-> u, attempt |-> a]}]

\* Fault: the element is forgotten before it is paused.
ReleaseSharedSourceRunning(s, u) ==
    LET one == [s EXCEPT !.shared[u].refs = @ - 1]
    IN  IF s.shared[u].el = None THEN s
        ELSE IF one.shared[u].refs > 0 THEN one
        ELSE ClearSharedStartAttempt(
               [one EXCEPT !.shared[u] = [el |-> None, refs |-> 0],
                           !.wait = @ \ {u}, !.fails[u] = 0], u)

ReleaseSharedSource(s, u) ==
    LET one == [s EXCEPT !.shared[u].refs = @ - 1]
    IN  IF s.shared[u].el = None THEN s
        ELSE IF one.shared[u].refs > 0 THEN one
        ELSE ClearSharedStartAttempt(
               [one EXCEPT !.shared[u] = [el |-> None, refs |-> 0],
                           !.playing = @ \ {s.shared[u].el},
                           !.wait = @ \ {u}, !.fails[u] = 0], u)

CleanupRadio(s, i) ==
    IF s.outputs[i].el = None THEN s
    ELSE ReleaseSharedSource([s EXCEPT !.outputs[i] = NoOutput], s.outputs[i].url)

CleanupRadios(s, S) == FoldLeft(CleanupRadio, s, Visited(S))

GetOrCreateSharedSource(s, u) ==
    IF s.shared[u].el # None THEN [s EXCEPT !.shared[u].refs = @ + 1]
    ELSE TryStartSharedPlayback(
           [s EXCEPT !.shared[u] = [el |-> FreeElement(s), refs |-> 1]], u)

\* Fault: what the item's output was before the wait is not looked up again.
EnsureRuntimeOutputBlind(s, i, u) ==
    LET made == GetOrCreateSharedSource(s, u)
    IN  [made EXCEPT !.outputs[i] =
           [el |-> made.shared[u].el, url |-> u, audible |-> FALSE]]

\* ensureRuntime() after its await, with the stream read before it.  A change
\* of the channel alone, left out, makes a new output of the same stream too.
EnsureRuntimeOutput(s, i, u) ==
    LET made == GetOrCreateSharedSource(CleanupRadio(s, i), u)
    IN  IF s.outputs[i].el # None /\ s.outputs[i].url = u THEN s
        ELSE [made EXCEPT !.outputs[i] =
                [el |-> made.shared[u].el, url |-> u, audible |-> FALSE]]

\* One turn of the loop of sync(), in a running context.
VisitRadio(s, i, place) ==
    IF ~s.items[i].here THEN s
    ELSE IF ShouldKeepRadio(s, i, place) THEN EnsureRuntimeOutput(s, i, s.items[i].url)
    ELSE CleanupRadio(s, i)

\* A frame of one output.
SpatialRadio(s, i) ==
    LET it == s.items[i]
        out == s.outputs[i]
        audible == it.place = "heard"
        cleared == IF audible /\ ~out.audible
                   THEN [s EXCEPT !.wait = @ \ {out.url}, !.fails[out.url] = 0]
                   ELSE s
    IN  IF out.el = None THEN s
        ELSE IF ~it.here THEN CleanupRadio(s, i)
        ELSE IF it.url = None \/ ~it.on THEN s
        ELSE TryStartSharedPlayback(
               [cleared EXCEPT !.outputs[i].audible = audible], out.url)

RadioUpdateSpatialAudio(s) ==
    IF ~s.radioOn \/ s.ctx = "none" THEN s
    ELSE FoldLeft(SpatialRadio, s, Visited(Radios))

-----------------------------------------------------------------------------
(* Emitted sounds.  Of the schedule that a cleanup with preserveSchedule   *)
(* keeps, only the wait for the next start is here.                        *)

CleanupEmit(s, i, preserveSchedule) ==
    [s EXCEPT !.emits[i] = NoOutput,
              !.playing = @ \ {s.emits[i].el},
              !.emitStarting = @ \ {i},
              !.emitWait = IF preserveSchedule THEN @ ELSE @ \ {i},
              !.emitFails[i] = 0]

\* cleanupAll() goes through the outputs only.
CleanupEmits(s, S) ==
    FoldLeft(LAMBDA r, i : IF r.emits[i].el = None THEN r ELSE CleanupEmit(r, i, FALSE),
             s, Visited(S))

TryStartEmitPlayback(s, i) ==
    LET el == s.emits[i].el
    IN  IF el \in s.playing THEN [s EXCEPT !.emitWait = @ \ {i}]
        ELSE IF i \in s.emitStarting \cup s.emitWait THEN s
        ELSE [s EXCEPT !.emitStarting = @ \cup {i},
                       !.playing = @ \cup {el},
                       !.emitPlays = @ \cup {[el |-> el, item |-> i]}]

\* outputs.set(), whatever the item's output was.
CreateEmit(s, i, u) ==
    TryStartEmitPlayback(
        [s EXCEPT !.emits[i] = [el |-> FreeElement(s), url |-> u, audible |-> FALSE],
                  !.stray = @ \cup ({s.emits[i].el} \ {None})], i)

VisitEmit(s, i, place) ==
    IF ~s.items[i].here THEN s
    ELSE IF ~IsEmitEligible(s, i) THEN CleanupEmit(s, i, FALSE)
    ELSE IF ~ShouldKeepEmit(s, i, place) THEN CleanupEmit(s, i, TRUE)
    ELSE IF s.emits[i].url = s.items[i].url THEN s
    ELSE CreateEmit(IF s.emits[i].el = None THEN s ELSE CleanupEmit(s, i, FALSE),
                    i, s.items[i].url)

\* The end of sync(): items it has not seen are forgotten.
ForgetEmits(s, seen) ==
    [CleanupEmits(s, Emitters \ seen) EXCEPT !.emitWait = @ \cap seen]

EmitUpdateSpatialAudio(s) ==
    IF ~s.emitOn \/ s.ctx = "none" THEN s
    ELSE FoldLeft(LAMBDA r, i : IF r.emits[i].el = None \/ ~r.items[i].here THEN r
                                ELSE TryStartEmitPlayback(r, i),
                  s, Visited(Emitters))

-----------------------------------------------------------------------------
(* The cabin: its element begins once the length of the file is known.     *)

CleanupCabin(s, i) ==
    [s EXCEPT !.cabins[i] = [el |-> None, ready |-> FALSE],
              !.loads = {l \in @ : l.el # s.cabins[i].el},
              !.playing = @ \ {s.cabins[i].el}]

CleanupCabins(s, S) == FoldLeft(CleanupCabin, s, Visited(S))

CreateCabin(s, i) ==
    [s EXCEPT !.cabins[i] = [el |-> FreeElement(s), ready |-> FALSE],
              !.loads = @ \cup {[el |-> FreeElement(s), item |-> i, until |-> "metadata"]},
              !.stray = @ \cup ({s.cabins[i].el} \ {None})]

VisitCabin(s, i, place) ==
    IF ~s.items[i].here THEN s
    ELSE IF ~ShouldPlayElevatorAmbience(place) THEN CleanupCabin(s, i)
    ELSE IF s.cabins[i].el # None THEN s
    ELSE CreateCabin(s, i)

CabinUpdateSpatialAudio(s) ==
    IF ~s.cabinOn \/ s.ctx = "none" THEN s
    ELSE FoldLeft(LAMBDA r, i :
                     IF r.cabins[i].el = None THEN r
                     ELSE IF ~r.items[i].here THEN CleanupCabin(r, i)
                     ELSE IF r.cabins[i].ready
                          THEN [r EXCEPT !.playing = @ \cup {r.cabins[i].el}]
                     ELSE r,
                  s, Visited(Cabins))

-----------------------------------------------------------------------------
(* A call that goes through the three runtimes.  `after' is what is still  *)
(* to be visited, `url' the stream read before the wait.                   *)

Distances(s) == [i \in Items |-> s.items[i].place]

Call(s, owner) ==
    [owner |-> owner, stage |-> "radio", at |-> Distances(s), after |-> 0,
     item |-> None, url |-> None, valid |-> {}]

Park(s, t) == [s EXCEPT !.tasks = Append(@, t)]

\* audio.ensureContext() makes the context, which may have to be resumed.
AwaitContext(s, t) == Park([s EXCEPT !.ctx = "suspended"], t)

RECURSIVE RadiosOf(_, _), EmitsOf(_, _), CabinsOf(_, _), EndOf(_, _)

\* refreshAudioSubscriptionsForListeners(), not throttled
Refresh(s, owner) ==
    IF ~s.running THEN s
    ELSE IF s.busy THEN [s EXCEPT !.again = TRUE]
    ELSE RadiosOf([s EXCEPT !.busy = TRUE], Call(s, owner))

\* applyAudioLayerState(): the voices may take a while to resume.
ApplyAudioLayerState(s, owner) ==
    Park(s, [Call(s, owner) EXCEPT !.stage = "voice", !.at = [i \in Items |-> "far"]])

\* Fault: a refresh that was asked for meanwhile is forgotten.
EndOfRefreshForgets(s, t) ==
    IF t.owner = "layers" THEN s
    ELSE IF t.owner = "start" THEN [s EXCEPT !.looping = TRUE]
    ELSE IF t.owner = "welcome"
    THEN ApplyAudioLayerState([s EXCEPT !.busy = FALSE], "start")
    ELSE [s EXCEPT !.busy = FALSE]

EndOf(s, t) ==
    LET done == [s EXCEPT !.busy = FALSE, !.again = FALSE]
        next == IF s.again THEN Refresh(done, "refresh") ELSE done
    IN  IF t.owner = "layers" THEN s
        ELSE IF t.owner = "start" THEN [s EXCEPT !.looping = TRUE]
        ELSE IF t.owner = "welcome" THEN ApplyAudioLayerState(next, "start")
        ELSE next

Switches(t) == t.owner \in {"layers", "start"}

\* The members of todo that the call would have to make an output for wait
\* for the context; `first' is the first of them.
FirstOf(S) == CHOOSE i \in S : \A j \in S : i <= j

Seen(s, t, todo) == t.valid \cup {i \in todo : s.items[i].here}

CabinsOf(s, t) ==
    LET on == IF Switches(t) THEN [s EXCEPT !.cabinOn = s.item] ELSE s
        todo == {i \in Cabins : i > t.after}
        new == {i \in todo : /\ on.items[i].here /\ on.cabins[i].el = None
                             /\ ShouldPlayElevatorAmbience(t.at[i])}
        visited == FoldLeft(LAMBDA r, i : VisitCabin(r, i, t.at[i]), on, Visited(todo))
    IN  IF ~on.cabinOn /\ t.after = 0 THEN EndOf(CleanupCabins(on, Cabins), t)
        ELSE IF on.ctx = "none" /\ new # {}
        THEN LET i == FirstOf(new)
             IN  AwaitContext(on, [t EXCEPT !.stage = "cabin", !.item = i, !.after = i,
                                            !.valid = Seen(on, t, todo \cap 1..i)])
        ELSE EndOf(CleanupCabins(visited, Cabins \ Seen(on, t, todo)), t)

\* ItemEmitRuntime.sync(): it awaits the context only if there is none.
EmitsOf(s, t) ==
    LET on == IF Switches(t) THEN [s EXCEPT !.emitOn = s.item] ELSE s
        todo == {i \in Emitters : i > t.after}
        new == {i \in todo : /\ on.items[i].here /\ IsEmitEligible(on, i)
                             /\ ShouldKeepEmit(on, i, t.at[i])
                             /\ on.emits[i].url # on.items[i].url}
        visited == FoldLeft(LAMBDA r, i : VisitEmit(r, i, t.at[i]), on, Visited(todo))
        cabins == [t EXCEPT !.after = 0, !.valid = {}]
    IN  IF ~on.emitOn /\ t.after = 0 THEN CabinsOf(CleanupEmits(on, Emitters), cabins)
        ELSE IF on.ctx = "none" /\ new # {}
        THEN LET i == FirstOf(new)
             IN  AwaitContext(on, [t EXCEPT !.stage = "emit", !.item = i,
                                            !.url = on.items[i].url, !.after = i,
                                            !.valid = Seen(on, t, todo \cap 1..i)])
        ELSE CabinsOf(ForgetEmits(visited, Seen(on, t, todo)), cabins)

\* RadioStationRuntime.sync()
RadiosOf(s, t) ==
    LET on == IF Switches(t) THEN [s EXCEPT !.radioOn = s.media] ELSE s
        todo == {i \in Radios : i > t.after}
        kept == {i \in todo : on.items[i].here /\ ShouldKeepRadio(on, i, t.at[i])}
        visited == FoldLeft(LAMBDA r, i : VisitRadio(r, i, t.at[i]), on, Visited(todo))
        emits == [t EXCEPT !.after = 0, !.valid = {}]
    IN  IF ~on.radioOn /\ t.after = 0 THEN EmitsOf(CleanupRadios(on, Radios), emits)
        ELSE IF on.ctx # "running" /\ kept # {}
        THEN LET i == FirstOf(kept)
                 before == {j \in todo : j < i /\ on.items[j].here}
             IN  AwaitContext(CleanupRadios(on, before),
                     [t EXCEPT !.item = i, !.url = on.items[i].url, !.after = i,
                               !.valid = @ \cup before \cup {i}])
        ELSE EmitsOf(CleanupRadios(visited, Radios \ Seen(on, t, todo)), emits)

\* What a parked call does when the context has resumed.
Continue(s, t) ==
    CASE t.stage = "radio" ->
            RadiosOf(EnsureRuntimeOutput(s, t.item, t.url), t)
      [] t.stage = "emit" ->
            EmitsOf(CreateEmit(s, t.item, t.url), t)
      [] t.stage = "cabin" ->
            CabinsOf(CreateCabin(s, t.item), t)
      [] OTHER -> Park(s, t)

-----------------------------------------------------------------------------
(* Actions.                                                                *)

Become(s) == page' = s

Forgotten(s) ==
    {p \in s.plays : p.attempt # s.attempt[p.url]}
      \cup {p \in s.emitPlays : p.el # s.emits[p.item].el}

\* The bounds on what waits.
Spare == Cardinality(Forgotten(page)) <= MaxPlays /\ Cardinality(page.stray) <= 1

Room == Len(page.tasks) < MaxTasks /\ Spare

Welcome(items) ==
    /\ ~page.running /\ Room
    /\ Become(Refresh([page EXCEPT !.running = TRUE, !.items = items], "welcome"))

Disconnect ==
    /\ page.running
    /\ LET quiet == CleanupCabins(CleanupEmits(CleanupRadios(page, Radios), Emitters), Cabins)
       IN  Become([quiet EXCEPT !.running = FALSE, !.looping = FALSE,
                                !.items = [i \in Items |-> Gone],
                                !.busy = FALSE, !.again = FALSE])

\* An item appears or is edited; it moves by Walk.
ItemUpsert(i, it) ==
    /\ page.running /\ Room
    /\ page.items[i].here => it.place = page.items[i].place
    /\ Become(Refresh([page EXCEPT !.items[i] = it], "refresh"))

ItemRemove(i) ==
    /\ page.running /\ page.items[i].here /\ Room
    /\ LET away == [page EXCEPT !.items[i] = Gone]
           cleaned == IF i \in Radios THEN CleanupRadio(away, i)
                      ELSE IF i \in Emitters THEN CleanupEmit(away, i, FALSE)
                      ELSE CleanupCabin(away, i)
       IN  Become(Refresh(cleaned, "refresh"))

\* The listener walks; the refresh follows at once or with a later frame.
Walk(i, place) ==
    /\ page.running /\ page.items[i].here /\ page.items[i].place # place
    /\ Become([page EXCEPT !.items[i].place = place])

ToggleLayer(layer) ==
    /\ Room
    /\ Become(ApplyAudioLayerState(
          IF layer = "media" THEN [page EXCEPT !.media = ~@]
          ELSE [page EXCEPT !.item = ~@], "layers"))

\* peerManager.resumeRemoteAudio() has returned to applyAudioLayerState().
VoicesResumed(k) ==
    /\ k \in DOMAIN page.tasks /\ page.tasks[k].stage = "voice"
    /\ Spare
    /\ LET rest == [page EXCEPT !.tasks = RemoveAt(@, k)]
       IN  Become(RadiosOf(rest, Call(rest, page.tasks[k].owner)))

\* The browser lets the page play, and the calls go on in their order.
ContextResumes ==
    /\ page.ctx = "suspended"
    /\ Spare
    /\ Become(FoldLeft(Continue, [page EXCEPT !.ctx = "running", !.tasks = << >>],
                       page.tasks))

ContextSuspends == page.ctx = "running" /\ Become([page EXCEPT !.ctx = "suspended"])

\* gameLoop()
Frame ==
    /\ page.running /\ page.looping /\ Len(page.tasks) < MaxTasks
    /\ Cardinality(Forgotten(page)) <= MaxPlays + 1
    /\ LET refreshed == Refresh(page, "refresh")
       IN  Become(CabinUpdateSpatialAudio(EmitUpdateSpatialAudio(
                     RadioUpdateSpatialAudio(refreshed))))

\* A time that was waited for has come.
RetryTimeComes ==
    \/ \E u \in page.wait : Become([page EXCEPT !.wait = @ \ {u}])
    \/ \E i \in page.emitWait : Become([page EXCEPT !.emitWait = @ \ {i}])

\* Fault: a result is taken for that of the source the stream has now.
SharedPlaySettledAnyhow(p, outcome) ==
    LET gone == [page EXCEPT !.plays = @ \ {p}]
        noted == IF outcome = "started"
                 THEN [gone EXCEPT !.wait = @ \ {p.url}, !.fails[p.url] = 0]
                 ELSE RecordSharedStartFailure(gone, p.url)
    IN  /\ p \in page.plays
        /\ Become(ClearSharedStartAttempt(noted, p.url))

\* play() of a stream is answered: it plays, the browser refuses and the
\* element is paused, or the source fails and the element is not.  A start
\* that was given up has been paused, which answers it.
SharedPlaySettled(p, outcome) ==
    LET gone == [page EXCEPT !.plays = @ \ {p}]
        noted == IF outcome = "started"
                 THEN [gone EXCEPT !.wait = @ \ {p.url}, !.fails[p.url] = 0]
                 ELSE RecordSharedStartFailure(gone, p.url)
        settled == ClearSharedStartAttempt(noted, p.url)
    IN  /\ p \in page.plays
        /\ IF page.attempt[p.url] # p.attempt
           THEN outcome = "refused" /\ Become(gone)
           ELSE Become(IF outcome = "refused"
                       THEN [settled EXCEPT !.playing = @ \ {p.el}] ELSE settled)

\* STREAM_PLAY_START_TIMEOUT_MS
SharedStartTimesOut(a) ==
    /\ a \in page.alarms
    /\ LET rung == [page EXCEPT !.alarms = @ \ {a}]
           reset == [ClearSharedStartAttempt(rung, a.url) EXCEPT !.playing = @ \ {a.el}]
       IN  Become(IF page.attempt[a.url] # a.attempt THEN rung
                  ELSE RecordSharedStartFailure(reset, a.url))

EmitPlaySettled(p, outcome) ==
    LET gone == [page EXCEPT !.emitPlays = @ \ {p}, !.emitStarting = @ \ {p.item},
                     !.playing = IF outcome = "refused" THEN @ \ {p.el} ELSE @]
    IN  /\ p \in page.emitPlays /\ (outcome = "started" => p.el \in page.playing)
        /\ Become(IF outcome = "started"
                  THEN [gone EXCEPT !.emitWait = @ \ {p.item}, !.emitFails[p.item] = 0]
                  ELSE [gone EXCEPT !.emitWait = @ \cup {p.item},
                          !.emitFails[p.item] = IF @ + 1 >= MaxRetries THEN 0 ELSE @ + 1])

\* A sound that does not loop has ended; it pauses before a delay, if any.
EmitEnded(i, delayed) ==
    /\ page.emits[i].el \in page.playing
    /\ [el |-> page.emits[i].el, item |-> i] \notin page.emitPlays
    /\ LET ended == [page EXCEPT !.playing = @ \ {page.emits[i].el}]
       IN  Become(IF delayed THEN [ended EXCEPT !.emitWait = @ \cup {i}]
                  ELSE TryStartEmitPlayback([ended EXCEPT !.emitWait = @ \ {i}], i))

\* loadedmetadata, then canplay if the length was not known yet.
CabinLoaded(l, known) ==
    /\ l \in page.loads
    /\ LET heard == [page EXCEPT !.loads = @ \ {l}]
           begun == [heard EXCEPT !.playing = @ \cup {l.el},
                                  !.cabins[l.item].ready = page.cabins[l.item].el # None]
       IN  Become(IF known THEN begun
                  ELSE IF l.until = "canplay" THEN heard
                  ELSE [heard EXCEPT !.loads = @ \cup {[l EXCEPT !.until = "canplay"]}])

\* The browser refuses or pauses the cabin's element.
CabinPaused(i) ==
    /\ page.cabins[i].el \in page.playing
    /\ Become([page EXCEPT !.playing = @ \ {page.cabins[i].el}])

Outcomes == {"started", "refused", "failed"}

Settles == \/ \E p \in page.plays, o \in Outcomes : SharedPlaySettled(p, o)
           \/ \E p \in page.emitPlays, o \in Outcomes : EmitPlaySettled(p, o)

World ==
    \/ \E f \in [Items -> {it \in ItemStates : it.place = "heard"} \cup {Gone}] : Welcome(f)
    \/ Disconnect
    \/ \E i \in Items, it \in ItemStates : ItemUpsert(i, it)
    \/ \E i \in Items : ItemRemove(i) \/ \E p \in Places : Walk(i, p)

BrowserAnswers ==
    \/ Settles
    \/ \E a \in page.alarms : SharedStartTimesOut(a)
    \/ \E i \in Emitters, d \in BOOLEAN : EmitEnded(i, d)
    \/ \E l \in page.loads, k \in BOOLEAN : CabinLoaded(l, k)
    \/ \E i \in Cabins : CabinPaused(i)

Page ==
    \/ \E l \in {"media", "item"} : ToggleLayer(l)
    \/ \E k \in 1..MaxTasks : VoicesResumed(k)
    \/ Frame \/ RetryTimeComes

Next == World \/ ContextResumes \/ ContextSuspends \/ BrowserAnswers \/ Page

\* The browser's timer of a start rings.
Fairness == \A a \in Attempts : WF_page(\E r \in page.alarms :
                                          r.attempt = a /\ SharedStartTimesOut(r))

Spec == Init /\ [][Next]_page /\ Fairness

-----------------------------------------------------------------------------
(* Properties.                                                             *)

TypeOK ==
    /\ page.ctx \in {"none", "suspended", "running"}
    /\ page.items \in [Items -> ItemStates \cup {Gone}]
    /\ \A i \in Radios : page.outputs[i].el \in Elements \cup {None}
    /\ page.starting \subseteq Urls /\ page.wait \subseteq Urls
    /\ page.fails \in [Urls -> 0 .. MaxRetries - 1]
    /\ page.attempt \in [Urls -> Attempts \cup {None}]
    /\ page.emitFails \in [Emitters -> 0 .. MaxRetries - 1]
    /\ page.playing \subseteq Elements

\* A stream has a media element exactly as long as a radio's output is fed
\* from it, and its count is that of those outputs, whatever happened while
\* a sync was waiting.
SourcesAreCounted ==
    \A u \in Urls :
        /\ page.shared[u].refs = Cardinality({i \in Radios : page.outputs[i].url = u})
        /\ page.shared[u].refs = 0 <=> page.shared[u].el = None
        /\ \A i \in Radios : page.outputs[i].url = u =>
               page.outputs[i].el = page.shared[u].el

\* Sources, outputs and elements belong together.
SourcesConsistent == TypeOK /\ SourcesAreCounted

\* A media element that no runtime could stop any more does not play, except
\* where two calls that waited for the first context made one output each.
OnlyOwnedElementsPlay == page.playing \subseteq Owned(page) \cup page.stray

\* A start that bars further ones has an alarm and belongs to a live source:
\* no stream is left waiting for an answer that may never come.
StartsAreWatched ==
    \A u \in Urls :
        /\ u \in page.starting <=> page.attempt[u] # None
        /\ u \in page.starting => /\ page.shared[u].el # None
                                  /\ \E a \in page.alarms :
                                        a.url = u /\ a.attempt = page.attempt[u]

\* The answer of a start that was given up, or of a source that is gone,
\* changes nothing of what the stream's source of today is doing.
StaleAnswersAreIgnored ==
    [][\A p \in page.plays \ page'.plays :
          page.attempt[p.url] # p.attempt =>
             /\ page'.attempt[p.url] = page.attempt[p.url]
             /\ page'.fails[p.url] = page.fails[p.url]
             /\ p.url \in page'.wait <=> p.url \in page.wait]_page

\* An emitter that may not start because a start is pending has one pending.
EmitStartsArePending ==
    page.emitStarting \subseteq {p.item : p \in page.emitPlays}

\* A refresh that was put off has a refresh under way that will run it.
PutOffRefreshesRun ==
    page.again => /\ page.busy
                  /\ \E k \in DOMAIN page.tasks : page.tasks[k].owner \in {"refresh", "welcome"}

\* Whatever bars a start or a refresh, until it is over, is really under way.
NothingIsLeftWaiting == StartsAreWatched /\ EmitStartsArePending /\ PutOffRefreshesRun

\* docs/audio-architecture.md:30, "Media: RadioStationRuntime.cleanupAll()
\* and no sync/update processing until re-enabled": with the layer off, no
\* stream is fetched.
LayerOffIsQuiet == ~page.radioOn => \A u \in Urls : page.shared[u].el = None

\* A start does not stay pending for ever.
PendingStartsEnd ==
    \A a \in Attempts, u \in Urls : (page.attempt[u] = a) ~> (page.attempt[u] # a)
=============================================================================
