------------------------------ MODULE MCVoice ------------------------------
(* Instance of Voice for TLC, in three casts that share the session:       *)
(*   listener   joins rooms and hears another person, has no microphone;   *)
(*   recorder   is alone and without a room: devices, mute, permission;    *)
(*   speaker    joins rooms and publishes a microphone, is alone.          *)
(* What the page keeps of the voices and of the microphone meets in the    *)
(* room only, so that nothing is lost by not having both at once.          *)
EXTENDS Voice

VARIABLE cast

MCInit == Init /\ cast \in {"listener", "recorder", "speaker"}

MCNext ==
    /\ \/ Sessions
       \/ cast # "recorder" /\ RoomEvents
       \/ cast = "listener" /\ Voices
       \/ cast = "recorder" /\ Microphone
       \/ cast = "speaker" /\ \/ PrepareMicrophone \/ DevicesListed
                              \/ \E t \in page.setups : CaptureSettles(t)
    /\ UNCHANGED cast

MCSpec == MCInit /\ [][MCNext]_<<vars, cast>> /\ Fairness
=============================================================================
