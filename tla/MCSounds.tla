------------------------------ MODULE MCSounds ------------------------------
(* Instance of Sounds for TLC, in four casts:                              *)
(*   duet     two radios tuned to one stream or to none;                   *)
(*   retuned  one radio and two streams;                                   *)
(*   emitter  one emitted sound that may be changed for another;           *)
(*   cabin    one elevator.                                                *)
EXTENDS Sounds

VARIABLE cast

Stage ==
    [duet |-> [items |-> {1, 2}, urls |-> {1}, places |-> {"heard", "far"},
               layer |-> "media"],
     retuned |-> [items |-> {1}, urls |-> {1, 2}, places |-> {"heard", "near"},
                  layer |-> "media"],
     emitter |-> [items |-> {3}, urls |-> {None, 1, 2},
                  places |-> {"heard", "fringe", "far"}, layer |-> "item"],
     cabin |-> [items |-> {4}, urls |-> {1}, places |-> {"heard", "far"},
                layer |-> "item"]]

OnStage == [here : {TRUE}, on : {TRUE}, url : Stage[cast].urls, place : Stage[cast].places]

Opening == {it \in OnStage : it.place = "heard"} \cup {Gone}

MCInit == Init /\ cast \in DOMAIN Stage

MCNext ==
    /\ \/ \E f \in [Stage[cast].items -> Opening] :
              Welcome([i \in Items |-> IF i \in DOMAIN f THEN f[i] ELSE Gone])
       \/ Disconnect
       \/ \E i \in Stage[cast].items : \/ \E it \in OnStage : ItemUpsert(i, it)
                                       \/ ItemRemove(i)
                                       \/ \E p \in Stage[cast].places : Walk(i, p)
       \/ ContextResumes \/ (ContextSuspends /\ cast # "duet") \/ BrowserAnswers
       \/ ToggleLayer(Stage[cast].layer)
       \/ \E k \in 1..MaxTasks : VoicesResumed(k)
       \/ Frame \/ RetryTimeComes
    /\ UNCHANGED cast

MCSpec == MCInit /\ [][MCNext]_<<page, cast>> /\ Fairness
=============================================================================
