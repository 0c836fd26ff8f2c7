-------------------------------- MODULE MCWindow --------------------------------
(***************************************************************************)
(* Instances for TLC of what runs on the event loop of the window beside a   *)
(* scan's control (ScanControl): the supervisor of the backend               *)
(* (BackendSupervisor), the thumbnails it asks the backend for              *)
(* (ThumbService), and the lists of results (ResultsView).                   *)
(*                                                                         *)
(* They share no variable, so that one of them at a time is run: part names  *)
(* it, and what belongs to the others keeps its first value.                *)
(***************************************************************************)
EXTENDS MCBackendSupervisor, ThumbService, ResultsView

CONSTANTS artA, artB   \* files with a thumbnail

VARIABLE part
windowVars == <<vars, thumbVars, viewVars, part>>

\* Three images and two videos; two matches join the images in one group.
Listed  == <<"i1", "i2", "i3", "v1", "v2">>
Streamed == {<<"i1", "i2", 1>>, <<"i3", "i2", 2>>, <<"v1", "v2", 1>>}

WindowInit ==
    /\ Init /\ ThumbInit /\ ViewInit
    /\ part \in {"supervisor", "thumbs", "lists"}

WindowNext ==
    \/ part = "supervisor" /\ Next /\ UNCHANGED <<thumbVars, viewVars, part>>
    \/ part = "thumbs" /\ ThumbNext /\ UNCHANGED <<vars, viewVars, part>>
    \/ part = "lists" /\ ViewNext /\ UNCHANGED <<vars, thumbVars, part>>

\* The fairness of FairSpec, ThumbFairness and ViewFairness, each for its part.
WindowFairness ==
    /\ WF_vars(part = "supervisor" /\ Tick)
    /\ WF_vars(part = "supervisor" /\ RestartTimeout)
    /\ WF_vars(part = "supervisor" /\ EscalationOver)
    /\ WF_vars(part = "supervisor" /\ EscalationTimeout)
    /\ WF_vars(part = "supervisor" /\ HealthTick)
    /\ WF_vars(part = "supervisor" /\ doomed /\ Exit)
    /\ WF_thumbVars(part = "thumbs" /\ ThumbReady)
    /\ WF_thumbVars(part = "thumbs" /\ TakeRequest)
    /\ WF_thumbVars(part = "thumbs" /\ (ServeMemory \/ DrawArt \/ StoreArt))
    /\ WF_thumbVars(part = "thumbs" /\ ConnectionLost)
    /\ WF_thumbVars(part = "thumbs" /\ ConnectionBack)
    /\ \A p \in ThumbPaths : SF_thumbVars(part = "thumbs" /\ RequestThumb(p))
    /\ WF_viewVars(part = "lists" /\ ContinueFill)
    /\ WF_viewVars(part = "lists" /\ RefreshStreaming)

WindowSpec == WindowInit /\ [][WindowNext]_windowVars /\ WindowFairness

-----------------------------------------------------------------------------

\* The types of all three.
WindowTypeOK == TypeOK /\ ThumbTypeOK /\ ViewTypeOK

\* No placeholder stays for ever, where thumbnails are run.
ThumbsHeal == part = "thumbs" => PlaceholdersHeal
================================================================================
