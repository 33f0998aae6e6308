------------------------------- MODULE MCParts -------------------------------
(***************************************************************************)
(* Instances for TLC of the parts that share no state with one another:    *)
(* the browser's adapters and components, and the server's tracker and     *)
(* heartbeat.  As steps of one part say nothing about another, they are    *)
(* not interleaved: `part' is the one that runs, the others stay as they   *)
(* begin.  WebRTC runs twice: as "webrtc" with the adapter's calls and the *)
(* offers of one other client, over which no channel opens, as "signaling" *)
(* with all other clients, and without the adapter.                        *)
(***************************************************************************)
EXTENDS WSAdapter, WebRTC, Calls, TelemetryGrid, PacketVisualizer, ShortPolling,
        ProtocolTracker, WSHeartbeat

VARIABLE part

PartNames ==
  {"websocket", "webrtc", "signaling", "calls", "grid", "visualizer", "polling",
   "tracker", "heartbeat"}

\* The other client whose offers come while the adapter runs.
Neighbor == CHOOSE k \in Others : TRUE

\* The parts with several initial states; they begin in one if they do not run.
OneBeginning ==
  /\ part # "calls" =>
       sameOrigin /\ kindOf = [c \in Requests |-> CHOOSE k \in Kinds : TRUE]
  /\ part # "grid" => selected = CHOOSE p \in Protocols : TRUE

Init ==
  /\ part \in PartNames
  /\ WSInit /\ RTCInit /\ CallsInit /\ GridInit /\ VisInit /\ PollInit /\ TrackerInit
  /\ HeartbeatInit
  /\ OneBeginning

Next ==
  \/ /\ part = "websocket" /\ WSNext
     /\ UNCHANGED <<part, rtcVars, reqVars, gridVars, visVars, pollingVars,
                    trackerVars, heartbeatVars>>
  \/ /\ part = "webrtc" /\ RTCNext
     /\ UNCHANGED chan /\ \A k \in Others \ {Neighbor} : hs'[k] = "idle"
     /\ UNCHANGED <<part, wsVars, reqVars, gridVars, visVars, pollingVars,
                    trackerVars, heartbeatVars>>
  \/ /\ part = "signaling" /\ RTCNext
     /\ UNCHANGED adapterVars
     /\ UNCHANGED <<part, wsVars, reqVars, gridVars, visVars, pollingVars,
                    trackerVars, heartbeatVars>>
  \/ /\ part = "calls" /\ CallsNext
     /\ UNCHANGED <<part, wsVars, rtcVars, gridVars, visVars, pollingVars,
                    trackerVars, heartbeatVars>>
  \/ /\ part = "grid" /\ GridNext
     /\ UNCHANGED <<part, wsVars, rtcVars, reqVars, visVars, pollingVars,
                    trackerVars, heartbeatVars>>
  \/ /\ part = "visualizer" /\ VisNext
     /\ UNCHANGED <<part, wsVars, rtcVars, reqVars, gridVars, pollingVars,
                    trackerVars, heartbeatVars>>
  \/ /\ part = "polling" /\ PollNext
     /\ UNCHANGED <<part, wsVars, rtcVars, reqVars, gridVars, visVars, trackerVars,
                    heartbeatVars>>
  \/ /\ part = "tracker" /\ TrackerNext
     /\ UNCHANGED <<part, wsVars, rtcVars, reqVars, gridVars, visVars, pollingVars,
                    heartbeatVars>>
  \/ /\ part = "heartbeat" /\ HeartbeatNext
     /\ UNCHANGED <<part, wsVars, rtcVars, reqVars, gridVars, visVars, pollingVars,
                    trackerVars>>

\* The types of all parts: those of the fields, and what each TypeOK bounds besides.
PartsTypeOK ==
  /\ WSTypeOK /\ RTCTypeOK /\ CallsTypeOK /\ GridTypeOK /\ VisTypeOK
  /\ PollTypeOK /\ TrackerTypeOK /\ HeartbeatTypeOK

Spec ==
  Init /\ [][Next]_<<part, wsVars, rtcVars, reqVars, gridVars, visVars, pollingVars,
                    trackerVars, heartbeatVars>>
=============================================================================
