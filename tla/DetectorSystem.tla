--------------------------- MODULE DetectorSystem ---------------------------
(***************************************************************************)
(* Frigate's plugin processes (patches/zmq_ipc.py), the detector service   *)
(* (detector/detector/zmq_onnx_client.py with backends.py) and the sockets *)
(* between them, composed.  Faults happen at most MaxFaults times.         *)
(***************************************************************************)
EXTENDS ZmqIpcDetector, ZmqOnnxClient, Naturals

CONSTANTS MaxFaults,  \* bound on the faults of a behaviour
          Patient     \* TRUE: a wait ends only if its reply can no longer come
                      \* FALSE: any wait may time out, however close the reply

ASSUME SystemAssumption ==
  /\ ModelOf \in [Plugins -> Models]
  /\ Pinned \in Models \cup {NoModel}
  /\ HasFile \subseteq Plugins
  /\ NoFrame \notin Frames
  /\ MaxFaults \in Nat
  /\ Patient \in BOOLEAN

VARIABLE faults       \* the faults so far

vars == <<channelVars, pluginVars, serverVars, backendVars, faults>>

Init == ChannelInit /\ PluginInit /\ ServerInit /\ BackendInit /\ ~wrapped /\ faults = 0

TypeOK ==
  /\ ChannelTypeOK /\ PluginTypeOK /\ ServerTypeOK /\ BackendTypeOK
  /\ faults \in 0..MaxFaults

-----------------------------------------------------------------------------

(* The reply p waits for can still come without a fault. *)
ReplyCanCome(p) ==
  RepliesTo(p) # {} \/ (up /\ Outstanding(p) # {})

MayTimeOut(p) == Patient => ~ReplyCanCome(p)

PinnedFileBad == Pinned \in Models /\ disk[Pinned] # "good"

PluginStep(p) ==
  /\ \/ Construct(p) \/ PluginRuns(p) \/ ReadReply(p) \/ IntervalElapses(p)
     \/ \E f \in Frames : DetectRaw(p, f)
     \/ MayTimeOut(p) /\ Timeout(p)
  /\ UNCHANGED <<serverVars, backendVars, faults>>

ServerStep ==
  /\ \/ StartAuto \/ StartPinned \/ Handle \/ SendReply \/ ResetSocket
     \/ PinnedFileBad /\ StartPinnedFails
     \/ \E r \in inbox : Recv(r)
  /\ UNCHANGED <<pluginVars, faults>>

DeliverStep ==
  /\ up
  /\ \E r \in transit : Deliver(r)
  /\ UNCHANGED <<pluginVars, serverVars, backendVars, faults>>

Fault ==
  /\ faults < MaxFaults
  /\ faults' = faults + 1
  /\ \/ /\ \/ Stop \/ (~PinnedFileBad /\ StartPinnedFails) \/ SaveFails \/ HandlerRaises
           \/ SendFails \/ ResetFails
           \/ \E r \in handling : disk[ModelOf[r.from]] = "good" /\ LoadRaises(r)
        /\ UNCHANGED pluginVars
     \/ /\ \E p \in Plugins : FrigateRestarts(p)
        /\ UNCHANGED <<serverVars, backendVars>>

Next == (\E p \in Plugins : PluginStep(p)) \/ ServerStep \/ DeliverStep \/ Fault

Safety == Init /\ [][Next]_vars

(***************************************************************************)
(* Fairness.  systemd restarts the service; its thread and the plugins'    *)
(* threads run; libzmq delivers; a wait that may time out does; the clock  *)
(* advances; Frigate keeps calling detect_raw.  Strong fairness of Recv    *)
(* per plugin is the REP socket's fair queueing over its connections.      *)
(* Nothing is assumed of faults.                                           *)
(***************************************************************************)
RecvFrom(p) == \E r \in From(p, inbox) : r.live /\ Recv(r)

Fairness ==
  /\ WF_vars(StartAuto /\ UNCHANGED <<pluginVars, faults>>)
  /\ WF_vars((StartPinned \/ (PinnedFileBad /\ StartPinnedFails)) /\ UNCHANGED <<pluginVars, faults>>)
  /\ WF_vars((Handle \/ SendReply \/ ResetSocket) /\ UNCHANGED <<pluginVars, faults>>)
  /\ WF_vars(DeliverStep)
  /\ \A p \in Plugins :
       /\ SF_vars(RecvFrom(p) /\ UNCHANGED <<pluginVars, faults>>)
       /\ WF_vars((Construct(p) \/ PluginRuns(p) \/ ReadReply(p)
                   \/ \E f \in Frames : DetectRaw(p, f))
                  /\ UNCHANGED <<serverVars, backendVars, faults>>)
       /\ WF_vars(MayTimeOut(p) /\ Timeout(p) /\ UNCHANGED <<serverVars, backendVars, faults>>)
       /\ WF_vars(IntervalElapses(p) /\ UNCHANGED <<serverVars, backendVars, faults>>)

Spec == Safety /\ Fairness

-----------------------------------------------------------------------------
(* Safety. *)

(* A detect_raw call that returns detections returns those of the frame it *)
(* was given, however many timeouts, late replies, closed sockets and      *)
(* restarts came before (zmq_ipc.py, detect_raw).                          *)
AnswerIsForThisFrame ==
  \A p \in Plugins :
    pc[p] = "idle" /\ answer[p].kind = "detections" => answer[p].frame = asked[p]

(* Whatever reply reaches a plugin that waits answers what it waits for: a *)
(* reply to an abandoned handshake or inference is never read as the next  *)
(* one's (zmq_ipc.py replaces the socket before it sends again).           *)
ReplyMatchesRequest ==
  \A r \in replies :
    LET p == r.to IN
    /\ pc[p] = "hsModel" => r.body.kind \in ModelReplies \cup {"zeros"}
    /\ pc[p] = "hsData" => r.body.kind \in DataReplies
    /\ pc[p] = "infer" => /\ r.body.kind \in TensorReplies
                          /\ r.body.kind = "detections" => r.body.frame = asked[p]

(* A REQ socket has at most one request between its send and the end of    *)
(* the wait, in one place: queued, received, handled or answered; and none *)
(* when it may send.                                                       *)
OneRequestInFlight ==
  \A p \in Plugins :
    /\ reqState[p] = "send" => Outstanding(p) = {} /\ RepliesTo(p) = {}
    /\ RepliesTo(p) # {} => Outstanding(p) = {}
    /\ \A r1, r2 \in Outstanding(p) : r1 = r2
    /\ \A r \in Outstanding(p) :
         /\ r \notin transit \cap inbox
         /\ r \notin (transit \cup inbox) \cap handling
    /\ \A r1, r2 \in RepliesTo(p) : r1 = r2

(* The service only answers with a model that a successful load put there, *)
(* and it is the one it reports: unless the GPU engine failed before and   *)
(* was reopened, its close() being a no-op from then on (backends.py).     *)
ServedIsCurrent ==
  Loaded => /\ modelReady
            /\ (closed /\ active = "primary") \/ Served = currentModel

(* A plugin that believes its model is ready has it in the models          *)
(* directory, across restarts of the service (zmq_onnx_client.py saves     *)
(* before it loads, and nothing removes a file).                           *)
ReadyModelOnDisk ==
  \A p \in Plugins : ready[p] => disk[ModelOf[p]] # "absent"

-----------------------------------------------------------------------------
(* Liveness. *)

(* The system keeps the promise of module DetectApi: answers are of the    *)
(* frame asked and only after a handshake, and every call returns, because *)
(* each timeout leads to one handshake at most and a failed handshake ends *)
(* the call.                                                               *)
Phase(p) == CASE pc[p] = "idle" -> "ready"
              [] pc[p] = "start" \/ (pc[p] \in {"hsModel", "hsData"} /\ why[p] = "init")
                   -> "away"
              [] OTHER -> "called"
Api == INSTANCE DetectApi WITH phase <- [p \in Plugins |-> Phase(p)]
ImplementsDetectApi == Api!ApiSpec

(* A plugin whose model the service can get is picked up, whenever the     *)
(* service comes up ("a detector that comes up later ... is picked up      *)
(* without restarting Frigate", zmq_ipc.py), short of a truncated file: a  *)
(* service that died, or a disk that filled, between the truncation and    *)
(* the write of the model leaves one that no later handshake replaces.     *)
PickedUpUnlessTruncated ==
  \A p \in HasFile : []<>(ready[p] \/ disk[ModelOf[p]] = "partial")

(* "Frigate re-runs the model handshake whenever ... the detector          *)
(* restarts" (README-linux.md): a service that lost its model gets it back *)
(* from the plugins that count on it.                                      *)
RestartIsNoticed ==
  \A p \in Plugins : (up /\ ready[p] /\ ~modelReady) ~> (modelReady \/ ~ready[p])

=============================================================================
