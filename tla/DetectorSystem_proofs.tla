------------------------ MODULE DetectorSystem_proofs ------------------------
(***************************************************************************)
(* Proofs about module DetectorSystem, for every set of plugins, frames    *)
(* and models and every bound on the faults: its types, which model the    *)
(* service answers with (ServedIsCurrent), and where a plugin's is         *)
(* (ReadyModelOnDisk).                                                     *)
(***************************************************************************)
EXTENDS DetectorSystem, TLAPS

-----------------------------------------------------------------------------
(* Types. *)

LEMMA ZerosType == Zeros \in Body /\ Silence \in Body
  BY DEF Zeros, Silence, Body, TensorReplies

LEMMA SaysType ==
  ASSUME NEW kind \in ModelReplies \cup DataReplies \cup TensorReplies
  PROVE  Says(kind) \in Body
  BY DEF Says, Silence, Body

LEMMA NewRequestType ==
  ASSUME NEW p \in Plugins, NEW kind \in {"model", "data", "tensor"},
         NEW frame \in Frames \cup {NoFrame}
  PROVE  [from |-> p, kind |-> kind, frame |-> frame, live |-> TRUE] \in Request
  BY DEF Request

LEMMA HushedType ==
  ASSUME NEW p, NEW requests \in SUBSET Request
  PROVE  Hushed(p, requests) \subseteq Request
<1>1. SUFFICES ASSUME NEW r \in requests
               PROVE  (IF r.from = p THEN [r EXCEPT !.live = FALSE] ELSE r) \in Request
  BY DEF Hushed
<1> QED
  BY DEF Request

LEMMA SendType ==
  ASSUME ChannelTypeOK, NEW p \in Plugins, NEW kind \in {"model", "data", "tensor"},
         NEW frame \in Frames \cup {NoFrame}, Send(p, kind, frame)
  PROVE  ChannelTypeOK'
  BY NewRequestType DEF ChannelTypeOK, Send

LEMMA HangUpAndSendType ==
  ASSUME ChannelTypeOK, NEW p \in Plugins, NEW kind \in {"model", "data", "tensor"},
         NEW frame \in Frames \cup {NoFrame}, HangUpAndSend(p, kind, frame)
  PROVE  ChannelTypeOK'
  BY NewRequestType, HushedType DEF ChannelTypeOK, HangUpAndSend

LEMMA HangUpType ==
  ASSUME ChannelTypeOK, NEW p \in Plugins, HangUp(p)
  PROVE  ChannelTypeOK'
  BY HushedType DEF ChannelTypeOK, HangUp

LEMMA ReadType ==
  ASSUME ChannelTypeOK, NEW r, Read(r) PROVE ChannelTypeOK'
  BY DEF ChannelTypeOK, Read

LEMMA ReadAndSendType ==
  ASSUME ChannelTypeOK, NEW r \in replies, NEW kind \in {"model", "data", "tensor"},
         NEW frame \in Frames \cup {NoFrame}, ReadAndSend(r, kind, frame)
  PROVE  ChannelTypeOK'
<1>1. r.to \in Plugins
  BY DEF ChannelTypeOK, Reply
<1> QED
  BY <1>1, NewRequestType DEF ChannelTypeOK, ReadAndSend

LEMMA TakeType ==
  ASSUME ChannelTypeOK, NEW r, Take(r) PROVE ChannelTypeOK'
  BY DEF ChannelTypeOK, Take

LEMMA AnswerType ==
  ASSUME ChannelTypeOK, NEW b \in Body, Answer(b) PROVE ChannelTypeOK'
  BY DEF ChannelTypeOK, Answer, Reply, Request

LEMMA ServerSocketGoneType ==
  ASSUME ChannelTypeOK, ServerSocketGone PROVE ChannelTypeOK'
  BY DEF ChannelTypeOK, ServerSocketGone

LEMMA EndHandshakeType ==
  ASSUME PluginTypeOK, NEW p \in Plugins, NEW ok \in BOOLEAN, EndHandshake(p, ok),
         reqState' \in [Plugins -> {"send", "recv"}]
  PROVE  PluginTypeOK'
  BY ZerosType DEF PluginTypeOK, EndHandshake, Places

LEMMA BeginHandshakeType ==
  ASSUME ChannelTypeOK, PluginTypeOK, NEW p \in Plugins,
         NEW reason \in {"init", "retry", "error"}, BeginHandshake(p, reason)
  PROVE  /\ ChannelTypeOK'
         /\ pc' \in [Plugins -> Places]
         /\ why' \in [Plugins -> {"init", "retry", "error"}]
         /\ reqState' \in [Plugins -> {"send", "recv"}]
  BY HangUpAndSendType DEF PluginTypeOK, BeginHandshake, Places

LEMMA PluginType ==
  ASSUME TypeOK, NEW p \in Plugins, PluginStep(p)
  PROVE  ChannelTypeOK' /\ PluginTypeOK'
<1> USE DEF TypeOK
<1>1. CASE Construct(p)
  BY <1>1, BeginHandshakeType DEF Construct, PluginTypeOK
<1>2. CASE ReturnNotReady(p)
  BY <1>2, ZerosType DEF ReturnNotReady, PluginTypeOK, Places, channelVars, ChannelTypeOK
<1>3. CASE RetryHandshake(p)
  BY <1>3, BeginHandshakeType DEF RetryHandshake, PluginTypeOK
<1>4. CASE SendTensor(p)
  BY <1>4, SendType DEF SendTensor, PluginTypeOK, Places
<1>5. CASE SendInWrongState(p)
  BY <1>5, BeginHandshakeType DEF SendInWrongState, PluginTypeOK
<1>6. ASSUME NEW r \in RepliesTo(p), ModelReply(p, r)
      PROVE  ChannelTypeOK' /\ PluginTypeOK'
  <2>1. CASE /\ ReadAndSend(r, "data", NoFrame)
             /\ pc' = [pc EXCEPT ![p] = "hsData"]
             /\ UNCHANGED <<why, reqState, ready, due, asked, answer>>
    BY <2>1, ReadAndSendType DEF PluginTypeOK, Places, RepliesTo
  <2>2. CASE /\ Read(r)
             /\ reqState' = [reqState EXCEPT ![p] = "send"]
             /\ EndHandshake(p, r.body.kind = "modelLoaded")
    BY <2>2, ReadType, EndHandshakeType DEF PluginTypeOK
  <2> QED
    BY <1>6, <2>1, <2>2 DEF ModelReply, SendModelData
<1>7. ASSUME NEW r \in RepliesTo(p), DataReply(p, r)
      PROVE  ChannelTypeOK' /\ PluginTypeOK'
  BY <1>7, ReadType, EndHandshakeType DEF DataReply, PluginTypeOK
<1>8. ASSUME NEW r \in RepliesTo(p), TensorReply(p, r)
      PROVE  ChannelTypeOK' /\ PluginTypeOK'
  BY <1>8, ReadType, ZerosType
     DEF TensorReply, PluginTypeOK, Places, RepliesTo, ChannelTypeOK, Reply
<1>9. CASE IntervalElapses(p)
  BY <1>9 DEF IntervalElapses, PluginTypeOK, channelVars, ChannelTypeOK
<1>10. ASSUME NEW f \in Frames, DetectRaw(p, f)
       PROVE  ChannelTypeOK' /\ PluginTypeOK'
  BY <1>10 DEF DetectRaw, PluginTypeOK, Places, channelVars, ChannelTypeOK
<1>11. CASE HandshakeTimeout(p)
  BY <1>11, EndHandshakeType
     DEF HandshakeTimeout, PluginTypeOK, channelVars, ChannelTypeOK
<1>12. CASE TensorTimeout(p)
  BY <1>12, BeginHandshakeType DEF TensorTimeout, PluginTypeOK
<1> QED
  BY <1>1, <1>2, <1>3, <1>4, <1>5, <1>6, <1>7, <1>8, <1>9, <1>10, <1>11, <1>12
     DEF PluginStep, PluginRuns, ReadReply, Timeout

-----------------------------------------------------------------------------

LEMMA FreshType ==
  ASSUME NEW w \in BOOLEAN, Fresh(w) PROVE BackendTypeOK'
  BY DEF Fresh, BackendTypeOK, Engines

LEMMA PrimaryFailsType ==
  ASSUME BackendTypeOK, NEW m \in Models, NEW assigned \in BOOLEAN, PrimaryFails(m, assigned)
  PROVE  closed' \in BOOLEAN /\ net' \in Models \cup {NoModel}
  BY DEF BackendTypeOK, PrimaryFails

LEMMA LoadSucceedsType ==
  ASSUME BackendTypeOK, NEW m \in Models, LoadSucceeds(m) PROVE BackendTypeOK'
  BY PrimaryFailsType
     DEF LoadSucceeds, LoadPrimary, LoadFallback, LoadCpu, BackendTypeOK, Engines

LEMMA LoadNeitherType ==
  ASSUME BackendTypeOK, NEW m \in Models, NEW assigned \in BOOLEAN, LoadNeither(m, assigned)
  PROVE  BackendTypeOK'
  BY PrimaryFailsType DEF LoadNeither, BackendTypeOK, Engines

LEMMA LoadCpuFailsType ==
  ASSUME BackendTypeOK, LoadCpuFails PROVE BackendTypeOK'
  BY DEF LoadCpuFails, BackendTypeOK, backendVars

LEMMA LoadFailsType ==
  ASSUME BackendTypeOK, NEW m \in Models, LoadFails(m) PROVE BackendTypeOK'
  BY LoadNeitherType, LoadCpuFailsType DEF LoadFails

LEMMA HandledType ==
  ASSUME TypeOK, NEW r \in handling
  PROVE  r \in Request /\ r.from \in Plugins /\ ModelOf[r.from] \in Models
  BY SystemAssumption DEF TypeOK, ChannelTypeOK, Request

ServiceTypeOK == ChannelTypeOK /\ ServerTypeOK /\ BackendTypeOK

LEMMA GoneType ==
  ASSUME TypeOK, Gone PROVE ServiceTypeOK'
<1>1. BackendTypeOK'
  BY FreshType DEF Gone
<1>2. ChannelTypeOK'
  BY ServerSocketGoneType DEF Gone, TypeOK
<1> QED
  BY <1>1, <1>2, ZerosType DEF Gone, TypeOK, ServiceTypeOK, ServerTypeOK, Stages

(* Every action of the service keeps the types. *)
LEMMA StartType ==
  ASSUME TypeOK, StartAuto \/ StartPinned \/ StartPinnedFails PROVE ServiceTypeOK'
<1> USE DEF TypeOK, ServiceTypeOK, ChannelTypeOK, channelVars
<1>1. CASE StartAuto
  BY <1>1, FreshType DEF StartAuto, ServerTypeOK
<1>2. CASE StartPinned
  <2>1. BackendTypeOK'
    BY <1>2 DEF StartPinned, BackendTypeOK, Engines
  <2> QED
    BY <1>2, <2>1 DEF StartPinned, ServerTypeOK
<1>3. CASE StartPinnedFails
  BY <1>3 DEF StartPinnedFails, ServerTypeOK, BackendTypeOK, Engines
<1> QED
  BY <1>1, <1>2, <1>3

LEMMA LoadType ==
  ASSUME TypeOK, NEW r \in handling, Load(r) PROVE ServiceTypeOK'
<1>1. BackendTypeOK'
  BY HandledType, LoadSucceedsType DEF Load, TypeOK
<1>2. body' \in Body
  BY SaysType DEF Load, ModelReplies, DataReplies
<1> QED
  BY <1>1, <1>2, HandledType
     DEF Load, TypeOK, ServiceTypeOK, ServerTypeOK, Stages, ChannelTypeOK, channelVars

LEMMA LoadRaisesType ==
  ASSUME TypeOK, NEW r \in handling, LoadRaises(r) PROVE ServiceTypeOK'
<1>1. BackendTypeOK'
  BY HandledType, LoadFailsType, LoadNeitherType, LoadCpuFailsType DEF LoadRaises, TypeOK
<1>2. body' \in Body
  BY SaysType DEF LoadRaises, ModelReplies, DataReplies
<1> QED
  BY <1>1, <1>2
     DEF LoadRaises, TypeOK, ServiceTypeOK, ServerTypeOK, Stages, ChannelTypeOK, channelVars

LEMMA HandleType ==
  ASSUME TypeOK, NEW r \in handling,
         CheckModel(r) \/ OpenFile(r) \/ WriteFile(r) \/ Infer(r)
  PROVE  ServiceTypeOK'
<1> USE DEF TypeOK, ServiceTypeOK, ServerTypeOK, Stages, ChannelTypeOK, channelVars,
            BackendTypeOK, backendVars
<1>1. CASE CheckModel(r)
  BY <1>1, SaysType DEF CheckModel, ModelReplies
<1>2. CASE OpenFile(r)
  BY <1>2 DEF OpenFile
<1>3. CASE WriteFile(r)
  BY <1>3 DEF WriteFile
<1>4. CASE Infer(r)
  <2>1. Served \in Models \cup {NoModel} /\ r.frame \in Frames \cup {NoFrame}
    BY HandledType DEF Served, Request
  <2>2. body' \in Body
    BY <1>4, <2>1, ZerosType DEF Infer, Body, TensorReplies
  <2> QED
    BY <1>4, <2>2 DEF Infer
<1> QED
  BY <1>1, <1>2, <1>3, <1>4

LEMMA RecvType ==
  ASSUME TypeOK, NEW r \in inbox, Recv(r) PROVE ServiceTypeOK'
<1>1. ChannelTypeOK'
  BY TakeType DEF Recv, TypeOK
<1>2. stage' \in Stages
  <2>1. r.kind \in {"model", "data", "tensor"}
    BY DEF TypeOK, ChannelTypeOK, Request
  <2> QED
    BY <2>1 DEF Recv, Stages
<1> QED
  BY <1>1, <1>2 DEF Recv, TypeOK, ServiceTypeOK, ServerTypeOK, BackendTypeOK, backendVars

LEMMA ReplyType ==
  ASSUME TypeOK,
         SaveFails \/ HandlerRaises \/ SendReply \/ SendFails \/ ResetSocket \/ ResetFails
  PROVE  ServiceTypeOK'
<1> USE DEF TypeOK, ServiceTypeOK, ServerTypeOK, Stages, BackendTypeOK, backendVars
<1>1. CASE SaveFails
  BY <1>1, SaysType DEF SaveFails, DataReplies, ChannelTypeOK, channelVars
<1>2. CASE HandlerRaises
  BY <1>2, ZerosType DEF HandlerRaises, ChannelTypeOK, channelVars
<1>3. CASE SendReply
  BY <1>3, AnswerType, ZerosType DEF SendReply
<1>4. CASE SendFails
  BY <1>4, ZerosType DEF SendFails, ChannelTypeOK, channelVars
<1>5. CASE ResetSocket
  BY <1>5, ServerSocketGoneType DEF ResetSocket
<1>6. CASE ResetFails
  BY <1>6, GoneType DEF ResetFails
<1> QED
  BY <1>1, <1>2, <1>3, <1>4, <1>5, <1>6

LEMMA RestartType ==
  ASSUME TypeOK, NEW p \in Plugins, FrigateRestarts(p) PROVE ChannelTypeOK' /\ PluginTypeOK'
  BY HangUpType, ZerosType DEF FrigateRestarts, TypeOK, PluginTypeOK, Places

LEMMA InitType == Init => TypeOK
<1> SUFFICES ASSUME Init PROVE TypeOK
  OBVIOUS
<1>1. ChannelTypeOK
  BY DEF Init, ChannelInit, ChannelTypeOK
<1>2. PluginTypeOK
  BY ZerosType DEF Init, PluginInit, PluginTypeOK, Places
<1>3. ServerTypeOK
  <2>1. disk \in [Models -> {"absent", "partial", "good"}]
    BY DEF Init, ServerInit
  <2> QED
    BY <2>1, ZerosType DEF Init, ServerInit, ServerTypeOK, Stages
<1>4. BackendTypeOK
  BY DEF Init, BackendInit, BackendTypeOK, Engines
<1>5. faults \in 0..MaxFaults
  BY SystemAssumption DEF Init
<1> QED
  BY <1>1, <1>2, <1>3, <1>4, <1>5 DEF TypeOK

LEMMA NextType == TypeOK /\ [Next]_vars => TypeOK'
<1> SUFFICES ASSUME TypeOK, [Next]_vars PROVE TypeOK'
  OBVIOUS
<1>1. ASSUME NEW p \in Plugins, PluginStep(p) PROVE TypeOK'
  BY <1>1, PluginType
     DEF PluginStep, TypeOK, ServerTypeOK, BackendTypeOK, serverVars, backendVars
<1>2. CASE ServerStep
  <2>1. ServiceTypeOK'
    BY <1>2, StartType, HandleType, LoadType, LoadRaisesType, RecvType, ReplyType
       DEF ServerStep, Handle
  <2> QED
    BY <1>2, <2>1 DEF ServerStep, TypeOK, ServiceTypeOK, PluginTypeOK, pluginVars
<1>3. CASE DeliverStep
  BY <1>3 DEF DeliverStep, Deliver, TypeOK, ChannelTypeOK, PluginTypeOK, ServerTypeOK,
              BackendTypeOK, pluginVars, serverVars, backendVars
<1>4. CASE Fault
  <2>1. faults' \in 0..MaxFaults
    BY <1>4, SystemAssumption DEF Fault, TypeOK
  <2>2. CASE \E p \in Plugins : FrigateRestarts(p) /\ UNCHANGED <<serverVars, backendVars>>
    BY <2>1, <2>2, RestartType
       DEF TypeOK, ServerTypeOK, BackendTypeOK, serverVars, backendVars
  <2>3. CASE UNCHANGED pluginVars /\ ServiceTypeOK'
    BY <2>1, <2>3 DEF TypeOK, ServiceTypeOK, PluginTypeOK, pluginVars
  <2> QED
    BY <1>4, <2>2, <2>3, StartType, GoneType, ReplyType, LoadRaisesType DEF Fault, Stop
<1>5. CASE UNCHANGED vars
  BY <1>5 DEF vars, TypeOK, ChannelTypeOK, PluginTypeOK, ServerTypeOK, BackendTypeOK,
              channelVars, pluginVars, serverVars, backendVars
<1> QED
  BY <1>1, <1>2, <1>3, <1>4, <1>5 DEF Next

(* In every reachable state each variable of the system holds what its     *)
(* declaration says, however many plugins, frames, models and faults.      *)
THEOREM TypeCorrect == Safety => []TypeOK
  BY InitType, NextType, PTL DEF Safety

-----------------------------------------------------------------------------
(* The engine that serves holds the model the service reports.             *)

ServedInv ==
  /\ wrapped /\ active # "none" => modelReady
  /\ wrapped /\ active = "fallback" => session = currentModel
  /\ wrapped /\ active = "primary" /\ ~closed => net = currentModel
  /\ ~wrapped /\ session # NoModel => modelReady /\ session = currentModel

LEMMA FreshServes ==
  ASSUME NEW w \in BOOLEAN, Fresh(w) PROVE ServedInv'
  BY DEF Fresh, ServedInv

(* A load that succeeds makes its model the one served, in every engine;   *)
(* one that fails changes neither active nor the CPU session.              *)
LEMMA LoadServes ==
  ASSUME TypeOK, ServedInv, NEW r \in handling, Load(r) PROVE ServedInv'
<1> DEFINE m == ModelOf[r.from]
<1>1. modelReady' = TRUE /\ currentModel' = m
  BY DEF Load
<1>2. CASE LoadPrimary(m)
  BY <1>1, <1>2 DEF LoadPrimary, ServedInv
<1>3. ASSUME NEW assigned \in BOOLEAN, LoadFallback(m, assigned) PROVE ServedInv'
  BY <1>1, <1>3 DEF LoadFallback, PrimaryFails, ServedInv
<1>4. CASE LoadCpu(m)
  BY <1>1, <1>4 DEF LoadCpu, ServedInv
<1> QED
  BY <1>2, <1>3, <1>4 DEF Load, LoadSucceeds

LEMMA LoadRaisesServes ==
  ASSUME TypeOK, ServedInv, NEW r \in handling, LoadRaises(r) PROVE ServedInv'
<1> DEFINE m == ModelOf[r.from]
<1>1. UNCHANGED <<modelReady, currentModel>>
  BY DEF LoadRaises
<1>2. ASSUME NEW assigned \in BOOLEAN, LoadNeither(m, assigned) PROVE ServedInv'
  BY <1>1, <1>2 DEF LoadNeither, PrimaryFails, ServedInv
<1>3. CASE LoadCpuFails
  BY <1>1, <1>3 DEF LoadCpuFails, backendVars, ServedInv
<1> QED
  BY <1>2, <1>3 DEF LoadRaises, LoadFails

LEMMA ServerKeepsServed ==
  ASSUME TypeOK, ServedInv, ServerStep PROVE ServedInv'
<1>1. CASE StartAuto
  BY <1>1, FreshServes DEF StartAuto
<1>2. CASE StartPinned
  BY <1>2 DEF StartPinned, ServedInv
<1>3. CASE StartPinnedFails
  BY <1>3 DEF StartPinnedFails, ServedInv
<1>4. ASSUME NEW r \in handling, Load(r) \/ LoadRaises(r) PROVE ServedInv'
  BY <1>4, LoadServes, LoadRaisesServes
<1>5. ASSUME NEW r \in handling, CheckModel(r) \/ OpenFile(r) \/ WriteFile(r) \/ Infer(r)
      PROVE  ServedInv'
  BY <1>5 DEF CheckModel, OpenFile, WriteFile, Infer, backendVars, ServedInv
<1>6. CASE SendReply \/ ResetSocket
  BY <1>6 DEF SendReply, ResetSocket, backendVars, ServedInv
<1>7. ASSUME NEW r \in inbox, Recv(r) PROVE ServedInv'
  BY <1>7 DEF Recv, backendVars, ServedInv
<1> QED
  BY <1>1, <1>2, <1>3, <1>4, <1>5, <1>6, <1>7 DEF ServerStep, Handle

LEMMA NextServed == TypeOK /\ ServedInv /\ [Next]_vars => ServedInv'
<1> SUFFICES ASSUME TypeOK, ServedInv, [Next]_vars PROVE ServedInv'
  OBVIOUS
<1>1. ASSUME UNCHANGED <<serverVars, backendVars>> PROVE ServedInv'
  BY <1>1 DEF serverVars, backendVars, ServedInv
<1>2. CASE \E p \in Plugins : PluginStep(p)
  BY <1>1, <1>2 DEF PluginStep
<1>3. CASE DeliverStep
  BY <1>1, <1>3 DEF DeliverStep
<1>4. CASE Fault
  <2>1. CASE Stop \/ ResetFails
    BY <2>1, FreshServes DEF Stop, ResetFails, Gone
  <2>2. CASE StartPinnedFails
    BY <2>2 DEF StartPinnedFails, ServedInv
  <2>3. CASE SaveFails \/ HandlerRaises \/ SendFails
    BY <2>3 DEF SaveFails, HandlerRaises, SendFails, backendVars, ServedInv
  <2> QED
    BY <1>1, <1>4, <2>1, <2>2, <2>3, LoadRaisesServes DEF Fault
<1>5. CASE UNCHANGED vars
  BY <1>1, <1>5 DEF vars
<1> QED
  BY <1>2, <1>3, <1>4, <1>5, ServerKeepsServed DEF Next

(* Whatever loads succeeded, failed or fell back before, the service never *)
(* answers with a model other than the one it reports, unless its GPU      *)
(* engine was closed by a failure and reopened.                            *)
THEOREM ServedModelIsCurrent == Safety => []ServedIsCurrent
<1>1. Init => ServedInv
  BY DEF Init, BackendInit, ServedInv
<1>2. TypeOK /\ ServedInv => ServedIsCurrent
  BY DEF TypeOK, BackendTypeOK, Engines, ServedInv, ServedIsCurrent, Loaded, Served
<1> QED
  BY <1>1, <1>2, NextServed, TypeCorrect, PTL DEF Safety

-----------------------------------------------------------------------------
(* A reply that reports a loaded model proves that its file is there.      *)

OnDisk(p) == disk[ModelOf[p]] # "absent"
LoadedReplies == {"modelLoaded", "dataLoaded"}

DiskInv ==
  /\ \A p \in Plugins : ready[p] => OnDisk(p)
  /\ \A r \in replies : r.body.kind \in LoadedReplies => OnDisk(r.to)
  /\ stage = "replying" /\ body.kind \in LoadedReplies
       => \A r \in handling : OnDisk(r.from)
  /\ \A r1, r2 \in handling : r1.from = r2.from

LEMMA FilesStay ==
  ASSUME TypeOK, [Next]_vars PROVE \A p \in Plugins : OnDisk(p) => OnDisk(p)'
<1>1. \A p \in Plugins : ModelOf[p] \in Models
  BY SystemAssumption
<1>2. ASSUME NEW r \in handling, OpenFile(r) \/ WriteFile(r)
      PROVE  \A p \in Plugins : OnDisk(p) => OnDisk(p)'
  BY <1>1, <1>2 DEF OpenFile, WriteFile, OnDisk, TypeOK, ServerTypeOK
<1>3. ASSUME UNCHANGED disk PROVE \A p \in Plugins : OnDisk(p) => OnDisk(p)'
  BY <1>3 DEF OnDisk
<1>4. CASE ServerStep
  BY <1>2, <1>3, <1>4
     DEF ServerStep, StartAuto, StartPinned, StartPinnedFails, Handle, CheckModel, Load,
         LoadRaises, Infer, SendReply, ResetSocket, Recv
<1>5. CASE Fault
  BY <1>3, <1>5
     DEF Fault, Stop, StartPinnedFails, SaveFails, HandlerRaises, SendFails, ResetFails,
         Gone, LoadRaises, serverVars
<1> QED
  BY <1>3, <1>4, <1>5 DEF Next, PluginStep, DeliverStep, serverVars, vars

LEMMA HandledFrom ==
  ASSUME TypeOK, NEW p,
         handling' = handling \/ handling' = Hushed(p, handling)
  PROVE  \A r \in handling' : \E s \in handling : r.from = s.from
<1> SUFFICES ASSUME NEW r \in handling', handling' = Hushed(p, handling)
             PROVE  \E s \in handling : r.from = s.from
  OBVIOUS
<1>1. PICK s \in handling : r = IF s.from = p THEN [s EXCEPT !.live = FALSE] ELSE s
  BY DEF Hushed
<1>2. s \in Request
  BY DEF TypeOK, ChannelTypeOK
<1> QED
  BY <1>1, <1>2 DEF Request

(* A plugin only becomes ready on a reply that says so. *)
LEMMA ReadyOnReply ==
  ASSUME TypeOK, NEW p \in Plugins, PluginStep(p)
  PROVE  \A q \in Plugins : ready'[q] =>
           ready[q] \/ \E r \in RepliesTo(q) : r.body.kind \in LoadedReplies
<1> USE DEF TypeOK, PluginTypeOK
<1>1. ASSUME NEW ok \in BOOLEAN, EndHandshake(p, ok),
             ok => \E r \in RepliesTo(p) : r.body.kind \in LoadedReplies
      PROVE  \A q \in Plugins : ready'[q] =>
               ready[q] \/ \E r \in RepliesTo(q) : r.body.kind \in LoadedReplies
  BY <1>1 DEF EndHandshake
<1>2. ASSUME NEW r \in RepliesTo(p), ModelReply(p, r), ~UNCHANGED ready
      PROVE  /\ EndHandshake(p, r.body.kind = "modelLoaded")
             /\ r.body.kind = "modelLoaded" => r.body.kind \in LoadedReplies
  BY <1>2 DEF ModelReply, SendModelData, LoadedReplies
<1>3. ASSUME NEW r \in RepliesTo(p), DataReply(p, r)
      PROVE  /\ EndHandshake(p, r.body.kind = "dataLoaded")
             /\ r.body.kind = "dataLoaded" => r.body.kind \in LoadedReplies
  BY <1>3 DEF DataReply, LoadedReplies
<1>4. CASE HandshakeTimeout(p)
  BY <1>1, <1>4 DEF HandshakeTimeout
<1>5. CASE UNCHANGED ready
  BY <1>5
<1> QED
  BY <1>1, <1>2, <1>3, <1>4, <1>5
     DEF PluginStep, PluginRuns, ReadReply, Timeout, Construct, ReturnNotReady,
         RetryHandshake, SendTensor, SendInWrongState, TensorReply, IntervalElapses,
         DetectRaw, TensorTimeout

LEMMA PluginStepChannel ==
  ASSUME NEW p \in Plugins, PluginStep(p)
  PROVE  /\ replies' \subseteq replies
         /\ handling' = handling \/ handling' = Hushed(p, handling)
  BY DEF PluginStep, PluginRuns, ReadReply, Timeout, Construct, ReturnNotReady,
         RetryHandshake, SendTensor, SendInWrongState, ModelReply, SendModelData, DataReply, TensorReply,
         IntervalElapses, DetectRaw, HandshakeTimeout, TensorTimeout, BeginHandshake,
         HangUpAndSend, Send, Read, ReadAndSend, channelVars

(* Fewer replies, and a request in hand that may have lost its sender. *)
LEMMA FewerReplies ==
  ASSUME TypeOK, DiskInv, \A p \in Plugins : OnDisk(p) => OnDisk(p)',
         replies' \subseteq replies,
         \A r \in handling' : \E s \in handling : r.from = s.from,
         stage' = "replying" /\ body'.kind \in LoadedReplies =>
           stage = "replying" /\ body.kind \in LoadedReplies
  PROVE  /\ \A r \in replies' : r.body.kind \in LoadedReplies => OnDisk(r.to)'
         /\ stage' = "replying" /\ body'.kind \in LoadedReplies
              => \A r \in handling' : OnDisk(r.from)'
         /\ \A r1, r2 \in handling' : r1.from = r2.from
<1>1. \A r \in replies : r.to \in Plugins
  BY DEF TypeOK, ChannelTypeOK, Reply
<1>2. \A r \in handling : r.from \in Plugins
  BY DEF TypeOK, ChannelTypeOK, Request
<1> QED
  BY <1>1, <1>2 DEF DiskInv

LEMMA ServerKeepsDisk ==
  ASSUME TypeOK, DiskInv, UNCHANGED pluginVars, \A p \in Plugins : OnDisk(p) => OnDisk(p)',
         ServerStep \/ Stop \/ StartPinnedFails \/ SaveFails \/ HandlerRaises \/ SendFails
         \/ ResetFails \/ \E r \in handling : LoadRaises(r)
  PROVE  DiskInv'
<1>1. \A p \in Plugins : ready'[p] => OnDisk(p)'
  BY DEF DiskInv, pluginVars
<1>2. \A r \in replies : r.to \in Plugins
  BY DEF TypeOK, ChannelTypeOK, Reply
<1>3. \A r \in handling : r.from \in Plugins
  BY DEF TypeOK, ChannelTypeOK, Request
<1>4. \A k \in ModelReplies \cup DataReplies : Says(k).kind = k
  BY DEF Says, Silence
<1>5. ASSUME replies' \subseteq replies, handling' = handling \/ handling' = {},
             stage' # "replying" \/ body'.kind \notin LoadedReplies
                                 \/ (stage' = stage /\ body' = body)
      PROVE  DiskInv'
  BY <1>1, <1>5, FewerReplies DEF DiskInv
<1>6. CASE StartAuto \/ StartPinned \/ StartPinnedFails
  BY <1>5, <1>6 DEF StartAuto, StartPinned, StartPinnedFails, channelVars
<1>7. CASE Stop \/ ResetFails \/ ResetSocket
  BY <1>5, <1>7
     DEF Stop, ResetFails, ResetSocket, Gone, ServerSocketGone
<1>8. CASE SaveFails \/ HandlerRaises \/ SendFails
  BY <1>4, <1>5, <1>8
     DEF SaveFails, HandlerRaises, SendFails, channelVars, LoadedReplies, DataReplies, Silence
<1>9. ASSUME NEW r \in handling, LoadRaises(r) PROVE DiskInv'
  <2>1. body'.kind \notin LoadedReplies
    BY <1>4, <1>9 DEF LoadRaises, LoadedReplies, ModelReplies, DataReplies
  <2> QED
    BY <1>5, <1>9, <2>1 DEF LoadRaises, channelVars
<1>10. ASSUME NEW r \in handling, OpenFile(r) \/ WriteFile(r) \/ CheckModel(r) \/ Infer(r)
       PROVE  DiskInv'
  <2>1. stage' # "replying" \/ body'.kind \notin LoadedReplies
    BY <1>4, <1>10
       DEF OpenFile, WriteFile, CheckModel, Infer, LoadedReplies, ModelReplies, Silence
  <2> QED
    BY <1>5, <1>10, <2>1 DEF OpenFile, WriteFile, CheckModel, Infer, channelVars
<1>11. ASSUME NEW r \in handling, Load(r) PROVE DiskInv'
  <2>1. OnDisk(r.from)'
    BY <1>3, <1>11 DEF Load, OnDisk
  <2>2. replies' = replies /\ handling' = handling
    BY <1>11 DEF Load, channelVars
  <2>3. \A s \in handling : s.from = r.from
    BY DEF DiskInv
  <2> QED
    BY <1>1, <1>2, <1>3, <2>1, <2>2, <2>3 DEF DiskInv
<1>12. CASE SendReply
  <2>1. handling' = {} /\ stage' = "recv" /\ stage = "replying"
    BY <1>12 DEF SendReply, Answer
  <2>2. ASSUME NEW r \in replies', r.body.kind \in LoadedReplies PROVE OnDisk(r.to)'
    <3>1. CASE r \in replies
      BY <1>2, <2>2, <3>1 DEF DiskInv
    <3>2. ASSUME NEW h \in handling, r = [to |-> h.from, body |-> body]
          PROVE  OnDisk(r.to)'
      BY <1>3, <2>1, <2>2, <3>2 DEF DiskInv
    <3> QED
      BY <1>12, <3>1, <3>2 DEF SendReply, Answer
  <2> QED
    BY <1>1, <2>1, <2>2 DEF DiskInv
<1>13. ASSUME NEW r \in inbox, Recv(r) PROVE DiskInv'
  <2>1. handling' = {r} /\ replies' = replies
    BY <1>13 DEF Recv, Take
  <2>2. stage' # "replying"
    BY <1>13 DEF Recv, TypeOK, ChannelTypeOK, Request
  <2> QED
    BY <1>1, <1>2, <2>1, <2>2 DEF DiskInv
<1> QED
  BY <1>6, <1>7, <1>8, <1>9, <1>10, <1>11, <1>12, <1>13 DEF ServerStep, Handle

LEMMA NextDisk == TypeOK /\ DiskInv /\ [Next]_vars => DiskInv'
<1> SUFFICES ASSUME TypeOK, DiskInv, [Next]_vars PROVE DiskInv'
  OBVIOUS
<1>1. \A p \in Plugins : OnDisk(p) => OnDisk(p)'
  BY FilesStay
<1>2. ASSUME NEW p \in Plugins, PluginStep(p) PROVE DiskInv'
  <2>1. \A r \in handling' : \E s \in handling : r.from = s.from
    BY <1>2, HandledFrom, PluginStepChannel
  <2>2. UNCHANGED <<stage, body>>
    BY <1>2 DEF PluginStep, serverVars
  <2>3. \A q \in Plugins : ready'[q] => OnDisk(q)
    BY <1>2, ReadyOnReply DEF DiskInv, RepliesTo
  <2> QED
    BY <1>1, <1>2, <2>1, <2>2, <2>3, PluginStepChannel, FewerReplies DEF DiskInv
<1>3. CASE ServerStep
  BY <1>1, <1>3, ServerKeepsDisk DEF ServerStep
<1>4. CASE DeliverStep
  <2>1. UNCHANGED <<replies, handling, stage, body, disk, ready>>
    BY <1>4 DEF DeliverStep, Deliver, pluginVars, serverVars
  <2> QED
    BY <2>1 DEF DiskInv, OnDisk
<1>5. CASE Fault
  <2>1. ASSUME NEW p \in Plugins, FrigateRestarts(p), UNCHANGED serverVars PROVE DiskInv'
    <3>1. replies' \subseteq replies /\ handling' = Hushed(p, handling)
      BY <2>1 DEF FrigateRestarts, HangUp
    <3>2. \A r \in handling' : \E s \in handling : r.from = s.from
      BY <3>1, HandledFrom
    <3>3. UNCHANGED <<stage, body>>
      BY <2>1 DEF serverVars
    <3>4. \A q \in Plugins : ready'[q] => ready[q]
      BY <2>1 DEF FrigateRestarts, TypeOK, PluginTypeOK
    <3> QED
      BY <1>1, <3>1, <3>2, <3>3, <3>4, FewerReplies DEF DiskInv
  <2> QED
    BY <1>1, <1>5, <2>1, ServerKeepsDisk DEF Fault
<1>6. CASE UNCHANGED vars
  <2>1. UNCHANGED <<replies, handling, stage, body, disk, ready>>
    BY <1>6 DEF vars, channelVars, pluginVars, serverVars
  <2> QED
    BY <2>1 DEF DiskInv, OnDisk
<1> QED
  BY <1>2, <1>3, <1>4, <1>5, <1>6 DEF Next

(* A plugin that was told its model is loaded finds the file on the        *)
(* service's disk ever after, also when the service restarts.              *)
THEOREM ReadyModelsStay == Safety => []ReadyModelOnDisk
<1>1. Init => DiskInv
  BY DEF Init, ChannelInit, PluginInit, ServerInit, DiskInv
<1>2. DiskInv => ReadyModelOnDisk
  BY DEF DiskInv, ReadyModelOnDisk, OnDisk
<1> QED
  BY <1>1, <1>2, NextDisk, TypeCorrect, PTL DEF Safety

=============================================================================
