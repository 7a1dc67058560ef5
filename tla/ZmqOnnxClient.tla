--------------------------- MODULE ZmqOnnxClient ---------------------------
(***************************************************************************)
(* detector/detector/zmq_onnx_client.py: the service process ZmqOnnxClient *)
(* under systemd (frigate-detector.service, Restart=always).  One thread   *)
(* takes a request, handles it and sends the reply, so its state is the    *)
(* stage of the request in hand, the attributes model_ready and            *)
(* current_model, the backend, and the models directory, which is all that *)
(* survives the process.                                                   *)
(***************************************************************************)
EXTENDS ZmqChannel, FallbackBackend

CONSTANTS ModelOf,      \* the model each plugin is configured with
          Pinned        \* --model: a model to serve from the start, or NoModel

VARIABLES up,           \* the process runs and its REP socket is bound
          stage,        \* what start_server is doing
          repState,     \* the REP socket's state: it must "recv" or "send" next
          body,         \* the reply built for the request in hand
          modelReady,   \* model_ready
          currentModel, \* current_model
          disk          \* each model's file in models_dir

serverVars == <<up, stage, repState, body, modelReady, currentModel, disk>>

Silence == [kind |-> "zeros", frame |-> NoFrame, model |-> NoModel]
Says(kind) == [Silence EXCEPT !.kind = kind]

Stages == {"recv", "checking", "saving", "writing", "loading", "inferring", "replying"}

ServerTypeOK ==
  /\ up \in BOOLEAN
  /\ stage \in Stages
  /\ repState \in {"recv", "send"}
  /\ body \in Body
  /\ modelReady \in BOOLEAN
  /\ currentModel \in Models \cup {NoModel}
  /\ disk \in [Models -> {"absent", "partial", "good"}]

(* The service is down and each model file is there or not; a pinned model *)
(* is a file on the service's side.                                        *)
ServerInit ==
  /\ up = FALSE
  /\ stage = "recv" /\ repState = "recv" /\ body = Silence
  /\ modelReady = FALSE /\ currentModel = NoModel
  /\ disk \in [Models -> {"absent", "good"}]
  /\ Pinned \in Models => disk[Pinned] = "good"

-----------------------------------------------------------------------------
(* systemd starts the process: __init__, then the bind of start_server.    *)

StartAuto ==
  /\ ~up /\ Pinned = NoModel
  /\ up' = TRUE
  /\ \E w \in BOOLEAN : Fresh(w)
  /\ UNCHANGED <<stage, repState, body, modelReady, currentModel, disk, channelVars>>

(* With a pinned model the fresh backend loads it first: into the primary, *)
(* into the fallback (closing the primary), or, unwrapped, into the CPU    *)
(* session.                                                                *)
StartPinned ==
  /\ ~up /\ Pinned \in Models /\ disk[Pinned] = "good"
  /\ up' = TRUE
  /\ modelReady' = TRUE /\ currentModel' = Pinned
  /\ wrapped' \in BOOLEAN
  /\ active' \in (IF wrapped' THEN {"primary", "fallback"} ELSE {"none"})
  /\ closed' = (active' = "fallback")
  /\ net' = (IF active' = "primary" THEN Pinned ELSE NoModel)
  /\ session' = (IF active' = "primary" THEN NoModel ELSE Pinned)
  /\ UNCHANGED <<stage, repState, body, disk, channelVars>>

(* The pinned model does not load: the service still starts. *)
StartPinnedFails ==
  /\ ~up /\ Pinned \in Models
  /\ up' = TRUE
  /\ \E w \in BOOLEAN : /\ wrapped' = w
                        /\ closed' = w
  /\ active' = "none" /\ net' = NoModel /\ session' = NoModel
  /\ UNCHANGED <<stage, repState, body, modelReady, currentModel, disk, channelVars>>

(* The process ends: the attributes and the socket go, the files stay. *)
Gone ==
  /\ up' = FALSE
  /\ stage' = "recv" /\ repState' = "recv" /\ body' = Silence
  /\ modelReady' = FALSE /\ currentModel' = NoModel
  /\ Fresh(FALSE)
  /\ UNCHANGED disk
  /\ ServerSocketGone

(* SIGTERM, a crash or a kill, at any point of the loop; what the exit     *)
(* leaves on the GPU is module GpuBackend's subject.                       *)
Stop == up /\ Gone

-----------------------------------------------------------------------------
(* start_server: one request. *)

(* recv_multipart and _decode_request. *)
Recv(r) ==
  /\ up /\ stage = "recv" /\ repState = "recv"
  /\ Take(r)
  /\ repState' = "send"
  /\ stage' = CASE r.kind = "model"  -> "checking"
                [] r.kind = "data"   -> "saving"
                [] r.kind = "tensor" -> "inferring"
  /\ UNCHANGED <<up, body, modelReady, currentModel, disk, backendVars>>

(* _handle_model_request, _check_model_exists: any file of that name. *)
CheckModel(r) ==
  /\ stage = "checking" /\ r \in handling
  /\ IF disk[ModelOf[r.from]] = "absent"
       THEN stage' = "replying" /\ body' = Says("modelMissing")
       ELSE stage' = "loading" /\ UNCHANGED body
  /\ UNCHANGED <<up, repState, modelReady, currentModel, disk, backendVars, channelVars>>

(* Mutant: a temporary file nobody renames. *)
OpenTemporary(r) ==
  /\ stage = "saving" /\ r \in handling
  /\ stage' = "writing"
  /\ disk' = [disk EXCEPT ![ModelOf[r.from]] = "temporary"]
  /\ UNCHANGED <<up, repState, body, modelReady, currentModel, backendVars, channelVars>>

(* _save_model: open(..., "wb") truncates whatever was there... *)
OpenFile(r) ==
  /\ stage = "saving" /\ r \in handling
  /\ stage' = "writing"
  /\ disk' = [disk EXCEPT ![ModelOf[r.from]] = "partial"]
  /\ UNCHANGED <<up, repState, body, modelReady, currentModel, backendVars, channelVars>>

(* ... and write() completes it. *)
WriteFile(r) ==
  /\ stage = "writing" /\ r \in handling
  /\ stage' = "loading"
  /\ disk' = [disk EXCEPT ![ModelOf[r.from]] = "good"]
  /\ UNCHANGED <<up, repState, body, modelReady, currentModel, backendVars, channelVars>>

(* makedirs or open fails, or write does (disk full): what is on disk then *)
(* stays, and the client is told that nothing was saved.                   *)
SaveFails ==
  /\ stage \in {"saving", "writing"}
  /\ stage' = "replying"
  /\ body' = Says("dataNotSaved")
  /\ UNCHANGED <<up, repState, modelReady, currentModel, disk, backendVars, channelVars>>

(* Mutants: the name is recorded only the first time, and before the load. *)
LoadKeepsName(r) ==
  LET m == ModelOf[r.from] IN
  /\ stage = "loading" /\ r \in handling /\ disk[m] = "good"
  /\ LoadSucceeds(m)
  /\ modelReady' = TRUE
  /\ currentModel' = IF currentModel = NoModel THEN m ELSE currentModel
  /\ stage' = "replying"
  /\ body' = Says(IF r.kind = "model" THEN "modelLoaded" ELSE "dataLoaded")
  /\ UNCHANGED <<up, repState, disk, channelVars>>

LoadRaisesNamed(r) ==
  LET m == ModelOf[r.from] IN
  /\ stage = "loading" /\ r \in handling
  /\ IF disk[m] = "good" THEN LoadFails(m) ELSE LoadNeither(m, FALSE) \/ LoadCpuFails
  /\ currentModel' = m
  /\ stage' = "replying"
  /\ body' = Says(IF r.kind = "model" THEN "modelNotLoaded" ELSE "dataNotLoaded")
  /\ UNCHANGED <<up, repState, modelReady, disk, channelVars>>

(* _load_model: a complete file can load; model_ready and current_model    *)
(* follow a load that succeeded and nothing else.  A truncated file fails  *)
(* in both engines, in the primary before self.net is assigned.            *)
Load(r) ==
  LET m == ModelOf[r.from] IN
  /\ stage = "loading" /\ r \in handling /\ disk[m] = "good"
  /\ LoadSucceeds(m)
  /\ modelReady' = TRUE /\ currentModel' = m
  /\ stage' = "replying"
  /\ body' = Says(IF r.kind = "model" THEN "modelLoaded" ELSE "dataLoaded")
  /\ UNCHANGED <<up, repState, disk, channelVars>>

LoadRaises(r) ==
  LET m == ModelOf[r.from] IN
  /\ stage = "loading" /\ r \in handling
  /\ IF disk[m] = "good" THEN LoadFails(m) ELSE LoadNeither(m, FALSE) \/ LoadCpuFails
  /\ stage' = "replying"
  /\ body' = Says(IF r.kind = "model" THEN "modelNotLoaded" ELSE "dataNotLoaded")
  /\ UNCHANGED <<up, repState, modelReady, currentModel, disk, channelVars>>

(* _run_inference and _build_response. *)
Infer(r) ==
  /\ stage = "inferring" /\ r \in handling
  /\ stage' = "replying"
  /\ body' = IF modelReady /\ Loaded
               THEN [kind |-> "detections", frame |-> r.frame, model |-> Served]
               ELSE Silence
  /\ UNCHANGED <<up, repState, modelReady, currentModel, disk, backendVars, channelVars>>

(* Inference or a handler raises: zeros, or an error reply that carries a  *)
(* zero array as well.                                                     *)
HandlerRaises ==
  /\ stage \in {"checking", "inferring"}
  /\ stage' = "replying"
  /\ body' = Silence
  /\ UNCHANGED <<up, repState, modelReady, currentModel, disk, backendVars, channelVars>>

SendReply ==
  /\ stage = "replying"
  /\ stage' = "recv" /\ repState' = "recv" /\ body' = Silence
  /\ Answer(body)
  /\ UNCHANGED <<up, modelReady, currentModel, disk, backendVars>>

(* send_multipart raises: it would block, and the loop goes straight back  *)
(* to recv; or the one of _send_error_response raises too, and is logged.  *)
(* Either way a reply is still due.                                        *)
SendFails ==
  /\ stage = "replying"
  /\ stage' = "recv" /\ body' = Silence
  /\ UNCHANGED <<up, repState, modelReady, currentModel, disk, backendVars, channelVars>>

(* recv_multipart fails with EFSM: _reset_socket closes and binds anew. *)
ResetSocket ==
  /\ up /\ stage = "recv" /\ repState = "send"
  /\ repState' = "recv"
  /\ ServerSocketGone
  /\ UNCHANGED <<up, stage, body, modelReady, currentModel, disk, backendVars>>

(* The new bind fails: the loop breaks, cleanup runs, the process ends. *)
ResetFails ==
  /\ up /\ stage = "recv" /\ repState = "send"
  /\ Gone

Handle == \E r \in handling :
  CheckModel(r) \/ OpenFile(r) \/ WriteFile(r) \/ Load(r) \/ Infer(r)
  \/ (disk[ModelOf[r.from]] # "good" /\ LoadRaises(r))

=============================================================================
