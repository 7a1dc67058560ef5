--------------------------- MODULE ZmqIpcDetector ---------------------------
(***************************************************************************)
(* patches/zmq_ipc.py: the Frigate plugin class ZmqIpcDetector, one per    *)
(* plugin process.  Its constructor and detect_raw() block in one thread,  *)
(* so the state between two calls is its attributes, and within a call a   *)
(* pc says which reply it is waiting for.                                  *)
(***************************************************************************)
EXTENDS ZmqChannel

CONSTANTS HasFile     \* the plugins whose configured model file exists locally

VARIABLES pc,         \* where each plugin is
          why,        \* what started its current or last handshake
          reqState,   \* the REQ socket's state: it must "send" or "recv" next
          ready,      \* _model_ready
          due,        \* _retry_interval_s has passed since _last_init_attempt
          asked,      \* the frame of the current or last detect_raw call
          answer      \* what the last detect_raw call returned

pluginVars == <<pc, why, reqState, ready, due, asked, answer>>

Places == {"start", "idle", "enter", "hsModel", "hsData", "infer"}
Waiting == {"hsModel", "hsData", "infer"}
Zeros == [kind |-> "zeros", frame |-> NoFrame, model |-> NoModel]

PluginTypeOK ==
  /\ pc \in [Plugins -> Places]
  /\ why \in [Plugins -> {"init", "retry", "error"}]
  /\ reqState \in [Plugins -> {"send", "recv"}]
  /\ ready \in [Plugins -> BOOLEAN]
  /\ due \in [Plugins -> BOOLEAN]
  /\ asked \in [Plugins -> Frames \cup {NoFrame}]
  /\ answer \in [Plugins -> Body]

PluginInit ==
  /\ pc = [p \in Plugins |-> "start"]
  /\ why = [p \in Plugins |-> "init"]
  /\ reqState = [p \in Plugins |-> "send"]
  /\ ready = [p \in Plugins |-> FALSE]
  /\ due = [p \in Plugins |-> FALSE]
  /\ asked = [p \in Plugins |-> NoFrame]
  /\ answer = [p \in Plugins |-> Zeros]

-----------------------------------------------------------------------------
(* The handshake: _create_socket, then _initialize_model. *)

BeginHandshake(p, reason) ==
  /\ pc' = [pc EXCEPT ![p] = "hsModel"]
  /\ why' = [why EXCEPT ![p] = reason]
  /\ reqState' = [reqState EXCEPT ![p] = "recv"]
  /\ HangUpAndSend(p, "model", NoFrame)

(* Mutant: a call whose handshake failed tries again. *)
EndHandshakeAndRetry(p, ok) ==
  /\ ready' = [ready EXCEPT ![p] = @ \/ ok]
  /\ due' = [due EXCEPT ![p] = @ /\ why[p] # "init"]
  /\ IF why[p] # "init" /\ ready'[p]
       THEN pc' = [pc EXCEPT ![p] = "enter"] /\ UNCHANGED answer
       ELSE /\ pc' = [pc EXCEPT ![p] = "idle"]
            /\ answer' = IF why[p] = "init" THEN answer
                                            ELSE [answer EXCEPT ![p] = Zeros]
  /\ UNCHANGED <<why, asked>>

(* _initialize_model returns to what called it: the constructor, which     *)
(* stamps the attempt; an error branch of detect_raw, which returns zeros; *)
(* or the retry at the head of detect_raw, which goes on if it succeeded.  *)
(* _model_ready is set on success and never cleared.                       *)
EndHandshake(p, ok) ==
  /\ ready' = [ready EXCEPT ![p] = @ \/ ok]
  /\ due' = [due EXCEPT ![p] = @ /\ why[p] # "init"]
  /\ IF why[p] = "retry" /\ ready'[p]
       THEN pc' = [pc EXCEPT ![p] = "enter"] /\ UNCHANGED answer
       ELSE /\ pc' = [pc EXCEPT ![p] = "idle"]
            /\ answer' = IF why[p] = "init" THEN answer
                                            ELSE [answer EXCEPT ![p] = Zeros]
  /\ UNCHANGED <<why, asked>>

(* __init__ *)
Construct(p) ==
  /\ pc[p] = "start"
  /\ BeginHandshake(p, "init")
  /\ UNCHANGED <<ready, due, asked, answer>>

(* _send_model_data: the file is read and sent, if there is one.           *)
SendModelData(p, r) ==
  /\ p \in HasFile
  /\ ReadAndSend(r, "data", NoFrame)
  /\ pc' = [pc EXCEPT ![p] = "hsData"]
  /\ UNCHANGED <<why, reqState, ready, due, asked, answer>>

(* _check_and_transfer_model gets its reply. *)
ModelReply(p, r) ==
  /\ pc[p] = "hsModel" /\ r.to = p /\ r \in replies
  /\ \/ r.body.kind = "modelMissing" /\ SendModelData(p, r)
     \/ /\ r.body.kind # "modelMissing" \/ p \notin HasFile
        /\ Read(r)
        /\ reqState' = [reqState EXCEPT ![p] = "send"]
        /\ EndHandshake(p, r.body.kind = "modelLoaded")

(* Mutant: any answer to a transfer but a failed load counts. *)
DataReplyUnsaved(p, r) ==
  /\ pc[p] = "hsData" /\ r.to = p /\ r \in replies
  /\ Read(r)
  /\ reqState' = [reqState EXCEPT ![p] = "send"]
  /\ EndHandshake(p, r.body.kind # "dataNotLoaded")

(* _send_model_data gets its reply. *)
DataReply(p, r) ==
  /\ pc[p] = "hsData" /\ r.to = p /\ r \in replies
  /\ Read(r)
  /\ reqState' = [reqState EXCEPT ![p] = "send"]
  /\ EndHandshake(p, r.body.kind = "dataLoaded")

(* Mutant: a timed out socket is thought fit to send. *)
HandshakeTimeoutResets(p) ==
  /\ pc[p] \in {"hsModel", "hsData"}
  /\ reqState' = [reqState EXCEPT ![p] = "send"]
  /\ EndHandshake(p, FALSE)
  /\ UNCHANGED channelVars

(* The 30 s receive timeout of either wait: caught, the handshake failed,  *)
(* and the socket stays as it is, expecting a reply.                       *)
HandshakeTimeout(p) ==
  /\ pc[p] \in {"hsModel", "hsData"}
  /\ EndHandshake(p, FALSE)
  /\ UNCHANGED <<reqState, channelVars>>

-----------------------------------------------------------------------------
(* detect_raw *)

DetectRaw(p, f) ==
  /\ pc[p] = "idle"
  /\ pc' = [pc EXCEPT ![p] = "enter"]
  /\ asked' = [asked EXCEPT ![p] = f]
  /\ UNCHANGED <<why, reqState, ready, due, answer, channelVars>>

(* Not ready and throttled: zeros at once. *)
ReturnNotReady(p) ==
  /\ pc[p] = "enter" /\ ~ready[p] /\ ~due[p]
  /\ pc' = [pc EXCEPT ![p] = "idle"]
  /\ answer' = [answer EXCEPT ![p] = Zeros]
  /\ UNCHANGED <<why, reqState, ready, due, asked, channelVars>>

(* Mutant: the retry does not replace the socket, so it fails at once on   *)
(* one that still expects a reply.                                         *)
RetryOnOldSocket(p) ==
  /\ pc[p] = "enter" /\ ~ready[p] /\ due[p]
  /\ due' = [due EXCEPT ![p] = FALSE]
  /\ IF reqState[p] = "send"
       THEN BeginHandshake(p, "retry") /\ UNCHANGED answer
       ELSE /\ pc' = [pc EXCEPT ![p] = "idle"]
            /\ answer' = [answer EXCEPT ![p] = Zeros]
            /\ UNCHANGED <<why, reqState, channelVars>>
  /\ UNCHANGED <<ready, asked>>

(* Not ready and due: the time is stamped before the handshake starts, so  *)
(* a handshake that blocks longer than the interval is due again at once.  *)
RetryHandshake(p) ==
  /\ pc[p] = "enter" /\ ~ready[p] /\ due[p]
  /\ due' = [due EXCEPT ![p] = FALSE]
  /\ BeginHandshake(p, "retry")
  /\ UNCHANGED <<ready, asked, answer>>

SendTensor(p) ==
  /\ pc[p] = "enter" /\ ready[p] /\ reqState[p] = "send"
  /\ pc' = [pc EXCEPT ![p] = "infer"]
  /\ reqState' = [reqState EXCEPT ![p] = "recv"]
  /\ Send(p, "tensor", asked[p])
  /\ UNCHANGED <<why, ready, due, asked, answer>>

(* An earlier handshake timed out and left the socket expecting a reply:   *)
(* send fails with EFSM, and the except branch starts over.                *)
SendInWrongState(p) ==
  /\ pc[p] = "enter" /\ ready[p] /\ reqState[p] = "recv"
  /\ BeginHandshake(p, "error")
  /\ UNCHANGED <<ready, due, asked, answer>>

(* recv_multipart returns; _decode_response turns anything that is not an  *)
(* array of detections into zeros.                                         *)
TensorReply(p, r) ==
  /\ pc[p] = "infer" /\ r.to = p /\ r \in replies
  /\ Read(r)
  /\ pc' = [pc EXCEPT ![p] = "idle"]
  /\ reqState' = [reqState EXCEPT ![p] = "send"]
  /\ answer' = [answer EXCEPT ![p] =
                  IF r.body.kind = "detections" THEN r.body ELSE Zeros]
  /\ UNCHANGED <<why, ready, due, asked>>

(* Mutant: a timeout returns zeros and keeps the socket. *)
TensorTimeoutKeepsSocket(p) ==
  /\ pc[p] = "infer"
  /\ pc' = [pc EXCEPT ![p] = "idle"]
  /\ reqState' = [reqState EXCEPT ![p] = "send"]
  /\ answer' = [answer EXCEPT ![p] = Zeros]
  /\ UNCHANGED <<why, ready, due, asked, channelVars>>

(* zmq.Again after request_timeout_ms: new socket and handshake, and the   *)
(* call returns zeros whatever the handshake says.                         *)
TensorTimeout(p) ==
  /\ pc[p] = "infer"
  /\ BeginHandshake(p, "error")
  /\ UNCHANGED <<ready, due, asked, answer>>

-----------------------------------------------------------------------------

(* The monotonic clock passes _last_init_attempt + _retry_interval_s: only *)
(* a plugin that is not ready ever compares them.                          *)
IntervalElapses(p) ==
  /\ pc[p] # "start" /\ ~due[p] /\ ~ready[p]
  /\ pc[p] \in {"hsModel", "hsData"} => why[p] # "init"
  /\ due' = [due EXCEPT ![p] = TRUE]
  /\ UNCHANGED <<pc, why, reqState, ready, asked, answer, channelVars>>

(* Frigate ends a detector process and starts another (external). *)
FrigateRestarts(p) ==
  /\ pc[p] # "start"
  /\ pc' = [pc EXCEPT ![p] = "start"]
  /\ why' = [why EXCEPT ![p] = "init"]
  /\ reqState' = [reqState EXCEPT ![p] = "send"]
  /\ ready' = [ready EXCEPT ![p] = FALSE]
  /\ due' = [due EXCEPT ![p] = FALSE]
  /\ asked' = [asked EXCEPT ![p] = NoFrame]
  /\ answer' = [answer EXCEPT ![p] = Zeros]
  /\ HangUp(p)

ReadReply(p) ==
  \E r \in RepliesTo(p) : ModelReply(p, r) \/ DataReply(p, r) \/ TensorReply(p, r)

Timeout(p) == HandshakeTimeout(p) \/ TensorTimeout(p)

(* The steps a plugin takes by itself once it is inside a call. *)
PluginRuns(p) ==
  ReturnNotReady(p) \/ RetryHandshake(p) \/ SendTensor(p) \/ SendInWrongState(p)

=============================================================================
