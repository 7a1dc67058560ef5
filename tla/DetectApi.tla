----------------------------- MODULE DetectApi -----------------------------
(***************************************************************************)
(* What Frigate is promised by a detector plugin: a call of detect_raw     *)
(* returns, with zeros or with the detections some model found in exactly  *)
(* the frame it was given, and detections only once a handshake has made   *)
(* the model ready ("Only starts inference after model is ready", "On any  *)
(* error or timeout, this detector returns a zero array", zmq_ipc.py).     *)
(* Module DetectorSystem is checked to implement this one.                 *)
(***************************************************************************)
CONSTANTS Plugins, Frames, NoFrame, Models, NoModel

VARIABLES phase,    \* "away": not constructed; "ready": between calls; "called"
          ready,    \* a handshake has succeeded
          asked,    \* the frame of the current or last call
          answer    \* what the last call returned

apiVars == <<phase, ready, asked, answer>>

Zeros == [kind |-> "zeros", frame |-> NoFrame, model |-> NoModel]
Detections(f) == {[kind |-> "detections", frame |-> f, model |-> m] : m \in Models}

ApiInit ==
  /\ phase = [p \in Plugins |-> "away"]
  /\ ready = [p \in Plugins |-> FALSE]
  /\ asked = [p \in Plugins |-> NoFrame]
  /\ answer = [p \in Plugins |-> Zeros]

Start(p) ==
  /\ phase[p] = "away"
  /\ phase' = [phase EXCEPT ![p] = "ready"]
  /\ \E ok \in BOOLEAN : ready' = [ready EXCEPT ![p] = ok]
  /\ UNCHANGED <<asked, answer>>

Call(p, f) ==
  /\ phase[p] = "ready"
  /\ phase' = [phase EXCEPT ![p] = "called"]
  /\ asked' = [asked EXCEPT ![p] = f]
  /\ UNCHANGED <<ready, answer>>

(* A call finds the service after all. *)
Prepare(p) ==
  /\ phase[p] = "called" /\ ~ready[p]
  /\ ready' = [ready EXCEPT ![p] = TRUE]
  /\ UNCHANGED <<phase, asked, answer>>

Return(p) ==
  /\ phase[p] = "called"
  /\ phase' = [phase EXCEPT ![p] = "ready"]
  /\ \E a \in {Zeros} \cup (IF ready[p] THEN Detections(asked[p]) ELSE {}) :
       answer' = [answer EXCEPT ![p] = a]
  /\ UNCHANGED <<ready, asked>>

(* Frigate replaces the process. *)
Restart(p) ==
  /\ phase' = [phase EXCEPT ![p] = "away"]
  /\ ready' = [ready EXCEPT ![p] = FALSE]
  /\ asked' = [asked EXCEPT ![p] = NoFrame]
  /\ answer' = [answer EXCEPT ![p] = Zeros]

ApiNext ==
  \E p \in Plugins : \/ Start(p) \/ Prepare(p) \/ Return(p) \/ Restart(p)
                     \/ \E f \in Frames : Call(p, f)

ApiSafety == ApiInit /\ [][ApiNext]_apiVars
ApiSpec == ApiSafety /\ \A p \in Plugins : WF_apiVars(Return(p))

=============================================================================
