----------------------------- MODULE ModelNames -----------------------------
(***************************************************************************)
(* The names both ends of the handshake use for a model: the base name of  *)
(* Frigate's model.path (patches/zmq_ipc.py, _get_model_name), which is    *)
(* the file name in the service's models_dir.                              *)
(***************************************************************************)

CONSTANTS Models,     \* the model files a client can ask for
          NoModel     \* "no model": None in the code

ASSUME ModelsAssumption == NoModel \notin Models

MaybeModel == Models \cup {NoModel}

(* What the caller of a wrapped engine sees of it (module FallbackBackend). *)
Seen == [active : {"none", "primary", "fallback"}, net : MaybeModel,
         closed : BOOLEAN, session : MaybeModel]

=============================================================================
