-------------------------- MODULE FallbackBackend --------------------------
(***************************************************************************)
(* The inference engine seam of detector/detector/backends.py as its       *)
(* caller sees it: a primary GPU engine (NcnnBackend) wrapped with an ONNX *)
(* Runtime CPU session that takes over when the primary cannot load a      *)
(* model.  A backend that is not wrapped is the plain CPU session          *)
(* (--backend cpu, or a GPU backend whose constructor raised and which     *)
(* create_backend replaced).                                               *)
(*                                                                         *)
(* One load() call is one step here; module GpuBackend takes it apart and  *)
(* is checked to implement this one.  A model is a member of Models: what  *)
(* an engine computes with it is left out, which model it holds is kept.   *)
(***************************************************************************)
EXTENDS ModelNames

VARIABLES wrapped,    \* create_backend returned FallbackBackend(primary, cpu)
          active,     \* FallbackBackend.active; "fallback" is the CPU session
          net,        \* the model NcnnBackend.net was built from, or NoModel
          closed,     \* NcnnBackend._closed
          session     \* the model of OnnxRuntimeBackend.session, or NoModel

backendVars == <<wrapped, active, net, closed, session>>

Engines == {"none", "primary", "fallback"}

BackendTypeOK ==
  /\ wrapped \in BOOLEAN
  /\ active \in Engines
  /\ net \in Models \cup {NoModel}
  /\ closed \in BOOLEAN
  /\ session \in Models \cup {NoModel}

-----------------------------------------------------------------------------

(* FallbackBackend.loaded and, unwrapped, OnnxRuntimeBackend.loaded. *)
Loaded ==
  IF wrapped THEN \/ active = "primary" /\ net # NoModel
                  \/ active = "fallback" /\ session # NoModel
             ELSE session # NoModel

(* The model an infer() call would run. *)
Served == IF wrapped /\ active = "primary" THEN net ELSE session

(* create_backend: a fresh process has a backend with no model. *)
Fresh(w) ==
  /\ wrapped' = w
  /\ active' = "none"
  /\ net' = NoModel
  /\ closed' = FALSE
  /\ session' = NoModel

BackendInit ==
  /\ wrapped \in BOOLEAN
  /\ active = "none"
  /\ net = NoModel
  /\ closed = FALSE
  /\ session = NoModel

-----------------------------------------------------------------------------

(* The primary loads m and passes its warm-up. *)
LoadPrimary(m) ==
  /\ wrapped
  /\ active' = "primary"
  /\ net' = m
  /\ UNCHANGED <<wrapped, closed, session>>

(* The primary raises; assigned tells whether self.net was already         *)
(* replaced (the warm-up failed).  FallbackBackend then calls close(): the *)
(* first close drops the net, every later one returns at once because      *)
(* _closed is set, so a net assigned before the warm-up stays.             *)
PrimaryFails(m, assigned) ==
  /\ wrapped
  /\ closed' = TRUE
  /\ net' = CASE ~closed            -> NoModel
              [] closed /\ assigned -> m
              [] OTHER              -> net

LoadFallback(m, assigned) ==
  /\ PrimaryFails(m, assigned)
  /\ active' = "fallback"
  /\ session' = m
  /\ UNCHANGED wrapped

(* The fallback raises too: active and the CPU session stay as they were. *)
LoadNeither(m, assigned) ==
  /\ PrimaryFails(m, assigned)
  /\ UNCHANGED <<wrapped, active, session>>

(* The unwrapped CPU backend: the session is assigned last or not at all. *)
LoadCpu(m) ==
  /\ ~wrapped
  /\ session' = m
  /\ UNCHANGED <<wrapped, active, net, closed>>

LoadCpuFails ==
  /\ ~wrapped
  /\ UNCHANGED backendVars

LoadSucceeds(m) ==
  \/ LoadPrimary(m)
  \/ \E assigned \in BOOLEAN : LoadFallback(m, assigned)
  \/ LoadCpu(m)

LoadFails(m) ==
  \/ \E assigned \in BOOLEAN : LoadNeither(m, assigned)
  \/ LoadCpuFails

BackendSpec ==
  BackendInit /\ [][\E m \in Models : LoadSucceeds(m) \/ LoadFails(m)]_backendVars

=============================================================================
