----------------------------- MODULE GpuBackend -----------------------------
(***************************************************************************)
(* FallbackBackend.load, NcnnBackend.load and NcnnBackend.close step by    *)
(* step: what they leave alive on the GPU, when the Vulkan instance is     *)
(* destroyed, and what a SIGTERM finds if it lands between two steps       *)
(* (detector/detector/backends.py, and the shutdown path of                *)
(* detector/detector/zmq_onnx_client.py).                                  *)
(*                                                                         *)
(* A graph stands for an ncnn.Net together with its two Vulkan allocators  *)
(* and is named by its model.  CPython frees a graph when its last         *)
(* reference goes: self.net, or a local of a load() frame.  While an       *)
(* exception is being handled its traceback keeps those frames, so the     *)
(* locals outlive the call that raised.                                    *)
(***************************************************************************)
EXTENDS ModelNames

VARIABLES pc,         \* where the process is
          loading,    \* the argument of the load() in progress, or NoModel
          built,      \* the graph in load()'s local net
          old,        \* the graph in load()'s local old_net
          net,        \* the graph in self.net
          closed,     \* NcnnBackend._closed
          gpu,        \* ncnn's Vulkan instance exists
          active,     \* FallbackBackend.active
          session,    \* the model of the CPU session
          before,     \* history: what callers saw when load() was entered
          failed      \* history: the primary's load() has raised

gpuVars == <<pc, loading, built, old, net, closed, gpu, active, session, before, failed>>

LoadSteps == {"convert", "build", "reconvert", "rebuild", "check", "warmup",
              "raised", "destroy", "unwound"}

(* The types of the variables. *)
GpuTypeOK ==
  /\ pc \in LoadSteps \cup {"idle", "stopping", "stopDestroy", "exited"}
  /\ {loading, built, old, net, session} \subseteq MaybeModel
  /\ closed \in BOOLEAN
  /\ gpu \in BOOLEAN
  /\ active \in {"none", "primary", "fallback"}
  /\ before \in Seen
  /\ failed \in BOOLEAN

NothingLoaded ==
  /\ pc = "idle"
  /\ loading = NoModel /\ built = NoModel /\ old = NoModel
  /\ net = NoModel /\ closed = FALSE
  /\ active = "none" /\ session = NoModel
  /\ before = [active |-> "none", net |-> NoModel, closed |-> FALSE,
               session |-> NoModel]
  /\ failed = FALSE

(* NcnnBackend.__init__ has enumerated the devices: the instance exists. *)
Init == NothingLoaded /\ gpu = TRUE

(* Some graph is alive: nothing else keeps GPU objects. *)
GraphAlive == \E g \in {built, old, net} : g # NoModel

(* What callers see: while a load runs, and once the process is stopping,  *)
(* what was there when it was entered.                                     *)
SeenNow == IF pc = "idle" THEN [active |-> active, net |-> net,
                                closed |-> closed, session |-> session]
                          ELSE before

-----------------------------------------------------------------------------
(* FallbackBackend.load(m) and, inside it, NcnnBackend.load(m). *)

BeginLoad(m) ==
  /\ pc = "idle"
  /\ pc' = "convert"
  /\ loading' = m
  /\ before' = [active |-> active, net |-> net, closed |-> closed,
                session |-> session]
  /\ UNCHANGED <<built, old, net, closed, gpu, active, session, failed>>

(* _onnx_io_meta and _ensure_converted; on the second try, after a failed  *)
(* build, convert_onnx_to_ncnn alone.                                      *)
Convert ==
  /\ \/ pc = "convert" /\ pc' = "build"
     \/ pc = "reconvert" /\ pc' = "rebuild"
  /\ UNCHANGED <<loading, built, old, net, closed, gpu, active, session, before,
                 failed>>

ConvertRaises ==
  /\ pc \in {"convert", "reconvert"}
  /\ pc' = "raised"
  /\ failed' = TRUE
  /\ UNCHANGED <<loading, built, old, net, closed, gpu, active, session, before>>

(* _build_net asks ncnn for the device, which creates the instance again   *)
(* if it was destroyed, before it reads the converted files.               *)
Build ==
  /\ pc \in {"build", "rebuild"}
  /\ pc' = "check"
  /\ gpu' = TRUE
  /\ built' = loading
  /\ UNCHANGED <<loading, old, net, closed, active, session, before, failed>>

(* load_param or load_model fails: the half-built graph stays referenced   *)
(* by the traceback.  The first failure converts once more.                *)
BuildRaises ==
  /\ \/ pc = "build" /\ pc' = "reconvert"
     \/ pc = "rebuild" /\ pc' = "raised"
  /\ gpu' = TRUE
  /\ built' = loading
  /\ failed' = (failed \/ pc = "rebuild")
  /\ UNCHANGED <<loading, old, net, closed, active, session, before>>

(* The graph's inputs and outputs are not the ONNX file's. *)
MismatchRaises ==
  /\ pc = "check"
  /\ pc' = "raised"
  /\ failed' = TRUE
  /\ UNCHANGED <<loading, built, old, net, closed, gpu, active, session, before>>

(* Mutant: the wrapper trusts the primary before its warm-up. *)
AssignAndActivate ==
  /\ pc = "check"
  /\ pc' = "warmup"
  /\ old' = net
  /\ net' = built
  /\ active' = "primary"
  /\ UNCHANGED <<loading, built, closed, gpu, session, before, failed>>

Assign ==
  /\ pc = "check"
  /\ pc' = "warmup"
  /\ old' = net
  /\ net' = built
  /\ UNCHANGED <<loading, built, closed, gpu, active, session, before, failed>>

(* The warm-up inference returns, the locals go, the primary is active. *)
WarmUp ==
  /\ pc = "warmup"
  /\ pc' = "idle"
  /\ active' = "primary"
  /\ loading' = NoModel /\ built' = NoModel /\ old' = NoModel
  /\ UNCHANGED <<net, closed, gpu, session, before, failed>>

WarmUpRaises ==
  /\ pc = "warmup"
  /\ pc' = "raised"
  /\ failed' = TRUE
  /\ UNCHANGED <<loading, built, old, net, closed, gpu, active, session, before>>

-----------------------------------------------------------------------------
(* The except block of FallbackBackend.load, and close(). *)

(* Mutant: close() forgets to drop the net. *)
CloseKeepsNet ==
  /\ pc = "raised"
  /\ pc' = IF closed THEN "unwound" ELSE "destroy"
  /\ closed' = TRUE
  /\ UNCHANGED <<loading, built, old, net, gpu, active, session, before, failed>>

(* Mutant: close() forgets that it ran. *)
CloseForgets ==
  /\ pc = "raised"
  /\ pc' = "destroy"
  /\ net' = NoModel
  /\ UNCHANGED <<loading, built, old, closed, gpu, active, session, before, failed>>

(* close() up to gc.collect(); with _closed set it returns at once. *)
CloseAfterFailure ==
  /\ pc = "raised"
  /\ pc' = IF closed THEN "unwound" ELSE "destroy"
  /\ net' = IF closed THEN net ELSE NoModel
  /\ closed' = TRUE
  /\ UNCHANGED <<loading, built, old, gpu, active, session, before, failed>>

(* The rest of close(): destroy_gpu_instance. *)
DestroyAfterFailure ==
  /\ pc = "destroy"
  /\ pc' = "unwound"
  /\ gpu' = FALSE
  /\ UNCHANGED <<loading, built, old, net, closed, active, session, before, failed>>

(* Mutant: active is set to the engine's name. *)
FallbackNamed ==
  /\ pc = "unwound"
  /\ pc' = "idle"
  /\ session' = loading
  /\ active' = "cpu"
  /\ loading' = NoModel /\ built' = NoModel /\ old' = NoModel
  /\ UNCHANGED <<net, closed, gpu, before, failed>>

(* The except block ends: only now does the exception let go of the frames *)
(* of NcnnBackend.load; then the CPU session loads the model.              *)
FallbackLoads ==
  /\ pc = "unwound"
  /\ pc' = "idle"
  /\ session' = loading
  /\ active' = "fallback"
  /\ loading' = NoModel /\ built' = NoModel /\ old' = NoModel
  /\ UNCHANGED <<net, closed, gpu, before, failed>>

FallbackRaises ==
  /\ pc = "unwound"
  /\ pc' = "idle"
  /\ loading' = NoModel /\ built' = NoModel /\ old' = NoModel
  /\ UNCHANGED <<net, closed, gpu, active, session, before, failed>>

-----------------------------------------------------------------------------
(* SIGTERM: SystemExit unwinds to start_server, dropping load()'s frames,  *)
(* and cleanup() closes the backend.                                       *)

Sigterm ==
  /\ pc \in {"idle"} \cup LoadSteps
  /\ pc' = "stopping"
  /\ loading' = NoModel /\ built' = NoModel /\ old' = NoModel
  /\ before' = SeenNow
  /\ UNCHANGED <<net, closed, gpu, active, session, failed>>

(* Mutants: cleanup() stops after the net, and cleanup() leaves the net to *)
(* the interpreter.                                                        *)
CloseNetOnly ==
  /\ pc = "stopping"
  /\ pc' = "exited"
  /\ net' = NoModel
  /\ closed' = TRUE
  /\ UNCHANGED <<loading, built, old, gpu, active, session, before, failed>>

CloseInstanceFirst ==
  /\ pc = "stopping"
  /\ pc' = IF closed THEN "exited" ELSE "stopDestroy"
  /\ closed' = TRUE
  /\ UNCHANGED <<loading, built, old, net, gpu, active, session, before, failed>>

CloseAtExit ==
  /\ pc = "stopping"
  /\ pc' = IF closed THEN "exited" ELSE "stopDestroy"
  /\ net' = IF closed THEN net ELSE NoModel
  /\ closed' = TRUE
  /\ UNCHANGED <<loading, built, old, gpu, active, session, before, failed>>

DestroyAtExit ==
  /\ pc = "stopDestroy"
  /\ pc' = "exited"
  /\ gpu' = FALSE
  /\ UNCHANGED <<loading, built, old, net, closed, active, session, before, failed>>

LoadStep ==
  \/ Convert \/ ConvertRaises \/ Build \/ BuildRaises \/ MismatchRaises
  \/ Assign \/ WarmUp \/ WarmUpRaises
  \/ CloseAfterFailure \/ DestroyAfterFailure
  \/ FallbackLoads \/ FallbackRaises

Next ==
  \/ \E m \in Models : BeginLoad(m)
  \/ LoadStep
  \/ Sigterm \/ CloseAtExit \/ DestroyAtExit

Spec == Init /\ [][Next]_gpuVars

-----------------------------------------------------------------------------

(* A graph needs the Vulkan instance it was made on: whenever the primary  *)
(* is what inference uses, the instance exists, through every sequence of  *)
(* failed loads, closes and reopened devices (backends.py, NcnnBackend).   *)
ServingGraphHasInstance ==
  pc = "idle" /\ active = "primary" /\ net # NoModel => gpu

(* While no load is in progress, the graph kept in self.net is one that    *)
(* passed its warm-up, or the backend was closed by an earlier failure:    *)
(* an engine that has never failed serves what the last load left.         *)
NeverFailedServesPrimary ==
  pc = "idle" /\ ~closed => /\ session = NoModel
                            /\ active \in {"none", "primary"}
                            /\ (active = "primary" <=> net # NoModel)

(* "so process exit never tears down a live GPU queue" (close(),           *)
(* backends.py): the process is gone only after the instance is, as long   *)
(* as the primary has never raised and close() therefore has its one       *)
(* effect at exit, wherever the SIGTERM lands.                             *)
CleanExitUnlessFailed == pc = "exited" /\ ~failed => ~gpu

(* "Release the Net, then the allocators, then the Vulkan instance (in     *)
(* that order)" (close(), backends.py), as long as the primary has never   *)
(* raised: the instance is not destroyed under a live graph.  (Afterwards  *)
(* it can be: the traceback of the failure holds the graph.)               *)
ReleaseOrderUnlessFailed == [][gpu /\ ~gpu' /\ ~failed => ~GraphAlive]_gpuVars

(* Every load() call has, for its caller, one of the outcomes of module    *)
(* FallbackBackend, whatever failed inside it.                             *)
Coarse == INSTANCE FallbackBackend
            WITH wrapped <- TRUE, active <- SeenNow.active, net <- SeenNow.net,
                 closed <- SeenNow.closed, session <- SeenNow.session
ImplementsFallbackBackend == Coarse!BackendSpec

=============================================================================
