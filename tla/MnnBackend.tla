----------------------------- MODULE MnnBackend -----------------------------
(***************************************************************************)
(* MnnBackend.load and close under FallbackBackend.load, step by step      *)
(* (detector/detector/backends.py), over the handles of the C shim         *)
(* (detector/mnn_shim/mnn_shim.cpp).  A handle is a bare pointer that      *)
(* Python neither counts nor frees: only mnn_shim_destroy frees it, and an *)
(* exception or a SIGTERM forgets those that were in a local.  The names   *)
(* that GpuBackend has too begin with mnn: module Engines extends both.    *)
(***************************************************************************)
EXTENDS ModelNames

CONSTANTS Handles,      \* addresses the shim's handles may have
          NoHandle      \* None

ASSUME HandleAssumption == NoHandle \notin Handles

VARIABLES mnnPc,        \* where the process is
          mnnLoading,   \* the argument of the load() in progress, or NoModel
          shim,         \* the model of each handle; NoModel where there is none
          h, oldHandle, \* load()'s (or close()'s) locals
          held,         \* MnnBackend._h
          mnnClosed,    \* MnnBackend._closed
          mnnActive,    \* FallbackBackend.active
          mnnSession,   \* the model of the CPU session
          mnnBefore     \* history: what callers saw when load() was entered

mnnVars == <<mnnPc, mnnLoading, shim, h, oldHandle, held, mnnClosed, mnnActive,
             mnnSession, mnnBefore>>

MaybeHandle == Handles \cup {NoHandle}

Alive == {a \in Handles : shim[a] # NoModel}

MnnLoadSteps == {"convert", "create", "io", "match", "warmup", "release",
                 "raised", "destroy", "unwound"}

MnnTypeOK ==
  /\ mnnPc \in MnnLoadSteps \cup {"idle", "stopping", "exited"}
  /\ mnnLoading \in MaybeModel /\ mnnSession \in MaybeModel
  /\ shim \in [Handles -> MaybeModel]
  /\ {h, oldHandle, held} \subseteq MaybeHandle
  /\ mnnClosed \in BOOLEAN
  /\ mnnActive \in {"none", "primary", "fallback"}
  /\ mnnBefore \in Seen

MnnInit ==
  /\ mnnPc = "idle"
  /\ mnnLoading = NoModel /\ mnnSession = NoModel
  /\ shim = [a \in Handles |-> NoModel]
  /\ h = NoHandle /\ oldHandle = NoHandle /\ held = NoHandle
  /\ mnnClosed = FALSE /\ mnnActive = "none"
  /\ mnnBefore = [active |-> "none", net |-> NoModel, closed |-> FALSE,
                  session |-> NoModel]

Net == IF held = NoHandle THEN NoModel ELSE shim[held]

MnnSeenNow ==
  IF mnnPc = "idle" THEN [active |-> mnnActive, net |-> Net, closed |-> mnnClosed,
                          session |-> mnnSession]
                    ELSE mnnBefore

(* mnn_shim_destroy, which returns at once for NULL. *)
Destroy(a) == shim' = [x \in Handles |-> IF x = a THEN NoModel ELSE shim[x]]

Go(from, to) == mnnPc = from /\ mnnPc' = to

-----------------------------------------------------------------------------
(* MnnBackend.load(m) *)

MnnBeginLoad(m) ==
  /\ Go("idle", "convert")
  /\ mnnLoading' = m
  /\ mnnBefore' = MnnSeenNow
  /\ UNCHANGED <<shim, h, oldHandle, held, mnnClosed, mnnActive, mnnSession>>

(* _onnx_io_meta and _ensure_converted, mnn_shim_create, _io or the warm-up *)
(* raises; what _io was reading from is forgotten.                          *)
LoadRaises ==
  /\ mnnPc \in {"convert", "create", "io", "warmup"}
  /\ mnnPc' = "raised"
  /\ UNCHANGED <<mnnLoading, shim, h, oldHandle, held, mnnClosed, mnnActive,
                 mnnSession, mnnBefore>>

MnnConvert ==
  /\ Go("convert", "create")
  /\ UNCHANGED <<mnnLoading, shim, h, oldHandle, held, mnnClosed, mnnActive,
                 mnnSession, mnnBefore>>

Create ==
  /\ Go("create", "io")
  /\ \E a \in Handles \ Alive :
       h' = a /\ shim' = [shim EXCEPT ![a] = mnnLoading]
  /\ UNCHANGED <<mnnLoading, oldHandle, held, mnnClosed, mnnActive, mnnSession,
                 mnnBefore>>

ReadIo ==
  /\ Go("io", "match")
  /\ UNCHANGED <<mnnLoading, shim, h, oldHandle, held, mnnClosed, mnnActive,
                 mnnSession, mnnBefore>>

(* The graph's inputs and outputs are not the ONNX file's. *)
MnnMismatchRaises ==
  /\ Go("match", "raised")
  /\ Destroy(h)
  /\ UNCHANGED <<mnnLoading, h, oldHandle, held, mnnClosed, mnnActive, mnnSession,
                 mnnBefore>>

(* Mutant: the handle being replaced is destroyed here already. *)
AssignAndDestroy ==
  /\ Go("match", "warmup")
  /\ oldHandle' = held /\ held' = h
  /\ Destroy(held)
  /\ UNCHANGED <<mnnLoading, h, mnnClosed, mnnActive, mnnSession, mnnBefore>>

MnnAssign ==
  /\ Go("match", "warmup")
  /\ oldHandle' = held /\ held' = h
  /\ UNCHANGED <<mnnLoading, shim, h, mnnClosed, mnnActive, mnnSession, mnnBefore>>

MnnWarmUp ==
  /\ Go("warmup", "release")
  /\ UNCHANGED <<mnnLoading, shim, h, oldHandle, held, mnnClosed, mnnActive,
                 mnnSession, mnnBefore>>

(* Mutant: the handle that was replaced is not destroyed. *)
ReleaseNothing ==
  /\ Go("release", "idle")
  /\ mnnActive' = "primary"
  /\ mnnLoading' = NoModel /\ h' = NoHandle /\ oldHandle' = NoHandle
  /\ UNCHANGED <<shim, held, mnnClosed, mnnSession, mnnBefore>>

(* The replaced handle is destroyed and FallbackBackend.load returns. *)
Release ==
  /\ Go("release", "idle")
  /\ Destroy(oldHandle)
  /\ mnnActive' = "primary"
  /\ mnnLoading' = NoModel /\ h' = NoHandle /\ oldHandle' = NoHandle
  /\ UNCHANGED <<held, mnnClosed, mnnSession, mnnBefore>>

-----------------------------------------------------------------------------
(* The except block of FallbackBackend.load, and close(). *)

MnnCloseAfterFailure ==
  /\ mnnPc = "raised"
  /\ mnnPc' = IF mnnClosed THEN "unwound" ELSE "destroy"
  /\ h' = IF mnnClosed THEN h ELSE held
  /\ held' = IF mnnClosed THEN held ELSE NoHandle
  /\ mnnClosed' = TRUE
  /\ UNCHANGED <<mnnLoading, shim, oldHandle, mnnActive, mnnSession, mnnBefore>>

MnnDestroyAfterFailure ==
  /\ Go("destroy", "unwound")
  /\ Destroy(h)
  /\ UNCHANGED <<mnnLoading, h, oldHandle, held, mnnClosed, mnnActive, mnnSession,
                 mnnBefore>>

Unwind == mnnLoading' = NoModel /\ h' = NoHandle /\ oldHandle' = NoHandle

(* Mutant: the wrapper stays with the primary. *)
FallbackForgotten ==
  /\ Go("unwound", "idle")
  /\ mnnSession' = mnnLoading
  /\ Unwind
  /\ UNCHANGED <<shim, held, mnnClosed, mnnActive, mnnBefore>>

(* Mutant: active is set to the engine's name. *)
MnnFallbackNamed ==
  /\ Go("unwound", "idle")
  /\ mnnSession' = mnnLoading /\ mnnActive' = "cpu"
  /\ Unwind
  /\ UNCHANGED <<shim, held, mnnClosed, mnnBefore>>

MnnFallbackLoads ==
  /\ Go("unwound", "idle")
  /\ mnnSession' = mnnLoading /\ mnnActive' = "fallback"
  /\ Unwind
  /\ UNCHANGED <<shim, held, mnnClosed, mnnBefore>>

MnnFallbackRaises ==
  /\ Go("unwound", "idle")
  /\ Unwind
  /\ UNCHANGED <<shim, held, mnnClosed, mnnActive, mnnSession, mnnBefore>>

-----------------------------------------------------------------------------
(* SIGTERM raises SystemExit, and cleanup() closes the backend. *)

MnnSigterm ==
  /\ mnnPc \in MnnLoadSteps \cup {"idle"}
  /\ mnnPc' = "stopping"
  /\ Unwind
  /\ mnnBefore' = MnnSeenNow
  /\ UNCHANGED <<shim, held, mnnClosed, mnnActive, mnnSession>>

MnnCloseAtExit ==
  /\ Go("stopping", "exited")
  /\ IF mnnClosed THEN UNCHANGED <<shim, held>> ELSE Destroy(held) /\ held' = NoHandle
  /\ mnnClosed' = TRUE
  /\ UNCHANGED <<mnnLoading, h, oldHandle, mnnActive, mnnSession, mnnBefore>>

MnnLoadStep ==
  \/ LoadRaises \/ MnnConvert \/ Create \/ ReadIo \/ MnnMismatchRaises
  \/ MnnAssign \/ MnnWarmUp \/ Release
  \/ MnnCloseAfterFailure \/ MnnDestroyAfterFailure
  \/ MnnFallbackLoads \/ MnnFallbackRaises

MnnNext ==
  \/ \E m \in Models : MnnBeginLoad(m)
  \/ MnnLoadStep
  \/ MnnSigterm \/ MnnCloseAtExit

MnnSpec == MnnInit /\ [][MnnNext]_mnnVars

-----------------------------------------------------------------------------

(* mnn_shim_infer never gets a pointer that was destroyed, nor             *)
(* mnn_shim_destroy one that was destroyed before: what _h holds, and what *)
(* a step is about to free, is alive, through every failure and reuse of   *)
(* an address (MnnBackend.load and close).                                 *)
NoDanglingHandle ==
  /\ held # NoHandle => held \in Alive
  /\ mnnPc \in {"match", "destroy"} /\ h # NoHandle => h \in Alive
  /\ mnnPc = "release" /\ oldHandle # NoHandle => oldHandle \in Alive \ {held}

(* An engine that has never failed keeps exactly one graph on the GPU,     *)
(* whatever it has loaded before: load() frees the one it replaces.        *)
OneGraphUnlessFailed == mnnPc = "idle" /\ ~mnnClosed => Alive = {held} \ {NoHandle}

(* Every load() call has, for its caller, one of the outcomes of module    *)
(* FallbackBackend, as with the ncnn engine.                               *)
MnnCoarse == INSTANCE FallbackBackend
               WITH wrapped <- TRUE, active <- MnnSeenNow.active, net <- MnnSeenNow.net,
                    closed <- MnnSeenNow.closed, session <- MnnSeenNow.session
MnnImplementsFallbackBackend == MnnCoarse!BackendSpec

=============================================================================
