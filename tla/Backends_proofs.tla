--------------------------- MODULE Backends_proofs --------------------------
(***************************************************************************)
(* Proofs about the two engine modules, GpuBackend for any models, and     *)
(* MnnBackend for any models and any addresses its shim's handles have.    *)
(***************************************************************************)
EXTENDS GpuBackend, MnnBackend, TLAPS

-----------------------------------------------------------------------------
(* GpuBackend *)

(* The local net holds the graph of the model being loaded from the build  *)
(* to the end of the warm-up, and no local outlives load().                *)
LocalsOK ==
  /\ pc \in LoadSteps => loading \in Models
  /\ pc \in {"check", "warmup"} => built = loading
  /\ pc = "warmup" => net = loading
  /\ pc \in {"idle", "stopping", "stopDestroy", "exited"}
       => built = NoModel /\ old = NoModel

(* A graph in self.net has its instance; the instance is there from the    *)
(* build on, and is only destroyed after self.net was dropped.             *)
InstanceOK ==
  /\ net # NoModel => gpu
  /\ pc \in {"check", "warmup"} => gpu
  /\ pc \in {"destroy", "stopDestroy"} => net = NoModel

(* Before the first close() the fallback has never been used, and the      *)
(* primary is active from the end of its first warm-up.                    *)
NeverFailedOK ==
  /\ pc \in {"destroy", "unwound"} => closed
  /\ ~closed => session = NoModel /\ active \in {"none", "primary"}
  /\ ~closed /\ pc \in {"idle", "convert", "build", "reconvert", "rebuild", "check"}
       => (active = "primary" <=> net # NoModel)

(* As long as the engine has not raised, close() runs once, at exit. *)
HealthyOK ==
  ~failed =>
    /\ pc \notin {"raised", "destroy", "unwound"}
    /\ closed => pc \in {"stopDestroy", "exited"}
    /\ pc = "exited" => ~gpu

(* While a load runs, callers see what was there when it was entered: the  *)
(* flags change only in the step that returns, and self.net and _closed    *)
(* only as one outcome of module FallbackBackend has them at its end.      *)
BeforeOK ==
  /\ pc \in LoadSteps => active = before.active /\ session = before.session
  /\ pc \in {"convert", "build", "reconvert", "rebuild", "check", "warmup", "raised"}
       => closed = before.closed
  /\ pc \in {"convert", "build", "reconvert", "rebuild", "check"} => net = before.net
  /\ pc = "raised" => net \in {before.net, loading}
  /\ pc = "destroy" => ~before.closed
  /\ pc = "unwound" => net \in IF before.closed THEN {before.net, loading} ELSE {NoModel}

GpuInv == GpuTypeOK /\ LocalsOK /\ InstanceOK /\ NeverFailedOK /\ HealthyOK /\ BeforeOK

LEMMA GpuInvInit == Init => GpuInv
<1> SUFFICES ASSUME Init PROVE GpuInv
  OBVIOUS
<1>1. GpuTypeOK
  BY DEF Init, NothingLoaded, GpuTypeOK, Seen, MaybeModel
<1>2. LocalsOK /\ InstanceOK /\ NeverFailedOK /\ HealthyOK /\ BeforeOK
  BY DEF Init, NothingLoaded, LocalsOK, InstanceOK, NeverFailedOK, HealthyOK,
         BeforeOK, LoadSteps
<1> QED
  BY <1>1, <1>2 DEF GpuInv

(* The history of module GpuBackend keeps its type. *)
LEMMA SeenNowType == GpuTypeOK => SeenNow \in Seen
  BY DEF GpuTypeOK, SeenNow, Seen, MaybeModel

(* One step per action; each needs the locals and the flags it reads. *)
LEMMA GpuInvStep == GpuInv /\ [Next]_gpuVars => GpuInv'
<1> SUFFICES ASSUME GpuInv, [Next]_gpuVars PROVE GpuInv'
  OBVIOUS
<1> USE ModelsAssumption
    DEF GpuInv, GpuTypeOK, LocalsOK, InstanceOK, NeverFailedOK, HealthyOK, BeforeOK,
        MaybeModel, LoadSteps
<1>1. ASSUME NEW m \in Models, BeginLoad(m) PROVE GpuInv'
  BY <1>1 DEF BeginLoad, Seen
<1>2. CASE Convert
  BY <1>2 DEF Convert
<1>3. CASE ConvertRaises
  BY <1>3 DEF ConvertRaises
<1>4. CASE Build
  BY <1>4 DEF Build
<1>5. CASE BuildRaises
  BY <1>5 DEF BuildRaises
<1>6. CASE MismatchRaises
  BY <1>6 DEF MismatchRaises
<1>7. CASE Assign
  BY <1>7 DEF Assign
<1>8. CASE WarmUp
  BY <1>8 DEF WarmUp
<1>9. CASE WarmUpRaises
  BY <1>9 DEF WarmUpRaises
<1>10. CASE CloseAfterFailure
  BY <1>10 DEF CloseAfterFailure
<1>11. CASE DestroyAfterFailure
  BY <1>11 DEF DestroyAfterFailure
<1>12. CASE FallbackLoads
  BY <1>12 DEF FallbackLoads
<1>13. CASE FallbackRaises
  BY <1>13 DEF FallbackRaises
<1>14. CASE Sigterm
  BY <1>14, SeenNowType DEF Sigterm
<1>15. CASE CloseAtExit
  BY <1>15 DEF CloseAtExit
<1>16. CASE DestroyAtExit
  BY <1>16 DEF DestroyAtExit
<1>17. CASE UNCHANGED gpuVars
  BY <1>17 DEF gpuVars
<1> QED
  BY <1>1, <1>2, <1>3, <1>4, <1>5, <1>6, <1>7, <1>8, <1>9, <1>10, <1>11, <1>12,
     <1>13, <1>14, <1>15, <1>16, <1>17 DEF Next, LoadStep

LEMMA GpuInvAlways == Spec => []GpuInv
  BY GpuInvInit, GpuInvStep, PTL DEF Spec

(* The variables keep their types. *)
THEOREM TypeCorrect == Spec => []GpuTypeOK
  BY GpuInvAlways, PTL DEF GpuInv

(* Whatever loads failed before, a graph that serves has its instance. *)
THEOREM ServingGraphSafe == Spec => []ServingGraphHasInstance
<1>1. GpuInv => ServingGraphHasInstance
  BY DEF GpuInv, InstanceOK, ServingGraphHasInstance
<1> QED
  BY GpuInvAlways, <1>1, PTL

(* An engine that has never been closed serves what it loaded last. *)
THEOREM NeverFailedSafe == Spec => []NeverFailedServesPrimary
<1>1. GpuInv => NeverFailedServesPrimary
  BY DEF GpuInv, NeverFailedOK, NeverFailedServesPrimary
<1> QED
  BY GpuInvAlways, <1>1, PTL

(* An engine that has never raised is shut down cleanly, wherever the      *)
(* SIGTERM lands.                                                          *)
THEOREM HealthyCleanExit == Spec => []CleanExitUnlessFailed
<1>1. GpuInv => CleanExitUnlessFailed
  BY DEF GpuInv, HealthyOK, CleanExitUnlessFailed
<1> QED
  BY GpuInvAlways, <1>1, PTL

LEMMA HealthyReleaseStep ==
  GpuInv /\ [Next]_gpuVars => [gpu /\ ~gpu' /\ ~failed => ~GraphAlive]_gpuVars
<1> SUFFICES ASSUME GpuInv, Next, gpu, ~gpu', ~failed PROVE ~GraphAlive
  OBVIOUS
<1>1. DestroyAfterFailure \/ DestroyAtExit
  BY DEF Next, LoadStep, BeginLoad, Convert, ConvertRaises, Build, BuildRaises,
         MismatchRaises, Assign, WarmUp, WarmUpRaises, CloseAfterFailure, FallbackLoads,
         FallbackRaises, Sigterm, CloseAtExit
<1>2. ~DestroyAfterFailure
  BY DEF GpuInv, HealthyOK, DestroyAfterFailure
<1>3. CASE DestroyAtExit
  BY <1>3 DEF GpuInv, LocalsOK, InstanceOK, DestroyAtExit, GraphAlive
<1> QED
  BY <1>1, <1>2, <1>3

(* And its instance is destroyed only when no graph is left on it: the one *)
(* step that destroys it comes after self.net and the locals are gone.     *)
THEOREM HealthyReleaseOrder == Spec => ReleaseOrderUnlessFailed
<1>1. Spec => [][Next]_gpuVars
  BY DEF Spec
<1> QED
  BY GpuInvAlways, HealthyReleaseStep, <1>1, PTL DEF ReleaseOrderUnlessFailed

(* A step of the engine is one call of load() for its caller, or none: the *)
(* steps that return are, and everything before them is a stutter.         *)
LEMMA GpuRefinesStep ==
  GpuInv /\ [Next]_gpuVars
    => [\E m \in Models : Coarse!LoadSucceeds(m)
                         \/ Coarse!LoadFails(m)]_(Coarse!backendVars)
<1> SUFFICES ASSUME GpuInv, [Next]_gpuVars
             PROVE  [\E m \in Models : Coarse!LoadSucceeds(m)
                                  \/ Coarse!LoadFails(m)]_(Coarse!backendVars)
  OBVIOUS
<1>1. CASE SeenNow' = SeenNow
  BY <1>1 DEF Coarse!backendVars
<1>2. CASE WarmUp
  <2>1. SeenNow = before /\ SeenNow'.active = "primary" /\ SeenNow'.net = loading
        /\ SeenNow'.closed = before.closed /\ SeenNow'.session = before.session
    BY <1>2 DEF WarmUp, SeenNow, GpuInv, LocalsOK, BeforeOK, LoadSteps
  <2>2. Coarse!LoadPrimary(loading)
    BY <2>1 DEF Coarse!LoadPrimary
  <2>3. loading \in Models
    BY <1>2 DEF WarmUp, GpuInv, LocalsOK, LoadSteps
  <2> QED
    BY <2>2, <2>3 DEF Coarse!LoadSucceeds
<1>3. ASSUME FallbackLoads \/ FallbackRaises
      PROVE  /\ loading \in Models
             /\ \E assigned \in BOOLEAN : Coarse!PrimaryFails(loading, assigned)
             /\ SeenNow = before
  <2>1. loading \in Models /\ SeenNow = before
    BY <1>3 DEF FallbackLoads, FallbackRaises, SeenNow, GpuInv, LocalsOK, LoadSteps
  <2>2. SeenNow'.net = net /\ SeenNow'.closed = TRUE
    BY <1>3 DEF FallbackLoads, FallbackRaises, SeenNow, GpuInv, GpuTypeOK, NeverFailedOK
  <2>3. net \in IF before.closed THEN {before.net, loading} ELSE {NoModel}
    BY <1>3 DEF FallbackLoads, FallbackRaises, GpuInv, BeforeOK
  <2>4. before.closed \in BOOLEAN
    BY DEF GpuInv, GpuTypeOK, Seen
  <2>5. CASE net = before.net \/ ~before.closed
    <3>1. Coarse!PrimaryFails(loading, FALSE)
      BY <2>1, <2>2, <2>3, <2>4, <2>5 DEF Coarse!PrimaryFails
    <3> QED
      BY <2>1, <3>1
  <2>6. CASE before.closed /\ net = loading
    <3>1. Coarse!PrimaryFails(loading, TRUE)
      BY <2>1, <2>2, <2>6 DEF Coarse!PrimaryFails
    <3> QED
      BY <2>1, <3>1
  <2> QED
    BY <2>3, <2>4, <2>5, <2>6
<1>4. CASE FallbackLoads
  <2>1. SeenNow'.active = "fallback" /\ SeenNow'.session = loading
    BY <1>4 DEF FallbackLoads, SeenNow
  <2> QED
    BY <1>3, <1>4, <2>1 DEF Coarse!LoadFallback, Coarse!LoadSucceeds
<1>5. CASE FallbackRaises
  <2>1. SeenNow'.active = before.active /\ SeenNow'.session = before.session
    BY <1>5 DEF FallbackRaises, SeenNow, GpuInv, BeforeOK, LoadSteps
  <2> QED
    BY <1>3, <1>5, <2>1 DEF Coarse!LoadNeither, Coarse!LoadFails
<1>6. (\E m \in Models : BeginLoad(m)) \/ Sigterm \/ UNCHANGED gpuVars => SeenNow' = SeenNow
  BY DEF BeginLoad, Sigterm, gpuVars, SeenNow
<1>7. Convert \/ ConvertRaises \/ Build \/ BuildRaises \/ MismatchRaises \/ Assign
      \/ WarmUpRaises \/ CloseAfterFailure \/ DestroyAfterFailure
      \/ CloseAtExit \/ DestroyAtExit
      => SeenNow' = SeenNow
  BY DEF Convert, ConvertRaises, Build, BuildRaises, MismatchRaises, Assign, WarmUpRaises,
         CloseAfterFailure, DestroyAfterFailure, CloseAtExit, DestroyAtExit, SeenNow
<1> QED
  BY <1>1, <1>2, <1>4, <1>5, <1>6, <1>7 DEF Next, LoadStep

LEMMA GpuRefinesInit == NothingLoaded => Coarse!BackendInit
  BY DEF NothingLoaded, Coarse!BackendInit, SeenNow

(* GpuBackend implements FallbackBackend for any models: whatever fails    *)
(* inside NcnnBackend.load, its caller sees one of the four outcomes that  *)
(* FallbackBackend.load has, and nothing of the steps between.             *)
THEOREM GpuImplements == Spec => ImplementsFallbackBackend
<1>1. Init => Coarse!BackendInit
  BY GpuRefinesInit DEF Init
<1> QED
  BY <1>1, GpuInvAlways, GpuRefinesStep, PTL
     DEF Spec, ImplementsFallbackBackend, Coarse!BackendSpec

-----------------------------------------------------------------------------
(* MnnBackend *)

(* The handles that load() and its caller still know of, step by step. *)
Known ==
  CASE mnnPc \in {"io", "match"}       -> {held, h}
    [] mnnPc \in {"warmup", "release"} -> {held, oldHandle}
    [] OTHER                           -> {held}

(* What callers saw when load() was entered, as in GpuBackend. *)
MnnBeforeOK ==
  /\ mnnPc \in MnnLoadSteps
       => mnnActive = mnnBefore.active /\ mnnSession = mnnBefore.session
  /\ mnnPc \in {"convert", "create", "io", "match", "warmup", "release", "raised"}
       => mnnClosed = mnnBefore.closed
  /\ mnnPc \in {"convert", "create", "io", "match"} => Net = mnnBefore.net
  /\ mnnPc \in {"io", "match", "warmup", "release"} => shim[h] = mnnLoading
  /\ mnnPc \in {"warmup", "release"} => held = h
  /\ mnnPc = "raised" => Net \in {mnnBefore.net, mnnLoading}
  /\ mnnPc = "destroy" => ~mnnBefore.closed
  /\ mnnPc = "unwound"
       => Net \in IF mnnBefore.closed THEN {mnnBefore.net, mnnLoading} ELSE {NoModel}

MnnInv ==
  /\ MnnTypeOK
  /\ mnnPc \in MnnLoadSteps => mnnLoading \in Models
  /\ held # NoHandle => held \in Alive
  /\ mnnPc \in {"io", "match"} => h \in Alive /\ h # held
  /\ mnnPc \in {"warmup", "release"}
       => /\ held # NoHandle
          /\ oldHandle # NoHandle => oldHandle \in Alive
          /\ oldHandle # held
  /\ mnnPc \in {"destroy", "unwound"} => mnnClosed
  /\ mnnPc = "destroy" => held = NoHandle /\ (h # NoHandle => h \in Alive)
  /\ ~mnnClosed /\ mnnPc \in {"idle", "convert", "create", "io", "match", "warmup",
                              "release"}
       => Alive = Known \ {NoHandle}
  /\ MnnBeforeOK

LEMMA InitMnn == MnnInit => MnnInv
<1> SUFFICES ASSUME MnnInit PROVE MnnInv
  OBVIOUS
<1>1. shim \in [Handles -> MaybeModel] /\ Alive = {}
  BY DEF MnnInit, MaybeModel, Alive
<1>2. mnnBefore \in Seen
  BY DEF MnnInit, Seen, MaybeModel
<1>3. MnnTypeOK
  BY <1>1, <1>2 DEF MnnInit, MnnTypeOK, MaybeModel, MaybeHandle
<1> QED
  BY <1>1, <1>3 DEF MnnInit, MnnInv, MnnLoadSteps, Known, MnnBeforeOK

(* A destroyed handle is the only one that goes. *)
LEMMA DestroyOne ==
  ASSUME MnnTypeOK, NEW a, Destroy(a)
  PROVE  /\ shim' \in [Handles -> MaybeModel] /\ Alive' = Alive \ {a}
         /\ \A x \in Handles \ {a} : shim'[x] = shim[x]
<1>1. shim' \in [Handles -> MaybeModel]
  BY DEF MnnTypeOK, Destroy, MaybeModel
<1>2. ASSUME NEW x \in Handles
      PROVE  shim'[x] # NoModel <=> (shim[x] # NoModel /\ x # a)
  BY DEF Destroy
<1>3. \A x \in Handles \ {a} : shim'[x] = shim[x]
  BY DEF Destroy
<1> QED
  BY <1>1, <1>2, <1>3 DEF Alive

LEMMA SeenIsSeen == MnnTypeOK => MnnSeenNow \in Seen
  BY DEF MnnTypeOK, MnnSeenNow, Seen, Net, MaybeModel, MaybeHandle

LEMMA NextMnn == MnnInv /\ [MnnNext]_mnnVars => MnnInv'
<1> SUFFICES ASSUME MnnInv, [MnnNext]_mnnVars PROVE MnnInv'
  OBVIOUS
<1> USE HandleAssumption
<1> USE DEF MnnInv, MnnTypeOK, MnnLoadSteps, Go, Unwind, MaybeHandle, MaybeModel, Known,
           MnnBeforeOK, Net
<1>1. ASSUME NEW m \in Models, MnnBeginLoad(m) PROVE MnnInv'
  <2>1. mnnBefore' = [active |-> mnnActive, net |-> Net, closed |-> mnnClosed,
                      session |-> mnnSession]
    BY <1>1 DEF MnnBeginLoad, MnnSeenNow
  <2>2. mnnBefore' \in Seen
    BY <1>1, SeenIsSeen DEF MnnBeginLoad
  <2> QED
    BY <1>1, <2>1, <2>2 DEF MnnBeginLoad, Alive
<1>2. CASE LoadRaises
  BY <1>2 DEF LoadRaises, Alive
<1>3. CASE MnnConvert
  BY <1>3 DEF MnnConvert, Alive
<1>4. CASE Create
  <2>1. PICK a \in Handles \ Alive : h' = a /\ shim' = [shim EXCEPT ![a] = mnnLoading]
    BY <1>4 DEF Create
  <2>2. mnnLoading \in Models /\ mnnLoading # NoModel
    BY <1>4, ModelsAssumption DEF Create
  <2>3. shim' \in [Handles -> Models \cup {NoModel}] /\ Alive' = Alive \cup {a}
    BY <2>1, <2>2 DEF Alive
  <2>4. held # a
    BY <2>1
  <2> QED
    BY <1>4, <2>1, <2>3, <2>4 DEF Create
<1>5. CASE ReadIo
  BY <1>5 DEF ReadIo, Alive
<1>6. CASE MnnMismatchRaises
  BY <1>6, DestroyOne DEF MnnMismatchRaises
<1>7. CASE MnnAssign
  BY <1>7 DEF MnnAssign, Alive
<1>8. CASE MnnWarmUp
  BY <1>8 DEF MnnWarmUp, Alive
<1>9. CASE Release
  BY <1>9, DestroyOne DEF Release
<1>10. CASE MnnCloseAfterFailure
  BY <1>10 DEF MnnCloseAfterFailure, Alive
<1>11. CASE MnnDestroyAfterFailure
  BY <1>11, DestroyOne DEF MnnDestroyAfterFailure
<1>12. CASE MnnFallbackLoads
  BY <1>12 DEF MnnFallbackLoads, Alive
<1>13. CASE MnnFallbackRaises
  BY <1>13 DEF MnnFallbackRaises, Alive
<1>14. CASE MnnSigterm
  BY <1>14, SeenIsSeen DEF MnnSigterm, Alive
<1>15. CASE MnnCloseAtExit
  <2>1. CASE mnnClosed
    BY <1>15, <2>1 DEF MnnCloseAtExit, Alive
  <2>2. CASE ~mnnClosed
    BY <1>15, <2>2, DestroyOne DEF MnnCloseAtExit
  <2> QED
    BY <2>1, <2>2
<1>16. CASE UNCHANGED mnnVars
  BY <1>16 DEF mnnVars, Alive
<1> QED
  BY <1>1, <1>2, <1>3, <1>4, <1>5, <1>6, <1>7, <1>8, <1>9, <1>10, <1>11, <1>12,
     <1>13, <1>14, <1>15, <1>16 DEF MnnNext, MnnLoadStep

LEMMA MnnIsInductive == MnnSpec => []MnnInv
  BY InitMnn, NextMnn, PTL DEF MnnSpec

(* The variables of the MNN engine keep their types. *)
THEOREM MnnTypeCorrect == MnnSpec => []MnnTypeOK
<1>1. MnnInv => MnnTypeOK
  BY DEF MnnInv
<1> QED
  BY <1>1, MnnIsInductive, PTL

(* No inference and no destroy ever gets a pointer that was destroyed      *)
(* (MnnBackend.load, infer and close), at any reuse of addresses.          *)
THEOREM HandlesAreAlive == MnnSpec => []NoDanglingHandle
<1>1. MnnInv => NoDanglingHandle
  BY DEF MnnInv, NoDanglingHandle
<1> QED
  BY <1>1, MnnIsInductive, PTL

(* Between loads an open engine that has never failed has exactly the graph *)
(* it serves on the GPU, however often it has loaded (MnnBackend.load).      *)
THEOREM HealthyEngineLeaksNothing == MnnSpec => []OneGraphUnlessFailed
<1>1. MnnInv => OneGraphUnlessFailed
  BY DEF MnnInv, OneGraphUnlessFailed, Known
<1> QED
  BY <1>1, MnnIsInductive, PTL

(* Each step of the engine is one load() for its caller, or none, as with  *)
(* the ncnn engine.                                                        *)
LEMMA MnnRefinesStep ==
  MnnInv /\ [MnnNext]_mnnVars
    => [\E m \in Models : MnnCoarse!LoadSucceeds(m)
                         \/ MnnCoarse!LoadFails(m)]_(MnnCoarse!backendVars)
<1> SUFFICES ASSUME MnnInv, [MnnNext]_mnnVars
             PROVE  [\E m \in Models : MnnCoarse!LoadSucceeds(m)
                                  \/ MnnCoarse!LoadFails(m)]_(MnnCoarse!backendVars)
  OBVIOUS
<1>1. CASE MnnSeenNow' = MnnSeenNow
  BY <1>1 DEF MnnCoarse!backendVars
<1>2. CASE Release
  <2>1. mnnLoading \in Models /\ MnnSeenNow = mnnBefore /\ held \in Handles
        /\ shim[held] = mnnLoading /\ oldHandle # held /\ held # NoHandle
        /\ mnnClosed = mnnBefore.closed /\ mnnSession = mnnBefore.session
    BY <1>2 DEF Release, Go, MnnSeenNow, MnnInv, MnnBeforeOK, MnnLoadSteps, Alive
  <2>2. Net' = mnnLoading
    BY <1>2, <2>1 DEF Release, Destroy, Net
  <2>3. MnnSeenNow'.active = "primary" /\ MnnSeenNow'.net = mnnLoading
        /\ MnnSeenNow'.closed = mnnBefore.closed
        /\ MnnSeenNow'.session = mnnBefore.session
    BY <1>2, <2>1, <2>2 DEF Release, Go, MnnSeenNow
  <2>4. MnnCoarse!LoadPrimary(mnnLoading)
    BY <2>1, <2>3 DEF MnnCoarse!LoadPrimary
  <2> QED
    BY <2>1, <2>4 DEF MnnCoarse!LoadSucceeds
<1>3. ASSUME MnnFallbackLoads \/ MnnFallbackRaises
      PROVE  /\ mnnLoading \in Models
             /\ \E assigned \in BOOLEAN : MnnCoarse!PrimaryFails(mnnLoading, assigned)
             /\ MnnSeenNow = mnnBefore
  <2>1. mnnLoading \in Models /\ MnnSeenNow = mnnBefore
    BY <1>3 DEF MnnFallbackLoads, MnnFallbackRaises, Go, MnnSeenNow, MnnInv, MnnLoadSteps
  <2>2. MnnSeenNow'.net = Net /\ MnnSeenNow'.closed = TRUE
    BY <1>3 DEF MnnFallbackLoads, MnnFallbackRaises, Go, MnnSeenNow, MnnInv, MnnTypeOK, Net
  <2>3. Net \in IF mnnBefore.closed THEN {mnnBefore.net, mnnLoading} ELSE {NoModel}
    BY <1>3 DEF MnnFallbackLoads, MnnFallbackRaises, Go, MnnInv, MnnBeforeOK
  <2>4. mnnBefore.closed \in BOOLEAN
    BY DEF MnnInv, MnnTypeOK, Seen
  <2>5. CASE Net = mnnBefore.net \/ ~mnnBefore.closed
    <3>1. MnnCoarse!PrimaryFails(mnnLoading, FALSE)
      BY <2>1, <2>2, <2>3, <2>4, <2>5 DEF MnnCoarse!PrimaryFails
    <3> QED
      BY <2>1, <3>1
  <2>6. CASE mnnBefore.closed /\ Net = mnnLoading
    <3>1. MnnCoarse!PrimaryFails(mnnLoading, TRUE)
      BY <2>1, <2>2, <2>6 DEF MnnCoarse!PrimaryFails
    <3> QED
      BY <2>1, <3>1
  <2> QED
    BY <2>3, <2>4, <2>5, <2>6
<1>4. CASE MnnFallbackLoads
  <2>1. MnnSeenNow'.active = "fallback" /\ MnnSeenNow'.session = mnnLoading
    BY <1>4 DEF MnnFallbackLoads, Go, MnnSeenNow
  <2> QED
    BY <1>3, <1>4, <2>1 DEF MnnCoarse!LoadFallback, MnnCoarse!LoadSucceeds
<1>5. CASE MnnFallbackRaises
  <2>1. MnnSeenNow'.active = mnnBefore.active /\ MnnSeenNow'.session = mnnBefore.session
    BY <1>5 DEF MnnFallbackRaises, Go, MnnSeenNow, MnnInv, MnnBeforeOK, MnnLoadSteps
  <2> QED
    BY <1>3, <1>5, <2>1 DEF MnnCoarse!LoadNeither, MnnCoarse!LoadFails
<1>6. (\E m \in Models : MnnBeginLoad(m)) \/ MnnSigterm \/ UNCHANGED mnnVars
        => MnnSeenNow' = MnnSeenNow
  BY DEF MnnBeginLoad, Go, MnnSigterm, mnnVars, MnnSeenNow, Net
<1>7. LoadRaises \/ MnnConvert \/ Create \/ ReadIo \/ MnnMismatchRaises \/ MnnAssign
      \/ MnnWarmUp \/ MnnCloseAfterFailure \/ MnnDestroyAfterFailure \/ MnnCloseAtExit
      => MnnSeenNow' = MnnSeenNow
  BY DEF LoadRaises, MnnConvert, Create, ReadIo, MnnMismatchRaises, MnnAssign, MnnWarmUp,
         MnnCloseAfterFailure, MnnDestroyAfterFailure, MnnCloseAtExit, Go, MnnSeenNow
<1> QED
  BY <1>1, <1>2, <1>4, <1>5, <1>6, <1>7 DEF MnnNext, MnnLoadStep

LEMMA MnnRefinesInit == MnnInit => MnnCoarse!BackendInit
  BY DEF MnnInit, MnnCoarse!BackendInit, MnnSeenNow, Net

(* MnnBackend implements FallbackBackend too, for any models and however   *)
(* the addresses of its handles are reused.                                *)
THEOREM MnnImplements == MnnSpec => MnnImplementsFallbackBackend
  BY MnnRefinesInit, MnnIsInductive, MnnRefinesStep, PTL
     DEF MnnSpec, MnnImplementsFallbackBackend, MnnCoarse!BackendSpec

=============================================================================
