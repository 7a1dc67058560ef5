--------------------------- MODULE Engines_proofs ---------------------------
(***************************************************************************)
(* Proofs about module Engines, for any models, handles and preferences.   *)
(* The invariants of the two engine modules carry over: whatever the       *)
(* engine, one of them takes its own steps and the other none.             *)
(***************************************************************************)
EXTENDS Engines, Backends_proofs

(* An engine that was not chosen never moves; a Vulkan instance without an *)
(* NcnnBackend is what a failed constructor left.                          *)
LifeOK ==
  /\ life \in {"starting", "refused"} => ~gpu
  /\ life \in {"starting", "creating"} => engine = "none"
  /\ life = "starting" => turn = 1
  /\ life = "creating" => name \in Factories
  /\ engine # "ncnn-vulkan" => pc = "idle" /\ (gpu => "ncnn-vulkan" \in skipped)
  /\ engine # "mnn-vulkan" => mnnPc = "idle"
  /\ life = "closed" /\ engine = "ncnn-vulkan" => pc = "exited"

(* The candidates before the current one have raised. *)
ChoiceOK ==
  /\ \A j \in 1..turn - 1 : Candidates[j] \in skipped
  /\ EngineIsFirstUsable

EngineInv == EngineTypeOK /\ GpuInv /\ MnnInv /\ LifeOK /\ ChoiceOK

LEMMA CandidateList ==
  ASSUME EngineTypeOK
  PROVE  /\ Candidates \in Seq(Factories \cup {"none", "unknown"})
         /\ Len(Candidates) \in Nat
         /\ name = "vulkan" => Candidates \in Seq(Engine \cup {"unknown"})
         /\ name # "vulkan" => Candidates = <<name>> /\ Len(Candidates) = 1
<1>1. name \in Factories \cup {"none", "unknown"} /\ preference \in Seq(Engine \cup {"unknown"})
  BY PreferenceAssumption DEF EngineTypeOK
<1>2. Engine \cup {"unknown"} \subseteq Factories \cup {"none", "unknown"}
  BY DEF Engine
<1>3. CASE name = "vulkan"
  <2>1. Candidates = preference /\ Len(preference) \in Nat
    BY <1>1, <1>3 DEF Candidates
  <2>2. \A i \in 1..Len(preference) : preference[i] \in Factories \cup {"none", "unknown"}
    BY <1>1, <1>2
  <2>3. preference \in Seq(Factories \cup {"none", "unknown"})
    BY <1>1, <2>2
  <2> QED
    BY <1>1, <1>3, <2>1, <2>3
<1>4. CASE name # "vulkan"
  <2>1. Candidates = <<name>>
    BY <1>4 DEF Candidates
  <2> QED
    BY <1>1, <1>4, <2>1
<1> QED
  BY <1>3, <1>4

(* The same configuration has the same candidates. *)
LEMMA SameCandidates ==
  ASSUME UNCHANGED lifeVars, UNCHANGED name
  PROVE  Candidates' = Candidates
  BY DEF lifeVars, Candidates

LEMMA InitEngines == EngineInit => EngineInv
<1> SUFFICES ASSUME EngineInit PROVE EngineInv
  OBVIOUS
<1>1. Candidates = <<"none">> /\ Len(Candidates) = 1
  BY DEF EngineInit, Candidates
<1>2. EngineTypeOK
  BY <1>1 DEF EngineInit, EngineTypeOK, Starting, Factories
<1>3. GpuInv
  BY DEF EngineInit, NothingLoaded, GpuInv, GpuTypeOK, LocalsOK, InstanceOK, NeverFailedOK,
         HealthyOK, BeforeOK, LoadSteps, Seen, MaybeModel
<1>4. MnnInv
  BY InitMnn DEF EngineInit
<1>5. LifeOK /\ ChoiceOK
  BY DEF EngineInit, NothingLoaded, MnnInit, LifeOK, ChoiceOK, EngineIsFirstUsable
<1> QED
  BY <1>2, <1>3, <1>4, <1>5 DEF EngineInv

(* A constructor only ever adds the instance, before any load. *)
LEMMA InstanceAppears ==
  ASSUME GpuInv, pc = "idle", gpu => gpu', gpu' \in BOOLEAN, UNCHANGED unloadedVars
  PROVE  GpuInv'
  BY DEF unloadedVars, GpuInv, GpuTypeOK, LocalsOK, InstanceOK, NeverFailedOK, HealthyOK,
         BeforeOK, LoadSteps, Seen, MaybeModel

(* One lemma per phase of the process. *)
LEMMA CreateStep ==
  ASSUME EngineInv, ChooseName \/ Constructed \/ ConstructorRaises \/ CpuInstead
  PROVE  EngineInv'
<1> USE DEF EngineInv
<1>1. CASE ChooseName
  <2>1. name' \in Factories \cup {"unknown"} /\ turn = 1
    BY <1>1 DEF ChooseName, EngineTypeOK, LifeOK, Factories
  <2>2. Len(Candidates') \in Nat
    BY <1>1, <2>1, PreferenceAssumption DEF ChooseName, lifeVars, EngineTypeOK, Candidates
  <2>3. EngineTypeOK'
    BY <1>1, <2>1, <2>2 DEF ChooseName, lifeVars, EngineTypeOK, Starting, Ended
  <2>4. GpuInv' /\ MnnInv'
    BY <1>1, GpuInvStep, NextMnn DEF ChooseName
  <2>5. LifeOK'
    BY <1>1, <2>1 DEF ChooseName, LifeOK, gpuVars, mnnVars
  <2>6. ChoiceOK'
    BY <1>1, <2>1 DEF ChooseName, LifeOK, ChoiceOK, EngineIsFirstUsable
  <2> QED
    BY <2>3, <2>4, <2>5, <2>6
<1>2. CASE Constructed
  <2>1. Candidates' = Candidates /\ engine = "none" /\ pc = "idle" /\ mnnPc = "idle"
    BY <1>2, SameCandidates DEF Constructed, LifeOK
  <2>2. EngineTypeOK'
    BY <1>2, <2>1 DEF Constructed, lifeVars, EngineTypeOK, Starting
  <2>3. GpuInv' /\ MnnInv'
    BY <1>2, <2>1, InstanceAppears, NextMnn DEF Constructed, GpuInv, GpuTypeOK
  <2>4. LifeOK'
    BY <1>2, <2>1 DEF Constructed, LifeOK, unloadedVars, mnnVars
  <2>5. turn \in 1..Len(Candidates) + 1 /\ turn <= Len(Candidates) /\ Len(Candidates) \in Nat
    BY <1>2, CandidateList DEF Constructed, EngineTypeOK
  <2>6. /\ turn' = turn /\ skipped' = skipped /\ engine' = Candidates[turn]
    BY <1>2 DEF Constructed
  <2>7. ChoiceOK'
    BY <2>1, <2>5, <2>6 DEF ChoiceOK, EngineIsFirstUsable
  <2> QED
    BY <2>2, <2>3, <2>4, <2>7
<1>3. CASE ConstructorRaises
  <2>1. Candidates' = Candidates /\ engine = "none" /\ pc = "idle" /\ mnnPc = "idle"
    BY <1>3, SameCandidates DEF ConstructorRaises, LifeOK
  <2>2. turn \in 1..Len(Candidates) + 1 /\ turn <= Len(Candidates) /\ Len(Candidates) \in Nat
    BY <1>3, CandidateList DEF ConstructorRaises, EngineTypeOK
  <2>3. Candidates[turn] \in Engine \cup {"unknown"}
    <3>1. CASE name = "vulkan"
      BY <2>2, <3>1, CandidateList
    <3>2. CASE name # "vulkan"
      <4>0. Candidates = <<name>> /\ Len(Candidates) = 1
        BY <3>2, CandidateList
      <4>1. turn = 1
        BY <2>2, <4>0
      <4>2. name \in Factories
        BY <1>3 DEF ConstructorRaises, LifeOK
      <4> QED
        BY <3>2, <4>0, <4>1, <4>2 DEF Engine
    <3> QED
      BY <3>1, <3>2
  <2>4. EngineTypeOK'
    <3>1. turn' \in 1..Len(Candidates') + 1
      BY <1>3, <2>1, <2>2 DEF ConstructorRaises
    <3>2. skipped' \subseteq Engine \cup {"unknown"}
      BY <1>3, <2>3 DEF ConstructorRaises, EngineTypeOK
    <3> QED
      BY <1>3, <3>1, <3>2 DEF ConstructorRaises, lifeVars, EngineTypeOK
  <2>5. GpuInv' /\ MnnInv'
    BY <1>3, <2>1, InstanceAppears, NextMnn DEF ConstructorRaises, GpuInv, GpuTypeOK
  <2>6. LifeOK'
    BY <1>3, <2>1 DEF ConstructorRaises, LifeOK, unloadedVars, mnnVars
  <2>7. turn' = turn + 1 /\ skipped' = skipped \cup {Candidates[turn]} /\ engine' = engine
    BY <1>3 DEF ConstructorRaises
  <2>8. ChoiceOK'
    BY <2>1, <2>2, <2>7 DEF ChoiceOK, EngineIsFirstUsable
  <2> QED
    BY <2>4, <2>5, <2>6, <2>8
<1>4. CASE CpuInstead
  <2>1. Candidates' = Candidates /\ engine = "none"
    BY <1>4, SameCandidates DEF CpuInstead, LifeOK
  <2>2. turn = Len(Candidates) + 1 /\ Len(Candidates) \in Nat
    BY <1>4, CandidateList DEF CpuInstead, EngineTypeOK
  <2>3. EngineTypeOK'
    BY <1>4, <2>1 DEF CpuInstead, lifeVars, EngineTypeOK, Starting, Engine, Factories
  <2>4. GpuInv' /\ MnnInv'
    BY <1>4, GpuInvStep, NextMnn DEF CpuInstead
  <2>5. LifeOK'
    BY <1>4, <2>1 DEF CpuInstead, LifeOK, gpuVars, mnnVars
  <2>6. turn' = turn /\ skipped' = skipped /\ engine' = "cpu"
    BY <1>4 DEF CpuInstead
  <2>7. ChoiceOK'
    BY <2>1, <2>2, <2>6 DEF ChoiceOK, EngineIsFirstUsable
  <2> QED
    BY <2>3, <2>4, <2>5, <2>7
<1> QED
  BY <1>1, <1>2, <1>3, <1>4

(* After create_backend the choice stays as it is. *)
LEMMA ChoiceStays ==
  ASSUME EngineInv, UNCHANGED <<lifeVars, choiceVars>>,
         life' \in Starting \cup {"serving"} \cup Ended
  PROVE  EngineTypeOK' /\ ChoiceOK'
<1>1. Candidates' = Candidates
  BY SameCandidates DEF choiceVars
<1> QED
  BY <1>1 DEF EngineInv, EngineTypeOK, ChoiceOK, EngineIsFirstUsable, lifeVars, choiceVars

(* The steps of an engine that has none to take. *)
LEMMA IdleTakesNoLoadStep ==
  /\ pc = "idle" => ~LoadStep
  /\ mnnPc = "idle" => ~MnnLoadStep
  BY DEF LoadStep, Convert, ConvertRaises, Build, BuildRaises, MismatchRaises, Assign,
         WarmUp, WarmUpRaises, CloseAfterFailure, DestroyAfterFailure, FallbackLoads,
         FallbackRaises,
         MnnLoadStep, LoadRaises, MnnConvert, Create, ReadIo, MnnMismatchRaises, MnnAssign,
         MnnWarmUp, Release, MnnCloseAfterFailure, MnnDestroyAfterFailure,
         MnnFallbackLoads, MnnFallbackRaises, Go

LEMMA RunStep ==
  ASSUME EngineInv,
         \/ LoadPinned \/ LoadingPinned \/ StartServer \/ KilledInConstructor
         \/ Serve \/ StopPlain
  PROVE  EngineInv'
<1> USE DEF EngineInv
<1>1. CASE LoadPinned
  <2>1. pinned \in Models
    BY <1>1 DEF LoadPinned, EngineTypeOK, MaybeModel
  <2>2. GpuInv' /\ MnnInv'
    BY <1>1, <2>1, GpuInvStep, NextMnn DEF LoadPinned, Next, MnnNext
  <2>3. LifeOK'
    BY <1>1 DEF LoadPinned, LifeOK, gpuVars, mnnVars, choiceVars
  <2> QED
    BY <1>1, <2>2, <2>3, ChoiceStays DEF LoadPinned, Starting
<1>2. CASE LoadingPinned
  <2>1. GpuInv' /\ MnnInv'
    BY <1>2, GpuInvStep, NextMnn DEF LoadingPinned, Next, MnnNext
  <2>2. LifeOK'
    BY <1>2, IdleTakesNoLoadStep DEF LoadingPinned, LifeOK, gpuVars, mnnVars, choiceVars
  <2> QED
    BY <1>2, <2>1, <2>2, ChoiceStays DEF LoadingPinned, Starting
<1>3. CASE StartServer
  <2>1. GpuInv' /\ MnnInv'
    BY <1>3, GpuInvStep, NextMnn DEF StartServer
  <2>2. LifeOK'
    BY <1>3 DEF StartServer, LifeOK, gpuVars, mnnVars, choiceVars
  <2> QED
    BY <1>3, <2>1, <2>2, ChoiceStays DEF StartServer
<1>4. CASE KilledInConstructor
  <2>1. GpuInv' /\ MnnInv'
    BY <1>4, GpuInvStep, NextMnn DEF KilledInConstructor
  <2>2. LifeOK'
    BY <1>4 DEF KilledInConstructor, LifeOK, gpuVars, mnnVars, choiceVars
  <2> QED
    BY <1>4, <2>1, <2>2, ChoiceStays DEF KilledInConstructor, Ended
<1>5. CASE Serve
  <2>1. GpuInv' /\ MnnInv'
    BY <1>5, GpuInvStep, NextMnn DEF Serve
  <2>2. LifeOK'
    BY <1>5 DEF Serve, LifeOK, gpuVars, mnnVars, choiceVars
  <2> QED
    BY <1>5, <2>1, <2>2, ChoiceStays DEF Serve, Ended
<1>6. CASE StopPlain
  <2>1. GpuInv' /\ MnnInv'
    BY <1>6, GpuInvStep, NextMnn DEF StopPlain
  <2>2. LifeOK'
    BY <1>6 DEF StopPlain, LifeOK, gpuVars, mnnVars, choiceVars
  <2> QED
    BY <1>6, <2>1, <2>2, ChoiceStays DEF StopPlain, Ended
<1> QED
  BY <1>1, <1>2, <1>3, <1>4, <1>5, <1>6

LEMMA NextEngines == EngineInv /\ [EngineNext]_engineVars => EngineInv'
<1> SUFFICES ASSUME EngineInv, [EngineNext]_engineVars PROVE EngineInv'
  OBVIOUS
<1>1. CASE UNCHANGED engineVars
  <2>1. GpuInv' /\ MnnInv'
    BY <1>1, GpuInvStep, NextMnn DEF EngineInv, engineVars
  <2>2. LifeOK'
    BY <1>1 DEF EngineInv, engineVars, LifeOK, gpuVars, mnnVars, choiceVars
  <2> QED
    BY <1>1, <2>1, <2>2, ChoiceStays DEF EngineInv, EngineTypeOK, engineVars
<1> QED
  BY <1>1, CreateStep, RunStep DEF EngineNext

LEMMA EngineInvariant == EngineSpec => []EngineInv
  BY InitEngines, NextEngines, PTL DEF EngineSpec

(* The variables keep their types, whichever engine runs. *)
THEOREM EngineTypeCorrect == EngineSpec => []EngineTypeOK
<1>1. EngineInv => EngineTypeOK
  BY DEF EngineInv
<1> QED
  BY <1>1, EngineInvariant, PTL

(* create_backend returns the first usable candidate, for any preference.  *)
THEOREM FirstUsable == EngineSpec => []EngineIsFirstUsable
<1>1. EngineInv => EngineIsFirstUsable
  BY DEF EngineInv, ChoiceOK
<1> QED
  BY <1>1, EngineInvariant, PTL

(* A process that is gone left its instance only for one of the three      *)
(* reasons.                                                                *)
THEOREM LeftInstance == EngineSpec => []LeftInstanceIsExplained
<1>1. EngineInv => LeftInstanceIsExplained
  BY DEF EngineInv, GpuInv, LifeOK, HealthyOK, LeftInstanceIsExplained, Ended
<1> QED
  BY <1>1, EngineInvariant, PTL

(* The engine properties hold of the whole life of the process too: from   *)
(* the choice of the engine, with a pinned model, to its end.              *)
THEOREM EnginesStaySafe ==
  EngineSpec => [](/\ GpuTypeOK /\ ServingGraphHasInstance /\ NeverFailedServesPrimary
                   /\ CleanExitUnlessFailed
                   /\ MnnTypeOK /\ NoDanglingHandle /\ OneGraphUnlessFailed)
<1>1. EngineInv => /\ GpuTypeOK /\ ServingGraphHasInstance /\ NeverFailedServesPrimary
                   /\ CleanExitUnlessFailed
  BY DEF EngineInv, GpuInv, InstanceOK, NeverFailedOK, HealthyOK, ServingGraphHasInstance,
         NeverFailedServesPrimary, CleanExitUnlessFailed
<1>2. EngineInv => MnnTypeOK /\ NoDanglingHandle /\ OneGraphUnlessFailed
  BY DEF EngineInv, MnnInv, NoDanglingHandle, OneGraphUnlessFailed, Known
<1> QED
  BY <1>1, <1>2, EngineInvariant, PTL

-----------------------------------------------------------------------------
(* The life of the process is, for each engine module, a sequence of its   *)
(* own steps; only a constructor adds to them, and all it does to an       *)
(* engine is to create the Vulkan instance before any load.                *)

LEMMA EngineSteps ==
  ASSUME EngineInv, [EngineNext]_engineVars
  PROVE  /\ [Next]_gpuVars \/ (UNCHANGED unloadedVars /\ (gpu => gpu'))
         /\ [MnnNext]_mnnVars
<1>1. CASE ChooseName \/ CpuInstead \/ StartServer \/ KilledInConstructor \/ StopPlain
  BY <1>1 DEF ChooseName, CpuInstead, StartServer, KilledInConstructor, StopPlain
<1>2. CASE Constructed \/ ConstructorRaises
  BY <1>2 DEF Constructed, ConstructorRaises
<1>3. CASE LoadPinned
  <2>1. pinned \in Models
    BY <1>3 DEF LoadPinned, EngineInv, EngineTypeOK, MaybeModel
  <2> QED
    BY <1>3, <2>1 DEF LoadPinned, Next, MnnNext
<1>4. CASE LoadingPinned \/ Serve
  BY <1>4 DEF LoadingPinned, Serve, Next, MnnNext
<1>5. CASE UNCHANGED engineVars
  BY <1>5 DEF engineVars
<1> QED
  BY <1>1, <1>2, <1>3, <1>4, <1>5 DEF EngineNext

(* The refinement of the ncnn engine in the life of the process. *)
LEMMA EngineRefinesGpu ==
  EngineInv /\ [EngineNext]_engineVars
    => [\E m \in Models : Coarse!LoadSucceeds(m)
                         \/ Coarse!LoadFails(m)]_(Coarse!backendVars)
<1> SUFFICES ASSUME EngineInv, [EngineNext]_engineVars
             PROVE  [\E m \in Models : Coarse!LoadSucceeds(m)
                                  \/ Coarse!LoadFails(m)]_(Coarse!backendVars)
  OBVIOUS
<1>1. CASE [Next]_gpuVars
  BY <1>1, GpuRefinesStep DEF EngineInv
<1>2. CASE UNCHANGED unloadedVars
  <2>1. SeenNow' = SeenNow
    BY <1>2 DEF unloadedVars, SeenNow
  <2> QED
    BY <2>1 DEF Coarse!backendVars
<1> QED
  BY <1>1, <1>2, EngineSteps

(* In the whole life of the process, with a pinned model and a SIGTERM     *)
(* anywhere, a GPU engine that was constructed behaves like module         *)
(* FallbackBackend, whichever of the two it is.                            *)
THEOREM EnginesImplement ==
  EngineSpec => ImplementsFallbackBackend /\ MnnImplementsFallbackBackend
<1>1. EngineInit => Coarse!BackendInit /\ MnnCoarse!BackendInit
  BY GpuRefinesInit, MnnRefinesInit DEF EngineInit
<1>2. EngineInv /\ [EngineNext]_engineVars
        => [\E m \in Models : MnnCoarse!LoadSucceeds(m)
                             \/ MnnCoarse!LoadFails(m)]_(MnnCoarse!backendVars)
  BY EngineSteps, MnnRefinesStep DEF EngineInv
<1> QED
  BY <1>1, <1>2, EngineRefinesGpu, EngineInvariant, PTL
     DEF EngineSpec, ImplementsFallbackBackend, Coarse!BackendSpec,
         MnnImplementsFallbackBackend, MnnCoarse!BackendSpec

(* And a healthy engine's Vulkan instance is never destroyed under one of  *)
(* its graphs, wherever in that life the SIGTERM lands.                    *)
THEOREM EnginesReleaseInOrder == EngineSpec => ReleaseOrderUnlessFailed
<1>1. ASSUME EngineInv, [EngineNext]_engineVars
      PROVE  [gpu /\ ~gpu' /\ ~failed => ~GraphAlive]_gpuVars
  <2>1. CASE [Next]_gpuVars
    BY <1>1, <2>1, HealthyReleaseStep DEF EngineInv
  <2>2. CASE gpu => gpu'
    BY <2>2
  <2> QED
    BY <1>1, <2>1, <2>2, EngineSteps
<1> QED
  BY <1>1, EngineInvariant, PTL DEF EngineSpec, ReleaseOrderUnlessFailed

=============================================================================
