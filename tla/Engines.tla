------------------------------ MODULE Engines ------------------------------
(***************************************************************************)
(* The life of the service process as far as its inference engine goes     *)
(* (detector/detector/backends.py, create_backend and its factories;       *)
(* detector/detector/zmq_onnx_client.py, main and the constructor): the    *)
(* engine is chosen by name, a GPU engine that cannot be constructed is    *)
(* replaced, a pinned model is loaded before the server starts, and a      *)
(* SIGTERM may land anywhere.  The engine that was chosen then takes the   *)
(* steps of module GpuBackend or MnnBackend.                               *)
(*                                                                         *)
(* The engines without native objects ("cpu", "coreml", "onnxruntime",     *)
(* "ncnn-cpu") have no steps here: module FallbackBackend has their loads. *)
(***************************************************************************)
EXTENDS GpuBackend, MnnBackend, Naturals, Sequences

CONSTANT Preferences    \* values DETECTOR_VULKAN_PREFERENCE may have

Factories == {"cpu", "coreml", "onnxruntime", "ncnn-vulkan", "ncnn-cpu",
              "mnn-vulkan", "vulkan"}
Engine == Factories \ {"vulkan"}

(* The alias is not one of its own candidates; other names may be unknown. *)
ASSUME PreferenceAssumption == Preferences \subseteq Seq(Engine \cup {"unknown"})

VARIABLES life,         \* how far the process is
          asked,        \* --backend, or DETECTOR_BACKEND
          providers,    \* --providers was given
          preference,   \* VULKAN_PREFERENCE
          pinned,       \* --model, or NoModel for AUTO
          name,         \* the name create_backend looks up
          turn,         \* the candidate it is at
          skipped,      \* the candidates whose factories have raised
          engine        \* the engine it returned

lifeVars == <<asked, providers, preference, pinned>>
choiceVars == <<name, turn, skipped, engine>>
unloadedVars == <<pc, loading, built, old, net, closed, active, session, before, failed>>
engineVars == <<life, lifeVars, choiceVars, gpuVars, mnnVars>>

Starting == {"starting", "creating", "constructing", "loading"}
Ended == {"refused", "killed", "closed"}

Candidates == IF name = "vulkan" THEN preference ELSE <<name>>

EngineTypeOK ==
  /\ life \in Starting \cup {"serving"} \cup Ended
  /\ asked \in Factories \cup {"auto", "unknown"}
  /\ providers \in BOOLEAN /\ preference \in Preferences
  /\ pinned \in MaybeModel
  /\ name \in Factories \cup {"none", "unknown"}
  /\ turn \in 1..Len(Candidates) + 1
  /\ skipped \subseteq Engine \cup {"unknown"}
  /\ engine \in Engine \cup {"none"}

(* No constructor has run, so there is no Vulkan instance.  (argparse does *)
(* not hold a default from the environment against its choices.)           *)
EngineInit ==
  /\ life = "starting"
  /\ asked \in Factories \cup {"auto", "unknown"}
  /\ providers \in BOOLEAN /\ preference \in Preferences
  /\ pinned \in MaybeModel
  /\ name = "none" /\ turn = 1 /\ skipped = {} /\ engine = "none"
  /\ NothingLoaded /\ gpu = FALSE
  /\ MnnInit

-----------------------------------------------------------------------------
(* create_backend *)

(* Mutant: "auto" is looked up like any other name. *)
ChooseNameAsGiven ==
  /\ life = "starting"
  /\ name' = asked
  /\ life' = IF name' \in Factories THEN "creating" ELSE "refused"
  /\ UNCHANGED <<lifeVars, turn, skipped, engine, gpuVars, mnnVars>>

(* The first lines: default_backend_name() says "coreml" on a Mac that has *)
(* it, and a name without a factory raises out of the constructor.         *)
ChooseName ==
  /\ life = "starting"
  /\ name' \in CASE providers /\ asked \in {"auto", "onnxruntime"} -> {"onnxruntime"}
                 [] ~providers /\ asked = "auto"                   -> {"coreml", "cpu"}
                 [] OTHER                                          -> {asked}
  /\ life' = IF name' \in Factories THEN "creating" ELSE "refused"
  /\ UNCHANGED <<lifeVars, turn, skipped, engine, gpuVars, mnnVars>>

(* Mutant: the MNN engine looks for its device with ncnn. *)
ConstructedByProbing ==
  /\ life = "creating" /\ turn <= Len(Candidates)
  /\ engine' = Candidates[turn]
  /\ engine' \in Engine
  /\ engine' = "onnxruntime" => providers
  /\ gpu' = (gpu \/ engine' \in {"ncnn-vulkan", "mnn-vulkan"})
  /\ life' = "constructing"
  /\ UNCHANGED <<lifeVars, name, turn, skipped, mnnVars>>
  /\ UNCHANGED unloadedVars

(* A factory returns its engine.  NcnnBackend has enumerated the devices   *)
(* by then, which creates the Vulkan instance.                             *)
Constructed ==
  /\ life = "creating" /\ turn <= Len(Candidates)
  /\ engine' = Candidates[turn]
  /\ engine' \in Engine
  /\ engine' = "onnxruntime" => providers
  /\ gpu' = (gpu \/ engine' = "ncnn-vulkan")
  /\ life' = "constructing"
  /\ UNCHANGED <<lifeVars, name, turn, skipped, mnnVars>>
  /\ UNCHANGED unloadedVars

(* Mutant: the preference is given up with the first candidate. *)
GiveUpPreference ==
  /\ life = "creating" /\ turn <= Len(Candidates)
  /\ Candidates[turn] # "cpu"
  /\ Candidates[turn] = "onnxruntime" => ~providers
  /\ skipped' = skipped \cup {Candidates[turn]}
  /\ turn' = Len(Candidates) + 1
  /\ gpu' \in {gpu, gpu \/ Candidates[turn] = "ncnn-vulkan"}
  /\ UNCHANGED <<life, lifeVars, name, engine, mnnVars>>
  /\ UNCHANGED unloadedVars

(* Or it raises: no wheel, no shim, no device of the right type, no factory *)
(* of that name in the preference.  NcnnBackend may raise before or after   *)
(* it has enumerated the devices, and has then no owner to close it.        *)
ConstructorRaises ==
  /\ life = "creating" /\ turn <= Len(Candidates)
  /\ Candidates[turn] # "cpu"
  /\ Candidates[turn] = "onnxruntime" => ~providers
  /\ skipped' = skipped \cup {Candidates[turn]}
  /\ turn' = turn + 1
  /\ gpu' \in {gpu, gpu \/ Candidates[turn] = "ncnn-vulkan"}
  /\ UNCHANGED <<life, lifeVars, name, engine, mnnVars>>
  /\ UNCHANGED unloadedVars

(* Every candidate raised: 'cpu' instead. *)
CpuInstead ==
  /\ life = "creating" /\ turn > Len(Candidates)
  /\ engine' = "cpu"
  /\ life' = "constructing"
  /\ UNCHANGED <<lifeVars, name, turn, skipped, gpuVars, mnnVars>>

-----------------------------------------------------------------------------
(* The rest of the constructor, and main. *)

LoadPinned ==
  /\ life = "constructing" /\ pinned # NoModel
  /\ life' = "loading"
  /\ \/ engine = "ncnn-vulkan" /\ BeginLoad(pinned) /\ UNCHANGED mnnVars
     \/ engine = "mnn-vulkan" /\ MnnBeginLoad(pinned) /\ UNCHANGED gpuVars
  /\ UNCHANGED <<lifeVars, choiceVars>>

(* A pinned model that does not load does not stop the constructor. *)
LoadingPinned ==
  /\ life = "loading"
  /\ \/ LoadStep /\ UNCHANGED mnnVars
     \/ MnnLoadStep /\ UNCHANGED gpuVars
  /\ life' = IF pc' = "idle" /\ mnnPc' = "idle" THEN "serving" ELSE "loading"
  /\ UNCHANGED <<lifeVars, choiceVars>>

StartServer ==
  /\ life = "constructing"
  /\ pinned = NoModel \/ engine \notin {"ncnn-vulkan", "mnn-vulkan"}
  /\ life' = "serving"
  /\ UNCHANGED <<lifeVars, choiceVars, gpuVars, mnnVars>>

(* A SIGTERM before start_server: SystemExit leaves main without cleanup() *)
(* because no try block is entered yet.  What is alive now is not closed.  *)
KilledInConstructor ==
  /\ life \in Starting
  /\ life' = "killed"
  /\ UNCHANGED <<lifeVars, choiceVars, gpuVars, mnnVars>>

(* start_server: the engine serves and loads until the SIGTERM is handled. *)
Serve ==
  /\ life = "serving"
  /\ \/ engine = "ncnn-vulkan" /\ Next /\ UNCHANGED mnnVars
     \/ engine = "mnn-vulkan" /\ MnnNext /\ UNCHANGED gpuVars
  /\ life' = IF pc' = "exited" \/ mnnPc' = "exited" THEN "closed" ELSE "serving"
  /\ UNCHANGED <<lifeVars, choiceVars>>

(* cleanup() of an engine without native objects. *)
StopPlain ==
  /\ life = "serving" /\ engine \notin {"ncnn-vulkan", "mnn-vulkan"}
  /\ life' = "closed"
  /\ UNCHANGED <<lifeVars, choiceVars, gpuVars, mnnVars>>

EngineNext ==
  \/ ChooseName \/ Constructed \/ ConstructorRaises \/ CpuInstead
  \/ LoadPinned \/ LoadingPinned \/ StartServer \/ KilledInConstructor
  \/ Serve \/ StopPlain

EngineSpec == EngineInit /\ [][EngineNext]_engineVars

-----------------------------------------------------------------------------

(* The engine is the first of its candidates whose factory works: the name *)
(* asked for, or those of the preference in their order; and "cpu" stands  *)
(* in exactly when each of them has raised (_vulkan_backend,               *)
(* create_backend).                                                        *)
EngineIsFirstUsable ==
  engine # "none" =>
    \E i \in 1..Len(Candidates) + 1 :
      /\ engine = IF i <= Len(Candidates) THEN Candidates[i] ELSE "cpu"
      /\ \A j \in 1..i - 1 : Candidates[j] \in skipped

(* A process that is gone has left its Vulkan instance behind only in one  *)
(* of three ways: it was killed before the server ran (main enters its try *)
(* block after the constructor), the engine had raised and was opened      *)
(* again, or a constructor had created the instance and then raised, so    *)
(* that no engine owned it.                                                *)
LeftInstanceIsExplained ==
  life \in Ended /\ gpu =>
    \/ life = "killed"
    \/ engine = "ncnn-vulkan" /\ failed
    \/ engine # "ncnn-vulkan" /\ "ncnn-vulkan" \in skipped

=============================================================================
