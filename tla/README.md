# TLA+ models of the Frigate detector on Apple silicon

These modules model the program part of this repository: the object detector that runs on
the host and serves Frigate over ZMQ, the plugin inside Frigate that talks to it, the choice
of an inference engine, the engines and their caches, the way from a frame to the rows of an
answer, the wrapper that stands in for ffmpeg, and the scripts that put the patched video
decoder module into the kernel. TLC checks them on small instances; TLAPS proves every safety
property that holds, and the refinements, for every value of the constants.

    tlc -workers 2 -config SysEager.cfg MCDetectorSystem     # one run (cfg and module below)
    tlapm RequestMatching_proofs.tla                         # one module of proofs

## 1. The system

    Frigate process                       host service (systemd, Restart=always)
    +------------------------+   REQ/REP  +----------------------------------------+
    | patches/zmq_ipc.py     | <--------> | detector/zmq_onnx_client.py            |
    |  one REQ socket        |   tcp      |  one REP socket, one thread            |
    |  detect_raw() blocks   |            |  models directory (all that survives)  |
    +------------------------+            |   | create / load / infer / close      |
    | ffmpeg-avd-vk/bin/     |            |   v                                    |
    |   ffmpeg (sh wrapper)  |            | detector/backends.py                   |
    +-----------+------------+            |  create_backend: by name, preference   |
                | decodes on              |  FallbackBackend(primary, CPU session) |
    +-----------v------------+            |   NcnnBackend  -> conversion cache     |
    | kernel: apple_avd      |            |   MnnBackend   -> C shim (handles)     |
    |  avd-driver/*.sh       |            | detector/model_util.py: rows           |
    +------------------------+            +----------------------------------------+

| part | state it keeps | operations | what makes it correct |
|---|---|---|---|
| plugin, `patches/zmq_ipc.py` | socket and its send/receive state, `_model_ready`, time of the last attempt | construct, handshake (ask, push the model), `detect_raw`, retry, timeout | an answer is for the frame that was asked; a late reply is never taken for another; every call returns; a service that comes up is found |
| service, `zmq_onnx_client.py` | socket and its state, `model_ready`, `current_model`, files in the models directory | start, receive, check, save, load, infer, reply, reset the socket, stop | serves what it loaded last; never loses a model a plugin counts on; one reply per request |
| engine choice, `create_backend` and `main` | the candidates tried, the engine | choose, construct, fall back, load the pinned model, serve, end | the first candidate that works; nothing left on the GPU without a known cause |
| `FallbackBackend` | `active` | load, infer, close | a failed load has one of a few known outcomes |
| `NcnnBackend` | `net`, allocators, `_closed`, the Vulkan instance | load with conversion, build, check, warm-up; close | graph only with its instance; released in order |
| ncnn cache | two files beside the ONNX file, their times | freshness test, convert, two renames, reconvert | never trusts a stale pair, never mixes two versions |
| `MnnBackend` + `mnn_shim.cpp` | native handle `_h`, `_closed` | load, infer, close | no use after free, no double free, no leak |
| size and post-processing, `_extract_input_hw`, `model_util.py` | none between requests | size, decode, NMS, rows | the size of the frame sent; each row an object of its own, where it is; the best ones |
| ffmpeg wrapper | the argument list | classify, decide, rebuild, exec | changes detect commands only, and only where it says |
| AVD scripts, `avd-driver/*.sh` | override and index of a kernel, the build in the tree, the module in the kernel | install, undo, reload, restore | what a finished script promised is what boots; no module lost without a word |

Interactions: the plugin and the service exchange two-way messages and share nothing else;
the service calls its engine synchronously; the engine shares the models directory with the
service (which writes the ONNX file), with the converters it runs and with any other instance
started on it. Signals (SIGTERM) arrive between any two steps of the service. The AVD scripts
share files and the kernel with each other, with the operator and with the decoder's clients,
and hold no lock.

Hard behaviours: timeouts that race a late reply; sockets closed with a request in flight;
restarts of either side between any two steps; a handshake that leaves its socket waiting;
two plugins with different models; files written in place or renamed one after the other
when the process dies; engines that are closed once and opened again; a constructor that
raises with native objects alive; native handles kept in two places while a load runs; boxes
in four formats through one suppression; a check of a device or file and its use in separate
commands; a script ended between two commands and run again. `PROJECT.json` lists each at its
line under `hazards`.

Parts not modelled, with the reason, are listed in section 7 and in `PROJECT.json`.

## 2. Modules

| module | models | used by |
|---|---|---|
| `ModelNames` | the constants `Models`, `NoModel` | the system and engine modules |
| `ZmqChannel` | REQ and REP sockets as both sides use libzmq (external code, modelled from its use) | the next two |
| `ZmqIpcDetector` | the plugin | `DetectorSystem` |
| `ZmqOnnxClient` | the service process, its loop and its files | `DetectorSystem` |
| `FallbackBackend` | the outcomes a `load()` can have, as one step | `ZmqOnnxClient`; refined by the engines |
| `DetectorSystem` | plugins, service and sockets composed; faults; fairness; the system's properties | |
| `DetectApi` | the abstract specification: what Frigate is promised by `detect_raw` | implemented by `DetectorSystem` |
| `GpuBackend` | `FallbackBackend` over `NcnnBackend`, statement by statement, with SIGTERM | `Engines`; implements `FallbackBackend` |
| `MnnBackend` | `FallbackBackend` over `MnnBackend` and the C shim | `Engines`; implements `FallbackBackend` |
| `Engines` | the life of the process around its engine: choice, constructor, pinned model, server, end | composes `GpuBackend` and `MnnBackend` |
| `NcnnCache` | the two-file conversion cache, with several processes on it | |
| `Detections` | one inference request from its header to its rows | |
| `FfmpegWrapper` | the shell wrapper | |
| `AvdModule` | the kernel module scripts | |
| `MC*` | instances for TLC | |
| `*_proofs` | theorems and proofs | |

How the layers fit: `DetectorSystem` uses `FallbackBackend`, where a load is one step with
any of its outcomes. `GpuBackend` and `MnnBackend` show that the real sequences of statements
have no other outcomes, whatever raises inside them; `Engines` runs them behind the choice
that leads to them, and checks the same properties there. `GpuBackend` in turn leaves the
cache out (a conversion succeeds or raises, a build succeeds or raises); `NcnnCache` shows
which files such a build reads. `Detections` fills in what `DetectorSystem` treats as the one
value "detections of this frame".

### Correspondence with the code

* **Requests and replies** (`ZmqChannel`). A request is a record of its sender, its kind, its
  frame and whether its REQ socket is still open (`live`). It is in `transit` (the REQ
  socket's queue; dropped when that socket is closed with `LINGER 0`), then in `inbox` (the
  REP socket), then in `handling` (returned by `recv_multipart`). Replies are a set, read by
  the socket they are for or dropped with it. Taking requests out of a set gives every order.
* **Plugin** (`ZmqIpcDetector`). `pc` is `start` before the constructor, `idle` between
  calls, `enter` at the head of `detect_raw`, and `hsModel`, `hsData`, `infer` in the three
  blocking `recv_multipart` calls. `why` remembers who called the handshake, since the three
  callers go on differently. `due` stands for
  `now - _last_init_attempt >= _retry_interval_s`. `reqState` is the REQ socket's own state,
  which the code never looks at: `SendInWrongState` is the EFSM error of line 342.
* **Service** (`ZmqOnnxClient`). `stage` is the statement of the request in hand. Saving a
  model is two steps because `open(..., "wb")` truncates before `write` completes. `disk`
  is the only variable `Gone` (the end of the process) keeps.
* **Engines**. `GpuBackend` has one step per statement of `NcnnBackend.load` that can raise
  or release something. Its locals `built` and `old` outlive an exception until the `except`
  block of `FallbackBackend.load` ends, because the traceback holds the frame; that is why
  `Unwind` and not `CloseAfterFailure` clears them. `MnnBackend` has the C handles as
  addresses the allocator may hand out again (`shim[a]` is the model of the graph at `a`).
* **Choice of the engine** (`Engines`). `life` is the position in `main`: `starting` before
  `create_backend`, `creating` in its loop over candidates, `constructing` once a factory has
  returned, `loading` while the pinned model loads, `serving` inside `start_server`. A name
  other than `vulkan` is a preference of one. `gpu` is the process-wide Vulkan instance, which
  `get_gpu_count` creates inside `NcnnBackend`'s constructor: `ConstructorRaises` may leave it.
  `KilledInConstructor` is the SystemExit of the SIGTERM handler outside the `try` of `main`;
  in the server the engine's own `Sigterm` and close steps apply.
* **Cache** (`NcnnCache`). A file is the version of the ONNX file it came from, its
  modification time, and whether it is absent, empty or whole. `PutParam` and `PutBin` are
  the two `os.replace` calls, `ReadParam` and `ReadBin` the two reads of `_build_net`. A pair of
  two versions may load or not (`BuildFails`), and a graph of another version than the names
  read at the start (`meta`) may fail the check (`MismatchRaises`). Each of `Loaders` is a
  process with its own temporary directory (`work`); they share the ONNX file and the pair.
  `ReplaceOnnx` gives the ONNX file the time of the clock or an earlier one, as `mv` and
  `cp -p` do. History: field `missed` of a file (the ONNX file was replaced while it was
  converted, or by one that is not newer), `calm` (nothing has come between the steps of a
  `load()`) and `failed` (a conversion of it has raised).
* **Detections**. A frame is its size and what can be seen in it; a network is how its raw
  outputs state a box (corners or centre and sides, pixels or parts). Divisions are not
  carried out but kept in the unit of an axis, so that nothing is rounded. `NMSBoxes`
  is defined by the sequence it returns. The size is a guess from the shape only if the header
  has neither a size nor a layout.
* **Wrapper** (`FfmpegWrapper`). An argument is its comma-separated parts, each a name and
  its colon-separated values, the level at which the shell patterns cut. `Matches` is the
  pattern, which finds its colon in any part after a `,scale=`; `Width` and `Height` are the
  expansions that cut at the last one. `Classify` and `Rebuild` are the two loops, one argument
  per step.
* **Kernel module** (`AvdModule`). A step is a command of a script that changes something, or
  a test that decides; `BuilderInterrupted` and `SwapInterrupted` end a script before any of
  them, and `Boot` all of them. `Builders` are runs of `build-and-install.sh`, with or without
  `--undo`, side by side; of `reload.sh` and `restore.sh` there is one each.
  `override[k]` is the file in `/lib/modules/k/updates`, `index[k]` whether `modules.dep` of
  kernel `k` names it, `Picks(k)` what modprobe makes of the two. `install` opens its source,
  replaces the target, and copies into the file it has made (`placed`; `whole` once the copy
  is complete), even if another run has removed that file. `depmod` looks for the file
  (`found`) and then replaces the index. The pipeline that builds has the exit status of
  `tail`, so `CheckoutFails` and `MakeFails` go on. History: `unspoiled` (a run alone since it
  began, with the build of its own), `said` (what the last such run to finish has promised for
  a kernel), `torn` (the file went and no `depmod` saw it gone), `begun`, `rebuilt`, `excused`.

A definition whose comment begins with "Mutant:" is a deliberately broken variant of the one
that follows it. No specification uses it; substituting it for the original breaks the
property named in `PROJECT.json`, which shows that the property depends on the code.

## 3. Runs

| run (`name`) | module, cfg | question and answer |
|---|---|---|
| `system_eager_timeouts` | `MCDetectorSystem`, `SysEager` | Any wait may end at any moment. Detections are for the frame asked, a reply answers the request that waits for it, one request is in flight per socket, the model served is the one loaded last; and the system implements `DetectApi`, safety and liveness: each call returns. Holds. |
| `system_two_models` | `MCDetectorSystem`, `SysTwo` | Two plugins with models of their own, one of which has no local file. The served model and the files stay consistent. Holds. |
| `system_picked_up` | `MCDetectorSystem`, `SysLive` | After faults the plugin becomes ready again and again, unless the model file is left truncated. Holds. |
| `system_restart_unnoticed` | `MCDetectorSystem`, `SysRestart` | Is a restart of the service noticed? Violated (section 6). |
| `engines` | `MCEngines`, `Engines` | From the command line to the exit, with either GPU engine, every failure, a SIGTERM anywhere and native addresses reused. The engine is the first usable one; graphs, instances and handles are used and released in order; each load has an outcome of `FallbackBackend`; an instance left behind has one of three causes. Holds. |
| `ncnn_cache` | `MCNcnnCache`, `NcnnCache` | Two processes, kills, power losses, ONNX files replaced by newer and older ones, a deleted cache, pairs that do not load. Holds. |
| `ffmpeg_wrapper` | `MCFfmpegWrapper`, `FfmpegWrapper` | All command lines of up to four groups of arguments. Holds. |
| `ffmpeg_wrapper_filters` | `MCFfmpegWrapper`, `FfmpegFilters` | Is a filter of the user ever lost? Violated (section 6). |
| `detections` | `MCDetections`, `Detections` | Every header of every frame, each network, up to three objects: size, rows and what is missing from them. Holds. |
| `detections_nms` | `MCDetections`, `DetectionsNms` | Is only what overlaps suppressed? Violated (section 6). |
| `avd` | `MCAvdModule`, `AvdModule` | Two runs of `build-and-install.sh`, in any mix of install and undo, `reload.sh` and `restore.sh`, any two at work at once and each ended anywhere, with an operator, a client, a kernel update and reboots. What was promised holds, and no loss goes unreported. |
| `avd_update` | `MCAvdModule`, `AvdUpdate` | Does a rebuild before the reboot last? Violated (section 6). |

### Bounds, and why they are enough

* `MaxFaults` bounds restarts, failed loads, saves, sends and rebinds in one behaviour: 2 in
  `SysLive` (a fault and another while the system recovers from it), 1 where every wait may
  end early or two plugins make the state space larger. Timeouts are no faults and are not
  bounded. The proofs have no bound.
* Plugins: 1 or 2. Plugins share only the service, so a third adds no new kind of step.
  Frames: 2, the frame asked now and one asked before. Models: 2, one per plugin, or the
  plugin's and the pinned one.
* In `SysEager` the service starts with a pinned model that the plugin does not ask for, so
  `currentModel` changes during the run; the two-plugin run starts without one.
* `Engines`: 3 models, the one served, the one being loaded and one served before; 4
  addresses: between loads up to one handle is held, a load adds one, and each failed load may
  leak one more; when all are leaked, `Create` can only fail. Loads are not bounded. Five
  preferences: the default, its reverse, one with a typing error, one with `cpu` inside, none.
* `NcnnCache`: 2 processes, 2 versions of the ONNX file and clock values up to 2; kills, power
  losses, replacements and loads are not bounded, and a version may come back. An ONNX file
  older than the cache, of its time and newer all happen, and a replaced file meets
  conversions of both processes at every step.
* `Detections`: frames wide and tall; six objects, of which up to three in a frame: two pairs
  that overlap differently near the corner and away from it, one that sticks out, scores on
  both sides of the threshold and at it. Two rows instead of twenty, so that three objects
  overflow them.
* `FfmpegWrapper`: groups of arguments (options the wrapper tests for, options it does
  not, shapes of `-vf` with one to four filters), all sequences of up to four. The decision depends on which
  kinds of group occur and the rewrite on one argument and the one before it.
* `AvdModule`: two kernels (one runs, a later one is installed); two builders, both swaps, two
  branches, `series` and another one, and a module kept aside. TLC goes on only from states in
  which at most two scripts are at work (`TwoAtWork`), a client has the device open only while a
  module is being swapped (`SwapsMeetClients`), and the other branch is in the tree or in the
  kernel only while none is and the kept module was not used (`SwapsAreOfSeries`): no command of
  a builder looks at the client, and none of a swap at the branch. Every two scripts meet at
  every pair of commands. Installs, undos, loads and reboots are not bounded, and the proofs have
  none of these bounds. `AvdUpdate` is smaller, with one builder and one branch.
* `Patient` picks between two views of a wait. FALSE: it may end at any moment, for safety.
  TRUE: it ends only when its reply can no longer come without a fault, which is what 30 s
  and the request timeout are meant to be; used where the property would otherwise only say
  that waits may always be too short.
* Deadlock is checked in the system, cache and AVD runs. The engine runs end with the exit of
  the process, the wrapper runs with `exec` and a request with its answer, so those cfgs turn
  it off.

## 4. Fairness

Only `DetectorSystem!Spec` has fairness, used by the temporal runs:

* weak fairness of the service's start (`Restart=always`, `RestartSec=3`), of its thread's
  steps, and of delivery (libzmq's I/O threads retry);
* strong fairness of receiving a live request of each plugin: a REP socket takes requests
  from its connections in turn, so a plugin cannot be passed over for good by others, while
  each single request may be withdrawn by its sender's timeout;
* weak fairness of each plugin's steps, of a timeout that is possible (receive timeouts are
  always set), of the clock, and of Frigate calling `detect_raw` again (its detector process
  loops over frames).

Nothing is assumed about faults: they may or may not happen. The AVD scripts, the cache and
the engines promise nothing that needs a next step, and have no fairness.

## 5. Proofs

All theorems are of the form `Spec => []Inv`, `Spec => [][A]_vars` or `Spec => AbstractSpec`
for every value of the constants under the assumptions `ModelsAssumption`, `SystemAssumption`,
`HandleAssumption`, `PreferenceAssumption`, `CacheAssumption`, `DetectionAssumption`,
`WrapperAssumption` and `AvdAssumption`, which TLC evaluates in the runs. They say what kind
of thing a constant is and bound none of them: any number of plugins, models, frames,
processes, kernels, candidates, objects and arguments is allowed.
`ExactPatternLosesNothing` alone has a hypothesis besides, `PatternIsExact`: every chain the
wrapper's pattern matches has two filters. Frigate's chain (`fps=5,scale=640:360`,
config/config.example.yaml:23) does, the chain of finding 2 does not.

| module | theorem | states |
|---|---|---|
| `DetectorSystem_proofs` | `TypeCorrect` | `TypeOK` |
| `DetectorSystem_proofs` | `ServedModelIsCurrent`, `ReadyModelsStay` | `ServedIsCurrent`, `ReadyModelOnDisk` |
| `RequestMatching_proofs` | `OneRequest`, `RepliesMatch`, `AnswersAreForTheFrame` | `OneRequestInFlight`, `ReplyMatchesRequest`, `AnswerIsForThisFrame` |
| `RequestMatching_proofs` | `SystemImplementsApi` | the system implements the safety part of `DetectApi` |
| `RequestMatching_proofs` | `ServiceHasItsRequest`, `BackendOnlyLoads` | the service has one fitting request in hand and owes one reply; what it does with its backend is what `FallbackBackend` allows |
| `Backends_proofs` | `TypeCorrect`, `ServingGraphSafe`, `NeverFailedSafe`, `HealthyCleanExit`, `HealthyReleaseOrder` | the five safety properties of `GpuBackend` |
| `Backends_proofs` | `GpuImplements`, `MnnImplements` | `ImplementsFallbackBackend`, `MnnImplementsFallbackBackend` |
| `Backends_proofs` | `MnnTypeCorrect`, `HandlesAreAlive`, `HealthyEngineLeaksNothing` | `MnnTypeOK`, `NoDanglingHandle`, `OneGraphUnlessFailed` |
| `Engines_proofs` | `EngineTypeCorrect`, `FirstUsable`, `LeftInstance` | `EngineTypeOK`, `EngineIsFirstUsable`, `LeftInstanceIsExplained` |
| `Engines_proofs` | `EnginesStaySafe`, `EnginesReleaseInOrder` | the invariants of both engines and `ReleaseOrderUnlessFailed`, in the life of the process |
| `Engines_proofs` | `EnginesImplement` | both refinements of `FallbackBackend`, in the life of the process |
| `NcnnCache_proofs` | `CacheTypeCorrect`, `TrustedCache`, `OneVersion`, `Repaired` | the four properties of the run, with the exceptions of section 6 |
| `Detections_proofs` | `DetTypeCorrect`, `SizeIsRight`, `RowsAreRight`, `BestReported` | the four properties of the run |
| `Detections_proofs` | `SuppressionIsDetermined` | `NMSBoxes` has exactly one answer whenever it is asked |
| `FfmpegWrapper_proofs` | `OthersAreKept`, `DetectIsTouchedAlone`, `FramesAreKept` | the three properties of the run, for command lines of any length |
| `FfmpegWrapper_proofs` | `ExactPatternLosesNothing` | `NoFilterIsLost` holds if the pattern matches nothing but the two filters: how far finding 2 goes |
| `AvdModule_proofs` | `AvdTypeCorrect`, `OverrideFits`, `SeriesPersists`, `UndoPersists`, `LossesReported` | the five properties of the run `avd`, for any number of builders |

The arguments:

* **Request matching.** `ReplyMatchesRequest` alone is not inductive: it says nothing of the
  request before it is answered. `MatchInv` follows each plugin's live request through the
  four places it can be in (queue, inbox, in hand, answered): at most one is live, it is in
  one place, it is of the kind `pc` waits for, and a tensor carries the frame `asked`; a
  socket that may send has none. `ServerMatch` ties the stage of the service and the reply it
  has built to the request in hand. The lemmas `HungUp`, `HungUpAndSent`, `ReadAndSent`,
  `SentAlone` state what each use of a socket leaves for its plugin, `Unmoved` that it leaves
  the other plugins alone; each step of the plugin then needs one of them.
* **Served model.** `ServedInv` says of each engine separately what it holds:
  `current_model` for the CPU session when it serves, and for the GPU engine unless it was
  closed. The exception in `ServedIsCurrent` is needed: after a failed load has closed the
  engine, a model that fails its warm-up stays in `self.net`.
* **Ready model on disk.** `DiskInv` adds that a reply that says "loaded", on its way or
  built, is for a model whose file is there; files are only ever opened and completed.
* **GPU engine.** `GpuInv` adds what the locals of a load may hold at each step, that a `pc`
  inside a load after `Build` implies the instance, and that without a failure `closed` is
  false until shutdown. It asks for an instance only where a graph needs one, so that it
  also holds in `Engines`, before any engine is constructed.
* **MNN engine.** `MnnInv` adds that the handle in a local is alive, and differs from the one
  held until `Assign`, and that without a failure nothing else is alive.
* **The abstract `detect_raw`.** A step of the system is a step of `DetectApi` or leaves its
  four variables alone. `Phase` makes of the plugin's `pc` "away", "ready" or "called", so the
  proof goes by the plugin's step. Only the steps that return need more than their own text:
  that detections are those of the frame asked comes from `MatchInv`; that nothing but zeros
  is returned before a handshake has succeeded, from `PromiseInv`, which says that a plugin
  that waits for an inference, or is in a handshake that an error started, is ready. Faults of
  the service are stutters, a restart of Frigate's process is `Restart`.
* **The service inside a request.** `ReplyIsDue` ties the REP socket's state to the request in
  hand; with `ServerMatch` each stage finds what its statement needs. This is the part of
  "the service goes on" that can be said without fairness.
* **From the system to the engines.** `BackendOnlyLoads` reads each start of the process
  through `Boot`, `FallbackBackend` over a fresh backend: it is a load of the pinned model, or
  nothing. Each later change is a load. With `EnginesImplement` the two levels meet: what the
  system assumes of a load is what is proved of the engines.
* **Refinements of `FallbackBackend`.** The refinement mapping shows, while a load runs, what
  was served when it was entered (`before`), and the real variables otherwise, so all steps
  of a load but the last must stutter and the last must be one of four outcomes. `BeforeOK`
  and `MnnBeforeOK` say what has to be true of the engine at each step in between: a net that
  is unassigned until the check has passed, a `_closed` that changes only in `close()`, and
  the three shapes a raised exception can leave behind. They are conjuncts of `GpuInv` and
  `MnnInv`, so `Engines_proofs` has them in the life of the process.
* **Life of the process.** `EngineInv` carries `GpuInv` and `MnnInv` through the steps that
  choose the engine, with the engine that was not chosen untouched; `skipped` holds
  every candidate before the one in turn, and an instance without a chosen GPU engine comes
  from a skipped one. The steps of the engines themselves are taken from `Backends_proofs`.
* **Cache.** `FilesOK` says of both files what time stamps can tell: one that is not older than
  the ONNX file was made from it or has missed a replacement. `WorkOK` says the same of what
  each converter has read, which becomes a file by the renames. Neither needs any exclusion
  between processes. `LoadOK` follows a `load()` between whose steps nothing came: what it has
  read and what it will read is of the version of its names (`meta`), because its cache was
  fresh and had missed nothing, or because it has converted itself; a build that fails is then
  its first, and the second finds both files whole and of one version. So it ends with a graph
  unless a conversion of its own raises.
* **Detections.** `SizeOfHeader` reads each header of a frame with no side of 1 or 3.
  `CornersOfCentre` undoes the centre format; the raw unit times the divisor of each network
  is then the frame's side, which places each row. For `BestReported` the sequence `NMSBoxes`
  returns is followed backwards: what is above the threshold is in it or has a suppressor in
  it that comes before; when that one is beyond the last row, all rows have scores as high.
* **One answer of `NMSBoxes`.** The definition asks for a sequence of indices with a property,
  and might be met by none or several. `BoxOrder` numbers the boxes by falling score and index
  (`key`), and `Greedy` is the definition over such numbers. `GreedyExists` builds a sequence
  for the boxes below each number from the one for the number before; `GreedyOnce` takes the
  first box on which two sequences differ, and then the first place. Both use the least
  counterexample (`LeastNatural`) where one would use induction.
* **Wrapper.** `WrapperInv` says of both loops what they know after the first n arguments
  (`At(n)`, with `Position` for n): pass 1, which options it has met and whether all `-vf`
  were scalers (`SeenBefore`); pass 2, that what it has written is what those arguments become
  (`WrittenBefore`). `Blanked` and `Chains` look at the argument before, and the text inserted
  ends in no `-vf`, so a step appends to both what it appends to the command (`BlankedAppend`,
  `ChainsAppend`); `FlattenAppend` is the law of the community module's `FlattenSeq` this
  needs, proved through the function it is defined by (`FlattenUnique`, `FlattenExists`).
* **Kernel module.** `AvdInv` adds what each builder knows: an unspoiled one is alone
  (`AloneOK`); from the vermagic test on what it installs fits the running kernel or is gone,
  and is the series if the run is unspoiled (`BuildOK`); the file an unspoiled run puts in place
  or removes is as it left it (`PlaceOK`); nothing is said of a kernel while any run changes its
  files (`QuietOK`). `SaidOK` is the promise per kernel: an index that names no file is `torn`,
  or an undo is about to run its depmod. `Beside` states what a command of one builder leaves to
  the others, so `OthersStay` needs no step per action; `TreeStep` has the commands that leave
  the files alone, `DiskStep` the others, `SwapStep` and `AroundStep` the rest.

Only model-checked: liveness, which is outside what TLAPS proves (`PickedUpUnlessTruncated`,
and that every call returns in `ImplementsDetectApi`), and the four properties the code
violates, for which section 6 has the counterexamples. Induction over data is not available
either (the library's induction theorems take an operator); where a lemma needs it, it is
replaced by the least counterexample, from the well-foundedness of the natural numbers.

## 6. Where code and documents disagree

1. **A restart between two calls** (`system_restart_unnoticed`). A restarted service without a
   model answers zeros in a valid reply; the plugin sees no timeout, keeps `_model_ready`,
   and no handshake runs. README-linux.md:158-160 promises one. A restart during a call is
   noticed through the timeout.
2. **Filters between `fps=` and `scale=`** (`ffmpeg_wrapper_filters`) match the wrapper's
   pattern and are dropped (`bin/ffmpeg:57`, comment at lines 27-28). So is a second rate:
   `fps=5,fps=2,scale=640:480` becomes `fps=5` and a scale, so `FramesKeepTheirSize` promises
   the rate only of chains with one `fps=`.
3. **Suppression without overlap** (`detections_nms`). `cv2.dnn.NMSBoxes` reads a box as x, y,
   width, height and gets two corners (`model_util.py:204`, also 23, 75 and 156). Away from
   the origin the boxes it compares reach far beyond the objects, so that two neighbours that
   do not touch suppress one another. `model_util.py:203` says "run NMS".
4. **A rebuild before the reboot** (`avd_update`) goes to the kernel that still runs
   (`build-and-install.sh:19`), and the new one comes up with the in-tree module.
   `staging/APPLY.md:86-87` and `REPORT.md:105` ask for that order.

Seen in the models, as exceptions the properties have to make, without a run of their own:

* An undo that ends between `rm` and the renaming of `modules.dep` leaves an index that names a
  missing file. The next one finds no file (`build-and-install.sh:37`), runs no `depmod`, and says
  "The in-tree module is used on the next modprobe/boot" (line 40) with status 0; modprobe finds
  nothing to load. `torn` marks it, and `UndoneStaysUndone` exempts it.
* `close()` works once (`backends.py:435`). After a failed load it has been used; a later load
  opens the engine again, and at shutdown nothing releases it, though its docstring promises
  so (lines 433-434). `CleanExitUnlessFailed`, `ReleaseOrderUnlessFailed` and
  `LeftInstanceIsExplained` exclude engines that have failed.
* A model that fails in both engines takes the served one away: `primary.close()` runs before
  the fallback is tried (`backends.py:473`). `FallbackBackend` has that outcome (`LoadNeither`).
* The comment at `zmq_onnx_client.py:719-720` has SIGTERM run `cleanup()`; while the
  constructor loads a pinned model it does not. That is the first case of
  `LeftInstanceIsExplained`.
* A model file truncated by a death between `open` and `write` exists, so the service reports
  it as available and fails to load it, and the plugin never pushes it again. That is the
  exception of `PickedUpUnlessTruncated`.
* The cache is trusted by its time stamps (`backends.py:301-304`). A file converted from an ONNX
  file that is replaced before the conversion ends, or that is replaced by one that is not newer
  (the same tick; `mv`, `cp -p`), stays trusted although it is stale: the exception `missed` of
  `TrustedCacheIsCurrent`. It ends with that file, or with a newer ONNX file.
* The two files of a pair are renamed and read without a lock. A `load()` in whose course another
  process renames a file, or somebody replaces the ONNX file or deletes the cache, may build a
  graph of two versions, or may raise although its conversions succeeded: the second build reads
  a mixed pair (`backends.py:339-342`), or the names read at the start are not the graph's
  (358-361), which is not retried. So may one that starts on a pair that has missed a
  replacement. These are the exceptions of `GraphIsOfOneVersion` and `DamageIsRepaired`, one
  load each: what it leaves behind is repaired by the next.
* A module of another branch built for the running kernel passes the vermagic test when the
  build fails behind `tail` (`build-and-install.sh:48`): such an install promises nothing in
  `SeriesIsPicked`. Nor does a run of `build-and-install.sh` beside which another one ran.
* `restore.sh:2` says "Go back to the in-tree"; with an override installed, modprobe takes that
  one, and the script does not check the vermagic although `avd-driver/README.md:81` says both do.

## 7. Not modelled

* The numbers inside a network: grids, anchors, sigmoid and softmax, rounding. `Detections`
  starts from what the outputs say of a box and keeps coordinates exact. `post_process_yolox`
  has no caller.
* Time: 30 s, 10 s, 200 ms and 600 s appear only as "may time out" and "is due". That a slow
  conversion is queued again by each retry is therefore outside the models.
* The AVD kernel driver and its patches, the ffmpeg patches: diffs against code that is not
  in the repository. The patches show context lines of the slot and interrupt protocol but not
  where slots are taken or freed; a model would be of a guess.
* `mkpatches.py` and `nalinfo.py`: a generator of patch files and an offline parser, used
  during the analysis, not by the system.
* The initramfs: `--status` only reports it, and the text asks the operator to rebuild it.
* Build scripts, the launcher `run.sh`, the test scripts, deployment files, research notes and
  benchmarks: no running state.

## 8. Plan

Done, in this order: `FallbackBackend`, `GpuBackend`; `ZmqChannel`, `ZmqIpcDetector`,
`ZmqOnnxClient`, `DetectorSystem`, `DetectApi`; `NcnnCache`; `MnnBackend`; `FfmpegWrapper`;
`Detections`; `NcnnCache` with several processes; `Engines`; `AvdModule`; the proofs of
section 5.

Next, proofs: what else liveness rests on and can be said as safety, such as that a plugin
whose request and reply are both gone is in a wait that may time out, and how far findings 1
and 3 go, as `ExactPatternLosesNothing` says it of finding 2.
