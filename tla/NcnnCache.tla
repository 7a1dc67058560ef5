----------------------------- MODULE NcnnCache -----------------------------
(***************************************************************************)
(* detector/detector/backends.py: how NcnnBackend.load turns an ONNX file  *)
(* into a graph through the conversion cache next to it, two files that    *)
(* are renamed into place one after the other and read one after the       *)
(* other, without a lock.  The service may die at any step; a power loss   *)
(* may empty files that were renamed and never synced; a model is pushed   *)
(* between loads, and an operator may replace the ONNX file at any time,   *)
(* with a file that keeps an older time too; an instance started next to   *)
(* the service may use the same directory.                                 *)
(*                                                                         *)
(* A file is known by the version of the ONNX file it was made from and by *)
(* its modification time.  One model file: the cache has one per model.    *)
(* Every version can be read by ONNX Runtime; how the GPU fails is         *)
(* module GpuBackend's.                                                    *)
(***************************************************************************)
EXTENDS Naturals

CONSTANTS Loaders,      \* processes that load through the same models directory
          MaxVersion,   \* bound on the versions of the ONNX file
          MaxTime       \* bound on the clock

ASSUME CacheAssumption == MaxVersion \in Nat \ {0} /\ MaxTime \in Nat

VARIABLES clock,        \* the file system's time
          onnx,         \* the ONNX file
          param, bin,   \* <name>.ncnn.param and <name>.ncnn.bin
          pc,           \* where each process's load() is
          meta,         \* the version its _onnx_io_meta has read
          work,         \* its converter's output in the temporary directory
          retried,      \* it has converted because a build failed
          net,          \* the versions its graph is built from
          calm,         \* history: nothing came between the steps of its load()
          failed        \* history: a conversion of its load() raised

files == <<clock, onnx, param, bin>>
cacheVars == <<files, pc, meta, work, retried, net, calm, failed>>

Versions == 1..MaxVersion
Times == 0..MaxTime
NoVersion == 0

(* Field missed is history: the ONNX file has been replaced since this     *)
(* file was converted from it, by one that is not newer.                   *)
File == [of : Versions \cup {NoVersion}, at : Times,
         is : {"absent", "empty", "whole"}, missed : BOOLEAN]
Onnx == [of : Versions, at : Times]
Absent == [of |-> NoVersion, at |-> 0, is |-> "absent", missed |-> FALSE]
Graph == [param : Versions \cup {NoVersion}, bin : Versions \cup {NoVersion}]
NoNet == [param |-> NoVersion, bin |-> NoVersion]

Outside == {"idle", "built", "raised"}
Steps == Outside \cup {"check", "convert", "write", "putParam", "putBin",
                       "readParam", "readBin", "verify"}

CacheTypeOK ==
  /\ clock \in Times /\ onnx \in Onnx
  /\ param \in File /\ bin \in File /\ work \in [Loaders -> File]
  /\ pc \in [Loaders -> Steps]
  /\ meta \in [Loaders -> Versions \cup {NoVersion}]
  /\ retried \in [Loaders -> BOOLEAN]
  /\ net \in [Loaders -> Graph]
  /\ calm \in [Loaders -> BOOLEAN] /\ failed \in [Loaders -> BOOLEAN]

CacheInit ==
  /\ clock = 0
  /\ onnx = [of |-> 1, at |-> 0]
  /\ param = Absent /\ bin = Absent /\ work = [l \in Loaders |-> Absent]
  /\ pc = [l \in Loaders |-> "idle"]
  /\ meta = [l \in Loaders |-> NoVersion] /\ net = [l \in Loaders |-> NoNet]
  /\ retried = [l \in Loaders |-> FALSE]
  /\ calm = [l \in Loaders |-> FALSE] /\ failed = [l \in Loaders |-> FALSE]

Go(l, from, to) == pc[l] = from /\ pc' = [pc EXCEPT ![l] = to]

(* A change of the shared files comes between the steps of the loads of ls *)
(* that are under way.                                                     *)
Disturb(ls) == [k \in Loaders |-> calm[k] /\ (k \in ls => pc[k] \in Outside)]

-----------------------------------------------------------------------------
(* NcnnBackend.load of process l *)

(* _onnx_io_meta: the names and shapes of the ONNX file as it is now.      *)
Load(l) ==
  /\ pc[l] \in Outside
  /\ pc' = [pc EXCEPT ![l] = "check"]
  /\ meta' = [meta EXCEPT ![l] = onnx.of]
  /\ net' = [net EXCEPT ![l] = NoNet]
  /\ retried' = [retried EXCEPT ![l] = FALSE]
  /\ calm' = [calm EXCEPT ![l] = TRUE] /\ failed' = [failed EXCEPT ![l] = FALSE]
  /\ UNCHANGED <<files, work>>

(* Mutant: the time of the .bin file is not looked at. *)
FreshByParam ==
  /\ param.is # "absent" /\ bin.is # "absent"
  /\ param.at >= onnx.at
  /\ bin.is = "whole"

(* _ensure_converted: an absent file raises OSError, an empty .bin is not  *)
(* fresh, an empty .param is.                                              *)
Fresh ==
  /\ param.is # "absent" /\ bin.is # "absent"
  /\ param.at >= onnx.at /\ bin.at >= onnx.at
  /\ bin.is = "whole"

EnsureConverted(l) ==
  /\ Go(l, "check", IF Fresh THEN "readParam" ELSE "convert")
  /\ calm' = [calm EXCEPT ![l] = @ /\ ~(Fresh /\ (param.missed \/ bin.missed))]
  /\ UNCHANGED <<files, meta, work, retried, net, failed>>

(* convert_onnx_to_ncnn: the tools read the ONNX file...                   *)
Convert(l) ==
  /\ Go(l, "convert", "write")
  /\ work' = [work EXCEPT ![l] = [Absent EXCEPT !.of = onnx.of]]
  /\ UNCHANGED <<files, meta, retried, net, calm, failed>>

(* Mutant: the date is rounded down. *)
WriteRoundedDown(l) ==
  /\ Go(l, "write", "putParam")
  /\ work' = [work EXCEPT ![l] = [@ EXCEPT !.at = clock - 1, !.is = "whole"]]
  /\ UNCHANGED <<files, meta, retried, net, calm, failed>>

(* ... and write both temporary files, which the clock of then dates...    *)
WriteTemporary(l) ==
  /\ Go(l, "write", "putParam")
  /\ work' = [work EXCEPT ![l] = [@ EXCEPT !.at = clock, !.is = "whole"]]
  /\ UNCHANGED <<files, meta, retried, net, calm, failed>>

(* ... or fail, as either rename may: load() raises, and what is in the    *)
(* cache stays.                                                            *)
ConvertRaises(l) ==
  /\ pc[l] \in {"convert", "write", "putParam", "putBin"}
  /\ pc' = [pc EXCEPT ![l] = "raised"]
  /\ failed' = [failed EXCEPT ![l] = TRUE]
  /\ work' = [work EXCEPT ![l] = Absent]
  /\ UNCHANGED <<files, meta, retried, net, calm>>

(* os.replace keeps the modification time of what the tools wrote. *)
PutParam(l) ==
  /\ Go(l, "putParam", "putBin")
  /\ param' = work[l]
  /\ calm' = Disturb(Loaders \ {l})
  /\ UNCHANGED <<clock, onnx, bin, meta, work, retried, net, failed>>

(* Mutant: a .bin file that is there is kept. *)
KeepOldBin(l) ==
  /\ Go(l, "putBin", "readParam")
  /\ bin' = IF bin.is = "whole" THEN bin ELSE work[l]
  /\ work' = [work EXCEPT ![l] = Absent]
  /\ calm' = Disturb(Loaders \ {l})
  /\ UNCHANGED <<clock, onnx, param, meta, retried, net, failed>>

PutBin(l) ==
  /\ Go(l, "putBin", "readParam")
  /\ bin' = work[l]
  /\ work' = [work EXCEPT ![l] = Absent]
  /\ calm' = Disturb(Loaders \ {l})
  /\ UNCHANGED <<clock, onnx, param, meta, retried, net, failed>>

(* _build_net: load_param.                                                 *)
ReadParam(l) ==
  /\ param.is = "whole"
  /\ Go(l, "readParam", "readBin")
  /\ net' = [net EXCEPT ![l].param = param.of]
  /\ UNCHANGED <<files, meta, work, retried, calm, failed>>

(* load_model: weights of another version may fit the layers.              *)
ReadBin(l) ==
  /\ bin.is = "whole"
  /\ Go(l, "readBin", "verify")
  /\ net' = [net EXCEPT ![l].bin = bin.of]
  /\ UNCHANGED <<files, meta, work, retried, calm, failed>>

(* A file that is not whole, or weights of another version that do not fit.*)
BuildFails(l) ==
  \/ pc[l] = "readParam" /\ param.is # "whole"
  \/ pc[l] = "readBin" /\ (bin.is # "whole" \/ bin.of # net[l].param)

(* Mutant: a cache that does not load is not converted again. *)
GiveUp(l) ==
  /\ BuildFails(l)
  /\ pc' = [pc EXCEPT ![l] = "raised"]
  /\ UNCHANGED <<files, meta, work, retried, net, calm, failed>>

(* A cache that does not load is converted once more; then load() raises. *)
BuildRaises(l) ==
  /\ BuildFails(l)
  /\ pc' = [pc EXCEPT ![l] = IF retried[l] THEN "raised" ELSE "convert"]
  /\ retried' = [retried EXCEPT ![l] = TRUE]
  /\ net' = [net EXCEPT ![l] = NoNet]
  /\ UNCHANGED <<files, meta, work, calm, failed>>

(* The graph's inputs and outputs have the names of the ONNX file's...     *)
Verified(l) ==
  /\ Go(l, "verify", "built")
  /\ UNCHANGED <<files, meta, work, retried, net, calm, failed>>

(* ... or not, when the two are of different versions; load() then raises  *)
(* without a second conversion.                                            *)
MismatchRaises(l) ==
  /\ net[l].param # meta[l]
  /\ Go(l, "verify", "raised")
  /\ UNCHANGED <<files, meta, work, retried, net, calm, failed>>

-----------------------------------------------------------------------------
(* Around it. *)

Tick ==
  /\ clock < MaxTime
  /\ clock' = clock + 1
  /\ UNCHANGED <<onnx, param, bin, pc, meta, work, retried, net, calm, failed>>

(* Conversion f is under way, or its output is not older than t. *)
Overtaken(f, t) ==
  [f EXCEPT !.missed = f.of # NoVersion /\ (f.is = "absent" \/ f.at >= t)]

(* Another version under the same name: pushed by Frigate and saved by the *)
(* service between two loads, or put there by an operator at any time; cp  *)
(* dates it with the clock, mv and cp -p with an earlier time.             *)
ReplaceOnnx ==
  /\ \E v \in Versions \ {onnx.of}, t \in 0..clock :
       /\ onnx' = [of |-> v, at |-> t]
       /\ param' = Overtaken(param, t) /\ bin' = Overtaken(bin, t)
       /\ work' = [l \in Loaders |-> Overtaken(work[l], t)]
  /\ calm' = Disturb(Loaders)
  /\ UNCHANGED <<clock, pc, meta, retried, net, failed>>

(* A process ends anywhere in load(); its converter ends with it.  What it *)
(* leaves in the temporary directory is never read.                        *)
Ended(ls) ==
  /\ pc' = [l \in Loaders |-> IF l \in ls THEN "idle" ELSE pc[l]]
  /\ meta' = [l \in Loaders |-> IF l \in ls THEN NoVersion ELSE meta[l]]
  /\ work' = [l \in Loaders |-> IF l \in ls THEN Absent ELSE work[l]]
  /\ net' = [l \in Loaders |-> IF l \in ls THEN NoNet ELSE net[l]]
  /\ retried' = [l \in Loaders |-> l \notin ls /\ retried[l]]
  /\ calm' = [l \in Loaders |-> l \notin ls /\ calm[l]]
  /\ failed' = [l \in Loaders |-> l \notin ls /\ failed[l]]

Killed(l) == Ended({l}) /\ UNCHANGED files

(* The power fails: files of the cache may come back empty. *)
Emptied(f) == IF f.is = "whole" THEN {f, [f EXCEPT !.is = "empty"]} ELSE {f}

PowerLoss ==
  /\ Ended(Loaders)
  /\ param' \in Emptied(param) /\ bin' \in Emptied(bin)
  /\ UNCHANGED <<clock, onnx>>

(* An operator deletes the cache files ("to force it", README-linux.md). *)
DeleteCache ==
  /\ param' = Absent /\ bin' = Absent
  /\ calm' = Disturb(Loaders)
  /\ UNCHANGED <<clock, onnx, pc, meta, work, retried, net, failed>>

CacheNext ==
  \/ \E l \in Loaders : \/ Load(l) \/ EnsureConverted(l) \/ Convert(l) \/ WriteTemporary(l)
                        \/ ConvertRaises(l) \/ PutParam(l) \/ PutBin(l)
                        \/ ReadParam(l) \/ ReadBin(l) \/ BuildRaises(l)
                        \/ Verified(l) \/ MismatchRaises(l) \/ Killed(l)
  \/ Tick \/ ReplaceOnnx \/ PowerLoss \/ DeleteCache

CacheSpec == CacheInit /\ [][CacheNext]_cacheVars

-----------------------------------------------------------------------------

(* A cache file that its time lets load() use was made from the ONNX file  *)
(* as it is ("regenerated whenever the .onnx is newer than the cache",     *)
(* README-linux.md), whatever was interrupted or emptied before and        *)
(* however the renames of several processes interleaved; except a file     *)
(* that missed a replacement: the ONNX file was replaced while it was      *)
(* being converted, or by one that is not newer than it.  The exception    *)
(* ends with that file, or with a later replacement that is newer.         *)
TrustedCacheIsCurrent ==
  Fresh => \A f \in {param, bin} : f.missed \/ f.of = onnx.of

(* The graph of a load() has the layers, the weights and the names of one  *)
(* version, though the two files are renamed and read one after the other, *)
(* processes die in between, and others are inside load() at the same      *)
(* time; except a load() during which another process renamed one of the   *)
(* files, the ONNX file was replaced or the cache deleted, or which began  *)
(* on a fresh cache that had missed a replacement.                         *)
GraphIsOfOneVersion ==
  \A l \in Loaders : pc[l] = "built" /\ calm[l] => net[l] = [param |-> meta[l], bin |-> meta[l]]

(* A damaged cache never costs a load that the converter can serve         *)
(* (backends.py, "stale/corrupt cache: convert once more"): load() raises  *)
(* only when a conversion of its own did, with the exceptions of           *)
(* GraphIsOfOneVersion: each of them can hand load() a pair that does not  *)
(* load twice, or a graph whose names are not the ONNX file's.             *)
DamageIsRepaired == \A l \in Loaders : pc[l] = "raised" /\ calm[l] => failed[l]

=============================================================================
