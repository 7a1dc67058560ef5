-------------------------- MODULE NcnnCache_proofs --------------------------
(***************************************************************************)
(* Proofs about module NcnnCache, for every number of processes and        *)
(* versions and every length of time.                                      *)
(***************************************************************************)
EXTENDS NcnnCache, TLAPS

(* A file that is not older than the ONNX file was made from it, or has    *)
(* missed a replacement.                                                   *)
Dated(f) ==
  /\ f.is # "absent" => f.of # NoVersion
  /\ f.is # "absent" /\ f.at >= onnx.at => f.missed \/ f.of = onnx.of

FilesOK == Dated(param) /\ Dated(bin)

(* What each converter has read and written. *)
WorkOK(l) ==
  /\ Dated(work[l])
  /\ pc[l] = "write" => /\ work[l].is = "absent" /\ work[l].of # NoVersion
                        /\ work[l].missed \/ work[l].of = onnx.of
  /\ pc[l] \in {"putParam", "putBin"} => work[l].is = "whole"

(* A load() between whose steps nothing came: every file it has used or    *)
(* will use was made from the ONNX file as it was when it began.           *)
LoadOK(l) ==
  calm[l] =>
    /\ pc[l] \notin Outside => meta[l] = onnx.of
    /\ pc[l] = "check" => ~retried[l]
    /\ pc[l] \in {"write", "putParam", "putBin"} => work[l].of = onnx.of
    /\ pc[l] = "putBin" => param = work[l]
    /\ pc[l] = "readParam" => /\ param.of = onnx.of /\ bin.of = onnx.of
                              /\ bin.is = "whole"
                              /\ retried[l] => param.is = "whole"
    /\ pc[l] = "readBin" => /\ net[l].param = onnx.of /\ bin.of = onnx.of
                            /\ bin.is = "whole"
    /\ pc[l] \in {"verify", "built"} => net[l] = [param |-> meta[l], bin |-> meta[l]]
    /\ pc[l] = "raised" => failed[l]

CacheInv ==
  /\ CacheTypeOK
  /\ FilesOK
  /\ \A l \in Loaders : WorkOK(l) /\ LoadOK(l)

LEMMA AbsentFile ==
  /\ Absent \in File /\ Absent.of = NoVersion /\ Absent.at = 0
  /\ Absent.is = "absent" /\ ~Absent.missed
  BY CacheAssumption DEF Absent, File, Times

LEMMA FileFields ==
  ASSUME NEW f \in File
  PROVE  /\ f.of \in Versions \cup {NoVersion} /\ f.at \in Times
         /\ f.is \in {"absent", "empty", "whole"} /\ f.missed \in BOOLEAN
  BY DEF File

LEMMA ReadFile ==
  ASSUME NEW v \in Versions
  PROVE  /\ [Absent EXCEPT !.of = v] \in File
         /\ [Absent EXCEPT !.of = v].of = v
         /\ [Absent EXCEPT !.of = v].is = "absent"
<1>1. ASSUME NEW f \in File
      PROVE  LET g == [f EXCEPT !.of = v] IN g \in File /\ g.of = v /\ g.is = f.is
  BY <1>1 DEF File
<1> QED
  BY <1>1, AbsentFile

LEMMA WrittenFile ==
  ASSUME NEW f \in File, NEW t \in Times
  PROVE  LET g == [f EXCEPT !.at = t, !.is = "whole"]
         IN  g \in File /\ g.of = f.of /\ g.at = t /\ g.is = "whole" /\ g.missed = f.missed
  BY DEF File

LEMMA OvertakenFile ==
  ASSUME NEW f \in File, NEW t \in Times
  PROVE  LET g == Overtaken(f, t)
         IN  /\ g \in File /\ g.of = f.of /\ g.at = f.at /\ g.is = f.is
             /\ g.missed <=> f.of # NoVersion /\ (f.is = "absent" \/ f.at >= t)
  BY DEF File, Overtaken

LEMMA EmptiedFile ==
  ASSUME NEW f \in File, NEW g \in Emptied(f)
  PROVE  /\ g \in File /\ g.of = f.of /\ g.at = f.at /\ g.missed = f.missed
         /\ g.is = "absent" <=> f.is = "absent"
  BY DEF File, Emptied

(* What Disturb leaves calm was outside load(), or is not disturbed.       *)
LEMMA Disturbed ==
  ASSUME NEW ls, calm \in [Loaders -> BOOLEAN]
  PROVE  /\ Disturb(ls) \in [Loaders -> BOOLEAN]
         /\ \A k \in Loaders : Disturb(ls)[k] => calm[k] /\ (k \in ls => pc[k] \in Outside)
  BY DEF Disturb

LEMMA InitCache == CacheInit => CacheInv
<1> SUFFICES ASSUME CacheInit PROVE CacheInv
  OBVIOUS
<1>1. 1 \in Versions /\ 0 \in Times
  BY CacheAssumption DEF Versions, Times
<1>2. CacheTypeOK
  <2>1. onnx \in Onnx
    BY <1>1 DEF CacheInit, Onnx
  <2>2. NoNet \in Graph
    BY DEF NoNet, Graph
  <2> QED
    BY <1>1, <2>1, <2>2, AbsentFile DEF CacheInit, CacheTypeOK, Steps, Outside
<1>3. FilesOK
  BY AbsentFile DEF CacheInit, FilesOK, Dated
<1>4. ASSUME NEW l \in Loaders PROVE WorkOK(l) /\ LoadOK(l)
  BY <1>4, AbsentFile DEF CacheInit, WorkOK, LoadOK, Dated
<1> QED
  BY <1>2, <1>3, <1>4 DEF CacheInv

(* One step per action of process l; k is any process.  Another process is *)
(* disturbed only through the two files it shares with l.                  *)
LEMMA NextOfProcess ==
  ASSUME CacheInv, NEW l \in Loaders,
         \/ Load(l) \/ EnsureConverted(l) \/ Convert(l) \/ WriteTemporary(l)
         \/ ConvertRaises(l) \/ PutParam(l) \/ PutBin(l)
         \/ ReadParam(l) \/ ReadBin(l) \/ BuildRaises(l)
         \/ Verified(l) \/ MismatchRaises(l) \/ Killed(l)
  PROVE  CacheInv'
<1> USE DEF CacheInv, Outside
<1>a. work[l] \in File /\ param \in File /\ bin \in File /\ clock \in Times /\ onnx.of \in Versions
  BY DEF CacheTypeOK, Onnx
<1>b. NoVersion \notin Versions
  BY DEF NoVersion, Versions
<1>1. CASE Load(l)
  <2>1. CacheTypeOK'
    BY <1>1, <1>a DEF Load, NoNet, Graph, files, CacheTypeOK, Steps
  <2>2. FilesOK'
    BY <1>1 DEF Load, files, FilesOK, WorkOK, Dated
  <2>3. ASSUME NEW k \in Loaders PROVE WorkOK(k)'
    BY <1>1, <1>a, <2>3 DEF Load, files, CacheTypeOK, WorkOK, Dated
  <2>4. ASSUME NEW k \in Loaders PROVE LoadOK(k)'
    BY <1>1, <1>a, <2>4 DEF Load, NoNet, Graph, files, CacheTypeOK, FilesOK, WorkOK, LoadOK, Dated
  <2> QED
    BY <2>1, <2>2, <2>3, <2>4
<1>2. CASE EnsureConverted(l)
  <2>1. CacheTypeOK'
    BY <1>2, <1>a DEF EnsureConverted, Go, Fresh, files, CacheTypeOK, Steps
  <2>2. FilesOK'
    BY <1>2 DEF EnsureConverted, Go, Fresh, files, FilesOK, WorkOK, Dated
  <2>3. ASSUME NEW k \in Loaders PROVE WorkOK(k)'
    BY <1>2, <1>a, <2>3 DEF EnsureConverted, Go, Fresh, files, CacheTypeOK, WorkOK, Dated
  <2>4. ASSUME NEW k \in Loaders PROVE LoadOK(k)'
    BY <1>2, <1>a, <2>4 DEF EnsureConverted, Go, Fresh, files, CacheTypeOK, FilesOK, WorkOK, LoadOK, Dated
  <2> QED
    BY <2>1, <2>2, <2>3, <2>4
<1>3. CASE Convert(l)
  <2>1. CacheTypeOK'
    BY <1>3, <1>a, ReadFile DEF Convert, Go, files, CacheTypeOK, Steps
  <2>2. FilesOK'
    BY <1>3 DEF Convert, Go, files, FilesOK, WorkOK, Dated
  <2>3. ASSUME NEW k \in Loaders PROVE WorkOK(k)'
    BY <1>3, <1>a, <2>3, ReadFile, <1>b DEF Convert, Go, files, CacheTypeOK, WorkOK, Dated
  <2>4. ASSUME NEW k \in Loaders PROVE LoadOK(k)'
    BY <1>3, <1>a, <2>4, ReadFile, <1>b DEF Convert, Go, files, CacheTypeOK, FilesOK, WorkOK, LoadOK, Dated
  <2> QED
    BY <2>1, <2>2, <2>3, <2>4
<1>4. CASE WriteTemporary(l)
  <2> DEFINE w == [work[l] EXCEPT !.at = clock, !.is = "whole"]
  <2>0. w \in File /\ w.of = work[l].of /\ w.at = clock /\ w.is = "whole" /\ w.missed = work[l].missed
    BY <1>a, WrittenFile
  <2>1. /\ CacheTypeOK'
        /\ work' = [work EXCEPT ![l] = w]
    BY <1>4, <2>0 DEF WriteTemporary, Go, files, CacheTypeOK, Steps
  <2>2. FilesOK'
    BY <1>4 DEF WriteTemporary, Go, files, FilesOK, WorkOK, Dated
  <2>3. ASSUME NEW k \in Loaders PROVE WorkOK(k)'
    <3> HIDE DEF w
    <3>1. WorkOK(k)
      BY <2>3
    <3>2. CASE k = l
      BY <1>4, <2>0, <2>1, <3>1, <3>2 DEF WriteTemporary, Go, files, CacheTypeOK, WorkOK, Dated
    <3>3. CASE k # l
      BY <1>4, <2>1, <2>3, <3>1, <3>3 DEF WriteTemporary, Go, files, CacheTypeOK, WorkOK, Dated
    <3> QED
      BY <3>2, <3>3
  <2>4. ASSUME NEW k \in Loaders PROVE LoadOK(k)'
    <3> HIDE DEF w
    <3> QED
      BY <1>4, <2>0, <2>1, <2>4 DEF WriteTemporary, Go, files, CacheTypeOK, WorkOK, LoadOK
  <2> QED
    BY <2>1, <2>2, <2>3, <2>4
<1>5. CASE ConvertRaises(l)
  <2>1. CacheTypeOK'
    BY <1>5, <1>a, AbsentFile DEF ConvertRaises, files, CacheTypeOK, Steps
  <2>2. FilesOK'
    BY <1>5 DEF ConvertRaises, files, FilesOK, WorkOK, Dated
  <2>3. ASSUME NEW k \in Loaders PROVE WorkOK(k)'
    BY <1>5, <1>a, <2>3, AbsentFile DEF ConvertRaises, files, CacheTypeOK, WorkOK, Dated
  <2>4. ASSUME NEW k \in Loaders PROVE LoadOK(k)'
    BY <1>5, <1>a, <2>4, AbsentFile DEF ConvertRaises, files, CacheTypeOK, FilesOK, WorkOK, LoadOK, Dated
  <2> QED
    BY <2>1, <2>2, <2>3, <2>4
<1>6. CASE PutParam(l)
  <2>1. CacheTypeOK'
    BY <1>6, <1>a, Disturbed DEF PutParam, Go, files, CacheTypeOK, Steps
  <2>2. FilesOK'
    BY <1>6 DEF PutParam, Go, files, FilesOK, WorkOK, Dated
  <2>3. ASSUME NEW k \in Loaders PROVE WorkOK(k)'
    BY <1>6, <1>a, <2>3, Disturbed DEF PutParam, Go, files, CacheTypeOK, WorkOK, Dated
  <2>4. ASSUME NEW k \in Loaders PROVE LoadOK(k)'
    BY <1>6, <1>a, <2>4, Disturbed DEF PutParam, Go, files, CacheTypeOK, FilesOK, WorkOK, LoadOK, Dated
  <2> QED
    BY <2>1, <2>2, <2>3, <2>4
<1>7. CASE PutBin(l)
  <2>1. CacheTypeOK'
    BY <1>7, <1>a, Disturbed, AbsentFile DEF PutBin, Go, files, CacheTypeOK, Steps
  <2>2. FilesOK'
    BY <1>7 DEF PutBin, Go, files, FilesOK, WorkOK, Dated
  <2>3. ASSUME NEW k \in Loaders PROVE WorkOK(k)'
    BY <1>7, <1>a, <2>3, Disturbed, AbsentFile DEF PutBin, Go, files, CacheTypeOK, WorkOK, Dated
  <2>4. ASSUME NEW k \in Loaders PROVE LoadOK(k)'
    BY <1>7, <1>a, <2>4, Disturbed, AbsentFile DEF PutBin, Go, files, CacheTypeOK, FilesOK, WorkOK, LoadOK, Dated
  <2> QED
    BY <2>1, <2>2, <2>3, <2>4
<1>8. CASE ReadParam(l)
  <2>1. CacheTypeOK'
    BY <1>8, <1>a, FileFields DEF ReadParam, Go, NoNet, Graph, files, CacheTypeOK, Steps
  <2>2. FilesOK'
    BY <1>8 DEF ReadParam, Go, files, FilesOK, WorkOK, Dated
  <2>3. ASSUME NEW k \in Loaders PROVE WorkOK(k)'
    BY <1>8, <1>a, <2>3 DEF ReadParam, Go, files, CacheTypeOK, WorkOK, Dated
  <2>4. ASSUME NEW k \in Loaders PROVE LoadOK(k)'
    BY <1>8, <1>a, <2>4 DEF ReadParam, Go, NoNet, Graph, files, CacheTypeOK, FilesOK, WorkOK, LoadOK, Dated
  <2> QED
    BY <2>1, <2>2, <2>3, <2>4
<1>9. CASE ReadBin(l)
  <2>1. CacheTypeOK'
    BY <1>9, <1>a, FileFields DEF ReadBin, Go, NoNet, Graph, files, CacheTypeOK, Steps
  <2>2. FilesOK'
    BY <1>9 DEF ReadBin, Go, files, FilesOK, WorkOK, Dated
  <2>3. ASSUME NEW k \in Loaders PROVE WorkOK(k)'
    BY <1>9, <1>a, <2>3 DEF ReadBin, Go, files, CacheTypeOK, WorkOK, Dated
  <2>4. ASSUME NEW k \in Loaders PROVE LoadOK(k)'
    BY <1>9, <1>a, <2>4 DEF ReadBin, Go, NoNet, Graph, files, CacheTypeOK, FilesOK, WorkOK, LoadOK, Dated
  <2> QED
    BY <2>1, <2>2, <2>3, <2>4
<1>10. CASE BuildRaises(l)
  <2>1. CacheTypeOK'
    BY <1>10, <1>a DEF BuildRaises, BuildFails, NoNet, Graph, files, CacheTypeOK, Steps
  <2>2. FilesOK'
    BY <1>10 DEF BuildRaises, BuildFails, files, FilesOK, WorkOK, Dated
  <2>3. ASSUME NEW k \in Loaders PROVE WorkOK(k)'
    BY <1>10, <1>a, <2>3 DEF BuildRaises, BuildFails, files, CacheTypeOK, WorkOK, Dated
  <2>4. ASSUME NEW k \in Loaders PROVE LoadOK(k)'
    BY <1>10, <1>a, <2>4 DEF BuildRaises, BuildFails, NoNet, Graph, files, CacheTypeOK, FilesOK, WorkOK, LoadOK, Dated
  <2> QED
    BY <2>1, <2>2, <2>3, <2>4
<1>11. CASE Verified(l)
  <2>1. CacheTypeOK'
    BY <1>11, <1>a DEF Verified, Go, files, CacheTypeOK, Steps
  <2>2. FilesOK'
    BY <1>11 DEF Verified, Go, files, FilesOK, WorkOK, Dated
  <2>3. ASSUME NEW k \in Loaders PROVE WorkOK(k)'
    BY <1>11, <1>a, <2>3 DEF Verified, Go, files, CacheTypeOK, WorkOK, Dated
  <2>4. ASSUME NEW k \in Loaders PROVE LoadOK(k)'
    BY <1>11, <1>a, <2>4 DEF Verified, Go, files, CacheTypeOK, FilesOK, WorkOK, LoadOK, Dated
  <2> QED
    BY <2>1, <2>2, <2>3, <2>4
<1>12. CASE MismatchRaises(l)
  <2>1. CacheTypeOK'
    BY <1>12, <1>a DEF MismatchRaises, Go, files, CacheTypeOK, Steps
  <2>2. FilesOK'
    BY <1>12 DEF MismatchRaises, Go, files, FilesOK, WorkOK, Dated
  <2>3. ASSUME NEW k \in Loaders PROVE WorkOK(k)'
    BY <1>12, <1>a, <2>3 DEF MismatchRaises, Go, files, CacheTypeOK, WorkOK, Dated
  <2>4. ASSUME NEW k \in Loaders PROVE LoadOK(k)'
    BY <1>12, <1>a, <2>4 DEF MismatchRaises, Go, files, CacheTypeOK, FilesOK, WorkOK, LoadOK, Dated
  <2> QED
    BY <2>1, <2>2, <2>3, <2>4
<1>13. CASE Killed(l)
  <2>1. CacheTypeOK'
    BY <1>13, <1>a, AbsentFile DEF Killed, Ended, NoNet, Graph, files, CacheTypeOK, Steps
  <2>2. FilesOK'
    BY <1>13 DEF Killed, Ended, files, FilesOK, WorkOK, Dated
  <2>3. ASSUME NEW k \in Loaders PROVE WorkOK(k)'
    BY <1>13, <1>a, <2>3, AbsentFile DEF Killed, Ended, files, CacheTypeOK, WorkOK, Dated
  <2>4. ASSUME NEW k \in Loaders PROVE LoadOK(k)'
    BY <1>13, <1>a, <2>4, AbsentFile DEF Killed, Ended, NoNet, Graph, files, CacheTypeOK, FilesOK, WorkOK, LoadOK, Dated
  <2> QED
    BY <2>1, <2>2, <2>3, <2>4
<1> QED
  BY <1>1, <1>2, <1>3, <1>4, <1>5, <1>6, <1>7, <1>8, <1>9, <1>10, <1>11, <1>12, <1>13

LEMMA NextCache == CacheInv /\ [CacheNext]_cacheVars => CacheInv'
<1> SUFFICES ASSUME CacheInv, [CacheNext]_cacheVars PROVE CacheInv'
  OBVIOUS
<1> USE DEF CacheInv
<1>1. CASE Tick
  <2>1. clock' \in Times
    BY <1>1, CacheAssumption DEF Tick, CacheTypeOK, Times
  <2>2. CacheTypeOK' /\ FilesOK'
    BY <1>1, <2>1 DEF Tick, CacheTypeOK, FilesOK, Dated
  <2>3. ASSUME NEW k \in Loaders PROVE WorkOK(k)' /\ LoadOK(k)'
    BY <1>1, <2>3 DEF Tick, WorkOK, LoadOK, Dated
  <2> QED
    BY <2>2, <2>3
<1>2. CASE ReplaceOnnx
  <2>1. PICK v \in Versions \ {onnx.of}, t \in 0..clock :
          /\ onnx' = [of |-> v, at |-> t]
          /\ param' = Overtaken(param, t) /\ bin' = Overtaken(bin, t)
          /\ work' = [l \in Loaders |-> Overtaken(work[l], t)]
    BY <1>2 DEF ReplaceOnnx
  <2>2. t \in Times
    BY <2>1, CacheAssumption DEF CacheTypeOK, Times
  <2>3. /\ onnx' \in Onnx /\ onnx'.at = t
        /\ param' \in File /\ bin' \in File /\ work' \in [Loaders -> File]
    BY <2>1, <2>2, OvertakenFile DEF Onnx, CacheTypeOK
  <2>4. CacheTypeOK'
    BY <1>2, <2>3, Disturbed DEF ReplaceOnnx, CacheTypeOK
  \* A file that does not miss this replacement is older than it.
  <2>5. ASSUME NEW f \in File, Dated(f)
        PROVE  LET g == Overtaken(f, t)
               IN  /\ g.is # "absent" => g.of # NoVersion
                   /\ g.is # "absent" /\ g.at >= onnx'.at => g.missed
    BY <2>2, <2>3, <2>5, OvertakenFile DEF Dated
  <2>6. FilesOK'
    BY <2>1, <2>5 DEF CacheTypeOK, FilesOK, Dated
  <2>7. ASSUME NEW k \in Loaders PROVE WorkOK(k)'
    <3>1. work[k] \in File /\ work'[k] = Overtaken(work[k], t) /\ pc'[k] = pc[k] /\ WorkOK(k)
      BY <1>2, <2>1, <2>7 DEF ReplaceOnnx, CacheTypeOK
    <3>2. Dated(work[k])'
      BY <2>5, <3>1 DEF WorkOK, Dated
    <3>3. /\ work'[k].is = work[k].is /\ work'[k].of = work[k].of
          /\ work[k].of # NoVersion /\ work[k].is = "absent" => work'[k].missed
      BY <2>2, <3>1, OvertakenFile
    <3> QED
      BY <3>1, <3>2, <3>3 DEF WorkOK
  <2>8. ASSUME NEW k \in Loaders PROVE LoadOK(k)'
    BY <1>2, <2>8, Disturbed DEF ReplaceOnnx, CacheTypeOK, LoadOK, Outside
  <2> QED
    BY <2>4, <2>6, <2>7, <2>8
<1>3. CASE PowerLoss
  <2>1. /\ param' \in File /\ param'.of = param.of /\ param'.at = param.at
        /\ param'.is = "absent" <=> param.is = "absent"
        /\ param'.missed = param.missed
        /\ bin' \in File /\ bin'.of = bin.of /\ bin'.at = bin.at
        /\ bin'.is = "absent" <=> bin.is = "absent"
        /\ bin'.missed = bin.missed
    BY <1>3, EmptiedFile DEF PowerLoss, CacheTypeOK
  <2>2. CacheTypeOK'
    BY <1>3, <2>1, AbsentFile DEF PowerLoss, Ended, CacheTypeOK, Steps, Outside, NoNet, Graph
  <2>3. FilesOK'
    BY <1>3, <2>1 DEF PowerLoss, FilesOK, Dated
  <2>4. ASSUME NEW k \in Loaders PROVE WorkOK(k)' /\ LoadOK(k)'
    BY <1>3, <2>4, AbsentFile DEF PowerLoss, Ended, WorkOK, LoadOK, Dated
  <2> QED
    BY <2>2, <2>3, <2>4
<1>4. CASE DeleteCache
  <2>1. CacheTypeOK' /\ FilesOK'
    BY <1>4, AbsentFile, Disturbed DEF DeleteCache, CacheTypeOK, FilesOK, Dated
  <2>2. ASSUME NEW k \in Loaders PROVE WorkOK(k)'
    BY <1>4, <2>2 DEF DeleteCache, WorkOK, Dated
  <2>3. ASSUME NEW k \in Loaders PROVE LoadOK(k)'
    BY <1>4, <2>3, Disturbed DEF DeleteCache, CacheTypeOK, LoadOK, Outside
  <2> QED
    BY <2>1, <2>2, <2>3
<1>5. CASE UNCHANGED cacheVars
  <2>1. CacheTypeOK' /\ FilesOK'
    BY <1>5 DEF cacheVars, files, CacheTypeOK, FilesOK, Dated
  <2>2. ASSUME NEW k \in Loaders PROVE WorkOK(k)' /\ LoadOK(k)'
    BY <1>5, <2>2 DEF cacheVars, files, WorkOK, LoadOK, Dated
  <2> QED
    BY <2>1, <2>2
<1> QED
  BY <1>1, <1>2, <1>3, <1>4, <1>5, NextOfProcess DEF CacheNext

LEMMA CacheInvariant == CacheSpec => []CacheInv
  BY InitCache, NextCache, PTL DEF CacheSpec

(* Every variable keeps its type.                                          *)
THEOREM CacheTypeCorrect == CacheSpec => []CacheTypeOK
<1>1. CacheInv => CacheTypeOK
  BY DEF CacheInv
<1> QED
  BY <1>1, CacheInvariant, PTL

(* A file that load() uses because of its time was made from the ONNX file *)
(* as it is, unless that file has missed a replacement: one during its     *)
(* conversion, or by an ONNX file that is not newer than it.               *)
THEOREM TrustedCache == CacheSpec => []TrustedCacheIsCurrent
<1>1. CacheInv => TrustedCacheIsCurrent
  BY DEF CacheInv, FilesOK, Dated, Fresh, TrustedCacheIsCurrent
<1> QED
  BY <1>1, CacheInvariant, PTL

(* A load() between whose steps nobody renamed a file, replaced the ONNX   *)
(* file or deleted the cache, and which did not begin on a fresh cache     *)
(* that had missed a replacement, builds a graph of one version, the one   *)
(* of its names, whatever kills and power losses left behind.              *)
THEOREM OneVersion == CacheSpec => []GraphIsOfOneVersion
<1>1. CacheInv => GraphIsOfOneVersion
  BY DEF CacheInv, LoadOK, GraphIsOfOneVersion
<1> QED
  BY <1>1, CacheInvariant, PTL

(* Such a load() raises only when a conversion of its own did.             *)
THEOREM Repaired == CacheSpec => []DamageIsRepaired
<1>1. CacheInv => DamageIsRepaired
  BY DEF CacheInv, LoadOK, DamageIsRepaired
<1> QED
  BY <1>1, CacheInvariant, PTL

=============================================================================
