-------------------------- MODULE Detections_proofs --------------------------
(***************************************************************************)
(* Proofs about Detections: for every frame size, every list of objects    *)
(* and every number of rows.                                               *)
(***************************************************************************)
EXTENDS Detections, TLAPS, WellFoundedInduction, FiniteSetTheorems

(* Whatever states the size of a w x h frame is read as <<w, h>>           *)
(* (_extract_input_hw).                                                    *)
LEMMA SizeOfHeader ==
  ASSUME NEW w \in Nat \ {0, 1, 3}, NEW h \in Nat \ {0, 1, 3}, NEW kind,
         NEW hdr \in Headers(w, h, kind)
  PROVE  ExtractInputHw(hdr) = <<w, h>>
<1>1. PICK s \in Shapes(w, h) :
        hdr \in {[shape |-> s[2], layout |-> l, wh |-> wh, model_type |-> ModelType(kind)] :
                   l \in {"none", s[1]}, wh \in {<<>>, <<w, h>>}}
  BY DEF Headers
<1>2. /\ hdr.shape = s[2]
      /\ hdr.layout \in {"none", s[1]}
      /\ hdr.wh \in {<<>>, <<w, h>>}
  BY <1>1
<1>3. CASE hdr.wh # <<>>
  BY <1>2, <1>3 DEF ExtractInputHw
<1>4. CASE hdr.wh = <<>>
  <2>1. CASE \E c \in Channels : s = <<"NCHW", <<1, c, h, w>>>>
    BY <1>2, <1>4, <2>1 DEF ExtractInputHw, ByShape, Channels
  <2>2. CASE \E c \in Channels : s = <<"NHWC", <<1, h, w, c>>>>
    BY <1>2, <1>4, <2>2 DEF ExtractInputHw, ByShape, Channels
  <2>3. CASE \E c \in Channels : s = <<"CHW", <<c, h, w>>>>
    BY <1>2, <1>4, <2>3 DEF ExtractInputHw, ByShape, Channels
  <2>4. CASE \E c \in Channels : s = <<"HWC", <<h, w, c>>>>
    BY <1>2, <1>4, <2>4 DEF ExtractInputHw, ByShape, Channels
  <2>5. CASE s = <<"HW", <<h, w>>>>
    BY <1>2, <1>4, <2>5 DEF ExtractInputHw, ByShape, Channels
  <2>6. QED
    BY <2>1, <2>2, <2>3, <2>4, <2>5 DEF Shapes
<1>5. QED
  BY <1>3, <1>4

(* Corners undoes Centre for boxes of even sides. *)
LEMMA CornersOfCentre ==
  ASSUME NEW b \in Nat \X Nat \X Nat \X Nat,
         b[1] < b[3], (b[3] - b[1]) % 2 = 0,
         b[2] < b[4], (b[4] - b[2]) % 2 = 0
  PROVE  Corners(Centre(b)) = b
<1>0. ASSUME NEW n \in Int, n % 2 = 0 PROVE \E k \in Int : n = 2 * k
  BY <1>0
<1>a. b[1] \in Int /\ b[2] \in Int /\ b[3] \in Int /\ b[4] \in Int
  OBVIOUS
<1>b. b[3] - b[1] \in Int /\ b[4] - b[2] \in Int
  BY <1>a
<1>1. PICK p \in Int : b[3] - b[1] = 2 * p
  BY <1>0, <1>b
<1>2. PICK q \in Int : b[4] - b[2] = 2 * q
  BY <1>0, <1>b
<1>3. Width(b) \div 2 = p /\ Height(b) \div 2 = q
  BY <1>1, <1>2 DEF Width, Height
<1>4. Centre(b) = <<b[1] + p, b[2] + q, 2 * p, 2 * q>>
  BY <1>1, <1>2, <1>3 DEF Centre, Width, Height
<1>5. (2 * p) \div 2 = p /\ (2 * q) \div 2 = q
  OBVIOUS
<1>6. Corners(Centre(b)) = <<b[1], b[2], b[1] + 2 * p, b[2] + 2 * q>>
  BY <1>4, <1>5 DEF Corners
<1>7. QED
  BY <1>1, <1>2, <1>6

-----------------------------------------------------------------------------

Lists == UNION {[1..n -> Objects] : n \in 0..MaxSeen}

OutputOf(kind, sz, objects) ==
  [i \in DOMAIN objects |->
     [class |-> objects[i].class, score |-> objects[i].score,
      box |-> RawBox(kind, sz, objects[i].box)]]

(* What has been computed so far is what the steps before it computed, for *)
(* the size of the frame that was sent.                                    *)
Request ==
  /\ frame \in [size : Sizes, kind : Kinds]
  /\ header \in Headers(frame.size[1], frame.size[2], frame.kind)
  /\ seen \in Lists
  /\ pc \in {"received", "sized", "inferred", "decoded", "kept", "answered", "zeros"}

SizeKnown ==
  /\ pc = "received" => size = <<0, 0>>
  /\ pc \notin {"received", "zeros"} => size = frame.size
  /\ size \in Nat \X Nat

Decoded ==
  /\ pc \in {"inferred", "decoded", "kept", "answered"}
       => out = OutputOf(frame.kind, frame.size, seen)
  /\ pc \in {"decoded", "kept", "answered"}
       => dets = [i \in {j \in DOMAIN out : Given(frame.kind, out[j].score)} |->
                    [out[i] EXCEPT !.box = Decode(frame.kind, frame.size, out[i].box)]]
  /\ pc \notin {"decoded", "kept", "answered"} => dets = <<>>

Answer ==
  /\ pc \in {"kept", "answered"} => kept \in NMSBoxes(dets)
  /\ pc \notin {"kept", "answered"} => kept = <<>>
  /\ pc = "answered" =>
       rows = [a \in 1..Least(Len(kept), MaxRows) |->
                 RowOf(dets[kept[a]],
                       <<RawUnit(frame.kind, frame.size)[1] * Divisor(frame.kind, frame.size)[1],
                         RawUnit(frame.kind, frame.size)[2] * Divisor(frame.kind, frame.size)[2]>>)]
  /\ pc # "answered" => rows = <<>>

DetInv == Request /\ SizeKnown /\ Decoded /\ Answer

LEMMA DetInvInit == Init => DetInv
<1> SUFFICES ASSUME Init PROVE DetInv
  OBVIOUS
<1>1. Request
  BY DEF Init, Request, Lists
<1>2. SizeKnown /\ Decoded /\ Answer
  BY DEF Init, SizeKnown, Decoded, Answer
<1> QED
  BY <1>1, <1>2 DEF DetInv

LEMMA DetInvStep == DetInv /\ [Next]_detVars => DetInv'
<1> SUFFICES ASSUME DetInv, [Next]_detVars PROVE DetInv'
  OBVIOUS
<1> USE DEF DetInv
<1>1. CASE GetSize
  <2>1. size' = frame.size
    <3>1. PICK w \in Nat \ {0, 1, 3}, h \in Nat \ {0, 1, 3} : frame.size = <<w, h>>
      BY DetectionAssumption DEF DetectionAssumption, Request
    <3>2. header \in Headers(w, h, frame.kind)
      BY <3>1 DEF Request
    <3> QED
      BY <1>1, <3>1, <3>2, SizeOfHeader DEF GetSize
  <2>2. size' \in Nat \X Nat
    BY <2>1, <1>1, DetectionAssumption DEF DetectionAssumption, Request, GetSize
  <2> QED
    BY <1>1, <2>1, <2>2 DEF GetSize, Request, SizeKnown, Decoded, Answer
<1>2. CASE Infer
  BY <1>2 DEF Infer, Request, SizeKnown, Decoded, Answer, OutputOf
<1>3. CASE Zeros
  BY <1>3 DEF Zeros, Request, SizeKnown, Decoded, Answer
<1>4. CASE DecodeOutput
  BY <1>4 DEF DecodeOutput, Request, SizeKnown, Decoded, Answer
<1>5. CASE Suppress
  BY <1>5 DEF Suppress, Request, SizeKnown, Decoded, Answer
<1>6. CASE Report
  BY <1>6 DEF Report, Request, SizeKnown, Decoded, Answer
<1>7. CASE UNCHANGED detVars
  BY <1>7 DEF detVars, Request, SizeKnown, Decoded, Answer
<1> QED
  BY <1>1, <1>2, <1>3, <1>4, <1>5, <1>6, <1>7 DEF Next

(* The invariant of every request. *)
LEMMA Inductive == Spec => []DetInv
<1> QED
  BY DetInvInit, DetInvStep, PTL DEF Spec

(* The sizes in the header and in the post-processing are the same.        *)
THEOREM SizeIsRight == Spec => []SizeIsTheFrames
<1>1. DetInv => SizeIsTheFrames
  BY DEF DetInv, SizeKnown, SizeIsTheFrames
<1> QED
  BY <1>1, Inductive, PTL

-----------------------------------------------------------------------------
(* What a row says. *)

DetOf(o) == [class |-> o.class, score |-> o.score,
             box |-> Decode(frame.kind, frame.size, RawBox(frame.kind, frame.size, o.box))]

RowUnit == <<RawUnit(frame.kind, frame.size)[1] * Divisor(frame.kind, frame.size)[1],
             RawUnit(frame.kind, frame.size)[2] * Divisor(frame.kind, frame.size)[2]>>

(* Through the format of each network a row says where its object is: the  *)
(* units of its axes make up for what RawBox and Decode did.               *)
LEMMA RowReports ==
  ASSUME NEW w \in Nat \ {0, 1, 3}, NEW h \in Nat \ {0, 1, 3},
         NEW kind \in Kinds, NEW o \in Objects,
         frame = [size |-> <<w, h>>, kind |-> kind]
  PROVE  ReportOf(RowOf(DetOf(o), RowUnit), o)
<1> DEFINE b == o.box
<1>1. /\ b \in Nat \X Nat \X Nat \X Nat
      /\ b[1] < b[3] /\ (b[3] - b[1]) % 2 = 0
      /\ b[2] < b[4] /\ (b[4] - b[2]) % 2 = 0
  BY DetectionAssumption DEF DetectionAssumption
<1>2. Corners(Centre(b)) = b
  BY <1>1, CornersOfCentre
<1>3. b[1] \in Int /\ b[2] \in Int /\ b[3] \in Int /\ b[4] \in Int
  BY <1>1
<1>4. frame.kind = kind /\ frame.size = <<w, h>>
  OBVIOUS
<1> HIDE DEF b
<1>5. CASE kind = "dfine"
  <2>1. DetOf(o) = [class |-> o.class, score |-> o.score,
                    box |-> <<b[1] * h, b[2] * w, b[3] * h, b[4] * w>>]
    BY <1>4, <1>5 DEF DetOf, Decode, RawBox, b
  <2>2. RowUnit = <<w * h, h * w>>
    BY <1>4, <1>5 DEF RowUnit, RawUnit, Divisor
  <2>3. RowOf(DetOf(o), RowUnit)
          = [class |-> o.class, score |-> o.score,
             box |-> <<b[2] * w, b[1] * h, b[4] * w, b[3] * h>>, unit |-> <<h * w, w * h>>]
    BY <2>1, <2>2 DEF RowOf
  <2>4. \A n \in Int : (n * w) * h = n * (h * w) /\ (n * h) * w = n * (w * h)
    OBVIOUS
  <2> QED
    BY <1>3, <1>4, <1>5, <2>3, <2>4 DEF ReportOf, SamePart, b
<1>6. CASE kind = "rfdetr"
  <2>1. DetOf(o) = [class |-> o.class, score |-> o.score, box |-> b]
    BY <1>2, <1>4, <1>6 DEF DetOf, Decode, RawBox, b
  <2>2. RowUnit = <<w * 1, h * 1>>
    BY <1>4, <1>6 DEF RowUnit, RawUnit, Divisor
  <2>3. RowOf(DetOf(o), RowUnit)
          = [class |-> o.class, score |-> o.score,
             box |-> <<b[2], b[1], b[4], b[3]>>, unit |-> <<h, w>>]
    BY <2>1, <2>2 DEF RowOf
  <2> QED
    BY <1>3, <1>4, <1>6, <2>3 DEF ReportOf, SamePart, b
<1>7. CASE kind \in {"yolo1", "other"}
  <2>1. DetOf(o) = [class |-> o.class, score |-> o.score, box |-> b]
    BY <1>2, <1>4, <1>7 DEF DetOf, Decode, RawBox, b
  <2>2. RowUnit = <<1 * w, 1 * h>>
    BY <1>4, <1>7 DEF RowUnit, RawUnit, Divisor
  <2>3. RowOf(DetOf(o), RowUnit)
          = [class |-> o.class, score |-> o.score,
             box |-> <<b[2], b[1], b[4], b[3]>>, unit |-> <<h, w>>]
    BY <2>1, <2>2 DEF RowOf
  <2> QED
    BY <1>3, <1>4, <1>7, <2>3 DEF ReportOf, SamePart, b
<1>8. CASE kind = "yolo3"
  <2> DEFINE c == Clip(b, <<w, h>>)
  <2>1. DetOf(o) = [class |-> o.class, score |-> o.score, box |-> c]
    BY <1>2, <1>4, <1>8 DEF DetOf, Decode, RawBox, b
  <2>2. RowUnit = <<1 * w, 1 * h>>
    BY <1>4, <1>8 DEF RowUnit, RawUnit, Divisor
  <2>3. RowOf(DetOf(o), RowUnit)
          = [class |-> o.class, score |-> o.score,
             box |-> <<c[2], c[1], c[4], c[3]>>, unit |-> <<h, w>>]
    BY <2>1, <2>2 DEF RowOf
  <2> QED
    BY <1>3, <1>4, <1>8, <2>3 DEF ReportOf, SamePart, b
<1> QED
  BY <1>5, <1>6, <1>7, <1>8 DEF Kinds

(* What an answer is made of. *)
LEMMA AnswerFacts ==
  ASSUME DetInv, pc = "answered"
  PROVE  /\ DOMAIN dets \subseteq DOMAIN seen
         /\ \A i \in DOMAIN dets : dets[i] = DetOf(seen[i])
         /\ \A i \in DOMAIN seen : seen[i] \in Objects
         /\ kept \in [1..Len(kept) -> DOMAIN dets] /\ Len(kept) \in Nat
         /\ Len(kept) <= MaxSeen
         /\ DOMAIN rows = 1..Least(Len(kept), MaxRows)
         /\ Len(rows) = Least(Len(kept), MaxRows)
         /\ \A a \in DOMAIN rows : rows[a] = RowOf(DetOf(seen[kept[a]]), RowUnit)
<1>1. out = OutputOf(frame.kind, frame.size, seen)
  BY DEF DetInv, Decoded
<1>2. dets = [i \in {j \in DOMAIN out : Given(frame.kind, out[j].score)} |->
                [out[i] EXCEPT !.box = Decode(frame.kind, frame.size, out[i].box)]]
  BY DEF DetInv, Decoded
<1>3. DOMAIN out = DOMAIN seen
  BY <1>1 DEF OutputOf
<1>4. DOMAIN dets \subseteq DOMAIN seen
  BY <1>2, <1>3
<1>5. ASSUME NEW i \in DOMAIN dets PROVE dets[i] = DetOf(seen[i])
  <2>1. out[i] = [class |-> seen[i].class, score |-> seen[i].score,
                  box |-> RawBox(frame.kind, frame.size, seen[i].box)]
    BY <1>1, <1>4, <1>5 DEF OutputOf
  <2>2. dets[i] = [out[i] EXCEPT !.box = Decode(frame.kind, frame.size, out[i].box)]
    BY <1>2, <1>5
  <2> QED
    BY <2>1, <2>2 DEF DetOf
<1>6. \A i \in DOMAIN seen : seen[i] \in Objects
  BY DEF DetInv, Request, Lists
<1>7. kept \in NMSBoxes(dets)
  BY DEF DetInv, Answer
<1>8. PICK n \in 0..MaxSeen : kept \in [1..n -> DOMAIN dets]
  BY <1>7 DEF NMSBoxes
<1>9. Len(kept) = n /\ n \in Nat
  BY <1>8
<1>10. rows = [a \in 1..Least(Len(kept), MaxRows) |-> RowOf(dets[kept[a]], RowUnit)]
  BY DEF DetInv, Answer, RowUnit
<1>11. Least(Len(kept), MaxRows) \in Nat /\ Least(Len(kept), MaxRows) <= n
  BY <1>9, DetectionAssumption DEF DetectionAssumption, Least
<1>12. ASSUME NEW a \in 1..Least(Len(kept), MaxRows)
       PROVE  rows[a] = RowOf(DetOf(seen[kept[a]]), RowUnit)
  <2>1. kept[a] \in DOMAIN dets
    BY <1>8, <1>9, <1>11
  <2> QED
    BY <1>5, <1>10, <2>1
<1>13. DOMAIN rows = 1..Least(Len(kept), MaxRows) /\ Len(rows) = Least(Len(kept), MaxRows)
  BY <1>10, <1>11
<1> QED
  BY <1>4, <1>5, <1>6, <1>8, <1>9, <1>12, <1>13, DetectionAssumption DEF DetectionAssumption

-----------------------------------------------------------------------------
(* The theorems about the answer. *)

LEMMA FrameShape ==
  ASSUME DetInv
  PROVE  \E w \in Nat \ {0, 1, 3}, h \in Nat \ {0, 1, 3}, kind \in Kinds :
           frame = [size |-> <<w, h>>, kind |-> kind]
<1>1. frame \in [size : Sizes, kind : Kinds]
  BY DEF DetInv, Request
<1>2. frame.size \in (Nat \ {0, 1, 3}) \X (Nat \ {0, 1, 3})
  BY <1>1, DetectionAssumption DEF DetectionAssumption
<1>3. frame = [size |-> frame.size, kind |-> frame.kind]
  BY <1>1
<1>4. PICK w \in Nat \ {0, 1, 3}, h \in Nat \ {0, 1, 3} : frame.size = <<w, h>>
  BY <1>2
<1> QED
  BY <1>1, <1>3, <1>4

(* A row reports the object whose index NMSBoxes returned. *)
LEMMA RowIsReport ==
  ASSUME DetInv, pc = "answered", NEW a \in DOMAIN rows
  PROVE  /\ a \in 1..Len(kept)
         /\ kept[a] \in DOMAIN dets /\ kept[a] \in DOMAIN seen
         /\ ReportOf(rows[a], seen[kept[a]])
         /\ rows[a].score = seen[kept[a]].score
         /\ dets[kept[a]].score = seen[kept[a]].score
<1>1. a \in 1..Len(kept)
  BY AnswerFacts, DetectionAssumption DEF DetectionAssumption, Least
<1>2. kept[a] \in DOMAIN dets
  BY <1>1, AnswerFacts
<1>3. kept[a] \in DOMAIN seen /\ seen[kept[a]] \in Objects
  BY <1>2, AnswerFacts
<1>4. ReportOf(rows[a], seen[kept[a]])
  <2>1. ReportOf(RowOf(DetOf(seen[kept[a]]), RowUnit), seen[kept[a]])
    BY <1>3, FrameShape, RowReports
  <2> QED
    BY <2>1, AnswerFacts
<1>5. rows[a].score = seen[kept[a]].score
  BY <1>4 DEF ReportOf
<1>6. dets[kept[a]].score = seen[kept[a]].score
  BY <1>2, AnswerFacts DEF DetOf
<1> QED
  BY <1>1, <1>2, <1>3, <1>4, <1>5, <1>6

LEMMA ScoresAreNumbers ==
  ASSUME DetInv, pc = "answered"
  PROVE  /\ DOMAIN seen \subseteq Nat
         /\ \A i \in DOMAIN seen : seen[i].score \in Int
         /\ \A i \in DOMAIN dets : dets[i].score = seen[i].score /\ i \in DOMAIN seen
<1>1. PICK n \in 0..MaxSeen : seen \in [1..n -> Objects]
  BY DEF DetInv, Request, Lists
<1>2. DOMAIN seen \subseteq Nat
  BY <1>1, DetectionAssumption DEF DetectionAssumption
<1>3. ASSUME NEW i \in DOMAIN seen PROVE seen[i].score \in Int
  <2>1. seen[i] \in Objects
    BY <1>1
  <2>2. seen[i] \in [class : Nat, score : 0..10, box : Nat \X Nat \X Nat \X Nat]
    BY <2>1, DetectionAssumption DEF DetectionAssumption
  <2> QED
    BY <2>2
<1>4. \A i \in DOMAIN dets : dets[i].score = seen[i].score /\ i \in DOMAIN seen
  BY AnswerFacts DEF DetOf
<1> QED
  BY <1>2, <1>3, <1>4

LEMMA KeptInOrder ==
  ASSUME DetInv, pc = "answered",
         NEW a \in 1..Len(kept), NEW b \in 1..Len(kept), a < b
  PROVE  Before(dets, kept[a], kept[b])
<1>1. kept \in NMSBoxes(dets)
  BY DEF DetInv, Answer
<1>2. DOMAIN kept = 1..Len(kept)
  BY AnswerFacts
<1> QED
  BY <1>1, <1>2 DEF NMSBoxes

(* The types, the number of rows included. *)
THEOREM DetTypeCorrect == Spec => []DetTypeOK
<1>1. DetInv => DetTypeOK
  <2> SUFFICES ASSUME DetInv PROVE DetTypeOK
    OBVIOUS
  <2>1. /\ pc \in {"received", "sized", "inferred", "decoded", "kept", "answered", "zeros"}
        /\ size \in Nat \X Nat
    BY DEF DetInv, Request, SizeKnown
  <2>2. Len(rows) <= MaxRows
    <3>1. CASE pc = "answered"
      BY <3>1, AnswerFacts, DetectionAssumption DEF DetectionAssumption, Least
    <3>2. CASE pc # "answered"
      BY <3>2, DetectionAssumption DEF DetectionAssumption, DetInv, Answer
    <3> QED
      BY <3>1, <3>2
  <2>3. DOMAIN dets \subseteq DOMAIN seen
    <3>1. CASE pc \in {"decoded", "kept", "answered"}
      BY <3>1 DEF DetInv, Decoded, OutputOf
    <3>2. CASE pc \notin {"decoded", "kept", "answered"}
      <4>1. dets = <<>>
        BY <3>2 DEF DetInv, Decoded
      <4>2. DOMAIN dets = {}
        BY <4>1
      <4> QED
        BY <4>2
    <3> QED
      BY <3>1, <3>2
  <2>4. Len(kept) <= MaxSeen
    <3>1. CASE pc \in {"kept", "answered"}
      <4>1. PICK n \in 0..MaxSeen : kept \in [1..n -> DOMAIN dets]
        BY <3>1 DEF DetInv, Answer, NMSBoxes
      <4> QED
        BY <4>1, DetectionAssumption DEF DetectionAssumption
    <3>2. CASE pc \notin {"kept", "answered"}
      BY <3>2, DetectionAssumption DEF DetectionAssumption, DetInv, Answer
    <3> QED
      BY <3>1, <3>2
  <2> QED
    BY <2>1, <2>2, <2>3, <2>4 DEF DetTypeOK
<1> QED
  BY <1>1, Inductive, PTL

(* Every row is where its object is, and no object has two rows. *)
THEOREM RowsAreRight == Spec => []RowsPlaceObjects
<1>1. DetInv => RowsPlaceObjects
  <2> SUFFICES ASSUME DetInv, pc = "answered"
               PROVE  \E f \in [DOMAIN rows -> DOMAIN seen] :
                        /\ \A a \in DOMAIN rows : ReportOf(rows[a], seen[f[a]])
                        /\ \A a, b \in DOMAIN rows : f[a] = f[b] => a = b
    BY DEF RowsPlaceObjects
  <2> DEFINE f == [a \in DOMAIN rows |-> kept[a]]
  <2>1. f \in [DOMAIN rows -> DOMAIN seen]
    BY RowIsReport
  <2>2. \A a \in DOMAIN rows : ReportOf(rows[a], seen[f[a]])
    BY RowIsReport
  <2>3. ASSUME NEW a \in DOMAIN rows, NEW b \in DOMAIN rows, f[a] = f[b], a < b
        PROVE  FALSE
    <3>1. kept[a] = kept[b]
      BY <2>3
    <3>2. Before(dets, kept[a], kept[b])
      BY <2>3, RowIsReport, KeptInOrder
    <3>3. dets[kept[a]].score \in Int /\ kept[a] \in Nat
      BY RowIsReport, ScoresAreNumbers
    <3> QED
      BY <3>1, <3>2, <3>3 DEF Before
  <2>4. \A a, b \in DOMAIN rows : a \in Int /\ b \in Int
    BY AnswerFacts, RowIsReport
  <2>5. \A a, b \in DOMAIN rows : f[a] = f[b] => a = b
    BY <2>3, <2>4
  <2> QED
    BY <2>1, <2>2, <2>5
<1> QED
  BY <1>1, Inductive, PTL

(* All rows are taken once one of the indices kept has none; those that    *)
(* have one come before it.                                                *)
LEMMA CutOff ==
  ASSUME DetInv, pc = "answered", NEW a \in 1..Len(kept), a \notin DOMAIN rows
  PROVE  /\ Len(rows) = MaxRows
         /\ \A b \in DOMAIN rows : rows[b].score >= seen[kept[a]].score
<1>0. /\ DOMAIN rows = 1..Least(Len(kept), MaxRows) /\ Len(rows) = Least(Len(kept), MaxRows)
      /\ Len(kept) \in Nat /\ MaxRows \in Nat
  BY AnswerFacts, DetectionAssumption DEF DetectionAssumption
<1>a. Least(Len(kept), MaxRows) = MaxRows
  <2>1. CASE Len(kept) < MaxRows
    BY <1>0, <2>1 DEF Least
  <2>2. CASE ~(Len(kept) < MaxRows)
    BY <2>2 DEF Least
  <2> QED
    BY <2>1, <2>2
<1>1. Len(rows) = MaxRows /\ a > MaxRows /\ DOMAIN rows = 1..MaxRows
  BY <1>0, <1>a
<1>2. ASSUME NEW b \in DOMAIN rows PROVE rows[b].score >= seen[kept[a]].score
  <2>1. b \in 1..Len(kept) /\ b < a
    BY <1>1, RowIsReport, DetectionAssumption DEF DetectionAssumption
  <2>2. Before(dets, kept[b], kept[a])
    BY <2>1, KeptInOrder
  <2>3. kept[a] \in DOMAIN dets
    BY AnswerFacts
  <2>4. /\ dets[kept[a]].score = seen[kept[a]].score /\ seen[kept[a]].score \in Int
        /\ dets[kept[b]].score = rows[b].score /\ rows[b].score \in Int
    BY <2>3, RowIsReport, ScoresAreNumbers
  <2> QED
    BY <2>2, <2>4 DEF Before
<1> QED
  BY <1>1, <1>2

(* What is above the threshold was given to NMSBoxes. *)
LEMMA ConfidentIsGiven ==
  ASSUME DetInv, pc = "answered",
         NEW i \in DOMAIN seen, seen[i].score > ScoreThreshold
  PROVE  i \in DOMAIN dets
<1>1. out[i].score = seen[i].score /\ i \in DOMAIN out
  BY DEF DetInv, Decoded, OutputOf
<1>2. Given(frame.kind, out[i].score)
  BY <1>1 DEF Given
<1> QED
  BY <1>1, <1>2 DEF DetInv, Decoded

(* Nothing above the threshold is lost but to something at least as good.  *)
THEOREM BestReported == Spec => []BestAreReported
<1>1. DetInv => BestAreReported
  <2> SUFFICES ASSUME DetInv, pc = "answered",
                      NEW i \in DOMAIN seen, seen[i].score > ScoreThreshold
               PROVE  \/ Reported(i)
                      \/ \E j \in DOMAIN seen :
                           /\ Reported(j) /\ seen[j].score >= seen[i].score
                           /\ Suppresses(dets[j].box, dets[i].box)
                      \/ /\ Len(rows) = MaxRows
                         /\ \A a \in DOMAIN rows : rows[a].score >= seen[i].score
    BY DEF BestAreReported
  <2>1. i \in DOMAIN dets /\ dets[i].score = seen[i].score /\ seen[i].score \in Int
    BY ConfidentIsGiven, ScoresAreNumbers
  <2>2. CASE \E a \in 1..Len(kept) : kept[a] = i
    <3>1. PICK a \in 1..Len(kept) : kept[a] = i
      BY <2>2
    <3>2. CASE a \in DOMAIN rows
      BY <3>1, <3>2, RowIsReport DEF Reported
    <3>3. CASE a \notin DOMAIN rows
      BY <3>1, <3>3, CutOff
    <3> QED
      BY <3>2, <3>3
  <2>3. CASE ~\E a \in 1..Len(kept) : kept[a] = i
    <3>1. kept \in NMSBoxes(dets) /\ DOMAIN kept = 1..Len(kept)
      BY AnswerFacts DEF DetInv, Answer
    <3>2. PICK a \in 1..Len(kept) : /\ Before(dets, kept[a], i)
                                   /\ Suppresses(dets[kept[a]].box, dets[i].box)
      BY <2>1, <2>3, <3>1 DEF NMSBoxes
    <3>3. kept[a] \in DOMAIN dets
      BY AnswerFacts
    <3>4. kept[a] \in DOMAIN seen /\ seen[kept[a]].score \in Int
      BY <3>3, ScoresAreNumbers
    <3>5. seen[kept[a]].score >= seen[i].score
      BY <2>1, <3>2, <3>3, <3>4, ScoresAreNumbers DEF Before
    <3>6. CASE a \in DOMAIN rows
      BY <3>2, <3>4, <3>5, <3>6, RowIsReport DEF Reported
    <3>7. CASE a \notin DOMAIN rows
      <4>1. Len(rows) = MaxRows
        BY <3>7, CutOff
      <4>2. ASSUME NEW b \in DOMAIN rows PROVE rows[b].score >= seen[i].score
        <5>1. rows[b].score >= seen[kept[a]].score
          BY <3>7, CutOff
        <5>2. rows[b].score \in Int
          BY RowIsReport, ScoresAreNumbers
        <5> QED
          BY <2>1, <3>4, <3>5, <5>1, <5>2
      <4> QED
        BY <4>1, <4>2
    <3> QED
      BY <3>6, <3>7
  <2> QED
    BY <2>2, <2>3
<1> QED
  BY <1>1, Inductive, PTL

-----------------------------------------------------------------------------
(* NMSBoxes returns exactly one sequence.  The boxes are numbered in the   *)
(* order in which it takes them (key); what it returns for those below a   *)
(* number determines what it returns for those below the next.             *)

LEMMA LeastNatural ==
  ASSUME NEW D \in SUBSET Nat, D # {}
  PROVE  \E n \in D : \A k \in D : n <= k
<1>1. IsWellFoundedOn(OpToRel(<, Nat), Nat)
  BY NatLessThanWellFounded
<1>2. PICK n \in D : \A k \in D : <<k, n>> \notin OpToRel(<, Nat)
  BY <1>1, WFMin
<1>3. \A k \in D : ~(k < n)
  BY <1>2 DEF OpToRel
<1> QED
  BY <1>3

(* s holds, by key, the members of E that are in G and that no earlier one *)
(* in s is related to by R.                                                *)
Greedy(E, key, G, R, s, n) ==
  /\ s \in [1..n -> E]
  /\ \A a, b \in 1..n : a < b => key[s[a]] < key[s[b]]
  /\ \A i \in E :
       (\E a \in 1..n : s[a] = i)
         <=> /\ i \in G
             /\ \A a \in 1..n : key[s[a]] < key[i] => <<s[a], i>> \notin R

LEMMA GreedyExists ==
  ASSUME NEW D, NEW key \in [D -> Nat], NEW G, NEW R,
         \A i, j \in D : key[i] = key[j] => i = j,
         NEW k \in Nat, \A i \in D : key[i] < k
  PROVE  \E n \in Nat : \E s : Greedy(D, key, G, R, s, n)
<1> DEFINE E(l) == {i \in D : key[i] < l}
           P(l) == \E n \in Nat : \E s : Greedy(E(l), key, G, R, s, n)
           Failing == {l \in Nat : ~P(l)}
<1>1. P(0)
  <2>1. E(0) = {}
    OBVIOUS
  <2>2. Greedy({}, key, G, R, [j \in 1..0 |-> 0], 0)
    BY DEF Greedy
  <2> QED
    BY <2>1, <2>2
<1>2. ASSUME NEW l \in Nat, P(l) PROVE P(l + 1)
  <2>0. PICK n \in Nat : \E s : Greedy(E(l), key, G, R, s, n)
    BY <1>2
  <2>1. PICK s : Greedy(E(l), key, G, R, s, n)
    BY <2>0
  <2>2. /\ s \in [1..n -> E(l)]
        /\ \A a, b \in 1..n : a < b => key[s[a]] < key[s[b]]
        /\ \A i \in E(l) :
             (\E a \in 1..n : s[a] = i)
               <=> /\ i \in G
                   /\ \A a \in 1..n : key[s[a]] < key[i] => <<s[a], i>> \notin R
    BY <2>1 DEF Greedy
  <2>3. \A a \in 1..n : s[a] \in D /\ key[s[a]] \in Nat /\ key[s[a]] < l
    BY <2>2
  <2>4. CASE \A m \in D : key[m] # l
    <3>1. E(l + 1) = E(l)
      BY <2>4
    <3> QED
      BY <2>1, <3>1
  <2>5. ASSUME NEW m \in D, key[m] = l PROVE P(l + 1)
    <3>1. \A i \in E(l + 1) : i \in E(l) \/ i = m
      BY <2>5
    <3>2. E(l) \subseteq E(l + 1) /\ m \in E(l + 1) /\ m \notin E(l)
      BY <2>5
    <3>3. \A i \in E(l) : key[i] \in Nat /\ key[i] < l
      OBVIOUS
    <3> HIDE DEF E
    <3> DEFINE Free == m \in G /\ \A a \in 1..n : <<s[a], m>> \notin R
    <3>4. CASE Free
      <4> DEFINE t == [j \in 1..n + 1 |-> IF j <= n THEN s[j] ELSE m]
      <4>1. \A a \in 1..n + 1 : (a \in 1..n /\ t[a] = s[a]) \/ (a = n + 1 /\ t[a] = m)
        OBVIOUS
      <4>2. t \in [1..n + 1 -> E(l + 1)]
        BY <2>2, <3>2
      <4>3. \A a \in 1..n : a \in 1..n + 1 /\ t[a] = s[a]
        OBVIOUS
      <4>4. n + 1 \in 1..n + 1 /\ t[n + 1] = m
        OBVIOUS
      <4> HIDE DEF t
      <4>5. \A a, b \in 1..n + 1 : a < b => key[t[a]] < key[t[b]]
        <5> TAKE a, b \in 1..n + 1
        <5> HAVE a < b
        <5>1. a \in 1..n /\ t[a] = s[a]
          BY <4>1
        <5>2. CASE b \in 1..n /\ t[b] = s[b]
          BY <2>2, <5>1, <5>2
        <5>3. CASE b = n + 1 /\ t[b] = m
          BY <2>3, <2>5, <5>1, <5>3
        <5> QED
          BY <4>1, <5>2, <5>3
      <4>6. ASSUME NEW i \in E(l)
            PROVE  (\E a \in 1..n + 1 : t[a] = i)
                     <=> /\ i \in G
                         /\ \A a \in 1..n + 1 : key[t[a]] < key[i] => <<t[a], i>> \notin R
        <5>1. (\E a \in 1..n + 1 : t[a] = i) <=> (\E a \in 1..n : s[a] = i)
          BY <3>2, <4>1, <4>3
        <5>2. ~(key[m] < key[i])
          BY <2>5, <3>3
        <5>3. (\A a \in 1..n + 1 : key[t[a]] < key[i] => <<t[a], i>> \notin R)
                <=> (\A a \in 1..n : key[s[a]] < key[i] => <<s[a], i>> \notin R)
          BY <4>1, <4>3, <5>2
        <5> QED
          BY <2>2, <5>1, <5>3
      <4>7. /\ \E a \in 1..n + 1 : t[a] = m
            /\ m \in G
            /\ \A a \in 1..n + 1 : key[t[a]] < key[m] => <<t[a], m>> \notin R
        BY <2>5, <3>4, <4>1, <4>4
      <4>8. Greedy(E(l + 1), key, G, R, t, n + 1)
        BY <3>1, <4>2, <4>5, <4>6, <4>7 DEF Greedy
      <4> QED
        BY <4>8
    <3>5. CASE ~Free
      <4>1. s \in [1..n -> E(l + 1)]
        BY <2>2, <3>2
      <4>2. ~\E a \in 1..n : s[a] = m
        BY <2>2, <3>2
      <4>3. ~(m \in G /\ \A a \in 1..n : key[s[a]] < key[m] => <<s[a], m>> \notin R)
        BY <2>3, <2>5, <3>5
      <4>4. Greedy(E(l + 1), key, G, R, s, n)
        BY <2>2, <3>1, <4>1, <4>2, <4>3 DEF Greedy
      <4> QED
        BY <4>4
    <3> QED
      BY <3>4, <3>5
  <2> QED
    BY <2>4, <2>5
<1> HIDE DEF P
<1>3. ASSUME Failing # {} PROVE FALSE
  <2>1. PICK l \in Failing : \A j \in Failing : l <= j
    <3> Failing \in SUBSET Nat
      OBVIOUS
    <3> QED
      BY <1>3, LeastNatural
  <2>2. l # 0 /\ l - 1 \in Nat
    BY <1>1, <2>1
  <2>3. P(l - 1)
    <3> l - 1 \notin Failing
      BY <2>1, <2>2
    <3> QED
      BY <2>2
  <2>4. P((l - 1) + 1)
    BY <1>2, <2>2, <2>3
  <2> QED
    BY <2>1, <2>4
<1>4. P(k)
  BY <1>3
<1>5. E(k) = D
  OBVIOUS
<1> HIDE DEF E
<1> QED
  BY <1>4, <1>5 DEF P

(* There is no other sequence like that. *)
LEMMA GreedyOnce ==
  ASSUME NEW D, NEW key \in [D -> Nat], NEW G, NEW R,
         NEW n \in Nat, NEW s, Greedy(D, key, G, R, s, n),
         NEW m \in Nat, NEW t, Greedy(D, key, G, R, t, m)
  PROVE  s = t
<1> DEFINE InS(i) == \E a \in 1..n : s[a] = i
           InT(i) == \E a \in 1..m : t[a] = i
           Differing == {i \in D : ~(InS(i) <=> InT(i))}
           Keys == {key[i] : i \in Differing}
<1>1. \A i \in D : InS(i) <=> i \in G /\ \A j \in D : InS(j) /\ key[j] < key[i] => <<j, i>> \notin R
  BY DEF Greedy
<1>2. \A i \in D : InT(i) <=> i \in G /\ \A j \in D : InT(j) /\ key[j] < key[i] => <<j, i>> \notin R
  BY DEF Greedy
<1> HIDE DEF InS, InT
<1>3. ASSUME Differing # {} PROVE FALSE
  <2>1. Keys \in SUBSET Nat /\ Keys # {}
    BY <1>3
  <2>2. PICK k \in Keys : \A j \in Keys : k <= j
    BY <2>1, LeastNatural
  <2>3. PICK i \in Differing : key[i] = k
    BY <2>2
  <2>4. \A j \in D : key[j] < key[i] => (InS(j) <=> InT(j))
    <3> TAKE j \in D
    <3> HAVE key[j] < key[i]
    <3>1. key[j] \notin Keys
      BY <2>1, <2>2, <2>3
    <3> QED
      BY <3>1
  <2> HIDE DEF Keys
  <2>5. InS(i) <=> InT(i)
    BY <1>1, <1>2, <2>3, <2>4
  <2> QED
    BY <2>3, <2>5
<1>4. \A i \in D : InS(i) <=> InT(i)
  BY <1>3
<1>5. \A i \in D : (\E a \in 1..n : s[a] = i) <=> (\E a \in 1..m : t[a] = i)
  BY <1>4 DEF InS, InT
<1>6. /\ s \in [1..n -> D]
      /\ \A a, b \in 1..n : a < b => key[s[a]] < key[s[b]]
      /\ t \in [1..m -> D]
      /\ \A a, b \in 1..m : a < b => key[t[a]] < key[t[b]]
  BY DEF Greedy
<1> USE <1>5, <1>6
<1> DEFINE Places == {a \in Nat \ {0} : a <= n /\ (a > m \/ s[a] # t[a])}
<1>7. ASSUME Places # {} PROVE FALSE
  <2>1. PICK a \in Places : \A b \in Places : a <= b
    <3> Places \in SUBSET Nat
      OBVIOUS
    <3> QED
      BY <1>7, LeastNatural
  <2>2. a \in 1..n /\ \A b \in 1..a - 1 : b \in 1..n /\ b \in 1..m /\ s[b] = t[b]
    <3>1. a \in 1..n
      BY <2>1
    <3>2. ASSUME NEW b \in 1..a - 1
          PROVE  b \in 1..n /\ b \in 1..m /\ s[b] = t[b]
      <4>1. b \in Nat \ {0} /\ b < a /\ b <= n
        BY <3>1, <3>2
      <4>2. b \notin Places
        <5> HIDE DEF Places
        <5> QED
          BY <2>1, <3>1, <4>1
      <4> QED
        BY <4>1, <4>2
    <3> QED
      BY <3>1, <3>2
  <2>3. PICK c \in 1..m : t[c] = s[a]
    <3> s[a] \in D
      BY <2>2
    <3> QED
      BY <2>2
  <2>4. c >= a
    <3>1. ASSUME c < a PROVE FALSE
      <4>1. c \in 1..n /\ s[c] = t[c]
        BY <2>2, <2>3, <3>1
      <4>2. key[s[c]] < key[s[a]] /\ s[c] = s[a]
        BY <2>2, <2>3, <3>1, <4>1
      <4>3. key[s[a]] \in Nat
        BY <2>2
      <4> QED
        BY <4>2, <4>3
    <3> QED
      BY <2>2, <2>3, <3>1
  <2>5. a \in 1..m /\ t[a] # s[a] /\ c > a
    BY <2>1, <2>2, <2>3, <2>4
  <2>6. key[t[a]] < key[s[a]]
    BY <2>3, <2>5
  <2>7. PICK b \in 1..n : s[b] = t[a]
    <3> t[a] \in D
      BY <2>5
    <3> QED
      BY <2>5
  <2>8. key[s[a]] \in Nat /\ key[s[b]] \in Nat
    BY <2>2, <2>7
  <2>9. b < a
    <3>1. b # a
      BY <2>5, <2>7
    <3>2. ~(a < b)
      BY <2>2, <2>6, <2>7, <2>8
    <3> QED
      BY <2>2, <2>7, <3>1, <3>2
  <2>10. b \in 1..m /\ t[b] = t[a]
    BY <2>2, <2>7, <2>9
  <2>11. key[t[b]] < key[t[a]]
    BY <2>5, <2>9, <2>10
  <2> QED
    BY <2>7, <2>8, <2>10, <2>11
<1>8. \A a \in 1..n : a \in 1..m /\ s[a] = t[a]
  <2> TAKE a \in 1..n
  <2> a \notin Places
    BY <1>7
  <2> QED
    OBVIOUS
<1>9. ASSUME n < m PROVE FALSE
  <2>1. m \in 1..m /\ t[m] \in D
    BY <1>9
  <2>2. PICK a \in 1..n : s[a] = t[m]
    BY <2>1
  <2>3. a \in 1..m /\ t[a] = t[m] /\ a < m
    BY <1>8, <1>9, <2>2
  <2>4. key[t[a]] < key[t[m]] /\ key[t[m]] \in Nat
    BY <2>1, <2>3
  <2> QED
    BY <2>3, <2>4
<1>10. n = m
  <2>1. CASE n = 0
    BY <1>9, <2>1
  <2>2. CASE n # 0
    <3>1. n \in 1..m
      BY <1>8, <2>2
    <3> QED
      BY <1>9, <3>1
  <2> QED
    BY <2>1, <2>2
<1> QED
  BY <1>8, <1>10

(* The place of a box in the order in which NMSBoxes takes them. *)
LEMMA BoxOrder ==
  ASSUME NEW N \in Nat,
         NEW x \in 0..10, NEW y \in 0..10, NEW i \in 1..N, NEW j \in 1..N
  PROVE  /\ (10 - x) * (N + 1) + i \in Nat
         /\ (10 - x) * (N + 1) + i < 11 * (N + 1)
         /\ ((10 - x) * (N + 1) + i < (10 - y) * (N + 1) + j) <=> (x > y \/ (x = y /\ i < j))
         /\ ((10 - x) * (N + 1) + i = (10 - y) * (N + 1) + j) => i = j
<1>1. ASSUME NEW a \in Nat, NEW b \in Nat, a < b
      PROVE  a * (N + 1) + (N + 1) <= b * (N + 1)
  <2>1. b - (a + 1) \in Nat
    BY <1>1
  <2>2. PICK c \in Nat : b = a + 1 + c
    BY <2>1
  <2>3. b * (N + 1) = a * (N + 1) + (N + 1) + c * (N + 1)
    BY <2>2
  <2>4. c * (N + 1) \in Nat /\ a * (N + 1) \in Nat
    OBVIOUS
  <2> QED
    BY <2>3, <2>4
<1> DEFINE a == 10 - x
           b == 10 - y
           A == a * (N + 1)
           B == b * (N + 1)
<1>2. a \in Nat /\ b \in Nat /\ a < 11 /\ (x > y <=> a < b) /\ (x = y <=> a = b)
  OBVIOUS
<1>3. A \in Nat /\ B \in Nat
  OBVIOUS
<1>4. A + (N + 1) <= 11 * (N + 1)
  BY <1>1, <1>2
<1>5. /\ a < b => A + (N + 1) <= B
      /\ b < a => B + (N + 1) <= A
      /\ a = b => A = B
  BY <1>1, <1>2
<1> HIDE DEF a, b, A, B
<1>6. A + i \in Nat /\ A + i < 11 * (N + 1)
  BY <1>3, <1>4
<1>7. (A + i < B + j) <=> (a < b \/ (a = b /\ i < j))
  BY <1>2, <1>3, <1>5
<1>8. A + i = B + j => i = j
  BY <1>2, <1>3, <1>5
<1> QED
  BY <1>2, <1>6, <1>7, <1>8 DEF a, b, A, B

LEMMA NoMoreThanBoxes ==
  ASSUME NEW N \in Nat, NEW D \in SUBSET (1..N), NEW n \in Nat, NEW s \in [1..n -> D],
         \A a, b \in 1..n : a < b => s[a] # s[b]
  PROVE  n <= N
<1>1. /\ IsFiniteSet(1..N) /\ Cardinality(1..N) = N
      /\ IsFiniteSet(1..n) /\ Cardinality(1..n) = n
  <2>1. 1 \in Int /\ N \in Int /\ n \in Int
    OBVIOUS
  <2> QED
    BY <2>1, FS_Interval
<1>2. s \in [1..n -> 1..N]
  OBVIOUS
<1>3. ASSUME N < n PROVE FALSE
  <2>1. PICK a \in 1..n, b \in 1..n : a # b /\ s[a] = s[b]
    BY <1>1, <1>2, <1>3, FS_PigeonHole
  <2> QED
    BY <2>1
<1> QED
  BY <1>3

(* Exactly one sequence of indices is what NMSBoxes returns (its comment   *)
(* in Detections says so), for any boxes with scores of whole tenths.      *)
LEMMA OneAnswer ==
  ASSUME NEW d, DOMAIN d \subseteq 1..MaxSeen, \A i \in DOMAIN d : d[i].score \in 0..10
  PROVE  \E s : NMSBoxes(d) = {s}
<1> DEFINE D == DOMAIN d
           key == [i \in D |-> (10 - d[i].score) * (MaxSeen + 1) + i]
           G == {i \in D : d[i].score > ScoreThreshold}
           R == {p \in D \X D : Suppresses(d[p[1]].box, d[p[2]].box)}
           last == 11 * (MaxSeen + 1)
<1>1. MaxSeen \in Nat /\ last \in Nat
  BY DetectionAssumption DEF DetectionAssumption
<1>2. \A i \in D : /\ i \in 1..MaxSeen /\ d[i].score \in 0..10
                   /\ key[i] = (10 - d[i].score) * (MaxSeen + 1) + i
  OBVIOUS
<1> HIDE DEF D, key, G, R
<1>3. ASSUME NEW i \in D, NEW j \in D
      PROVE  /\ key[i] \in Nat /\ key[i] < last
             /\ key[i] = key[j] => i = j
             /\ Before(d, i, j) <=> key[i] < key[j]
  <2> DEFINE x == d[i].score
             y == d[j].score
  <2>1. x \in 0..10 /\ y \in 0..10 /\ i \in 1..MaxSeen /\ j \in 1..MaxSeen
    BY <1>2
  <2>2. Before(d, i, j) <=> (x > y \/ (x = y /\ i < j))
    BY DEF Before
  <2>3. key[i] = (10 - x) * (MaxSeen + 1) + i /\ key[j] = (10 - y) * (MaxSeen + 1) + j
    BY <1>2
  <2> HIDE DEF x, y
  <2>4. /\ (10 - x) * (MaxSeen + 1) + i \in Nat
        /\ (10 - x) * (MaxSeen + 1) + i < 11 * (MaxSeen + 1)
        /\ ((10 - x) * (MaxSeen + 1) + i < (10 - y) * (MaxSeen + 1) + j)
              <=> (x > y \/ (x = y /\ i < j))
        /\ ((10 - x) * (MaxSeen + 1) + i = (10 - y) * (MaxSeen + 1) + j) => i = j
    BY <1>1, <2>1, BoxOrder
  <2>5. key[i] \in Nat /\ key[i] < last
    BY <2>3, <2>4
  <2>6. key[i] = key[j] => i = j
    BY <2>3, <2>4
  <2>7. Before(d, i, j) <=> key[i] < key[j]
    BY <2>2, <2>3, <2>4
  <2> QED
    BY <2>5, <2>6, <2>7
<1>4. /\ key \in [D -> Nat]
      /\ \A i \in D : key[i] < last
      /\ \A i, j \in D : key[i] = key[j] => i = j
      /\ \A i, j \in D : Before(d, i, j) <=> key[i] < key[j]
  <2>1. key = [i \in D |-> key[i]]
    BY DEF key
  <2>2. \A i \in D : key[i] \in Nat
    BY <1>3
  <2>3. key \in [D -> Nat]
    BY <2>1, <2>2
  <2> QED
    BY <1>3, <2>3
<1>5. \A s, n : n \in Nat /\ Greedy(D, key, G, R, s, n) =>
        /\ s \in [1..n -> D] /\ n <= MaxSeen
  <2> SUFFICES ASSUME NEW s, NEW n \in Nat, Greedy(D, key, G, R, s, n)
               PROVE  s \in [1..n -> D] /\ n <= MaxSeen
    OBVIOUS
  <2>1. s \in [1..n -> D] /\ \A a, b \in 1..n : a < b => key[s[a]] < key[s[b]]
    BY DEF Greedy
  <2>2. \A a, b \in 1..n : a < b => s[a] # s[b]
    BY <1>4, <2>1
  <2>3. D \in SUBSET (1..MaxSeen)
    BY <1>2
  <2> QED
    BY <1>1, <2>1, <2>2, <2>3, NoMoreThanBoxes
<1>6. \A s : s \in NMSBoxes(d) <=> \E n \in Nat : Greedy(D, key, G, R, s, n)
  <2> TAKE s
  <2>1. ASSUME NEW n \in Nat, s \in [1..n -> D]
        PROVE  Greedy(D, key, G, R, s, n) <=>
                 /\ \A a, b \in DOMAIN s : a < b => Before(d, s[a], s[b])
                 /\ \A i \in DOMAIN d :
                      (\E a \in DOMAIN s : s[a] = i)
                        <=> /\ d[i].score > ScoreThreshold
                            /\ \A a \in DOMAIN s :
                                 Before(d, s[a], i) => ~Suppresses(d[s[a]].box, d[i].box)
    <3>1. DOMAIN s = 1..n /\ \A a \in 1..n : s[a] \in D
      BY <2>1
    <3>2. D = DOMAIN d /\ \A i \in D : (i \in G) <=> (d[i].score > ScoreThreshold)
      BY DEF D, G
    <3>3. \A i, j \in D : (<<i, j>> \in R) <=> Suppresses(d[i].box, d[j].box)
      BY DEF R
    <3>4. (\A a, b \in 1..n : a < b => key[s[a]] < key[s[b]])
            <=> (\A a, b \in DOMAIN s : a < b => Before(d, s[a], s[b]))
      BY <1>4, <3>1
    <3>5. ASSUME NEW i \in D
          PROVE  (\A a \in 1..n : key[s[a]] < key[i] => <<s[a], i>> \notin R)
                   <=> (\A a \in DOMAIN s :
                          Before(d, s[a], i) => ~Suppresses(d[s[a]].box, d[i].box))
      BY <1>4, <3>1, <3>3
    <3>6. (\A i \in D : (\E a \in 1..n : s[a] = i)
              <=> /\ i \in G
                  /\ \A a \in 1..n : key[s[a]] < key[i] => <<s[a], i>> \notin R)
            <=> (\A i \in DOMAIN d :
                   (\E a \in DOMAIN s : s[a] = i)
                     <=> /\ d[i].score > ScoreThreshold
                         /\ \A a \in DOMAIN s :
                              Before(d, s[a], i) => ~Suppresses(d[s[a]].box, d[i].box))
      BY <3>1, <3>2, <3>5
    <3> QED
      BY <2>1, <3>4, <3>6 DEF Greedy
  <2>2. ASSUME s \in NMSBoxes(d) PROVE \E n \in Nat : Greedy(D, key, G, R, s, n)
    <3>1. PICK n \in 0..MaxSeen : s \in [1..n -> D]
      BY <2>2 DEF NMSBoxes, D
    <3> QED
      BY <1>1, <2>1, <2>2, <3>1 DEF NMSBoxes
  <2>3. ASSUME NEW n \in Nat, Greedy(D, key, G, R, s, n) PROVE s \in NMSBoxes(d)
    <3>1. s \in [1..n -> D] /\ n \in 0..MaxSeen
      BY <1>1, <1>5, <2>3
    <3> QED
      BY <2>1, <2>3, <3>1 DEF NMSBoxes, D
  <2> QED
    BY <2>2, <2>3
<1> HIDE DEF last
<1>7. \E n \in Nat : \E s : Greedy(D, key, G, R, s, n)
  BY <1>1, <1>4, GreedyExists
<1>8. PICK n \in Nat : \E s : Greedy(D, key, G, R, s, n)
  BY <1>7
<1>9. PICK s : Greedy(D, key, G, R, s, n)
  BY <1>8
<1>10. ASSUME NEW t, t \in NMSBoxes(d) PROVE t = s
  <2>1. PICK m \in Nat : Greedy(D, key, G, R, t, m)
    BY <1>6, <1>10
  <2> QED
    BY <1>4, <1>9, <2>1, GreedyOnce
<1>11. s \in NMSBoxes(d)
  BY <1>6, <1>9
<1>12. NMSBoxes(d) = {s}
  BY <1>10, <1>11
<1> QED
  BY <1>12

(* What the post-processing gives to NMSBoxes always has exactly one answer: *)
(* Suppress neither stops nor has a choice, and the rows depend on what      *)
(* the network reported and on nothing else (cv2.dnn.NMSBoxes as             *)
(* model_util.py uses it).                                                   *)
THEOREM SuppressionIsDetermined == Spec => [](pc = "decoded" => \E s : NMSBoxes(dets) = {s})
<1>1. DetInv => (pc = "decoded" => \E s : NMSBoxes(dets) = {s})
  <2> SUFFICES ASSUME DetInv, pc = "decoded"
               PROVE  \E s : NMSBoxes(dets) = {s}
    OBVIOUS
  <2>1. PICK n \in 0..MaxSeen : seen \in [1..n -> Objects]
    BY DEF DetInv, Request, Lists
  <2>2. ASSUME NEW i \in DOMAIN dets
        PROVE  i \in 1..MaxSeen /\ dets[i].score \in 0..10
    <3>1. i \in DOMAIN seen /\ dets[i].score = seen[i].score
      BY DEF DetInv, Decoded, OutputOf
    <3>2. seen[i] \in [class : Nat, score : 0..10, box : Nat \X Nat \X Nat \X Nat]
      BY <2>1, <3>1, DetectionAssumption DEF DetectionAssumption
    <3>3. i \in 1..MaxSeen
      BY <2>1, <3>1, DetectionAssumption DEF DetectionAssumption
    <3> QED
      BY <3>1, <3>2, <3>3
  <2> QED
    BY <2>2, OneAnswer
<1> QED
  BY <1>1, Inductive, PTL

=============================================================================
