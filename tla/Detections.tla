----------------------------- MODULE Detections -----------------------------
(***************************************************************************)
(* From what a network reports to the rows Frigate reads: the request      *)
(* header, _extract_input_hw and _run_inference of                         *)
(* detector/detector/zmq_onnx_client.py and the post-processing of         *)
(* detector/detector/model_util.py.  The handler keeps nothing between two *)
(* requests: a behaviour is one request.                                   *)
(*                                                                         *)
(* Lengths are whole pixels, scores tenths.  A coordinate is a whole       *)
(* number over the unit of its axis, which divisions multiply: nothing is  *)
(* rounded.  A network is what it reports of the objects in the frame.     *)
(***************************************************************************)
EXTENDS Integers, Sequences

CONSTANTS Sizes,        \* <<width, height>> of the frames
          Objects,      \* [class, score, box]: what can be seen in a frame,
                        \* box = <<x1, y1, x2, y2>>
          MaxSeen,      \* bound on the objects of one frame
          MaxRows       \* the rows of an answer (20 in the code)

(* No side of a frame passes for a channel count, and the sides of boxes   *)
(* are even, so that the half of a side is whole.                          *)
ASSUME DetectionAssumption ==
  /\ Sizes \subseteq (Nat \ {0, 1, 3}) \X (Nat \ {0, 1, 3})
  /\ Objects \subseteq [class : Nat, score : 0..10, box : Nat \X Nat \X Nat \X Nat]
  /\ \A o \in Objects : /\ o.box[1] < o.box[3] /\ (o.box[3] - o.box[1]) % 2 = 0
                        /\ o.box[2] < o.box[4] /\ (o.box[4] - o.box[2]) % 2 = 0
  /\ MaxSeen \in Nat
  /\ MaxRows \in Nat \ {0}

VARIABLES pc,       \* where the request is
          frame,    \* [size, kind]: the tensor sent, and the network it is for
          seen,     \* what the network sees in it
          header,   \* the header sent with it
          size,     \* _run_inference's <<width, height>>
          out,      \* what infer() returned
          dets,     \* the boxes, scores and classes given to NMSBoxes, by the
                    \* index they had in out
          kept,     \* the indices NMSBoxes returned
          rows      \* the rows of the answer that are not zeros

detVars == <<pc, frame, seen, header, size, out, dets, kept, rows>>

(* yolo1: one output; yolo3: one output for each of three strides; other:  *)
(* a model type the service does not support.                              *)
Kinds == {"yolo1", "yolo3", "dfine", "rfdetr", "other"}

ScoreThreshold == 4
Channels == {1, 3}

-----------------------------------------------------------------------------
(* The request. *)

(* ModelTypeEnum.<member>.name, as _build_header sends it. *)
ModelType(kind) ==
  CASE kind \in {"yolo1", "yolo3"} -> "yologeneric"
    [] kind = "other"              -> "yolox"
    [] OTHER                       -> kind

(* The tensors a w x h frame can be sent as, with the layout's name. *)
Shapes(w, h) ==
  {<<"NCHW", <<1, c, h, w>>>> : c \in Channels} \cup {<<"NHWC", <<1, h, w, c>>>> : c \in Channels}
    \cup {<<"CHW", <<c, h, w>>>> : c \in Channels} \cup {<<"HWC", <<h, w, c>>>> : c \in Channels}
    \cup {<<"HW", <<h, w>>>>}

(* The headers that describe such a tensor: Frigate's plugin sends the     *)
(* shape alone; the service also takes a layout or the size itself.        *)
Headers(w, h, kind) ==
  UNION {{[shape |-> s[2], layout |-> l, wh |-> wh, model_type |-> ModelType(kind)] :
            l \in {"none", s[1]}, wh \in {<<>>, <<w, h>>}} : s \in Shapes(w, h)}

(* Mutant: the layout without channels first is read width before height. *)
ByShapeSwapped(s) ==
  CASE Len(s) = 4 /\ s[2] \in Channels    -> <<s[4], s[3]>>
    [] Len(s) = 4 /\ s[2] \notin Channels -> <<s[2], s[3]>>
    [] Len(s) = 3 /\ s[1] \in Channels    -> <<s[3], s[2]>>
    [] Len(s) = 3 /\ s[1] \notin Channels -> <<s[2], s[1]>>
    [] Len(s) = 2                         -> <<s[2], s[1]>>
    [] OTHER                              -> <<320, 320>>

ByShape(s) ==
  CASE Len(s) = 4 /\ s[2] \in Channels    -> <<s[4], s[3]>>
    [] Len(s) = 4 /\ s[2] \notin Channels -> <<s[3], s[2]>>
    [] Len(s) = 3 /\ s[1] \in Channels    -> <<s[3], s[2]>>
    [] Len(s) = 3 /\ s[1] \notin Channels -> <<s[2], s[1]>>
    [] Len(s) = 2                         -> <<s[2], s[1]>>
    [] OTHER                              -> <<320, 320>>

(* The size if it is there, else the shape as its layout says, else as its *)
(* channels tell.                                                          *)
ExtractInputHw(hdr) ==
  LET s == hdr.shape
      form == <<hdr.layout, Len(s)>>
  IN IF hdr.wh # <<>> THEN hdr.wh
     ELSE CASE form = <<"NCHW", 4>> -> <<s[4], s[3]>>
            [] form = <<"NHWC", 4>> -> <<s[3], s[2]>>
            [] form = <<"CHW", 3>>  -> <<s[3], s[2]>>
            [] form = <<"HWC", 3>>  -> <<s[2], s[1]>>
            [] OTHER                -> ByShape(s)

-----------------------------------------------------------------------------
(* The networks, from how their outputs are read.  A box is four whole     *)
(* numbers; unit[1] is that of its x, unit[2] that of its y coordinates.   *)

Width(b) == b[3] - b[1]
Height(b) == b[4] - b[2]
Centre(b) == <<b[1] + Width(b) \div 2, b[2] + Height(b) \div 2, Width(b), Height(b)>>

(* YOLO: centre and sides in pixels (of three outputs, in cells of the     *)
(* stride and multiples of the anchor).  RF-DETR: the same as parts of the *)
(* frame.  D-FINE: corners as parts of the frame, times the two numbers of *)
(* orig_target_sizes, which are the height and the width.                  *)
RawBox(kind, sz, b) ==
  IF kind = "dfine" THEN <<b[1] * sz[2], b[2] * sz[1], b[3] * sz[2], b[4] * sz[1]>>
                    ELSE Centre(b)
RawUnit(kind, wh) == IF kind \in {"dfine", "rfdetr"} THEN wh ELSE <<1, 1>>

-----------------------------------------------------------------------------
(* model_util.py *)

Least(a, b) == IF a < b THEN a ELSE b
Most(a, b) == IF a > b THEN a ELSE b

Corners(b) == <<b[1] - b[3] \div 2, b[2] - b[4] \div 2, b[1] + b[3] \div 2, b[2] + b[4] \div 2>>
Clip(b, sz) == <<Most(0, b[1]), Most(0, b[2]), Least(sz[1], b[3]), Least(sz[2], b[4])>>

(* The box as NMSBoxes gets it. *)
Decode(kind, sz, b) ==
  CASE kind = "dfine" -> b
    [] kind = "yolo3" -> Clip(Corners(b), sz)
    [] OTHER          -> Corners(b)

(* A score that post_process_* gives to NMSBoxes; of three outputs, one    *)
(* that is equal to the threshold too.                                     *)
Given(kind, score) ==
  score > ScoreThreshold \/ (kind = "yolo3" /\ score = ScoreThreshold)

(* cv2.dnn.NMSBoxes reads a box as x, y, width, height.  Whether two       *)
(* overlap by more than 0.4 of what they cover does not depend on the      *)
(* units.                                                                  *)
Common(x, w, y, v) == Most(0, Least(x + w, y + v) - Most(x, y))
OverlapArea(a, b) == Common(a[1], a[3], b[1], b[3]) * Common(a[2], a[4], b[2], b[4])
Suppresses(a, b) ==
  5 * OverlapArea(a, b) > 2 * (a[3] * a[4] + b[3] * b[4] - OverlapArea(a, b))

Before(d, i, j) == d[i].score > d[j].score \/ (d[i].score = d[j].score /\ i < j)

(* What it returns: indices by falling score, of the boxes above the       *)
(* threshold that none returned before suppresses.  Exactly one sequence   *)
(* is like that.                                                           *)
NMSBoxes(d) ==
  {s \in UNION {[1..n -> DOMAIN d] : n \in 0..MaxSeen} :
     /\ \A a, b \in DOMAIN s : a < b => Before(d, s[a], s[b])
     /\ \A i \in DOMAIN d :
          (\E a \in DOMAIN s : s[a] = i)
            <=> /\ d[i].score > ScoreThreshold
                /\ \A a \in DOMAIN s :
                     Before(d, s[a], i) => ~Suppresses(d[s[a]].box, d[i].box)}

(* Mutant: y is divided by the width and x by the height. *)
DivisorSwapped(kind, sz) ==
  CASE kind = "dfine"  -> <<sz[2], sz[1]>>
    [] kind = "rfdetr" -> <<1, 1>>
    [] OTHER           -> <<sz[2], sz[1]>>

(* What x and y are divided by: dfine by [height, width, height, width]    *)
(* before NMSBoxes, YOLO by the width and the height after it.             *)
Divisor(kind, sz) ==
  CASE kind = "dfine"  -> <<sz[2], sz[1]>>
    [] kind = "rfdetr" -> <<1, 1>>
    [] OTHER           -> <<sz[1], sz[2]>>

(* A row: class, score, y1, x1, y2, x2. *)
RowOf(d, unit) ==
  [class |-> d.class, score |-> d.score,
   box |-> <<d.box[2], d.box[1], d.box[4], d.box[3]>>, unit |-> <<unit[2], unit[1]>>]

-----------------------------------------------------------------------------
(* _run_inference *)

Init ==
  /\ \E sz \in Sizes, kind \in Kinds :
       /\ frame = [size |-> sz, kind |-> kind]
       /\ header \in Headers(sz[1], sz[2], kind)
  /\ seen \in UNION {[1..n -> Objects] : n \in 0..MaxSeen}
  /\ pc = "received"
  /\ size = <<0, 0>>
  /\ out = <<>> /\ dets = <<>> /\ kept = <<>> /\ rows = <<>>

GetSize ==
  /\ pc = "received"
  /\ pc' = "sized"
  /\ size' = ExtractInputHw(header)
  /\ UNCHANGED <<frame, seen, header, out, dets, kept, rows>>

Infer ==
  /\ pc = "sized"
  /\ pc' = "inferred"
  /\ out' = [i \in DOMAIN seen |->
               [class |-> seen[i].class, score |-> seen[i].score,
                box |-> RawBox(frame.kind, size, seen[i].box)]]
  /\ UNCHANGED <<frame, seen, header, size, dets, kept, rows>>

(* No model is loaded, infer() raises, or the model type is unknown (which *)
(* is found out after the inference): the answer is zeros.                 *)
Zeros ==
  /\ \/ pc \in {"received", "sized"}
     \/ pc = "inferred" /\ header.model_type = "yolox"
  /\ pc' = "zeros"
  /\ UNCHANGED <<frame, seen, header, size, out, dets, kept, rows>>

(* The post-processing up to NMSBoxes. *)
DecodeOutput ==
  /\ pc = "inferred" /\ header.model_type # "yolox"
  /\ pc' = "decoded"
  /\ dets' = [i \in {j \in DOMAIN out : Given(frame.kind, out[j].score)} |->
                [out[i] EXCEPT !.box = Decode(frame.kind, size, out[i].box)]]
  /\ UNCHANGED <<frame, seen, header, size, out, kept, rows>>

Suppress ==
  /\ pc = "decoded"
  /\ pc' = "kept"
  /\ \E s \in NMSBoxes(dets) : kept' = s
  /\ UNCHANGED <<frame, seen, header, size, out, dets, rows>>

(* Mutants: no row is left out; the rows are the first that were given to  *)
(* NMSBoxes.                                                               *)
ReportAll ==
  /\ pc = "kept"
  /\ pc' = "answered"
  /\ LET raw == RawUnit(frame.kind, frame.size)
         div == Divisor(frame.kind, size)
     IN rows' = [a \in DOMAIN kept |->
                   RowOf(dets[kept[a]], <<raw[1] * div[1], raw[2] * div[2]>>)]
  /\ UNCHANGED <<frame, seen, header, size, out, dets, kept>>

ReportLowest ==
  /\ pc = "kept"
  /\ pc' = "answered"
  /\ LET raw == RawUnit(frame.kind, frame.size)
         div == Divisor(frame.kind, size)
         n   == Least(Len(kept), MaxRows)
     IN rows' = [a \in 1..n |->
                   RowOf(dets[kept[Len(kept) - n + a]], <<raw[1] * div[1], raw[2] * div[2]>>)]
  /\ UNCHANGED <<frame, seen, header, size, out, dets, kept>>

Report ==
  /\ pc = "kept"
  /\ pc' = "answered"
  /\ LET raw == RawUnit(frame.kind, frame.size)
         div == Divisor(frame.kind, size)
     IN rows' = [a \in 1..Least(Len(kept), MaxRows) |->
                   RowOf(dets[kept[a]], <<raw[1] * div[1], raw[2] * div[2]>>)]
  /\ UNCHANGED <<frame, seen, header, size, out, dets, kept>>

Next == GetSize \/ Infer \/ Zeros \/ DecodeOutput \/ Suppress \/ Report

Spec == Init /\ [][Next]_detVars

-----------------------------------------------------------------------------

DetTypeOK ==
  /\ pc \in {"received", "sized", "inferred", "decoded", "kept", "answered", "zeros"}
  /\ size \in Nat \X Nat
  /\ Len(rows) <= MaxRows
  /\ DOMAIN dets \subseteq DOMAIN seen
  /\ Len(kept) <= MaxSeen

(* Whichever way a header states the frame, and whichever its layout, the  *)
(* boxes are divided by the width and height of the tensor that was sent   *)
(* (_extract_input_hw, whose answer post-processing trusts).               *)
SizeIsTheFrames == pc # "received" /\ pc # "zeros" => size = frame.size

(* The whole number n over unit u is the part p / q of the frame's side. *)
SamePart(n, u, p, q) == n * q = p * u

(* Row r says where object o is: its corners as parts of the frame, y      *)
(* first; a network with three outputs cuts off what sticks out.           *)
ReportOf(r, o) ==
  LET b == IF frame.kind = "yolo3" THEN Clip(o.box, frame.size) ELSE o.box
      w == frame.size[1]
      h == frame.size[2]
  IN /\ r.class = o.class /\ r.score = o.score
     /\ SamePart(r.box[1], r.unit[1], b[2], h) /\ SamePart(r.box[2], r.unit[2], b[1], w)
     /\ SamePart(r.box[3], r.unit[1], b[4], h) /\ SamePart(r.box[4], r.unit[2], b[3], w)

(* Every row places an object of the frame, each a different one, with     *)
(* that object's class and score, where Frigate looks for it: through      *)
(* every network's own box format, the masks, the indices of NMSBoxes and  *)
(* the two orders of axes (model_util.py).                                 *)
RowsPlaceObjects ==
  pc = "answered" =>
    \E f \in [DOMAIN rows -> DOMAIN seen] :
      /\ \A a \in DOMAIN rows : ReportOf(rows[a], seen[f[a]])
      /\ \A a, b \in DOMAIN rows : f[a] = f[b] => a = b

Reported(i) == \E a \in DOMAIN rows : ReportOf(rows[a], seen[i])

(* An object above the threshold is missing from the answer only if one    *)
(* that is in it, with no lower a score, suppressed it, or if all rows are *)
(* taken by such: cutting after the twentieth row loses nothing better     *)
(* than what it leaves in, not even an object suppressed by a row that was *)
(* cut.                                                                    *)
BestAreReported ==
  pc = "answered" =>
    \A i \in DOMAIN seen : seen[i].score > ScoreThreshold =>
      \/ Reported(i)
      \/ \E j \in DOMAIN seen : /\ Reported(j) /\ seen[j].score >= seen[i].score
                                /\ Suppresses(dets[j].box, dets[i].box)
      \/ /\ Len(rows) = MaxRows
         /\ \A a \in DOMAIN rows : rows[a].score >= seen[i].score

(* Two boxes given by their corners overlap by more than 0.4. *)
Side(b) == <<b[1], b[2], Width(b), Height(b)>>
Overlap(a, b) == Suppresses(Side(a), Side(b))

(* "run NMS", with a threshold of 0.4 (model_util.py): as long as there    *)
(* are rows left, only an object that overlaps a better one is left out.   *)
OnlyOverlapsSuppressed ==
  pc = "answered" =>
    \A i \in DOMAIN seen :
      \/ seen[i].score <= ScoreThreshold
      \/ Reported(i)
      \/ Len(rows) = MaxRows
      \/ \E j \in DOMAIN seen : Before(seen, j, i) /\ Overlap(seen[j].box, seen[i].box)

=============================================================================
