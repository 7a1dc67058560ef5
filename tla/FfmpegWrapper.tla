--------------------------- MODULE FfmpegWrapper ---------------------------
(***************************************************************************)
(* ffmpeg-avd-vk/bin/ffmpeg: the wrapper that Frigate runs in the place of *)
(* ffmpeg.  One pass over the arguments classifies the command, a second   *)
(* one rebuilds it with decoding and scaling on the GPU.                   *)
(*                                                                         *)
(* An argument is the sequence of its comma-separated parts; a part is a   *)
(* name (before "=") and its colon-separated values: "-vf" is one part     *)
(* without values, "fps=5,scale=640:480" is two parts.                     *)
(***************************************************************************)
EXTENDS Naturals, SequencesExt

CONSTANTS Commands,     \* the command lines Frigate may run
          Numbers       \* the values of digits and dots, the empty one among them

(* An argument: its parts. *)
Argument == Seq([name : STRING, value : Seq(STRING)])

ASSUME WrapperAssumption == "" \in Numbers /\ Commands \subseteq Seq(Argument)

VARIABLES argv,         \* the command line
          enabled,      \* AVD_VK_REWRITE is not 0
          pc,           \* "classify", "rebuild" or "exec"
          rest,         \* the arguments the loop has yet to see
          prev,         \* the argument before them
          hw, rawvideo, explicit, vf_ok, vf_bad,    \* what pass 1 saw
          out           \* the arguments for the real ffmpeg

wrapperVars == <<argv, enabled, pc, rest, prev, hw, rawvideo, explicit, vf_ok, vf_bad, out>>
seen == <<hw, rawvideo, explicit, vf_ok, vf_bad>>

Part(name, value) == [name |-> name, value |-> value]
Word(w) == <<Part(w, <<>>)>>
Scale(w, h) == Part("scale", <<w, h>>)

ExplicitOptions == {Word(o) : o \in {"-hwaccel_output_format", "-init_hw_device",
                                     "-filter_hw_device", "-filter_complex", "-lavfi"}}

WrapperInit ==
  /\ argv \in Commands /\ enabled \in BOOLEAN
  /\ pc = "classify" /\ rest = argv /\ prev = <<>>
  /\ hw = FALSE /\ rawvideo = FALSE /\ explicit = FALSE
  /\ vf_ok = 0 /\ vf_bad = 0
  /\ out = <<>>

(* The pattern fps=*,scale=*:* finds its colon anywhere after a ",scale=". *)
Matches(a) ==
  /\ a[1].name = "fps"
  /\ \E i, j \in 2..Len(a) : /\ i <= j /\ a[i].name = "scale"
                             /\ Len(a[i].value) >= 1 /\ Len(a[j].value) >= 2

(* w and h follow the last ",scale="; without a colon there both are all   *)
(* of what follows.                                                        *)
Width(a) == Last(a).value[1]
Height(a) == Last(Last(a).value)

(* n ends at the first comma.  What is after W:H fails the test for        *)
(* digits, what is between the two does not.                               *)
Scaler(a) ==
  /\ Len(a) >= 2 /\ Matches(a)
  /\ Len(a[1].value) = 1
  /\ Last(a).name = "scale" /\ Len(Last(a).value) \in {1, 2}
  /\ LET numbers == {a[1].value[1], Width(a), Height(a)} IN
       numbers \subseteq Numbers /\ numbers # {""}

-----------------------------------------------------------------------------
(* Pass 1. *)

Classify ==
  /\ pc = "classify" /\ rest # <<>>
  /\ LET a == Head(rest) IN
       /\ hw' = (hw \/ (prev = Word("-hwaccel") /\ a = Word("v4l2request")))
       /\ rawvideo' = (rawvideo \/ (prev = Word("-f") /\ a = Word("rawvideo")))
       /\ explicit' = (explicit \/ a \in ExplicitOptions)
       /\ vf_ok' = vf_ok + (IF prev = Word("-vf") /\ Scaler(a) THEN 1 ELSE 0)
       /\ vf_bad' = vf_bad + (IF prev = Word("-vf") /\ ~Scaler(a) THEN 1 ELSE 0)
       /\ rest' = Tail(rest) /\ prev' = a
  /\ UNCHANGED <<argv, enabled, pc, out>>

(* Mutant: options of the user's own are not looked at. *)
RewritesAnyway == enabled /\ hw /\ rawvideo /\ vf_ok >= 1 /\ vf_bad = 0

Rewrites == enabled /\ hw /\ rawvideo /\ vf_ok >= 1 /\ vf_bad = 0 /\ ~explicit

Decide ==
  /\ pc = "classify" /\ rest = <<>>
  /\ IF Rewrites THEN pc' = "rebuild" /\ rest' = argv /\ UNCHANGED out
                 ELSE pc' = "exec" /\ out' = argv /\ UNCHANGED rest
  /\ prev' = <<>>
  /\ UNCHANGED <<argv, enabled, seen>>

-----------------------------------------------------------------------------
(* Pass 2. *)

Inserted == <<Word("-init_hw_device"), Word("vulkan=vk"), Word("-filter_hw_device"),
              Word("vk"), Word("-hwaccel_output_format"), Word("drm_prime")>>

(* hwmap, scale_vulkan to W:H in one stage or two, hwdownload, format: one *)
(* part here.                                                              *)
ScaleVulkan(w, h) == Part("scale_vulkan", <<w, h>>)

(* Mutant: the size is taken from the first scale= there is. *)
FirstScaled(a) ==
  LET size == CHOOSE k \in DOMAIN a : /\ a[k].name = "scale"
                                      /\ \A j \in 1..k - 1 : a[j].name # "scale"
  IN <<a[1], ScaleVulkan(a[size].value[1], a[size].value[2])>>

Scaled(a) == <<a[1], ScaleVulkan(Width(a), Height(a))>>

(* Mutant: the options are put between -hwaccel and its value. *)
RebuildEarly ==
  /\ pc = "rebuild" /\ rest # <<>>
  /\ LET a == Head(rest) IN
       /\ out' = out \o
                 (CASE prev = Word("-hwaccel") /\ a = Word("v4l2request") -> Inserted \o <<a>>
                    [] prev = Word("-vf") -> <<Scaled(a)>>
                    [] OTHER -> <<a>>)
       /\ rest' = Tail(rest) /\ prev' = a
  /\ UNCHANGED <<argv, enabled, pc, seen>>

Rebuild ==
  /\ pc = "rebuild" /\ rest # <<>>
  /\ LET a == Head(rest) IN
       /\ out' = out \o
                 (CASE prev = Word("-hwaccel") /\ a = Word("v4l2request") -> <<a>> \o Inserted
                    [] prev = Word("-vf") -> <<Scaled(a)>>
                    [] OTHER -> <<a>>)
       /\ rest' = Tail(rest) /\ prev' = a
  /\ UNCHANGED <<argv, enabled, pc, seen>>

Exec ==
  /\ pc = "rebuild" /\ rest = <<>>
  /\ pc' = "exec"
  /\ UNCHANGED <<argv, enabled, rest, prev, seen, out>>

WrapperNext == Classify \/ Decide \/ Rebuild \/ Exec

WrapperSpec == WrapperInit /\ [][WrapperNext]_wrapperVars

-----------------------------------------------------------------------------

(* What follows an option in the command line. *)
ValuesOf(o) == {argv[i] : i \in {j \in 2..Len(argv) : argv[j - 1] = Word(o)}}

(* The command is a detect process decoding on the AVD. *)
IsDetect ==
  /\ enabled
  /\ Word("v4l2request") \in ValuesOf("-hwaccel")
  /\ Word("rawvideo") \in ValuesOf("-f")
  /\ ValuesOf("-vf") # {}
  /\ \A a \in ValuesOf("-vf") : a[1].name = "fps" /\ Last(a).name = "scale"
                                /\ Range(Last(a).value) \subseteq Numbers
  /\ ToSet(argv) \cap ExplicitOptions = {}

(* "Anything else ... is passed through unchanged" (bin/ffmpeg): a record, *)
(* export or preview command reaches the real ffmpeg as it is, and only    *)
(* a detect command is rewritten, with several outputs or any order of     *)
(* options.                                                                *)
OthersPassThrough == pc = "exec" /\ ~IsDetect => out = argv

(* What an argument becomes; the values of -vf are blanked.                *)
Rebuilt(i) ==
  CASE i > 1 /\ argv[i - 1] = Word("-hwaccel") /\ argv[i] = Word("v4l2request")
         -> <<argv[i]>> \o Inserted
    [] i > 1 /\ argv[i - 1] = Word("-vf") -> <<<<>>>>
    [] OTHER -> <<argv[i]>>

(* The command without its filter chains. *)
Blanked(command) ==
  [k \in DOMAIN command |->
     IF k > 1 /\ command[k - 1] = Word("-vf") THEN <<>> ELSE command[k]]

(* Its filter chains, in their order. *)
Chains(command) ==
  FlattenSeq([i \in DOMAIN command |->
                IF i > 1 /\ command[i - 1] = Word("-vf") THEN <<command[i]>> ELSE <<>>])

(* The last filter of a chain with one of these names decides the size, or *)
(* the rate, of the frames that leave it.                                  *)
LastOf(chain, names) ==
  LET ks == {k \in DOMAIN chain : chain[k].name \in names}
  IN chain[CHOOSE k \in ks : \A j \in ks : j <= k].value

SizeOf(chain) == LastOf(chain, {"scale", "scale_vulkan"})
RateOf(chain) == LastOf(chain, {"fps"})

(* A rewritten command has the device options right after "-hwaccel        *)
(* v4l2request" and differs in nothing else but the values of -vf: the     *)
(* record output of the same process is untouched (bin/ffmpeg).            *)
OnlyDetectIsTouched ==
  pc = "exec" /\ Rewrites => Blanked(out) = FlattenSeq([i \in DOMAIN argv |-> Rebuilt(i)])

(* Each chain of a rewritten command gives frames of the original size     *)
(* (Frigate reads raw frames of that many bytes), whatever other scales    *)
(* are in it, where the original has one: ffmpeg refuses a last scale=W.   *)
(* And at the original rate, unless the chain has a second fps=, which is  *)
(* lost with the other filters (NoFilterIsLost).                           *)
FramesKeepTheirSize ==
  pc = "exec" /\ Rewrites =>
    /\ Len(Chains(out)) = Len(Chains(argv))
    /\ \A k \in DOMAIN Chains(argv) :
         LET before == Chains(argv)[k]
             after == Chains(out)[k]
         IN  /\ Len(SizeOf(before)) = 2 => SizeOf(after) = SizeOf(before)
             /\ (\A j \in 2..Len(before) : before[j].name # "fps") =>
                  RateOf(after) = RateOf(before)

(* "every -vf in the command is Frigate's detect-role scaler               *)
(* fps=N,scale=W:H" (bin/ffmpeg) when the command is rewritten: no other   *)
(* filter of the user's is lost, nor a second rate.                        *)
NoFilterIsLost ==
  pc = "exec" /\ out # argv =>
    \A a \in ValuesOf("-vf") : \A k \in 2..Len(a) : a[k].name = "scale"

=============================================================================
