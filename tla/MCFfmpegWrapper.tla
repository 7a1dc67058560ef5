--------------------------- MODULE MCFfmpegWrapper --------------------------
(* Instances of FfmpegWrapper for TLC: every command of up to four groups  *)
(* of arguments, in any order.                                             *)
EXTENDS FfmpegWrapper

Fps(n) == Part("fps", <<n>>)
Chain(c) == <<Word("-vf"), c>>
Option(o, v) == <<Word(o), Word(v)>>

Groups == {
  Option("-hwaccel", "v4l2request"), Option("-hwaccel", "vaapi"),
  Option("-f", "rawvideo"), Option("-f", "segment"),
  Option("-hwaccel_output_format", "drm_prime"), <<Word("-an")>>,
  Chain(<<Fps("5"), Scale("640", "480")>>),
  Chain(<<Fps("5"), Scale("iw", "480")>>),
  Chain(<<Fps("5"), Scale("640", "480"), Part("format", <<"nv12">>)>>),
  Chain(<<Fps("5"), Part("hflip", <<>>), Scale("640", "480")>>),
  Chain(<<Fps("5"), Scale("320", "240"), Scale("640", "480")>>),
  Chain(<<Fps("5"), Scale("640", "480"), Part("scale", <<"320">>)>>),
  Chain(<<Fps("5"), Fps("2"), Scale("640", "480")>>),
  Chain(<<Fps("5"), Part("scale", <<"640", "480", "flags=area">>)>>),
  Chain(<<Scale("640", "480")>>)}

CommandsOfGroups(n) == {FlattenSeq(s) : s \in UNION {[1..k -> Groups] : k \in 0..n}}
ShortCommands == CommandsOfGroups(4)
SomeNumbers == {"", "2", "5", "320", "240", "640", "480"}

=============================================================================
