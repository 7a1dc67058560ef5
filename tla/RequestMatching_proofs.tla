----------------------- MODULE RequestMatching_proofs -----------------------
(***************************************************************************)
(* Proof that replies match requests in module DetectorSystem: the three   *)
(* invariants OneRequestInFlight, ReplyMatchesRequest and                  *)
(* AnswerIsForThisFrame, from one inductive invariant, MatchInv; and, with *)
(* a second one, PromiseInv, that the system implements module DetectApi.  *)
(* Then what the service has in hand, and what it does with its backend.   *)
(***************************************************************************)
EXTENDS DetectorSystem_proofs

Live(p, requests) == {r \in requests : r.from = p /\ r.live}

(* The live requests of p are in one place, there is one at most, and it   *)
(* excludes a reply.                                                       *)
OneInFlight(p) ==
  /\ Live(p, transit) \cap Live(p, inbox) = {}
  /\ Live(p, transit) \cap Live(p, handling) = {}
  /\ Live(p, inbox) \cap Live(p, handling) = {}
  /\ \A r1, r2 \in Outstanding(p) : r1 = r2
  /\ \A r1, r2 \in RepliesTo(p) : r1 = r2
  /\ RepliesTo(p) # {} => Outstanding(p) = {}
  /\ reqState[p] = "send" => Outstanding(p) = {} /\ RepliesTo(p) = {}

(* A plugin that waits waits for the answer to its live request. *)
RequestFits(p) ==
  \A r \in Outstanding(p) :
    /\ pc[p] = "hsModel" => r.kind = "model"
    /\ pc[p] = "hsData" => r.kind = "data"
    /\ pc[p] = "infer" => r.kind = "tensor" /\ r.frame = asked[p]

Matches(kind, frame, b) ==
  /\ kind = "model" => b.kind \in ModelReplies \cup {"zeros"}
  /\ kind = "data" => b.kind \in DataReplies
  /\ kind = "tensor" => /\ b.kind \in TensorReplies
                        /\ b.kind = "detections" => b.frame = frame

ReplyFits(p) ==
  \A r \in RepliesTo(p) :
    /\ pc[p] = "hsModel" => Matches("model", NoFrame, r.body)
    /\ pc[p] = "hsData" => Matches("data", NoFrame, r.body)
    /\ pc[p] = "infer" => Matches("tensor", asked[p], r.body)

(* Before the first call there is no answer to mistake. *)
AnswerFits(p) ==
  /\ pc[p] = "idle" /\ answer[p].kind = "detections" => answer[p].frame = asked[p]
  /\ pc[p] = "start" => answer[p].kind = "zeros"
  /\ pc[p] \in {"hsModel", "hsData"} /\ why[p] = "init" => answer[p].kind = "zeros"

PluginMatch(p) == OneInFlight(p) /\ RequestFits(p) /\ ReplyFits(p) /\ AnswerFits(p)

(* The service handles one request, at a stage of its kind, and the reply  *)
(* it has built is one to that request.                                    *)
ServerMatch ==
  /\ \A r1, r2 \in handling : r1 = r2
  /\ \A r \in handling :
       /\ stage = "checking" => r.kind = "model"
       /\ stage \in {"saving", "writing"} => r.kind = "data"
       /\ stage = "loading" => r.kind \in {"model", "data"}
       /\ stage = "inferring" => r.kind = "tensor"
       /\ stage = "replying" => Matches(r.kind, r.frame, body)

MatchInv ==
  /\ TypeOK
  /\ \A p \in Plugins : PluginMatch(p)
  /\ ServerMatch

-----------------------------------------------------------------------------
(* What the sockets' steps do to one plugin's requests and replies. *)

(* Nothing that concerns q moves. *)
SameChannel(q) ==
  /\ Live(q, transit)' = Live(q, transit)
  /\ Live(q, inbox)' = Live(q, inbox)
  /\ Live(q, handling)' = Live(q, handling)
  /\ RepliesTo(q)' = RepliesTo(q)

SamePlugin(q) ==
  /\ pc'[q] = pc[q] /\ why'[q] = why[q] /\ reqState'[q] = reqState[q]
  /\ asked'[q] = asked[q] /\ answer'[q] = answer[q]

NothingInFlight(p) ==
  /\ Live(p, transit) = {} /\ Live(p, inbox) = {} /\ Live(p, handling) = {}
  /\ RepliesTo(p) = {}

OnlyInTransit(p, r) ==
  /\ Live(p, transit) = {r} /\ Live(p, inbox) = {} /\ Live(p, handling) = {}
  /\ RepliesTo(p) = {}

LEMMA OutstandingIsLive ==
  ASSUME NEW p
  PROVE  Outstanding(p) = Live(p, transit) \cup Live(p, inbox) \cup Live(p, handling)
  BY DEF Outstanding, Live

LEMMA Unmoved ==
  ASSUME NEW q \in Plugins, PluginMatch(q), SameChannel(q), SamePlugin(q)
  PROVE  PluginMatch(q)'
<1>1. Outstanding(q)' = Outstanding(q)
  BY DEF SameChannel, Outstanding, Live
<1>2. OneInFlight(q)'
  BY <1>1 DEF PluginMatch, OneInFlight, SameChannel, SamePlugin
<1>3. RequestFits(q)'
  BY <1>1 DEF PluginMatch, RequestFits, SamePlugin
<1>4. ReplyFits(q)'
  BY DEF PluginMatch, ReplyFits, SameChannel, SamePlugin, Matches
<1>5. AnswerFits(q)'
  BY DEF PluginMatch, AnswerFits, SamePlugin
<1> QED
  BY <1>2, <1>3, <1>4, <1>5 DEF PluginMatch

LEMMA HushedIsQuiet ==
  ASSUME NEW p \in Plugins, NEW requests \in SUBSET Request
  PROVE  /\ Live(p, Hushed(p, requests)) = {}
         /\ \A q \in Plugins \ {p} : Live(q, Hushed(p, requests)) = Live(q, requests)
<1>1. \A r \in Request : [r EXCEPT !.live = FALSE].from = r.from
                         /\ [r EXCEPT !.live = FALSE].live = FALSE
  BY DEF Request
<1>2. ASSUME NEW r \in Live(p, Hushed(p, requests)) PROVE FALSE
  <2>1. PICK s \in requests : r = IF s.from = p THEN [s EXCEPT !.live = FALSE] ELSE s
    BY <1>2 DEF Live, Hushed
  <2> QED
    BY <1>1, <1>2, <2>1 DEF Live
<1>3. ASSUME NEW q \in Plugins \ {p}, NEW r \in Live(q, Hushed(p, requests))
      PROVE  r \in Live(q, requests)
  <2>1. PICK s \in requests : r = IF s.from = p THEN [s EXCEPT !.live = FALSE] ELSE s
    BY <1>3 DEF Live, Hushed
  <2> QED
    BY <1>1, <1>3, <2>1 DEF Live
<1>4. ASSUME NEW q \in Plugins \ {p}, NEW r \in Live(q, requests)
      PROVE  r \in Live(q, Hushed(p, requests))
  BY <1>4 DEF Live, Hushed
<1> QED
  BY <1>2, <1>3, <1>4

LEMMA HungUp ==
  ASSUME ChannelTypeOK, NEW p \in Plugins, HangUp(p)
  PROVE  NothingInFlight(p)' /\ \A q \in Plugins \ {p} : SameChannel(q)
<1>1. /\ Live(p, inbox)' = {} /\ Live(p, handling)' = {}
      /\ \A q \in Plugins \ {p} : /\ Live(q, inbox)' = Live(q, inbox)
                                  /\ Live(q, handling)' = Live(q, handling)
  <2>1. inbox \in SUBSET Request /\ handling \in SUBSET Request
    BY DEF ChannelTypeOK
  <2>2. inbox' = Hushed(p, inbox) /\ handling' = Hushed(p, handling)
    BY DEF HangUp
  <2>3. \A q : Live(q, inbox)' = Live(q, inbox') /\ Live(q, handling)' = Live(q, handling')
    BY DEF Live
  <2> QED
    BY <2>1, <2>2, <2>3, HushedIsQuiet
<1>2. /\ Live(p, transit)' = {}
      /\ \A q \in Plugins \ {p} : Live(q, transit)' = Live(q, transit)
  BY DEF HangUp, Live, From
<1>3. RepliesTo(p)' = {} /\ \A q \in Plugins \ {p} : RepliesTo(q)' = RepliesTo(q)
  BY DEF HangUp, RepliesTo
<1> QED
  BY <1>1, <1>2, <1>3 DEF NothingInFlight, SameChannel

LEMMA HungUpAndSent ==
  ASSUME ChannelTypeOK, NEW p \in Plugins, NEW kind, NEW frame,
         HangUpAndSend(p, kind, frame)
  PROVE  /\ OnlyInTransit(p, [from |-> p, kind |-> kind, frame |-> frame, live |-> TRUE])'
         /\ \A q \in Plugins \ {p} : SameChannel(q)
<1>1. /\ Live(p, inbox)' = {} /\ Live(p, handling)' = {}
      /\ \A q \in Plugins \ {p} : /\ Live(q, inbox)' = Live(q, inbox)
                                  /\ Live(q, handling)' = Live(q, handling)
  <2>1. inbox \in SUBSET Request /\ handling \in SUBSET Request
    BY DEF ChannelTypeOK
  <2>2. inbox' = Hushed(p, inbox) /\ handling' = Hushed(p, handling)
    BY DEF HangUpAndSend
  <2>3. \A q : Live(q, inbox)' = Live(q, inbox') /\ Live(q, handling)' = Live(q, handling')
    BY DEF Live
  <2> QED
    BY <2>1, <2>2, <2>3, HushedIsQuiet
<1>2. /\ Live(p, transit)' = {[from |-> p, kind |-> kind, frame |-> frame, live |-> TRUE]}
      /\ \A q \in Plugins \ {p} : Live(q, transit)' = Live(q, transit)
  BY DEF HangUpAndSend, Live, From
<1>3. RepliesTo(p)' = {} /\ \A q \in Plugins \ {p} : RepliesTo(q)' = RepliesTo(q)
  BY DEF HangUpAndSend, RepliesTo
<1> QED
  BY <1>1, <1>2, <1>3 DEF OnlyInTransit, SameChannel

(* Reading a reply leaves nothing in flight for its reader, and a request  *)
(* sent with it is then the only one.                                      *)
LEMMA ReadLeavesNothing ==
  ASSUME NEW p \in Plugins, PluginMatch(p), NEW r \in RepliesTo(p), Read(r)
  PROVE  NothingInFlight(p)' /\ \A q \in Plugins \ {p} : SameChannel(q)
<1>1. Outstanding(p) = {} /\ RepliesTo(p) = {r}
  BY DEF PluginMatch, OneInFlight
<1>2. Live(p, transit) = {} /\ Live(p, inbox) = {} /\ Live(p, handling) = {}
  BY <1>1, OutstandingIsLive
<1>3. RepliesTo(p)' = {}
  BY <1>1 DEF RepliesTo, Read
<1> QED
  BY <1>2, <1>3 DEF Read, NothingInFlight, SameChannel, Live, RepliesTo

LEMMA ReadAndSent ==
  ASSUME NEW p \in Plugins, PluginMatch(p), NEW r \in RepliesTo(p), NEW kind, NEW frame,
         ReadAndSend(r, kind, frame)
  PROVE  /\ OnlyInTransit(p, [from |-> p, kind |-> kind, frame |-> frame, live |-> TRUE])'
         /\ \A q \in Plugins \ {p} : SameChannel(q)
<1>1. Outstanding(p) = {} /\ RepliesTo(p) = {r} /\ r.to = p
  BY DEF PluginMatch, OneInFlight, RepliesTo
<1>2. Live(p, transit) = {} /\ Live(p, inbox) = {} /\ Live(p, handling) = {}
  BY <1>1, OutstandingIsLive
<1>3. RepliesTo(p)' = {}
  BY <1>1 DEF RepliesTo, ReadAndSend
<1>4. Live(p, transit)' = {[from |-> p, kind |-> kind, frame |-> frame, live |-> TRUE]}
  BY <1>1, <1>2 DEF ReadAndSend, Live
<1> QED
  BY <1>1, <1>2, <1>3, <1>4 DEF ReadAndSend, OnlyInTransit, SameChannel, Live, RepliesTo

LEMMA SentAlone ==
  ASSUME NEW p \in Plugins, PluginMatch(p), reqState[p] = "send", NEW kind, NEW frame,
         Send(p, kind, frame)
  PROVE  /\ OnlyInTransit(p, [from |-> p, kind |-> kind, frame |-> frame, live |-> TRUE])'
         /\ \A q \in Plugins \ {p} : SameChannel(q)
<1>1. Outstanding(p) = {} /\ RepliesTo(p) = {}
  BY DEF PluginMatch, OneInFlight
<1>2. Live(p, transit) = {} /\ Live(p, inbox) = {} /\ Live(p, handling) = {}
  BY <1>1, OutstandingIsLive
<1>3. Live(p, transit)' = {[from |-> p, kind |-> kind, frame |-> frame, live |-> TRUE]}
  BY <1>2 DEF Send, Live
<1> QED
  BY <1>1, <1>2, <1>3 DEF Send, OnlyInTransit, SameChannel, Live, RepliesTo

(* With nothing in flight, or with one request that fits, the channel      *)
(* conjuncts of PluginMatch hold.                                          *)
LEMMA NothingFits ==
  ASSUME NEW p \in Plugins, NothingInFlight(p)'
  PROVE  OneInFlight(p)' /\ RequestFits(p)' /\ ReplyFits(p)'
<1>1. Outstanding(p)' = {}
  BY DEF NothingInFlight, Outstanding, Live
<1> QED
  BY <1>1 DEF NothingInFlight, OneInFlight, RequestFits, ReplyFits

LEMMA OneFits ==
  ASSUME NEW p \in Plugins, NEW r, OnlyInTransit(p, r)', reqState'[p] = "recv",
         pc'[p] = "hsModel" => r.kind = "model",
         pc'[p] = "hsData" => r.kind = "data",
         pc'[p] = "infer" => r.kind = "tensor" /\ r.frame = asked'[p]
  PROVE  OneInFlight(p)' /\ RequestFits(p)' /\ ReplyFits(p)'
<1>1. Outstanding(p)' = {r}
  <2>1. Outstanding(p)' = Live(p, transit)' \cup Live(p, inbox)' \cup Live(p, handling)'
    BY DEF Outstanding, Live
  <2> QED
    BY <2>1 DEF OnlyInTransit
<1> QED
  BY <1>1 DEF OnlyInTransit, OneInFlight, RequestFits, ReplyFits

-----------------------------------------------------------------------------
(* A plugin's steps. *)

LEMMA HandshakeBegins ==
  ASSUME TypeOK, NEW p \in Plugins, NEW reason, BeginHandshake(p, reason)
  PROVE  /\ OneInFlight(p)' /\ RequestFits(p)' /\ ReplyFits(p)'
         /\ \A q \in Plugins \ {p} : SameChannel(q)
<1> DEFINE r == [from |-> p, kind |-> "model", frame |-> NoFrame, live |-> TRUE]
<1>1. OnlyInTransit(p, r)' /\ \A q \in Plugins \ {p} : SameChannel(q)
  BY HungUpAndSent DEF BeginHandshake, TypeOK
<1>2. pc'[p] = "hsModel" /\ reqState'[p] = "recv"
  BY DEF BeginHandshake, TypeOK, PluginTypeOK
<1>3. r.kind = "model"
  OBVIOUS
<1> HIDE DEF r
<1> QED
  BY <1>1, <1>2, <1>3, OneFits

(* A handshake that ends leaves the plugin waiting for nothing. *)
LEMMA HandshakeEnds ==
  ASSUME TypeOK, NEW p \in Plugins, PluginMatch(p), NEW ok \in BOOLEAN,
         pc[p] \in {"hsModel", "hsData"}, EndHandshake(p, ok)
  PROVE  /\ pc'[p] \in {"enter", "idle"}
         /\ AnswerFits(p)'
         /\ \A q \in Plugins \ {p} :
              /\ pc'[q] = pc[q] /\ why'[q] = why[q]
              /\ asked'[q] = asked[q] /\ answer'[q] = answer[q]
<1>1. CASE pc' = [pc EXCEPT ![p] = "enter"] /\ UNCHANGED answer
  BY <1>1 DEF EndHandshake, TypeOK, PluginTypeOK, AnswerFits
<1>2. CASE /\ pc' = [pc EXCEPT ![p] = "idle"]
           /\ answer' = IF why[p] = "init" THEN answer
                                           ELSE [answer EXCEPT ![p] = Zeros]
  <2>1. answer'[p].kind = "zeros"
    BY <1>2 DEF PluginMatch, AnswerFits, TypeOK, PluginTypeOK, Zeros
  <2>2. pc'[p] = "idle"
    BY <1>2 DEF TypeOK, PluginTypeOK
  <2>3. AnswerFits(p)'
    BY <2>1, <2>2 DEF AnswerFits
  <2> QED
    BY <1>2, <2>2, <2>3 DEF EndHandshake, TypeOK, PluginTypeOK
<1> QED
  BY <1>1, <1>2 DEF EndHandshake

LEMMA PluginKeepsMatch ==
  ASSUME TypeOK, \A q \in Plugins : PluginMatch(q), NEW p \in Plugins, PluginStep(p)
  PROVE  \A q \in Plugins : PluginMatch(q)'
<1> USE DEF TypeOK, PluginTypeOK
<1>a. ASSUME \A q \in Plugins \ {p} : SameChannel(q),
             \A q \in Plugins \ {p} : SamePlugin(q), PluginMatch(p)'
      PROVE  \A q \in Plugins : PluginMatch(q)'
  BY <1>a, Unmoved
<1>b. ASSUME UNCHANGED channelVars PROVE \A q \in Plugins : SameChannel(q)
  BY <1>b DEF channelVars, SameChannel, Live, RepliesTo
<1>1. CASE Construct(p)
  <2>1. AnswerFits(p)'
    BY <1>1 DEF Construct, BeginHandshake, AnswerFits, PluginMatch
  <2>2. \A q \in Plugins \ {p} : SamePlugin(q)
    BY <1>1 DEF Construct, BeginHandshake, SamePlugin
  <2> QED
    BY <1>1, <1>a, <2>1, <2>2, HandshakeBegins DEF Construct, PluginMatch
<1>2. CASE RetryHandshake(p) \/ SendInWrongState(p) \/ TensorTimeout(p)
  <2>1. PICK reason \in {"retry", "error"} :
          BeginHandshake(p, reason) /\ UNCHANGED <<asked, answer>>
    BY <1>2 DEF RetryHandshake, SendInWrongState, TensorTimeout
  <2>2. AnswerFits(p)'
    BY <2>1 DEF BeginHandshake, AnswerFits, PluginMatch
  <2>3. \A q \in Plugins \ {p} : SamePlugin(q)
    BY <2>1 DEF BeginHandshake, SamePlugin
  <2>4. /\ OneInFlight(p)' /\ RequestFits(p)' /\ ReplyFits(p)'
        /\ \A q \in Plugins \ {p} : SameChannel(q)
    BY <2>1, HandshakeBegins
  <2> QED
    BY <1>a, <2>2, <2>3, <2>4 DEF PluginMatch
<1>3. CASE ReturnNotReady(p)
  <2>1. pc'[p] = "idle" /\ answer'[p] = Zeros /\ reqState' = reqState
    BY <1>3 DEF ReturnNotReady
  <2>2. SameChannel(p) /\ \A q \in Plugins \ {p} : SameChannel(q) /\ SamePlugin(q)
    BY <1>3, <1>b DEF ReturnNotReady, SamePlugin
  <2>3. Outstanding(p)' = Outstanding(p)
    BY <2>2 DEF SameChannel, Outstanding, Live
  <2>4. AnswerFits(p)'
    BY <2>1 DEF AnswerFits, Zeros
  <2>5. OneInFlight(p)' /\ RequestFits(p)' /\ ReplyFits(p)'
    BY <2>1, <2>2, <2>3
       DEF PluginMatch, OneInFlight, RequestFits, ReplyFits, SameChannel
  <2> QED
    BY <1>a, <2>2, <2>4, <2>5 DEF PluginMatch
<1>4. CASE SendTensor(p)
  <2>1. PICK f \in Frames \cup {NoFrame} : f = asked[p]
    OBVIOUS
  <2> DEFINE r == [from |-> p, kind |-> "tensor", frame |-> f, live |-> TRUE]
  <2>2. OnlyInTransit(p, r)' /\ \A q \in Plugins \ {p} : SameChannel(q)
    <3>1. Send(p, "tensor", f) /\ reqState[p] = "send"
      BY <1>4, <2>1 DEF SendTensor
    <3> QED
      BY <3>1, SentAlone
  <2>3. /\ pc'[p] = "infer" /\ reqState'[p] = "recv" /\ asked'[p] = f
        /\ \A q \in Plugins \ {p} : SamePlugin(q)
    BY <1>4, <2>1 DEF SendTensor, SamePlugin
  <2>4. r.kind = "tensor" /\ r.frame = f
    OBVIOUS
  <2>5. AnswerFits(p)'
    BY <2>3 DEF AnswerFits
  <2> HIDE DEF r
  <2>6. OneInFlight(p)' /\ RequestFits(p)' /\ ReplyFits(p)'
    BY <2>2, <2>3, <2>4, OneFits
  <2> QED
    BY <1>a, <2>2, <2>3, <2>5, <2>6 DEF PluginMatch
<1>5. ASSUME NEW r \in RepliesTo(p), ModelReply(p, r)
      PROVE  \A q \in Plugins : PluginMatch(q)'
  <2>1. CASE /\ ReadAndSend(r, "data", NoFrame)
             /\ pc' = [pc EXCEPT ![p] = "hsData"]
             /\ UNCHANGED <<why, reqState, ready, due, asked, answer>>
    <3> DEFINE s == [from |-> p, kind |-> "data", frame |-> NoFrame, live |-> TRUE]
    <3>1. OnlyInTransit(p, s)' /\ \A q \in Plugins \ {p} : SameChannel(q)
      BY <2>1, ReadAndSent
    <3>2. reqState[p] = "recv"
      BY DEF PluginMatch, OneInFlight
    <3>3. /\ pc'[p] = "hsData" /\ reqState'[p] = "recv"
          /\ \A q \in Plugins \ {p} : SamePlugin(q)
      BY <2>1, <3>2 DEF SamePlugin
    <3>4. s.kind = "data"
      OBVIOUS
    <3>5. AnswerFits(p)'
      BY <1>5, <2>1 DEF ModelReply, SendModelData, AnswerFits, PluginMatch
    <3> HIDE DEF s
    <3>6. OneInFlight(p)' /\ RequestFits(p)' /\ ReplyFits(p)'
      BY <3>1, <3>3, <3>4, OneFits
    <3> QED
      BY <1>a, <3>1, <3>3, <3>5, <3>6 DEF PluginMatch
  <2>2. CASE /\ Read(r)
             /\ reqState' = [reqState EXCEPT ![p] = "send"]
             /\ EndHandshake(p, r.body.kind = "modelLoaded")
    <3>1. NothingInFlight(p)' /\ \A q \in Plugins \ {p} : SameChannel(q)
      BY <2>2, ReadLeavesNothing
    <3>2. AnswerFits(p)' /\ \A q \in Plugins \ {p} : SamePlugin(q)
      <4>1. EndHandshake(p, r.body.kind = "modelLoaded")
        BY <2>2
      <4>2. \A q \in Plugins \ {p} : reqState'[q] = reqState[q]
        BY <2>2
      <4>3. AnswerFits(p)'
        BY <1>5, <2>2, <4>1, HandshakeEnds DEF ModelReply, SendModelData
      <4>4. ASSUME NEW q \in Plugins \ {p} PROVE SamePlugin(q)
        <5>1. pc'[q] = pc[q] /\ why'[q] = why[q] /\ asked'[q] = asked[q]
              /\ answer'[q] = answer[q]
          BY <1>5, <4>1, HandshakeEnds DEF ModelReply, SendModelData
        <5> QED
          BY <4>2, <5>1 DEF SamePlugin
      <4> QED
        BY <4>3, <4>4
    <3> QED
      BY <1>a, <3>1, <3>2, NothingFits DEF PluginMatch
  <2> QED
    BY <1>5, <2>1, <2>2 DEF ModelReply, SendModelData
<1>6. ASSUME NEW r \in RepliesTo(p), DataReply(p, r)
      PROVE  \A q \in Plugins : PluginMatch(q)'
  <2>1. NothingInFlight(p)' /\ \A q \in Plugins \ {p} : SameChannel(q)
    BY <1>6, ReadLeavesNothing DEF DataReply
  <2>2. AnswerFits(p)' /\ \A q \in Plugins \ {p} : SamePlugin(q)
    BY <1>6, HandshakeEnds DEF DataReply, SamePlugin
  <2> QED
    BY <1>a, <2>1, <2>2, NothingFits DEF PluginMatch
<1>7. ASSUME NEW r \in RepliesTo(p), TensorReply(p, r)
      PROVE  \A q \in Plugins : PluginMatch(q)'
  <2>1. NothingInFlight(p)' /\ \A q \in Plugins \ {p} : SameChannel(q)
    BY <1>7, ReadLeavesNothing DEF TensorReply
  <2>2. r.body.kind = "detections" => r.body.frame = asked[p]
    BY <1>7 DEF TensorReply, PluginMatch, ReplyFits, Matches
  <2>3. /\ pc'[p] = "idle" /\ asked'[p] = asked[p]
        /\ answer'[p] = IF r.body.kind = "detections" THEN r.body ELSE Zeros
        /\ \A q \in Plugins \ {p} : SamePlugin(q)
    BY <1>7 DEF TensorReply, SamePlugin
  <2>4. AnswerFits(p)'
    BY <2>2, <2>3 DEF AnswerFits, Zeros
  <2> QED
    BY <1>a, <2>1, <2>3, <2>4, NothingFits DEF PluginMatch
<1>8. CASE IntervalElapses(p)
  BY <1>8, <1>b, Unmoved DEF IntervalElapses, SamePlugin
<1>9. ASSUME NEW f \in Frames, DetectRaw(p, f) PROVE \A q \in Plugins : PluginMatch(q)'
  <2>1. pc'[p] = "enter" /\ reqState' = reqState
    BY <1>9 DEF DetectRaw
  <2>2. SameChannel(p) /\ \A q \in Plugins \ {p} : SameChannel(q) /\ SamePlugin(q)
    BY <1>9, <1>b DEF DetectRaw, SamePlugin
  <2>3. Outstanding(p)' = Outstanding(p)
    BY <2>2 DEF SameChannel, Outstanding, Live
  <2>4. OneInFlight(p)' /\ RequestFits(p)' /\ ReplyFits(p)' /\ AnswerFits(p)'
    BY <2>1, <2>2, <2>3
       DEF PluginMatch, OneInFlight, RequestFits, ReplyFits, AnswerFits, SameChannel
  <2> QED
    BY <1>a, <2>2, <2>4 DEF PluginMatch
<1>10. CASE HandshakeTimeout(p)
  <2>1. pc'[p] \in {"enter", "idle"} /\ reqState' = reqState /\ AnswerFits(p)'
    BY <1>10, HandshakeEnds DEF HandshakeTimeout
  <2>2. SameChannel(p) /\ \A q \in Plugins \ {p} : SameChannel(q) /\ SamePlugin(q)
    BY <1>10, <1>b, HandshakeEnds DEF HandshakeTimeout, SamePlugin
  <2>3. Outstanding(p)' = Outstanding(p)
    BY <2>2 DEF SameChannel, Outstanding, Live
  <2>4. OneInFlight(p)' /\ RequestFits(p)' /\ ReplyFits(p)'
    BY <2>1, <2>2, <2>3
       DEF PluginMatch, OneInFlight, RequestFits, ReplyFits, SameChannel
  <2> QED
    BY <1>a, <2>1, <2>2, <2>4 DEF PluginMatch
<1> QED
  BY <1>1, <1>2, <1>3, <1>4, <1>5, <1>6, <1>7, <1>8, <1>9, <1>10
     DEF PluginStep, PluginRuns, ReadReply, Timeout

(* Closing a socket changes no request's kind, so the service's stage      *)
(* still fits.                                                             *)
LEMMA HushedMatch ==
  ASSUME TypeOK, ServerMatch, NEW p \in Plugins,
         handling' = handling \/ handling' = Hushed(p, handling), UNCHANGED <<stage, body>>
  PROVE  ServerMatch'
<1>1. \A r \in handling' : \E s \in handling : r.kind = s.kind /\ r.frame = s.frame
  <2> SUFFICES ASSUME NEW r \in handling', handling' = Hushed(p, handling)
               PROVE  \E s \in handling : r.kind = s.kind /\ r.frame = s.frame
    OBVIOUS
  <2>1. PICK s \in handling : r = IF s.from = p THEN [s EXCEPT !.live = FALSE] ELSE s
    BY DEF Hushed
  <2>2. s \in Request
    BY DEF TypeOK, ChannelTypeOK
  <2> QED
    BY <2>1, <2>2 DEF Request
<1>2. \A r1, r2 \in handling' : r1 = r2
  <2>1. \A r1, r2 \in handling : r1 = r2
    BY DEF ServerMatch
  <2> QED
    BY <2>1 DEF Hushed
<1>3. ASSUME NEW r \in handling'
      PROVE  /\ stage' = "checking" => r.kind = "model"
             /\ stage' \in {"saving", "writing"} => r.kind = "data"
             /\ stage' = "loading" => r.kind \in {"model", "data"}
             /\ stage' = "inferring" => r.kind = "tensor"
             /\ stage' = "replying" => Matches(r.kind, r.frame, body')
  <2>1. PICK s \in handling : r.kind = s.kind /\ r.frame = s.frame
    BY <1>1
  <2>2. stage = "replying" => Matches(s.kind, s.frame, body)
    BY DEF ServerMatch
  <2>3. stage = "replying" => Matches(r.kind, r.frame, body)
    BY <2>1, <2>2 DEF Matches
  <2> QED
    BY <2>1, <2>3 DEF ServerMatch
<1> QED
  BY <1>2, <1>3 DEF ServerMatch, Matches

LEMMA PluginKeepsServerMatch ==
  ASSUME TypeOK, ServerMatch, NEW p \in Plugins, PluginStep(p) PROVE ServerMatch'
<1>1. handling' = handling \/ handling' = Hushed(p, handling)
  BY DEF PluginStep, PluginRuns, ReadReply, Timeout, Construct, ReturnNotReady,
         RetryHandshake, SendTensor, SendInWrongState, ModelReply, SendModelData, DataReply, TensorReply,
         IntervalElapses, DetectRaw, HandshakeTimeout, TensorTimeout, BeginHandshake,
         HangUpAndSend, Send, Read, ReadAndSend, channelVars
<1>2. UNCHANGED <<stage, body>>
  BY DEF PluginStep, serverVars
<1> QED
  BY <1>1, <1>2, HushedMatch

-----------------------------------------------------------------------------
(* The steps of the service and of the sockets. *)

(* Requests that only move, or get lost, and replies that get lost.        *)
LEMMA Rearranged ==
  ASSUME NEW q \in Plugins, PluginMatch(q), SamePlugin(q),
         Outstanding(q)' \subseteq Outstanding(q), RepliesTo(q)' \subseteq RepliesTo(q),
         Live(q, transit)' \cap Live(q, inbox)' = {},
         Live(q, transit)' \cap Live(q, handling)' = {},
         Live(q, inbox)' \cap Live(q, handling)' = {}
  PROVE  PluginMatch(q)'
<1>1. OneInFlight(q)'
  BY DEF PluginMatch, OneInFlight, SamePlugin
<1>2. RequestFits(q)'
  BY DEF PluginMatch, RequestFits, SamePlugin
<1>3. ReplyFits(q)'
  BY DEF PluginMatch, ReplyFits, SamePlugin, Matches
<1>4. AnswerFits(q)'
  BY DEF PluginMatch, AnswerFits, SamePlugin
<1> QED
  BY <1>1, <1>2, <1>3, <1>4 DEF PluginMatch

LEMMA DeliverKeepsMatch ==
  ASSUME NEW r, Deliver(r), NEW q \in Plugins, PluginMatch(q), SamePlugin(q)
  PROVE  PluginMatch(q)'
<1>1. Outstanding(q)' \subseteq Outstanding(q) /\ RepliesTo(q)' = RepliesTo(q)
  BY DEF Deliver, Outstanding, RepliesTo
<1>2. /\ Live(q, transit)' \cap Live(q, inbox)' = {}
      /\ Live(q, transit)' \cap Live(q, handling)' = {}
      /\ Live(q, inbox)' \cap Live(q, handling)' = {}
  BY DEF Deliver, Live, PluginMatch, OneInFlight
<1> QED
  BY <1>1, <1>2, Rearranged

LEMMA TakeKeepsMatch ==
  ASSUME NEW r, Take(r), NEW q \in Plugins, PluginMatch(q), SamePlugin(q)
  PROVE  PluginMatch(q)'
<1>1. Outstanding(q)' \subseteq Outstanding(q) /\ RepliesTo(q)' = RepliesTo(q)
  BY DEF Take, Outstanding, RepliesTo
<1>2. /\ Live(q, transit)' \cap Live(q, inbox)' = {}
      /\ Live(q, transit)' \cap Live(q, handling)' = {}
      /\ Live(q, inbox)' \cap Live(q, handling)' = {}
  BY DEF Take, Live, PluginMatch, OneInFlight
<1> QED
  BY <1>1, <1>2, Rearranged

LEMMA SocketLossKeepsMatch ==
  ASSUME ServerSocketGone, NEW q \in Plugins, PluginMatch(q), SamePlugin(q)
  PROVE  PluginMatch(q)'
<1>1. Outstanding(q)' \subseteq Outstanding(q) /\ RepliesTo(q)' \subseteq RepliesTo(q)
  BY DEF ServerSocketGone, Outstanding, RepliesTo
<1>2. Live(q, inbox)' = {} /\ Live(q, handling)' = {}
  BY DEF ServerSocketGone, Live
<1> QED
  BY <1>1, <1>2, Rearranged

(* The reply takes the request's place, and answers it. *)
LEMMA AnswerKeepsMatch ==
  ASSUME TypeOK, ServerMatch, stage = "replying", Answer(body),
         NEW q \in Plugins, PluginMatch(q), SamePlugin(q)
  PROVE  PluginMatch(q)'
<1>1. Live(q, transit)' = Live(q, transit) /\ Live(q, inbox)' = Live(q, inbox)
      /\ Live(q, handling)' = {}
  BY DEF Answer, Live
<1>2. CASE Live(q, handling) = {}
  <2>1. Outstanding(q)' \subseteq Outstanding(q)
    BY DEF Answer, Outstanding
  <2>2. RepliesTo(q)' = RepliesTo(q)
    BY <1>2 DEF Answer, RepliesTo, Live
  <2> QED
    BY <1>1, <2>1, <2>2, Rearranged DEF PluginMatch, OneInFlight
<1>3. CASE Live(q, handling) # {}
  <2>1. PICK r \in handling : r.from = q /\ r.live
    BY <1>3 DEF Live
  <2>2. r \in Outstanding(q)
    BY <2>1 DEF Outstanding
  <2>3. Live(q, transit) = {} /\ Live(q, inbox) = {} /\ RepliesTo(q) = {}
    BY <2>1, <2>2, OutstandingIsLive DEF PluginMatch, OneInFlight, Live
  <2>4. reqState'[q] = "recv"
    BY <2>2 DEF PluginMatch, OneInFlight, SamePlugin, TypeOK, PluginTypeOK
  <2>5. Outstanding(q)' = {}
    BY <1>1, <2>3 DEF Outstanding, Live
  <2>6. RepliesTo(q)' = {[to |-> q, body |-> body]}
    <3>1. {h \in handling : h.live} = {r}
      BY <2>1 DEF ServerMatch
    <3>2. replies' = replies \cup {[to |-> q, body |-> body]}
      BY <3>1, <2>1 DEF Answer
    <3> QED
      BY <2>3, <3>2 DEF RepliesTo
  <2>7. OneInFlight(q)'
    BY <1>1, <2>3, <2>4, <2>5, <2>6 DEF OneInFlight
  <2>8. RequestFits(q)'
    BY <2>5 DEF RequestFits
  <2>9. Matches(r.kind, r.frame, body)
    BY <2>1 DEF ServerMatch
  <2>10. ReplyFits(q)'
    <3>1. /\ pc[q] = "hsModel" => Matches("model", NoFrame, body)
          /\ pc[q] = "hsData" => Matches("data", NoFrame, body)
          /\ pc[q] = "infer" => Matches("tensor", asked[q], body)
      BY <2>2, <2>9 DEF PluginMatch, RequestFits, Matches
    <3> QED
      BY <2>6, <3>1 DEF ReplyFits, SamePlugin, Matches
  <2>11. AnswerFits(q)'
    BY DEF PluginMatch, AnswerFits, SamePlugin
  <2> QED
    BY <2>7, <2>8, <2>10, <2>11 DEF PluginMatch
<1> QED
  BY <1>2, <1>3

LEMMA NoKindInTwo ==
  /\ Says("modelMissing").kind = "modelMissing" /\ Says("dataNotSaved").kind = "dataNotSaved"
  /\ \A k \in ModelReplies \cup DataReplies : Says(k).kind = k
  /\ Silence.kind = "zeros"
  BY DEF Says, Silence, ModelReplies, DataReplies

(* What the service's own steps do to its stage and its reply. *)
LEMMA HandleKeepsServerMatch ==
  ASSUME TypeOK, ServerMatch, NEW r \in handling,
         CheckModel(r) \/ OpenFile(r) \/ WriteFile(r) \/ Load(r) \/ LoadRaises(r) \/ Infer(r)
  PROVE  ServerMatch' /\ UNCHANGED channelVars
<1>1. UNCHANGED channelVars /\ handling' = handling
  BY DEF CheckModel, OpenFile, WriteFile, Load, LoadRaises, Infer, channelVars
<1>2. \A s \in handling : s = r
  BY DEF ServerMatch
<1>3. CASE CheckModel(r)
  <2>1. \/ stage' = "loading"
        \/ stage' = "replying" /\ body'.kind = "modelMissing"
    BY <1>3, NoKindInTwo DEF CheckModel
  <2>2. r.kind = "model"
    BY <1>3 DEF CheckModel, ServerMatch
  <2> QED
    BY <1>1, <1>2, <2>1, <2>2 DEF ServerMatch, Matches, ModelReplies
<1>4. CASE OpenFile(r)
  BY <1>1, <1>4 DEF OpenFile, ServerMatch
<1>5. CASE WriteFile(r)
  BY <1>1, <1>5 DEF WriteFile, ServerMatch
<1>6. CASE Load(r) \/ LoadRaises(r)
  <2>1. stage = "loading" /\ stage' = "replying"
    BY <1>6 DEF Load, LoadRaises
  <2>2. r.kind \in {"model", "data"}
    BY <2>1 DEF ServerMatch
  <2>3. /\ r.kind = "model" => body'.kind \in {"modelLoaded", "modelNotLoaded"}
        /\ r.kind = "data" => body'.kind \in {"dataLoaded", "dataNotLoaded"}
    BY <1>6, NoKindInTwo DEF Load, LoadRaises, ModelReplies, DataReplies
  <2> QED
    BY <1>1, <1>2, <2>1, <2>2, <2>3 DEF ServerMatch, Matches, ModelReplies, DataReplies
<1>7. CASE Infer(r)
  <2>1. stage' = "replying" /\ r.kind = "tensor"
    BY <1>7 DEF Infer, ServerMatch
  <2>2. \/ body'.kind = "detections" /\ body'.frame = r.frame
        \/ body'.kind = "zeros"
    BY <1>7, NoKindInTwo DEF Infer
  <2> QED
    BY <1>1, <1>2, <2>1, <2>2 DEF ServerMatch, Matches, TensorReplies
<1> QED
  BY <1>1, <1>3, <1>4, <1>5, <1>6, <1>7

LEMMA FailuresKeepServerMatch ==
  ASSUME TypeOK, ServerMatch, SaveFails \/ HandlerRaises \/ SendFails
  PROVE  ServerMatch' /\ UNCHANGED channelVars
<1>1. UNCHANGED channelVars /\ handling' = handling
  BY DEF SaveFails, HandlerRaises, SendFails, channelVars
<1>2. CASE SaveFails
  BY <1>1, <1>2, NoKindInTwo DEF SaveFails, ServerMatch, Matches, DataReplies
<1>3. CASE HandlerRaises
  BY <1>1, <1>3, NoKindInTwo DEF HandlerRaises, ServerMatch, Matches, TensorReplies
<1>4. CASE SendFails
  BY <1>1, <1>4 DEF SendFails, ServerMatch
<1> QED
  BY <1>1, <1>2, <1>3, <1>4

LEMMA StandStill ==
  ASSUME UNCHANGED pluginVars, UNCHANGED channelVars, NEW q \in Plugins, PluginMatch(q)
  PROVE  PluginMatch(q)'
<1>1. SameChannel(q)
  BY DEF channelVars, SameChannel, Live, RepliesTo
<1>2. SamePlugin(q)
  BY DEF pluginVars, SamePlugin
<1> QED
  BY <1>1, <1>2, Unmoved

LEMMA StartsKeepMatch ==
  ASSUME MatchInv, StartAuto \/ StartPinned \/ StartPinnedFails
  PROVE  ServerMatch' /\ UNCHANGED channelVars
<1>1. UNCHANGED channelVars /\ UNCHANGED <<stage, body>>
  BY DEF StartAuto, StartPinned, StartPinnedFails
<1>2. handling' = handling
  BY <1>1 DEF channelVars
<1> QED
  BY <1>1, <1>2 DEF MatchInv, ServerMatch, Matches

LEMMA GoneKeepsMatch ==
  ASSUME MatchInv, Gone, UNCHANGED pluginVars
  PROVE  ServerMatch' /\ \A q \in Plugins : PluginMatch(q)'
<1>1. ServerMatch'
  BY DEF Gone, ServerSocketGone, ServerMatch
<1>2. \A q \in Plugins : SamePlugin(q)
  BY DEF pluginVars, SamePlugin
<1> QED
  BY <1>1, <1>2, SocketLossKeepsMatch DEF MatchInv, Gone

LEMMA InitMatch == Init => MatchInv
<1> SUFFICES ASSUME Init PROVE MatchInv
  OBVIOUS
<1>1. ServerMatch
  BY DEF Init, ChannelInit, ServerMatch
<1>2. ASSUME NEW p \in Plugins PROVE PluginMatch(p)
  <2>1. /\ pc[p] = "start" /\ answer[p].kind = "zeros"
        /\ Outstanding(p) = {} /\ RepliesTo(p) = {}
        /\ Live(p, transit) = {} /\ Live(p, inbox) = {} /\ Live(p, handling) = {}
    BY DEF Init, ChannelInit, PluginInit, Zeros, Outstanding, RepliesTo, Live
  <2> QED
    BY <2>1 DEF PluginMatch, OneInFlight, RequestFits, ReplyFits, AnswerFits
<1> QED
  BY <1>1, <1>2, InitType DEF MatchInv

LEMMA RestartKeepsMatch ==
  ASSUME MatchInv, NEW p \in Plugins, FrigateRestarts(p), UNCHANGED serverVars
  PROVE  ServerMatch' /\ \A q \in Plugins : PluginMatch(q)'
<1> USE DEF MatchInv, TypeOK, PluginTypeOK
<1>1. NothingInFlight(p)' /\ \A q \in Plugins \ {p} : SameChannel(q)
  BY HungUp DEF FrigateRestarts
<1>2. \A q \in Plugins \ {p} : SamePlugin(q)
  BY DEF FrigateRestarts, SamePlugin
<1>3. AnswerFits(p)'
  BY DEF FrigateRestarts, AnswerFits, Zeros
<1>4. PluginMatch(p)'
  BY <1>1, <1>3, NothingFits DEF PluginMatch
<1>5. \A q \in Plugins : PluginMatch(q)'
  BY <1>1, <1>2, <1>4, Unmoved
<1>6. handling' = Hushed(p, handling) /\ UNCHANGED <<stage, body>>
  BY DEF FrigateRestarts, HangUp, serverVars
<1> QED
  BY <1>5, <1>6, HushedMatch

LEMMA NextMatch == MatchInv /\ [Next]_vars => MatchInv'
<1> SUFFICES ASSUME MatchInv, [Next]_vars PROVE MatchInv'
  OBVIOUS
<1> USE DEF MatchInv
<1>1. TypeOK'
  BY NextType
<1>2. ASSUME NEW p \in Plugins, PluginStep(p) PROVE MatchInv'
  BY <1>1, <1>2, PluginKeepsMatch, PluginKeepsServerMatch
<1>3. ASSUME UNCHANGED pluginVars, UNCHANGED channelVars, ServerMatch' PROVE MatchInv'
  BY <1>1, <1>3, StandStill
<1>4. ASSUME UNCHANGED pluginVars PROVE \A q \in Plugins : SamePlugin(q)
  BY <1>4 DEF pluginVars, SamePlugin
<1>5. CASE ServerStep
  <2>1. CASE StartAuto \/ StartPinned \/ StartPinnedFails
    BY <1>3, <1>5, <2>1, StartsKeepMatch DEF ServerStep
  <2>2. CASE Handle
    BY <1>3, <1>5, <2>2, HandleKeepsServerMatch DEF ServerStep, Handle
  <2>3. CASE SendReply
    <3>1. ServerMatch'
      BY <2>3 DEF SendReply, Answer, ServerMatch
    <3> QED
      BY <1>1, <1>4, <1>5, <2>3, <3>1, AnswerKeepsMatch DEF ServerStep, SendReply
  <2>4. CASE ResetSocket
    <3>1. ServerMatch'
      BY <2>4 DEF ResetSocket, ServerSocketGone, ServerMatch
    <3> QED
      BY <1>1, <1>4, <1>5, <2>4, <3>1, SocketLossKeepsMatch DEF ServerStep, ResetSocket
  <2>5. ASSUME NEW r \in inbox, Recv(r) PROVE MatchInv'
    <3>1. handling' = {r} /\ r.kind \in {"model", "data", "tensor"}
      BY <2>5 DEF Recv, Take, TypeOK, ChannelTypeOK, Request
    <3>2. /\ stage' = "checking" => r.kind = "model"
          /\ stage' = "inferring" => r.kind = "tensor"
          /\ stage' = "saving" => r.kind = "data"
          /\ stage' \in {"checking", "saving", "inferring"}
      BY <2>5, <3>1 DEF Recv
    <3>3. ServerMatch'
      BY <3>1, <3>2 DEF ServerMatch
    <3> QED
      BY <1>1, <1>4, <1>5, <2>5, <3>3, TakeKeepsMatch DEF ServerStep, Recv
  <2> QED
    BY <1>5, <2>1, <2>2, <2>3, <2>4, <2>5 DEF ServerStep
<1>6. CASE DeliverStep
  <2>1. ServerMatch'
    BY <1>6 DEF DeliverStep, Deliver, serverVars, ServerMatch, Matches
  <2> QED
    BY <1>1, <1>4, <1>6, <2>1, DeliverKeepsMatch DEF DeliverStep
<1>7. CASE Fault
  <2>1. CASE \E p \in Plugins : FrigateRestarts(p) /\ UNCHANGED serverVars
    BY <1>1, <2>1, RestartKeepsMatch
  <2>2. CASE StartPinnedFails /\ UNCHANGED pluginVars
    BY <1>3, <2>2, StartsKeepMatch
  <2>3. CASE (SaveFails \/ HandlerRaises \/ SendFails) /\ UNCHANGED pluginVars
    BY <1>3, <2>3, FailuresKeepServerMatch
  <2>4. CASE (Stop \/ ResetFails) /\ UNCHANGED pluginVars
    BY <1>1, <2>4, GoneKeepsMatch DEF Stop, ResetFails
  <2>5. ASSUME NEW r \in handling, LoadRaises(r), UNCHANGED pluginVars PROVE MatchInv'
    BY <1>3, <2>5, HandleKeepsServerMatch
  <2> QED
    BY <1>7, <2>1, <2>2, <2>3, <2>4, <2>5 DEF Fault
<1>8. CASE UNCHANGED vars
  <2>1. UNCHANGED pluginVars /\ UNCHANGED channelVars /\ UNCHANGED serverVars
    BY <1>8 DEF vars
  <2>2. ServerMatch'
    BY <2>1 DEF ServerMatch, Matches, serverVars, channelVars
  <2> QED
    BY <1>3, <2>1, <2>2
<1> QED
  BY <1>2, <1>5, <1>6, <1>7, <1>8 DEF Next

LEMMA MatchInvariant == Safety => []MatchInv
  BY InitMatch, NextMatch, PTL DEF Safety

-----------------------------------------------------------------------------

(* A REQ socket never has two requests or replies on their way, whichever  *)
(* waits are abandoned and whichever processes restart                     *)
(* (zmq_ipc.py replaces the socket before it sends again).                 *)
THEOREM OneRequest == Safety => []OneRequestInFlight
<1>1. MatchInv => OneRequestInFlight
  BY DEF MatchInv, PluginMatch, OneInFlight, OneRequestInFlight, Live, Outstanding
<1> QED
  BY <1>1, MatchInvariant, PTL

(* A plugin that waits is only ever sent the reply to what it asked last.  *)
THEOREM RepliesMatch == Safety => []ReplyMatchesRequest
<1>1. ASSUME MatchInv, NEW r \in replies
      PROVE  LET p == r.to IN
             /\ pc[p] = "hsModel" => r.body.kind \in ModelReplies \cup {"zeros"}
             /\ pc[p] = "hsData" => r.body.kind \in DataReplies
             /\ pc[p] = "infer" => /\ r.body.kind \in TensorReplies
                                   /\ r.body.kind = "detections" => r.body.frame = asked[p]
  <2>1. r.to \in Plugins /\ r \in RepliesTo(r.to)
    BY <1>1 DEF MatchInv, TypeOK, ChannelTypeOK, Reply, RepliesTo
  <2> QED
    BY <1>1, <2>1 DEF MatchInv, PluginMatch, ReplyFits, Matches
<1>2. MatchInv => ReplyMatchesRequest
  BY <1>1 DEF ReplyMatchesRequest
<1> QED
  BY <1>2, MatchInvariant, PTL

(* Detections returned by detect_raw are those of the frame it was given.  *)
THEOREM AnswersAreForTheFrame == Safety => []AnswerIsForThisFrame
<1>1. MatchInv => AnswerIsForThisFrame
  BY DEF MatchInv, PluginMatch, AnswerFits, AnswerIsForThisFrame
<1> QED
  BY <1>1, MatchInvariant, PTL

-----------------------------------------------------------------------------
(* The promise of module DetectApi. *)

(* What Return needs beside MatchInv: an inference, and a handshake that   *)
(* an error started, belong to a plugin that is ready; and detections are  *)
(* always some model's.                                                    *)
PromiseInv ==
  /\ \A p \in Plugins :
       /\ pc[p] = "infer" => ready[p]
       /\ pc[p] \in {"hsModel", "hsData"} /\ why[p] = "error" => ready[p]
  /\ body.kind = "detections" => body.model \in Models
  /\ \A r \in replies : r.body.kind = "detections" => r.body.model \in Models

LEMMA PluginKeepsPromise ==
  ASSUME TypeOK, PromiseInv, NEW p \in Plugins, PluginStep(p)
  PROVE  PromiseInv'
<1> USE DEF TypeOK, PluginTypeOK, PromiseInv
<1>1. /\ replies' \subseteq replies /\ body' = body
  BY DEF PluginStep, PluginRuns, ReadReply, Timeout, Construct, ReturnNotReady,
         RetryHandshake, SendTensor, SendInWrongState, ModelReply, SendModelData, DataReply, TensorReply,
         IntervalElapses, DetectRaw, HandshakeTimeout, TensorTimeout, BeginHandshake,
         HangUpAndSend, Send, Read, ReadAndSend, channelVars, serverVars
<1>2. ASSUME NEW q \in Plugins
      PROVE  /\ pc'[q] = "infer" => ready'[q]
             /\ pc'[q] \in {"hsModel", "hsData"} /\ why'[q] = "error" => ready'[q]
  <2>1. CASE Construct(p) \/ RetryHandshake(p) \/ SendInWrongState(p) \/ TensorTimeout(p)
    BY <2>1 DEF Construct, RetryHandshake, SendInWrongState, TensorTimeout, BeginHandshake
  <2>2. CASE ReturnNotReady(p) \/ SendTensor(p) \/ IntervalElapses(p)
             \/ \E f \in Frames : DetectRaw(p, f)
    BY <2>2 DEF ReturnNotReady, SendTensor, IntervalElapses, DetectRaw
  <2>3. ASSUME NEW ok \in BOOLEAN, EndHandshake(p, ok)
        PROVE  /\ pc'[q] = "infer" => ready'[q]
               /\ pc'[q] \in {"hsModel", "hsData"} /\ why'[q] = "error" => ready'[q]
    BY <2>3 DEF EndHandshake
  <2>4. ASSUME NEW r \in RepliesTo(p), ModelReply(p, r)
        PROVE  /\ pc'[q] = "infer" => ready'[q]
               /\ pc'[q] \in {"hsModel", "hsData"} /\ why'[q] = "error" => ready'[q]
    BY <2>3, <2>4 DEF ModelReply, SendModelData
  <2>5. ASSUME NEW r \in RepliesTo(p), DataReply(p, r) \/ TensorReply(p, r)
        PROVE  /\ pc'[q] = "infer" => ready'[q]
               /\ pc'[q] \in {"hsModel", "hsData"} /\ why'[q] = "error" => ready'[q]
    BY <2>3, <2>5 DEF DataReply, TensorReply
  <2>6. CASE HandshakeTimeout(p)
    BY <2>3, <2>6 DEF HandshakeTimeout
  <2> QED
    BY <2>1, <2>2, <2>4, <2>5, <2>6 DEF PluginStep, PluginRuns, ReadReply, Timeout
<1> QED
  BY <1>1, <1>2

(* The service only names a model when it has one loaded. *)
LEMMA ServiceKeepsPromise ==
  ASSUME TypeOK, PromiseInv, ServerStep \/ DeliverStep PROVE PromiseInv'
<1> USE DEF PromiseInv
<1>1. UNCHANGED pluginVars
  BY DEF ServerStep, DeliverStep
<1>2. UNCHANGED <<pc, why, ready>>
  BY <1>1 DEF pluginVars
<1>3. ASSUME body'.kind = "detections" => body'.model \in Models, replies' \subseteq replies
      PROVE  PromiseInv'
  BY <1>2, <1>3
<1>4. \A k : Says(k).kind = k
  BY DEF Says, Silence
<1>5. Silence.kind = "zeros"
  BY DEF Silence
<1>6. ASSUME NEW r \in handling, Infer(r) PROVE PromiseInv'
  <2>1. Loaded => Served \in Models
    BY DEF TypeOK, BackendTypeOK, Loaded, Served
  <2>2. body'.kind = "detections" => body'.model \in Models
    BY <1>5, <1>6, <2>1 DEF Infer
  <2> QED
    BY <1>3, <1>6, <2>2 DEF Infer, channelVars
<1>7. ASSUME NEW r \in handling, CheckModel(r) \/ OpenFile(r) \/ WriteFile(r) \/ Load(r)
                                 \/ LoadRaises(r)
      PROVE  PromiseInv'
  <2>1. CASE CheckModel(r) \/ OpenFile(r) \/ WriteFile(r)
    BY <1>3, <1>4, <2>1 DEF CheckModel, OpenFile, WriteFile, channelVars
  <2>2. CASE Load(r) \/ LoadRaises(r)
    <3>1. body'.kind # "detections"
      <4>1. CASE Load(r)
        BY <1>4, <4>1 DEF Load
      <4>2. CASE LoadRaises(r)
        BY <1>4, <4>2 DEF LoadRaises
      <4> QED
        BY <2>2, <4>1, <4>2
    <3>2. replies' = replies
      BY <2>2 DEF Load, LoadRaises, channelVars
    <3> QED
      BY <1>3, <3>1, <3>2
  <2> QED
    BY <1>7, <2>1, <2>2
<1>8. CASE StartAuto \/ StartPinned \/ StartPinnedFails
  BY <1>3, <1>8 DEF StartAuto, StartPinned, StartPinnedFails, channelVars
<1>9. CASE SendReply
  <2>1. \A r \in replies' : r \in replies \/ r.body = body
    BY <1>9 DEF SendReply, Answer
  <2>2. body' = Silence
    BY <1>9 DEF SendReply
  <2> QED
    BY <1>2, <1>5, <2>1, <2>2
<1>10. CASE ResetSocket
  BY <1>3, <1>10 DEF ResetSocket, ServerSocketGone
<1>11. CASE DeliverStep
  BY <1>3, <1>11 DEF DeliverStep, Deliver, serverVars
<1>12. ASSUME NEW r \in inbox, Recv(r) PROVE PromiseInv'
  BY <1>3, <1>12 DEF Recv, Take
<1> QED
  BY <1>6, <1>7, <1>8, <1>9, <1>10, <1>11, <1>12 DEF ServerStep, Handle

LEMMA FaultKeepsPromise ==
  ASSUME TypeOK, PromiseInv, Fault PROVE PromiseInv'
<1> USE DEF PromiseInv
<1>1. ASSUME UNCHANGED pluginVars, replies' \subseteq replies,
             body' = body \/ body'.kind # "detections"
      PROVE  PromiseInv'
  BY <1>1 DEF pluginVars
<1>2. /\ \A k : Says(k).kind = k
      /\ Silence.kind = "zeros"
  BY DEF Says, Silence
<1>3. CASE (Stop \/ ResetFails) /\ UNCHANGED pluginVars
  BY <1>1, <1>2, <1>3 DEF Stop, ResetFails, Gone, ServerSocketGone
<1>4. CASE (StartPinnedFails \/ SaveFails \/ HandlerRaises \/ SendFails)
           /\ UNCHANGED pluginVars
  BY <1>1, <1>2, <1>4 DEF StartPinnedFails, SaveFails, HandlerRaises, SendFails, channelVars
<1>5. ASSUME NEW r \in handling, LoadRaises(r), UNCHANGED pluginVars PROVE PromiseInv'
  BY <1>1, <1>2, <1>5 DEF LoadRaises, channelVars
<1>6. ASSUME NEW p \in Plugins, FrigateRestarts(p), UNCHANGED serverVars PROVE PromiseInv'
  BY <1>6 DEF FrigateRestarts, HangUp, serverVars, TypeOK, PluginTypeOK
<1> QED
  BY <1>3, <1>4, <1>5, <1>6 DEF Fault

LEMMA NextPromise == TypeOK /\ PromiseInv /\ [Next]_vars => PromiseInv'
<1> SUFFICES ASSUME TypeOK, PromiseInv, [Next]_vars PROVE PromiseInv'
  OBVIOUS
<1>1. CASE UNCHANGED vars
  BY <1>1 DEF PromiseInv, vars, channelVars, pluginVars, serverVars
<1> QED
  BY <1>1, PluginKeepsPromise, ServiceKeepsPromise, FaultKeepsPromise DEF Next

LEMMA InitPromise == Init => PromiseInv
  BY DEF Init, PluginInit, ServerInit, ChannelInit, PromiseInv, Silence

(* The plugin p moves from one phase of DetectApi to another, the others   *)
(* stay where they are.                                                    *)
Phases == [q \in Plugins |-> Phase(q)]

LEMMA PhaseMoves ==
  ASSUME NEW p \in Plugins,
         \A q \in Plugins \ {p} : pc'[q] = pc[q] /\ why'[q] = why[q]
  PROVE  Phases' = [Phases EXCEPT ![p] = Phase(p)']
<1>1. \A q \in Plugins \ {p} : Phase(q)' = Phase(q)
  BY DEF Phase
<1> QED
  BY <1>1 DEF Phases

LEMMA PhaseStays ==
  ASSUME UNCHANGED <<pc, why>> PROVE Phases' = Phases
<1>1. \A q \in Plugins : Phase(q)' = Phase(q)
  BY DEF Phase
<1> QED
  BY <1>1 DEF Phases

(* A handshake that ends is the end of the constructor, the end of a call  *)
(* that returns zeros, or a call that goes on with a model that is ready.  *)
LEMMA HandshakeEndsApi ==
  ASSUME TypeOK, PromiseInv, NEW p \in Plugins, pc[p] \in {"hsModel", "hsData"},
         NEW ok \in BOOLEAN, EndHandshake(p, ok)
  PROVE  [Api!ApiNext]_(Api!apiVars)
<1> USE DEF TypeOK, PluginTypeOK
<1>1. Phases' = [Phases EXCEPT ![p] = Phase(p)']
  BY PhaseMoves DEF EndHandshake
<1>2. CASE why[p] = "init"
  <2>1. Phase(p) = "away" /\ Phase(p)' = "ready" /\ Phases[p] = Phase(p)
    BY <1>2 DEF EndHandshake, Phase, Phases
  <2>2. UNCHANGED <<asked, answer>> /\ ready' = [ready EXCEPT ![p] = ready[p] \/ ok]
    BY <1>2 DEF EndHandshake
  <2>3. ready[p] \/ ok \in BOOLEAN
    OBVIOUS
  <2>4. Api!Start(p)
    BY <1>1, <2>1, <2>2, <2>3 DEF Api!Start, Phases
  <2> QED
    BY <2>4 DEF Api!ApiNext
<1>3. CASE why[p] = "retry" /\ ready'[p]
  <2>1. Phase(p) = "called" /\ Phase(p)' = "called" /\ Phases[p] = Phase(p)
    BY <1>3 DEF EndHandshake, Phase, Phases
  <2>2. Phases' = Phases
    BY <1>1, <2>1 DEF Phases
  <2>3. UNCHANGED <<asked, answer>> /\ ready' = [ready EXCEPT ![p] = TRUE]
    BY <1>3 DEF EndHandshake
  <2>4. CASE ready[p]
    BY <2>2, <2>3, <2>4 DEF Api!apiVars, Phases
  <2>5. CASE ~ready[p]
    BY <2>1, <2>2, <2>3, <2>5 DEF Api!Prepare, Api!ApiNext, Phases
  <2> QED
    BY <2>4, <2>5
<1>4. CASE why[p] # "init" /\ ~(why[p] = "retry" /\ ready'[p])
  <2>1. Phase(p) = "called" /\ Phase(p)' = "ready" /\ Phases[p] = Phase(p)
    BY <1>4 DEF EndHandshake, Phase, Phases
  <2>2. UNCHANGED asked /\ answer' = [answer EXCEPT ![p] = Api!Zeros]
    BY <1>4 DEF EndHandshake, Zeros, Api!Zeros
  <2>3. ready'[p] = ready[p]
    BY <1>4 DEF EndHandshake, PromiseInv
  <2>4. ready' = ready
    BY <2>3 DEF EndHandshake
  <2>5. Api!Return(p)
    BY <1>1, <2>1, <2>2, <2>4 DEF Api!Return, Phases
  <2> QED
    BY <2>5 DEF Api!ApiNext
<1> QED
  BY <1>2, <1>3, <1>4

(* The reply to an inference is what the call returns.                     *)
LEMMA TensorReplyApi ==
  ASSUME MatchInv, PromiseInv, NEW p \in Plugins, NEW r \in RepliesTo(p), TensorReply(p, r)
  PROVE  Api!Return(p)
<1> USE DEF MatchInv, TypeOK, PluginTypeOK
<1>1. Phases' = [Phases EXCEPT ![p] = Phase(p)']
  BY PhaseMoves DEF TensorReply
<1>2. Phase(p) = "called" /\ Phase(p)' = "ready" /\ Phases[p] = Phase(p)
  BY DEF TensorReply, Phase, Phases
<1>3. ready[p] /\ UNCHANGED <<ready, asked>>
  BY DEF TensorReply, PromiseInv
<1> DEFINE a == IF r.body.kind = "detections" THEN r.body ELSE Zeros
<1>4. answer' = [answer EXCEPT ![p] = a]
  BY DEF TensorReply
<1>5. a \in {Api!Zeros} \cup Api!Detections(asked[p])
  <2>1. CASE r.body.kind # "detections"
    BY <2>1 DEF Zeros, Api!Zeros
  <2>2. CASE r.body.kind = "detections"
    <3>1. r.body \in Body
      BY DEF RepliesTo, ChannelTypeOK, Reply
    <3>2. r.body.frame = asked[p]
      BY <2>2 DEF TensorReply, PluginMatch, ReplyFits, Matches
    <3>3. r.body.model \in Models
      BY <2>2 DEF PromiseInv, RepliesTo
    <3>4. r.body = [kind |-> "detections", frame |-> asked[p], model |-> r.body.model]
      BY <2>2, <3>1, <3>2 DEF Body
    <3> QED
      BY <2>2, <3>3, <3>4 DEF Api!Detections
  <2> QED
    BY <2>1, <2>2
<1> HIDE DEF a
<1> QED
  BY <1>1, <1>2, <1>3, <1>4, <1>5 DEF Api!Return, Phases

(* Every step of the system is one step of DetectApi, or none.             *)
LEMMA ApiStep ==
  MatchInv /\ PromiseInv /\ [Next]_vars => [Api!ApiNext]_(Api!apiVars)
<1> SUFFICES ASSUME MatchInv, PromiseInv, [Next]_vars PROVE [Api!ApiNext]_(Api!apiVars)
  OBVIOUS
<1> USE DEF MatchInv, TypeOK, PluginTypeOK
<1>1. ASSUME UNCHANGED <<pc, why, ready, asked, answer>> PROVE UNCHANGED Api!apiVars
  BY <1>1, PhaseStays DEF Api!apiVars, Phases
<1>2. ASSUME UNCHANGED pluginVars PROVE UNCHANGED Api!apiVars
  BY <1>1, <1>2 DEF pluginVars
<1>3. ASSUME NEW p \in Plugins, PluginStep(p) PROVE [Api!ApiNext]_(Api!apiVars)
  <2>a. ASSUME UNCHANGED <<ready, asked, answer>>, Phase(p)' = Phase(p),
               \A q \in Plugins \ {p} : pc'[q] = pc[q] /\ why'[q] = why[q]
        PROVE  UNCHANGED Api!apiVars
    <3>1. Phases' = Phases
      BY <2>a, PhaseMoves DEF Phases
    <3> QED
      BY <2>a, <3>1 DEF Api!apiVars, Phases
  <2>1. CASE Construct(p)
    BY <2>1, <2>a DEF Construct, BeginHandshake, Phase
  <2>2. CASE RetryHandshake(p) \/ SendInWrongState(p) \/ TensorTimeout(p)
    <3>1. PICK reason \in {"retry", "error"} :
            BeginHandshake(p, reason) /\ UNCHANGED <<ready, asked, answer>>
            /\ pc[p] \in {"enter", "infer"}
      BY <2>2 DEF RetryHandshake, SendInWrongState, TensorTimeout
    <3> QED
      BY <3>1, <2>a DEF BeginHandshake, Phase
  <2>3. CASE SendTensor(p)
    BY <2>3, <2>a DEF SendTensor, Phase
  <2>4. CASE IntervalElapses(p)
    BY <2>4, <1>1 DEF IntervalElapses
  <2>5. CASE ReturnNotReady(p)
    <3>1. Phases' = [Phases EXCEPT ![p] = Phase(p)']
      BY <2>5, PhaseMoves DEF ReturnNotReady
    <3>2. Phase(p) = "called" /\ Phase(p)' = "ready" /\ Phases[p] = Phase(p)
      BY <2>5 DEF ReturnNotReady, Phase, Phases
    <3>3. answer' = [answer EXCEPT ![p] = Api!Zeros] /\ UNCHANGED <<ready, asked>>
      BY <2>5 DEF ReturnNotReady, Zeros, Api!Zeros
    <3> QED
      BY <3>1, <3>2, <3>3 DEF Api!Return, Api!ApiNext, Phases
  <2>6. ASSUME NEW f \in Frames, DetectRaw(p, f) PROVE [Api!ApiNext]_(Api!apiVars)
    <3>1. Phases' = [Phases EXCEPT ![p] = Phase(p)']
      BY <2>6, PhaseMoves DEF DetectRaw
    <3>2. Phase(p) = "ready" /\ Phase(p)' = "called" /\ Phases[p] = Phase(p)
      BY <2>6 DEF DetectRaw, Phase, Phases
    <3> QED
      BY <2>6, <3>1, <3>2 DEF DetectRaw, Api!Call, Api!ApiNext, Phases
  <2>7. CASE HandshakeTimeout(p)
    BY <2>7, HandshakeEndsApi DEF HandshakeTimeout
  <2>8. ASSUME NEW r \in RepliesTo(p), ModelReply(p, r) PROVE [Api!ApiNext]_(Api!apiVars)
    <3>1. CASE /\ pc' = [pc EXCEPT ![p] = "hsData"]
               /\ UNCHANGED <<why, reqState, ready, due, asked, answer>>
      BY <2>8, <2>a, <3>1 DEF ModelReply, SendModelData, Phase
    <3>2. CASE EndHandshake(p, r.body.kind = "modelLoaded")
      BY <2>8, <3>2, HandshakeEndsApi DEF ModelReply, SendModelData
    <3> QED
      BY <2>8, <3>1, <3>2 DEF ModelReply, SendModelData
  <2>9. ASSUME NEW r \in RepliesTo(p), DataReply(p, r) PROVE [Api!ApiNext]_(Api!apiVars)
    BY <2>9, HandshakeEndsApi DEF DataReply
  <2>10. ASSUME NEW r \in RepliesTo(p), TensorReply(p, r) PROVE [Api!ApiNext]_(Api!apiVars)
    BY <2>10, TensorReplyApi DEF Api!ApiNext
  <2> QED
    BY <1>3, <2>1, <2>2, <2>3, <2>4, <2>5, <2>6, <2>7, <2>8, <2>9, <2>10
       DEF PluginStep, PluginRuns, ReadReply, Timeout
<1>4. ASSUME NEW p \in Plugins, FrigateRestarts(p) PROVE Api!ApiNext
  <2>1. Phases' = [Phases EXCEPT ![p] = Phase(p)'] /\ Phase(p)' = "away"
    BY <1>4, PhaseMoves DEF FrigateRestarts, Phase
  <2>2. /\ ready' = [ready EXCEPT ![p] = FALSE]
        /\ asked' = [asked EXCEPT ![p] = NoFrame]
        /\ answer' = [answer EXCEPT ![p] = Api!Zeros]
    BY <1>4 DEF FrigateRestarts, Zeros, Api!Zeros
  <2> QED
    BY <2>1, <2>2 DEF Api!Restart, Api!ApiNext, Phases
<1> QED
  BY <1>2, <1>3, <1>4 DEF Next, ServerStep, DeliverStep, Fault, vars

(* The system implements the safety part of DetectApi, for any number of   *)
(* plugins, frames, models and faults: detect_raw returns zeros or         *)
(* detections in the frame it was given, the latter only after a handshake *)
(* has succeeded since the process was last started.                       *)
THEOREM SystemImplementsApi == Safety => Api!ApiSafety
<1>1. Init => Api!ApiInit
  BY DEF Init, PluginInit, Zeros, Api!ApiInit, Api!Zeros, Phase
<1> QED
  BY <1>1, InitPromise, NextPromise, TypeCorrect, MatchInvariant, ApiStep, PTL
     DEF Safety, Api!ApiSafety

-----------------------------------------------------------------------------
(* The service and its backend. *)

(* The REP socket owes a reply exactly while a request is in hand; only a  *)
(* process that is up has one, or has requests waiting.                    *)
ReplyIsDue ==
  /\ (repState = "send") <=> (handling # {})
  /\ stage # "recv" => repState = "send"
  /\ ~up => repState = "recv" /\ inbox = {}

LEMMA PluginsKeepReplyDue ==
  ASSUME ReplyIsDue, NEW p \in Plugins, PluginStep(p) \/ FrigateRestarts(p),
         UNCHANGED serverVars
  PROVE  ReplyIsDue'
<1>1. \/ handling' = handling /\ inbox' = inbox
      \/ handling' = Hushed(p, handling) /\ inbox' = Hushed(p, inbox)
  BY DEF PluginStep, PluginRuns, ReadReply, Timeout, Construct, ReturnNotReady,
         RetryHandshake, SendTensor, SendInWrongState, ModelReply, SendModelData, DataReply, TensorReply,
         IntervalElapses, DetectRaw, HandshakeTimeout, TensorTimeout, BeginHandshake,
         FrigateRestarts, HangUp, HangUpAndSend, Send, Read, ReadAndSend, channelVars
<1>2. \A requests : (Hushed(p, requests) = {}) <=> (requests = {})
  BY DEF Hushed
<1> QED
  BY <1>1, <1>2 DEF ReplyIsDue, serverVars

LEMMA ServiceKeepsReplyDue ==
  ASSUME ReplyIsDue,
         ServerStep \/ DeliverStep \/ Stop \/ StartPinnedFails \/ SaveFails \/ HandlerRaises
           \/ SendFails \/ ResetFails \/ \E r \in handling : LoadRaises(r)
  PROVE  ReplyIsDue'
<1> USE DEF ReplyIsDue
<1>1. CASE StartAuto \/ StartPinned \/ StartPinnedFails
  BY <1>1 DEF StartAuto, StartPinned, StartPinnedFails, channelVars
<1>2. ASSUME NEW r \in inbox, Recv(r) PROVE ReplyIsDue'
  BY <1>2 DEF Recv, Take
<1>3. CASE Handle \/ SaveFails \/ HandlerRaises \/ SendFails
           \/ \E r \in handling : LoadRaises(r)
  BY <1>3 DEF Handle, CheckModel, OpenFile, WriteFile, Load, LoadRaises, Infer, SaveFails,
              HandlerRaises, SendFails, channelVars
<1>4. CASE SendReply
  BY <1>4 DEF SendReply, Answer
<1>5. CASE ResetSocket \/ ResetFails \/ Stop
  BY <1>5 DEF ResetSocket, ResetFails, Stop, Gone, ServerSocketGone
<1>6. CASE DeliverStep
  BY <1>6 DEF DeliverStep, Deliver, serverVars
<1> QED
  BY <1>1, <1>2, <1>3, <1>4, <1>5, <1>6 DEF ServerStep

LEMMA NextReplyDue == ReplyIsDue /\ [Next]_vars => ReplyIsDue'
<1> SUFFICES ASSUME ReplyIsDue, [Next]_vars PROVE ReplyIsDue'
  OBVIOUS
<1>1. CASE \E p \in Plugins : PluginStep(p)
  BY <1>1, PluginsKeepReplyDue DEF PluginStep
<1>2. CASE ServerStep \/ DeliverStep
  BY <1>2, ServiceKeepsReplyDue
<1>3. CASE Fault
  BY <1>3, ServiceKeepsReplyDue, PluginsKeepReplyDue DEF Fault
<1>4. CASE UNCHANGED vars
  BY <1>4 DEF vars, channelVars, serverVars, ReplyIsDue
<1> QED
  BY <1>1, <1>2, <1>3, <1>4 DEF Next

LEMMA ReplyDue == Safety => []ReplyIsDue
<1>1. Init => ReplyIsDue
  BY DEF Init, ChannelInit, ServerInit, ReplyIsDue
<1> QED
  BY <1>1, NextReplyDue, PTL DEF Safety

(* The stage is one for a request of r's kind, and a reply answers it. *)
StageFits(r) ==
  CASE stage = "recv"                  -> TRUE
    [] stage = "checking"              -> r.kind = "model"
    [] stage \in {"saving", "writing"} -> r.kind = "data"
    [] stage = "loading"               -> r.kind \in {"model", "data"}
    [] stage = "inferring"             -> r.kind = "tensor"
    [] stage = "replying"              -> Matches(r.kind, r.frame, body)

OneInHand ==
  /\ repState = "recv" => stage = "recv" /\ handling = {}
  /\ repState = "send" => up /\ \E r \in Request : handling = {r} /\ StageFits(r)

(* The service is never stuck inside a request: whatever failed before, a  *)
(* statement of start_server after recv_multipart finds one request in     *)
(* hand, of the kind it is for, on a socket that takes a reply to it; and  *)
(* a loop back at recv_multipart owes none, or its socket is about to be   *)
(* reset (zmq_onnx_client.py).                                             *)
THEOREM ServiceHasItsRequest == Safety => []OneInHand
<1>1. ASSUME MatchInv, NEW r \in handling PROVE StageFits(r)
  <2>1. stage \in Stages
    BY <1>1 DEF MatchInv, TypeOK, ServerTypeOK
  <2> QED
    BY <1>1, <2>1 DEF MatchInv, ServerMatch, Stages, StageFits
<1>2. MatchInv /\ ReplyIsDue => OneInHand
  <2> SUFFICES ASSUME MatchInv, ReplyIsDue PROVE OneInHand
    OBVIOUS
  <2>1. handling \subseteq Request
    BY DEF MatchInv, TypeOK, ChannelTypeOK
  <2>2. ASSUME repState = "send"
        PROVE  up /\ \E r \in Request : handling = {r} /\ StageFits(r)
    <3>1. PICK r \in handling : TRUE
      BY <2>2 DEF ReplyIsDue
    <3>2. handling = {r}
      BY <3>1 DEF MatchInv, ServerMatch
    <3>3. StageFits(r)
      BY <1>1, <3>1
    <3> QED
      BY <2>1, <2>2, <3>1, <3>2, <3>3 DEF ReplyIsDue
  <2> QED
    BY <2>2 DEF ReplyIsDue, OneInHand
<1> QED
  BY <1>2, MatchInvariant, ReplyDue, PTL

-----------------------------------------------------------------------------
(* The backend of the service. *)

(* A process that is down has a fresh backend; create_backend picks, when  *)
(* it starts, whether it is a wrapped one.                                 *)
Boot(w) == INSTANCE FallbackBackend
  WITH wrapped <- IF up THEN wrapped ELSE w,
       active  <- IF up THEN active ELSE "none",
       net     <- IF up THEN net ELSE NoModel,
       closed  <- IF up THEN closed ELSE FALSE,
       session <- IF up THEN session ELSE NoModel

Starts ==
  \E w \in BOOLEAN :
    /\ Boot(w)!BackendInit
    /\ IF Pinned = NoModel THEN UNCHANGED Boot(w)!backendVars
                           ELSE Boot(w)!LoadSucceeds(Pinned) \/ Boot(w)!LoadFails(Pinned)

Loads == \E m \in Models : LoadSucceeds(m) \/ LoadFails(m)

BackendLife ==
  CASE ~up /\ up' -> Starts
    [] up /\ up'  -> Loads \/ UNCHANGED backendVars
    [] OTHER      -> TRUE

(* Whatever the service does with its backend, from the constructor on, is *)
(* create_backend followed by calls of load(), each with an outcome that   *)
(* GpuImplements and MnnImplements find in the engines: the start with a   *)
(* pinned model, which DetectorSystem writes out as one step, included.    *)
THEOREM BackendOnlyLoads == Safety => [][BackendLife]_vars
<1>1. ASSUME StartAuto PROVE ~up /\ up' /\ Starts
  BY <1>1 DEF StartAuto, Fresh, Starts, Boot!BackendInit, Boot!backendVars
<1>2. ASSUME StartPinned PROVE ~up /\ up' /\ Starts
  BY <1>2, ModelsAssumption
     DEF ModelsAssumption, StartPinned, Starts, Boot!BackendInit, Boot!LoadSucceeds,
         Boot!LoadPrimary, Boot!LoadFallback, Boot!PrimaryFails, Boot!LoadCpu
<1>3. ASSUME StartPinnedFails PROVE ~up /\ up' /\ Starts
  BY <1>3, ModelsAssumption
     DEF ModelsAssumption, StartPinnedFails, Starts, Boot!BackendInit, Boot!LoadFails,
         Boot!LoadNeither, Boot!PrimaryFails, Boot!LoadCpuFails, Boot!backendVars
<1>4. ASSUME TypeOK, NEW r \in handling, Load(r) \/ LoadRaises(r) PROVE up' = up /\ Loads
  <2>1. ModelOf[r.from] \in Models
    BY <1>4, SystemAssumption DEF SystemAssumption, TypeOK, ChannelTypeOK, Request
  <2> QED
    BY <1>4, <2>1 DEF Load, LoadRaises, Loads, LoadFails
<1>5. ASSUME ReplyIsDue, NEW r \in handling, Load(r) \/ LoadRaises(r) PROVE up
  BY <1>5 DEF ReplyIsDue
<1>6. ASSUME Stop \/ ResetFails PROVE up /\ ~up'
  BY <1>6 DEF Stop, ResetFails, Gone
<1>7. ASSUME TypeOK, ReplyIsDue, ServerStep PROVE BackendLife
  <2>1. CASE StartAuto \/ StartPinned \/ StartPinnedFails
    BY <1>1, <1>2, <1>3, <2>1 DEF BackendLife
  <2>2. CASE \E r \in handling : Load(r) \/ LoadRaises(r)
    BY <1>4, <1>5, <1>7, <2>2 DEF BackendLife
  <2>3. CASE UNCHANGED <<up, backendVars>>
    BY <2>3 DEF BackendLife
  <2> QED
    BY <1>7, <2>1, <2>2, <2>3
       DEF ServerStep, Handle, SendReply, ResetSocket, Recv, CheckModel, OpenFile, WriteFile,
           Infer
<1>8. ASSUME TypeOK, ReplyIsDue, Fault PROVE BackendLife
  <2>1. CASE StartPinnedFails
    BY <1>3, <2>1 DEF BackendLife
  <2>2. CASE \E r \in handling : LoadRaises(r)
    BY <1>4, <1>5, <1>8, <2>2 DEF BackendLife
  <2>3. CASE UNCHANGED <<up, backendVars>>
    BY <2>3 DEF BackendLife
  <2>4. CASE Stop \/ ResetFails
    BY <1>6, <2>4 DEF BackendLife
  <2> QED
    BY <1>8, <2>1, <2>2, <2>3, <2>4
       DEF Fault, SaveFails, HandlerRaises, SendFails, serverVars
<1>9. ASSUME UNCHANGED <<up, backendVars>> PROVE BackendLife
  BY <1>9 DEF BackendLife
<1>10. TypeOK /\ ReplyIsDue /\ [Next]_vars => [BackendLife]_vars
  BY <1>7, <1>8, <1>9 DEF Next, PluginStep, DeliverStep, serverVars
<1> QED
  BY <1>10, TypeCorrect, ReplyDue, PTL DEF Safety

=============================================================================
