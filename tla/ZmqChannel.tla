----------------------------- MODULE ZmqChannel -----------------------------
(***************************************************************************)
(* The REQ/REP sockets between Frigate's plugin processes and the detector *)
(* service, as both sides use libzmq (external code).  Every plugin owns   *)
(* one REQ socket at a time; the service owns one REP socket.              *)
(*                                                                         *)
(*  - A request is queued in the REQ socket until the service is bound,    *)
(*    also across a restart of the service, and is dropped with the socket *)
(*    (LINGER 0).                                                          *)
(*  - The REP socket fair-queues the requests that reached it, so requests *)
(*    of different sockets are taken in any order.  A request whose REQ    *)
(*    socket has since been closed is still taken; its reply is dropped.   *)
(*  - A reply travels until the REQ socket reads it, and is dropped with   *)
(*    that socket; a service that dies may take unsent replies with it.    *)
(***************************************************************************)
EXTENDS ModelNames

CONSTANTS Plugins,    \* Frigate detector processes configured to use the service
          Frames,     \* the inputs a plugin is asked about
          NoFrame

VARIABLES transit,    \* requests queued in a REQ socket
          inbox,      \* requests that reached the service's REP socket
          handling,   \* the request recv_multipart returned, until it is answered
          replies     \* replies that have not been read

channelVars == <<transit, inbox, handling, replies>>

ModelReplies == {"modelLoaded", "modelNotLoaded", "modelMissing"}
DataReplies == {"dataLoaded", "dataNotLoaded", "dataNotSaved"}
TensorReplies == {"zeros", "detections"}

(* live: the REQ socket that sent it is still open. *)
Request == [from : Plugins, kind : {"model", "data", "tensor"},
            frame : Frames \cup {NoFrame}, live : BOOLEAN]

(* A one-frame JSON reply, or a (20,6) array: zeros, or what a model found *)
(* in a frame.                                                             *)
Body == [kind : ModelReplies \cup DataReplies \cup TensorReplies,
         frame : Frames \cup {NoFrame}, model : Models \cup {NoModel}]
Reply == [to : Plugins, body : Body]

ChannelTypeOK ==
  /\ transit \subseteq Request
  /\ inbox \subseteq Request
  /\ handling \subseteq Request
  /\ replies \subseteq Reply

ChannelInit ==
  transit = {} /\ inbox = {} /\ handling = {} /\ replies = {}

-----------------------------------------------------------------------------

From(p, requests) == {r \in requests : r.from = p}
Hushed(p, requests) ==
  {IF r.from = p THEN [r EXCEPT !.live = FALSE] ELSE r : r \in requests}

(* p's requests that can still be answered to it, and the answers. *)
Outstanding(p) == {r \in transit \cup inbox \cup handling : r.from = p /\ r.live}
RepliesTo(p) == {r \in replies : r.to = p}

(* What p's sockets hold after socket.send_multipart. *)
Send(p, kind, frame) ==
  /\ transit' = transit \cup {[from |-> p, kind |-> kind, frame |-> frame,
                               live |-> TRUE]}
  /\ UNCHANGED <<inbox, handling, replies>>

(* Mutant: the old socket is not closed. *)
SendOnOldSocket(p, kind, frame) ==
  /\ transit' = transit \cup {[from |-> p, kind |-> kind, frame |-> frame,
                               live |-> TRUE]}
  /\ UNCHANGED <<inbox, handling, replies>>

(* The same after p's socket is closed (LINGER 0) and a new one has sent.  *)
HangUpAndSend(p, kind, frame) ==
  /\ transit' = (transit \ From(p, transit))
                  \cup {[from |-> p, kind |-> kind, frame |-> frame, live |-> TRUE]}
  /\ inbox' = Hushed(p, inbox)
  /\ handling' = Hushed(p, handling)
  /\ replies' = replies \ RepliesTo(p)

HangUp(p) ==
  /\ transit' = transit \ From(p, transit)
  /\ inbox' = Hushed(p, inbox)
  /\ handling' = Hushed(p, handling)
  /\ replies' = replies \ RepliesTo(p)

(* p's recv_multipart returns r, and p may send its next request at once. *)
Read(r) ==
  /\ replies' = replies \ {r}
  /\ UNCHANGED <<transit, inbox, handling>>

ReadAndSend(r, kind, frame) ==
  /\ replies' = replies \ {r}
  /\ transit' = transit \cup {[from |-> r.to, kind |-> kind, frame |-> frame,
                               live |-> TRUE]}
  /\ UNCHANGED <<inbox, handling>>

(* libzmq moves a queued request to the bound REP socket. *)
Deliver(r) ==
  /\ r \in transit
  /\ transit' = transit \ {r}
  /\ inbox' = inbox \cup {r}
  /\ UNCHANGED <<handling, replies>>

(* The service's recv_multipart returns r. *)
Take(r) ==
  /\ r \in inbox
  /\ inbox' = inbox \ {r}
  /\ handling' = {r}
  /\ UNCHANGED <<transit, replies>>

(* The service's send_multipart: the REP socket routes the reply to the    *)
(* socket the request came from, or drops it when that socket is gone.     *)
Answer(body) ==
  /\ replies' = replies \cup {[to |-> r.from, body |-> body] :
                                r \in {h \in handling : h.live}}
  /\ handling' = {}
  /\ UNCHANGED <<transit, inbox>>

(* The REP socket is closed, or its process is gone: what reached it is    *)
(* lost, and so are replies still on their way out.                        *)
ServerSocketGone ==
  /\ inbox' = {} /\ handling' = {}
  /\ \E lost \in SUBSET replies : replies' = replies \ lost
  /\ UNCHANGED transit

=============================================================================
