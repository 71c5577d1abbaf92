------------------------------ MODULE IPCFanout ------------------------------
(***************************************************************************)
(* tcp-camera-backend/internal/publisher and shared/frameipc: the backend  *)
(* fans messages out to one bounded channel per consumer connection, a     *)
(* goroutine per connection writes them to the Unix socket, and the        *)
(* consumer's Client reads them, calls its Handler, and reconnects when    *)
(* the connection ends.  Consumers do not affect one another except        *)
(* through the backend's life, so there is one Client; its view of the     *)
(* cameras is what camera-web-api's registry and ffmpeg-streamer's Reader  *)
(* do in their callbacks.                                                  *)
(***************************************************************************)
EXTENDS Naturals, Sequences

CONSTANTS
    Sessions,     \* connections the client may make, each used once
    CameraIds,
    NoSession,
    ChanCap,      \* ipcChannelSize
    SockCap,      \* messages the socket buffers hold
    MaxFanned,    \* bound: messages published
    MaxRestarts   \* bound: restarts of the backend

ASSUME IPCAssumption == /\ NoSession \notin Sessions
                        /\ ChanCap \in Nat \ {0} /\ SockCap \in Nat \ {0}
                        /\ MaxFanned \in Nat /\ MaxRestarts \in Nat

VARIABLES
    fanned,       \* every message the backend has fanned out, in order
    consumers,    \* Publisher.consumers
    ch,           \* consumerConn.ch of each session
    server,       \* the server's side of each session, see ServerStates
    writing,      \* the message frameipc.Write has in hand
    sock,         \* the socket of each session: its messages,
    open,         \*   and the sessions neither side has closed
    base,         \* how much was published before a session was registered
    lossy,        \* sessions whose channel has overflowed
    client,       \* Client.Run: "dialing", "reading", "ended", "waiting"
    session,      \* the session it reads, or NoSession
    view,         \* the cameras the consumer takes to be sending
    told,         \* how many messages the client has dispatched in this session
    backend,      \* "up", "cancelled" (context), "swept" (watchdog done), "down"
    restarts

ivars == <<fanned, consumers, ch, server, writing, sock, open, base, lossy,
           client, session, view, told, backend, restarts>>
serverVars == <<consumers, ch, server, writing, base, lossy>>
clientVars == <<client, session, view, told>>

IPCMessages == [kind : {"frame", "offline"}, camera : CameraIds]
NoMessage == [kind |-> "none", camera |-> NoSession]
\* "backlog": the kernel has accepted; "accepted": Accept has returned;
\* "serving": registered, in the select; "writing"; "closing": the deferred
\* Close; "leaving": it is closed and still in consumers.
ServerStates == {"none", "backlog", "accepted", "serving", "writing", "closing", "leaving", "done"}

IInit == /\ fanned = <<>>
         /\ consumers = {}
         /\ ch = [s \in Sessions |-> <<>>]
         /\ server = [s \in Sessions |-> "none"]
         /\ writing = [s \in Sessions |-> NoMessage]
         /\ sock = [s \in Sessions |-> <<>>]
         /\ open = {}
         /\ base = [s \in Sessions |-> 0]
         /\ lossy = {}
         /\ client = "dialing" /\ session = NoSession /\ view = {} /\ told = 0
         /\ backend = "up" /\ restarts = 0

-----------------------------------------------------------------------------
(* The backend process *)

\* Publish and PublishOffline: fanOut offers the message to every consumer's
\* channel and drops it for one whose channel is full.
FanOut(msg) ==
    /\ backend # "down" /\ Len(fanned) < MaxFanned
    /\ fanned' = Append(fanned, msg)
    /\ ch' = [s \in Sessions |-> IF s \in consumers /\ Len(ch[s]) < ChanCap
                                 THEN Append(ch[s], msg) ELSE ch[s]]
    /\ lossy' = lossy \cup {s \in consumers : Len(ch[s]) >= ChanCap}
    /\ UNCHANGED <<consumers, server, writing, base, sock, open, clientVars, backend, restarts>>

CancelBackend == /\ backend = "up"
                 /\ backend' = "cancelled"
                 /\ UNCHANGED <<fanned, serverVars, sock, open, clientVars, restarts>>

\* The watchdog of Listen closes the listener and every registered connection.
Sweep == /\ backend = "cancelled"
         /\ backend' = "swept"
         /\ open' = open \ (consumers \cup {s \in Sessions : server[s] = "backlog"})
         /\ UNCHANGED <<fanned, serverVars, sock, clientVars, restarts>>

\* The process exits or crashes: the kernel closes every socket.
Exit == /\ backend # "down"
        /\ backend' = "down"
        /\ open' = {} /\ consumers' = {}
        /\ server' = [s \in Sessions |-> IF server[s] = "none" THEN "none" ELSE "done"]
        /\ ch' = [s \in Sessions |-> <<>>]
        /\ writing' = [s \in Sessions |-> NoMessage]
        /\ UNCHANGED <<fanned, sock, base, lossy, clientVars, restarts>>

Restart == /\ backend = "down" /\ restarts < MaxRestarts
           /\ backend' = "up"
           /\ restarts' = restarts + 1
           /\ UNCHANGED <<fanned, serverVars, sock, open, clientVars>>

\* Listen: Accept, then the consumer is registered and gets its goroutine.
AcceptConsumer(s) ==
    /\ backend \in {"up", "cancelled"} /\ server[s] = "backlog"
    /\ server' = [server EXCEPT ![s] = "accepted"]
    /\ UNCHANGED <<fanned, consumers, ch, writing, base, lossy, sock, open, clientVars,
                   backend, restarts>>

RegisterConsumer(s) ==
    /\ server[s] = "accepted"
    /\ server' = [server EXCEPT ![s] = "serving"]
    /\ consumers' = consumers \cup {s}
    /\ base' = [base EXCEPT ![s] = Len(fanned)]
    /\ UNCHANGED <<fanned, ch, writing, lossy, sock, open, clientVars, backend, restarts>>

\* serveConsumer: the select takes a message, or the cancellation.
Take(s) ==
    /\ server[s] = "serving" /\ ch[s] # <<>>
    /\ server' = [server EXCEPT ![s] = "writing"]
    /\ writing' = [writing EXCEPT ![s] = Head(ch[s])]
    /\ ch' = [ch EXCEPT ![s] = Tail(@)]
    /\ UNCHANGED <<fanned, consumers, base, lossy, sock, open, clientVars, backend, restarts>>

TakeCancel(s) ==
    /\ server[s] = "serving" /\ backend \in {"cancelled", "swept"}
    /\ server' = [server EXCEPT ![s] = "closing"]
    /\ UNCHANGED <<fanned, consumers, ch, writing, base, lossy, sock, open, clientVars,
                   backend, restarts>>

\* frameipc.Write waits for room in the socket; it has no deadline.
Write(s) ==
    /\ server[s] = "writing"
    /\ \/ /\ s \in open /\ Len(sock[s]) < SockCap
          /\ sock' = [sock EXCEPT ![s] = Append(@, writing[s])]
          /\ server' = [server EXCEPT ![s] = "serving"]
       \/ /\ s \notin open
          /\ server' = [server EXCEPT ![s] = "closing"]
          /\ sock' = sock
    /\ writing' = [writing EXCEPT ![s] = NoMessage]
    /\ UNCHANGED <<fanned, consumers, ch, base, lossy, open, clientVars, backend, restarts>>

\* The deferred Close, and the removal from consumers under mu.
Leave(s) ==
    /\ \/ /\ server[s] = "closing"
          /\ server' = [server EXCEPT ![s] = "leaving"]
          /\ open' = open \ {s} /\ consumers' = consumers
       \/ /\ server[s] = "leaving"
          /\ server' = [server EXCEPT ![s] = "done"]
          /\ consumers' = consumers \ {s} /\ open' = open
    /\ UNCHANGED <<fanned, ch, writing, base, lossy, sock, clientVars, backend, restarts>>

-----------------------------------------------------------------------------
(* The consumer's Client *)

DialBackend(s) ==
    /\ client = "dialing" /\ server[s] = "none"
    /\ backend \in {"up", "cancelled"}
    /\ client' = "reading" /\ session' = s /\ told' = 0
    /\ server' = [server EXCEPT ![s] = "backlog"]
    /\ open' = open \cup {s}
    /\ UNCHANGED <<fanned, consumers, ch, writing, base, lossy, sock, view, backend, restarts>>

DialFails ==
    /\ client = "dialing" /\ backend \in {"swept", "down"}
    /\ client' = "ended"
    /\ UNCHANGED <<fanned, serverVars, sock, open, session, view, told, backend, restarts>>

\* Read and the dispatch to OnFrame or OnOffline.
Dispatch ==
    /\ client = "reading" /\ sock[session] # <<>>
    /\ LET msg == Head(sock[session])
       IN  view' = IF msg.kind = "frame" THEN view \cup {msg.camera} ELSE view \ {msg.camera}
    /\ sock' = [sock EXCEPT ![session] = Tail(@)]
    /\ told' = told + 1
    /\ UNCHANGED <<fanned, serverVars, open, client, session, backend, restarts>>

\* Read fails at the end of the stream; connect closes its side.
ReadEnds ==
    /\ client = "reading" /\ sock[session] = <<>> /\ session \notin open
    /\ client' = "ended"
    /\ UNCHANGED <<fanned, serverVars, sock, open, session, view, told, backend, restarts>>

\* Mutant: the cameras stay as they were.
DisconnectKeepsView ==
    /\ client = "ended"
    /\ client' = "waiting" /\ session' = NoSession
    /\ UNCHANGED <<fanned, serverVars, sock, open, view, told, backend, restarts>>

\* OnDisconnect (MarkAllOffline, dropAllFrames), after every attempt.
Disconnect ==
    /\ client = "ended"
    /\ client' = "waiting" /\ session' = NoSession /\ view' = {}
    /\ UNCHANGED <<fanned, serverVars, sock, open, told, backend, restarts>>

\* Mutant: only a connection that never carried anything is retried.
RedialIfUnused ==
    /\ client = "waiting" /\ told = 0
    /\ client' = "dialing"
    /\ UNCHANGED <<fanned, serverVars, sock, open, session, view, told, backend, restarts>>

\* The reconnect delay is over.
Redial ==
    /\ client = "waiting"
    /\ client' = "dialing"
    /\ UNCHANGED <<fanned, serverVars, sock, open, session, view, told, backend, restarts>>

Serve(s) == \/ AcceptConsumer(s) \/ RegisterConsumer(s)
            \/ Take(s) \/ TakeCancel(s) \/ Write(s) \/ Leave(s)
Consume == \/ Dispatch \/ ReadEnds \/ Disconnect \/ Redial \/ DialFails
           \/ \E s \in Sessions : DialBackend(s)

INext == \/ \E msg \in IPCMessages : FanOut(msg)
         \/ CancelBackend \/ Sweep \/ Exit \/ Restart
         \/ \E s \in Sessions : Serve(s)
         \/ Consume

ISpec == IInit /\ [][INext]_ivars

\* The goroutines of both processes run; nothing makes cameras send, the
\* backend restart, or the operator cancel.
IFairSpec == /\ ISpec
             /\ WF_ivars(Sweep) /\ WF_ivars(Consume)
             /\ \A s \in Sessions : WF_ivars(Serve(s))

-----------------------------------------------------------------------------
\* Each session's channel and socket stay within their buffers, its Serve is at one
\* of its states, and the frameipc client is dialing, reading or waiting to retry
\* (frameipc/publisher.go and client.go).
ITypeOK == /\ fanned \in Seq(IPCMessages)
           /\ consumers \subseteq Sessions /\ open \subseteq Sessions /\ lossy \subseteq Sessions
           /\ server \in [Sessions -> ServerStates]
           /\ writing \in [Sessions -> IPCMessages \cup {NoMessage}]
           /\ \A s \in Sessions : /\ ch[s] \in Seq(IPCMessages) /\ Len(ch[s]) <= ChanCap
                                  /\ sock[s] \in Seq(IPCMessages) /\ Len(sock[s]) <= SockCap
           /\ base \in [Sessions -> Nat]
           /\ client \in {"dialing", "reading", "ended", "waiting"}
           /\ session \in Sessions \cup {NoSession}
           /\ view \subseteq CameraIds /\ told \in Nat
           /\ backend \in {"up", "cancelled", "swept", "down"} /\ restarts \in 0..MaxRestarts

\* The cameras that are sending after messages msgs, cams having been before: those of which
\* the last message is a frame, and those of cams that no message is about.
After(cams, msgs) ==
    LET About(cam, i) == msgs[i].camera = cam
    IN  {cam \in cams : \A i \in DOMAIN msgs : ~About(cam, i)}
          \cup {cam \in CameraIds : \E i \in DOMAIN msgs :
                   /\ About(cam, i) /\ msgs[i].kind = "frame"
                   /\ \A k \in DOMAIN msgs : k > i => ~About(cam, k)}

InHand(s) == IF server[s] = "writing" THEN <<writing[s]>> ELSE <<>>
InFlight(s) == sock[s] \o InHand(s) \o ch[s]

\* A consumer whose channel never overflowed is on its way to exactly the
\* state the cameras are in since it was registered: nothing is lost,
\* duplicated or reordered between fanOut and the Handler, and an OFFLINE
\* that is later than a frame is dispatched later.
ViewConverges ==
    client = "reading" /\ session \in consumers \cap open /\ session \notin lossy =>
        After(view, InFlight(session)) = After({}, SubSeq(fanned, base[session] + 1, Len(fanned)))

\* "When the IPC connection itself drops, all cameras are marked offline
\* instantly" (camera-web-api/README.md:23): between connections no camera is
\* shown as sending, and nothing of an old session reaches the view later.
NothingShownUnconnected ==
    (client \in {"waiting", "dialing"} \/ (client = "reading" /\ told = 0)) => view = {}

\* What a consumer shows is what it was sent since it connected, however its sessions end and
\* begin, and nothing at all without a connection (publisher.go:43-145, client.go:65-135).
ViewIsSound == ITypeOK /\ ViewConverges /\ NothingShownUnconnected

\* What has been published to a connected consumer gets through, or its
\* channel overflows, or the connection ends.
QueuedArrives ==
    \A s \in Sessions :
        (s \in consumers /\ session = s /\ InFlight(s) # <<>>)
            ~> (told = Len(fanned) - base[s] \/ s \in lossy \/ s \notin open)

\* A client that has lost its connection has a new one before long, if the
\* backend is up.
Reconnects == (client = "waiting" /\ \E s \in Sessions : server[s] = "none")
                ~> (client = "reading" \/ backend \in {"swept", "down"})

\* A consumer hears of what happens in the end: a message that was queued arrives, and a
\* connection that was lost is made again (publisher.go:61-145, client.go:65-135).
GetsThrough == QueuedArrives /\ Reconnects

\* "When a camera's TCP connection drops, all consumers receive a
\* CAMERA_OFFLINE notification" (tcp-camera-backend/README.md:7).
OfflineReachesConsumer ==
    \A s \in Sessions, cam \in CameraIds :
        (s \in consumers /\ s \in open /\ fanned # <<>>
           /\ fanned[Len(fanned)] = [kind |-> "offline", camera |-> cam])
            ~> (cam \notin view \/ s \notin open)
=============================================================================
