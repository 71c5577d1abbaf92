------------------------------- MODULE Backend -------------------------------
(***************************************************************************)
(* tcp-camera-backend/internal/app: the server (IngestServer) and the      *)
(* publisher (IPCFanout) in one process, under one ctx.  What a handler    *)
(* publishes is what the publisher fans out, before the handler goes on;   *)
(* and the process takes both along when it ends.                          *)
(***************************************************************************)
EXTENDS IngestServer, IPCFanout

backendVars == <<svars, ivars>>

BackendInit == SInit /\ IInit

\* Config.Publisher: the handler's call of Publish or PublishOffline.
PublishAndFanOut ==
    \E c \in Conns, cam \in Cameras :
        \/ PublishFrame(c, cam) /\ FanOut([kind |-> "frame", camera |-> cam])
        \/ PublishOffline(c, cam) /\ FanOut([kind |-> "offline", camera |-> cam])

\* The server and the publisher have their ctx from Run.
CancelRun == Cancel /\ CancelBackend

\* What else the server does, and the publisher with the consumer's Client.
ServerAlone == backend # "down" /\ UNCHANGED <<published, cancelled, ivars>> /\ SNext
PublisherAlone == (Sweep \/ Consume \/ \E s \in Sessions : Serve(s)) /\ UNCHANGED svars

\* Run returns and the process exits, or it crashes; the next one knows nothing of it.
ExitRun == Exit /\ UNCHANGED svars
RestartRun ==
    /\ Restart
    /\ peer' = [c \in Conns |-> "none"] /\ handler' = [c \in Conns |-> "none"] /\ closed' = {}
    /\ seen' = [c \in Conns |-> {}] /\ frames' = [c \in Conns |-> 0] /\ published' = <<>>
    /\ conns' = {} /\ loop' = "accept" /\ accepted' = None /\ failures' = 0
    /\ listener' = "open" /\ watchdog' = "waiting" /\ cancelled' = FALSE

BackendNext == PublishAndFanOut \/ CancelRun \/ ServerAlone \/ PublisherAlone \/ ExitRun \/ RestartRun
BackendSpec == BackendInit /\ [][BackendNext]_backendVars

-----------------------------------------------------------------------------
\* The place in fanned of the i-th word that this process has published.
Place(i) == Len(fanned) - Len(published) + i

\* Since the consumer was registered, the connection has sent a frame of the camera.
SentSince(c, cam, s) ==
    \E i \in 1..Len(published) : published[i] = FrameOf(c, cam) /\ Place(i) > base[s]

OnlyOneSends(c, cam) ==
    \A i \in 1..Len(published) : published[i].camera = cam => published[i].conn = c

\* A consumer that has lost nothing shows, once it has read what is on its way, only cameras
\* of which a connection that has not ended has sent it frames; and all of them, unless the
\* camera has had another connection, whose end would take it away (server.go:156-196,
\* publisher.go:43-145, client.go:65-135).
ShownIsSending ==
    client = "reading" /\ session \in consumers \cap open /\ session \notin lossy =>
        LET shown == After(view, InFlight(session))
        IN  /\ \A cam \in shown : \E c \in Conns : cam \in seen[c] /\ SentSince(c, cam, session)
            /\ \A c \in Conns : \A cam \in seen[c] :
                  SentSince(c, cam, session) /\ OnlyOneSends(c, cam) => cam \in shown
=============================================================================
