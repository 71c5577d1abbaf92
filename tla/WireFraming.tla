----------------------------- MODULE WireFraming -----------------------------
(***************************************************************************)
(* The three wire formats of the system, each over one stream connection:  *)
(* "device", camera to backend (protocol.ReadHeader, server.readFrame);    *)
(* "ipc", backend to its consumers (frameipc Write and Read); "restream",  *)
(* proxy to proxy (streamproto WriteFrame and ReadFrame).  A frame goes    *)
(* onto the wire as units, of which a header has two; the stream may be    *)
(* cut between any two units, and the reader gets them in any chunks.      *)
(***************************************************************************)
EXTENDS Naturals, Sequences, SequencesExt

CONSTANTS
    MaxSize,      \* DefaultMaxFrameSize and Server.maxFrameBytes, in units
    MaxMessages   \* bound: messages of a connection

ASSUME FramingAssumption == MaxSize \in Nat \ {0} /\ MaxMessages \in Nat

VARIABLES
    format,    \* the protocol of this connection
    sent,      \* messages whose writing has begun
    outbox,    \* units of the last of them still to be written
    wire,      \* units on the way
    cut,       \* the writer's end is gone
    phase,     \* what the reader reads: "header", "id", "payload", "failed"
    buf,       \* units read towards it (io.ReadFull)
    head,      \* the header read
    stopped,   \* the reader gave up: a deadline, or ctx closed its connection
    received   \* messages read

vars == <<format, sent, outbox, wire, cut, phase, buf, head, stopped, received>>
writerVars == <<format, sent, outbox, cut>>
readerVars == <<phase, buf, head, stopped, received>>

Formats == {"device", "ipc", "restream"}
\* The magic of a device frame says its variant; an IPC header its kind.
Variants(f) == CASE f = "device" -> {"JPGS", "JPGD"}
                 [] f = "ipc" -> {"frame", "offline"}
                 [] f = "restream" -> {"MJPG"}
DefaultCameraID == 0
CameraIDs == {0, 1}

\* The nth message; its payload is told apart from every other, unit by unit.
Message(n, v, c, size) == [variant |-> v, camera |-> c, data |-> [i \in 1..size |-> <<n, i>>]]
\* A JPGS frame carries no camera, an offline notice no payload.
Messages(f, n) == {Message(n, v, c, size) :
                     v \in Variants(f), c \in CameraIDs, size \in 0..(MaxSize + 1)}
Sendable(f, n) == {m \in Messages(f, n) :
                     /\ m.variant = "JPGS" => m.camera = DefaultCameraID
                     /\ m.variant = "offline" => m.data = <<>>}

Encode(f, m) ==
    LET inHeader == IF f = "device" THEN DefaultCameraID ELSE m.camera
    IN  <<[at |-> "magic", of |-> m.variant],
          [at |-> "fields", of |-> [camera |-> inHeader, size |-> Len(m.data)]]>>
        \o (IF m.variant = "JPGD" THEN <<[at |-> "id", of |-> m.camera]>> ELSE <<>>)
        \o [i \in DOMAIN m.data |-> [at |-> "data", of |-> m.data[i]]]

NoHead == [variant |-> "", camera |-> DefaultCameraID, size |-> 0]

Init == /\ format \in Formats
        /\ sent = <<>> /\ outbox = <<>> /\ wire = <<>> /\ cut = FALSE
        /\ phase = "header" /\ buf = <<>> /\ head = NoHead /\ stopped = FALSE /\ received = <<>>

-----------------------------------------------------------------------------
(* The writer: one goroutine, or the camera's firmware, per connection *)

\* Only streamproto's WriteFrame refuses a payload; a camera may send any.
Refused(m) == Len(m.data) = 0 \/ Len(m.data) > MaxSize

BeginWrite == /\ ~cut /\ outbox = <<>> /\ Len(sent) < MaxMessages
              /\ \E m \in Sendable(format, Len(sent) + 1) :
                    /\ format = "restream" => ~Refused(m)
                    /\ sent' = Append(sent, m) /\ outbox' = Encode(format, m)
              /\ UNCHANGED <<format, wire, cut, readerVars>>

WriteUnit == /\ ~cut /\ outbox # <<>>
             /\ wire' = Append(wire, Head(outbox)) /\ outbox' = Tail(outbox)
             /\ UNCHANGED <<format, sent, cut, readerVars>>

\* Mutant: a write that timed out half way drops the rest and keeps the connection.
BreakAndGoOn == /\ ~cut /\ outbox # <<>> /\ outbox' = <<>>
                /\ UNCHANGED <<format, sent, wire, cut, readerVars>>

\* Any failed write closes the connection, as does the end of the process: what is on
\* the way arrives, or is lost from some unit on.
Break == /\ ~cut /\ cut' = TRUE /\ outbox' = <<>>
         /\ \E n \in 0..Len(wire) : wire' = SubSeq(wire, 1, n)
         /\ UNCHANGED <<format, sent, readerVars>>

-----------------------------------------------------------------------------
(* The reader: io.ReadFull of one part after the other *)

ReaderStep == UNCHANGED writerVars

Want == CASE phase = "header" -> 2 [] phase = "id" -> 1 [] phase = "payload" -> head.size
          [] phase = "failed" -> 0

Read == /\ Len(buf) < Want /\ wire # <<>>
        /\ buf' = Append(buf, Head(wire)) /\ wire' = Tail(wire)
        /\ UNCHANGED <<phase, head, stopped, received>> /\ ReaderStep

ReadUnits == Len(buf) = Want /\ buf' = <<>> /\ ReaderStep /\ UNCHANGED <<wire, stopped>>

Fail == phase' = "failed" /\ UNCHANGED <<head, received>>

Deliver(h, data) ==
    /\ received' = Append(received, [variant |-> h.variant, camera |-> h.camera, data |-> data])
    /\ phase' = "header" /\ head' = NoHead

\* Mutant: a payload of exactly the largest size is refused.
SizeCheckStrict(h) == \/ format # "ipc" /\ (h.size = 0 \/ h.size >= MaxSize) /\ Fail
                      \/ format = "ipc" /\ h.size = 0 /\ Deliver(h, <<>>)
                      \/ /\ h.size > 0 /\ (format = "ipc" \/ h.size < MaxSize)
                         /\ phase' = "payload" /\ head' = h /\ UNCHANGED received

\* The header is whole: its size is refused, asks for no payload, or for one.
SizeCheck(h) == \/ format # "ipc" /\ (h.size = 0 \/ h.size > MaxSize) /\ Fail
                \/ format = "ipc" /\ h.size = 0 /\ Deliver(h, <<>>)
                \/ /\ h.size > 0 /\ (format = "ipc" \/ h.size <= MaxSize)
                   /\ phase' = "payload" /\ head' = h /\ UNCHANGED received

ParsedHeader == [variant |-> buf[1].of, camera |-> buf[2].of.camera, size |-> buf[2].of.size]
BadMagic == buf[1].at # "magic" \/ buf[2].at # "fields" \/ buf[1].of \notin Variants(format)

\* Only the device protocol has a second part of the header, and only under JPGD.
HeaderRead == /\ phase = "header" /\ ReadUnits
              /\ \/ BadMagic /\ Fail
                 \/ /\ ~BadMagic /\ ParsedHeader.variant = "JPGD"
                    /\ phase' = "id" /\ head' = ParsedHeader /\ UNCHANGED received
                 \/ ~BadMagic /\ ParsedHeader.variant # "JPGD" /\ SizeCheck(ParsedHeader)

IdRead == /\ phase = "id" /\ ReadUnits
          /\ SizeCheck([head EXCEPT !.camera = buf[1].of])

PayloadRead == /\ phase = "payload" /\ ReadUnits
               /\ Deliver(head, [i \in DOMAIN buf |-> buf[i].of])

\* io.EOF or io.ErrUnexpectedEOF, and every failure ends the connection.
EndOfStream == /\ cut /\ wire = <<>> /\ Len(buf) < Want /\ Fail
               /\ UNCHANGED <<wire, buf, stopped>> /\ ReaderStep

Stop == /\ phase # "failed" /\ ~stopped /\ stopped' = TRUE /\ Fail
        /\ UNCHANGED <<wire, buf>> /\ ReaderStep

Reader == \/ Read \/ EndOfStream
          \/ phase # "failed" /\ (HeaderRead \/ IdRead \/ PayloadRead)
Next == BeginWrite \/ WriteUnit \/ Break \/ Reader \/ Stop

Spec == Init /\ [][Next]_vars
\* Both ends run.
FairSpec == Spec /\ WF_vars(WriteUnit) /\ WF_vars(Reader)

-----------------------------------------------------------------------------
(* Properties *)

Valid(m) == format = "ipc" \/ ~Refused(m)

\* Types; and a payload is awaited only in a size the format allows.
TypeOK == /\ format \in Formats /\ cut \in BOOLEAN /\ stopped \in BOOLEAN
          /\ phase \in {"header", "id", "payload", "failed"}
          /\ Len(sent) <= MaxMessages /\ Len(received) <= MaxMessages
          /\ phase # "failed" => Len(buf) <= Want
          /\ phase = "payload" => head.size > 0 /\ (format = "ipc" \/ head.size <= MaxSize)

\* The reader never makes up, mixes, alters or reorders frames: wherever the stream is
\* cut and however it arrives, what was read is the beginning of what was written, and a
\* frame that was cut short is not delivered (server.go 199-201, streamproto.go 95-96).
PrefixReceived == IsPrefix(received, sent)

\* "A stream whose framing has gone wrong cannot be resynchronised" (server.go 200-201),
\* so it must not go wrong by itself: the reader fails only on a cut stream, when it
\* gives up, or on a payload size that its format refuses (protocol.go 67-75).
NoFalseAlarm == phase = "failed" =>
                    cut \/ stopped \/ \E i \in DOMAIN sent : ~Valid(sent[i])

\* Cut, chunked or given up on, the stream yields whole frames in order and then an error
\* that has a cause (server.go 199-228, protocol.go 79-98, streamproto.go 97-136, frameipc.go 81-103).
FramingIsSound == TypeOK /\ PrefixReceived /\ NoFalseAlarm

\* Every message written on a connection that lasts is read, also one whose payload is
\* empty (frameipc.go 59-77), unless a message before it is one to refuse.
Delivered == \A n \in 1..MaxMessages :
                 Len(sent) = n ~> \/ Len(received) >= n \/ cut \/ stopped
                                 \/ \E i \in DOMAIN sent : ~Valid(sent[i])
=============================================================================
