----------------------------- MODULE NotifClient -----------------------------
(***************************************************************************)
(* The two clients of the notification server,                             *)
(* src/src/notifier/notification-client.c and notification-stupide.c: a    *)
(* stream of bytes, which read(2) cuts anywhere, is put together in a      *)
(* buffer of BuffLen bytes and taken apart at the ends of lines.           *)
(*                                                                         *)
(* The server's side, as notification-server.c writes it, is the sequence  *)
(* of the lines it sent; it may end in the middle of one.  What a message  *)
(* says is abstracted to its length and to its first byte, its kind.       *)
(***************************************************************************)
EXTENDS Integers, Sequences, FiniteSets

CONSTANTS
  Bytes,     \* bytes of a message
  NL,        \* the end of a line
  Messages,  \* what the server may send, without the ends of lines
  BuffLen,   \* NC_BUFFLEN, NS_BUFFER_SIZE
  MaxSent    \* bound: messages sent

ASSUME NotifClientAssumption ==
  /\ NL \notin Bytes
  /\ Messages \subseteq Seq(Bytes) \ {<<>>}
  /\ BuffLen \in Nat \ {0} /\ MaxSent \in Nat

VARIABLES
  program,  \* which client it is
  pc,       \* what it is at
  buf,      \* the first bufptr bytes of its buffer
  shown,    \* the messages it has notified
  wire,     \* bytes in the socket
  open,     \* the server has its end open
  sent,     \* history: the messages sent whole
  written,  \* history: the bytes the server wrote
  consumed  \* history: the bytes of the lines the client is done with

server == <<wire, open, sent, written>>
vars   == <<program, pc, buf, shown, wire, open, sent, written, consumed>>

Alphabet == Bytes \cup {NL}
Programs == {"client", "stupide"}
PCs      == {"read", "parse", "ended", "failed", "error"}

\* The kinds of message that are notified; of the others the client says that they are unknown.
Known(prog) == IF prog = "client" THEN {"C", "E"} ELSE {"C"}

-----------------------------------------------------------------------------

Init ==
  /\ program \in Programs
  /\ pc = "read"
  /\ buf = <<>> /\ wire = <<>> /\ written = <<>> /\ consumed = <<>>
  /\ sent = <<>> /\ shown = <<>>
  /\ open = TRUE

-----------------------------------------------------------------------------
(* The server *)

Put(bytes) ==
  /\ wire' = wire \o bytes
  /\ written' = written \o bytes
  /\ UNCHANGED <<program, pc, buf, shown, consumed>>

\* send_message
Send(m) ==
  /\ open /\ Len(sent) < MaxSent
  /\ sent' = Append(sent, m)
  /\ Put(m \o <<NL>>)
  /\ UNCHANGED open

\* The server exits, with n bytes of a message written.
Die(m, n) ==
  /\ open
  /\ open' = FALSE
  /\ Put(SubSeq(m, 1, n))
  /\ UNCHANGED sent

-----------------------------------------------------------------------------
(* The clients: read(2) *)

\* Some of the bytes that have come and that there is room for.
Read_WholeLength(n) ==
  /\ pc = "read" /\ n > 0
  /\ n <= BuffLen /\ n <= Len(wire)
  /\ buf' = buf \o SubSeq(wire, 1, n)
  /\ wire' = SubSeq(wire, n + 1, Len(wire))
  /\ pc' = "parse"
  /\ UNCHANGED <<program, shown, open, sent, written, consumed>>

Read(n) ==
  /\ pc = "read" /\ n > 0
  /\ Len(buf) + n <= BuffLen /\ n <= Len(wire)
  /\ buf' = buf \o SubSeq(wire, 1, n)
  /\ wire' = SubSeq(wire, n + 1, Len(wire))
  /\ pc' = "parse"
  /\ UNCHANGED <<program, shown, open, sent, written, consumed>>

\* Zero bytes: the server has closed its end, or no byte was asked for.
ReadNothing ==
  /\ pc = "read"
  /\ (wire = <<>> /\ ~open) \/ Len(buf) = BuffLen
  /\ pc' = "ended"
  /\ UNCHANGED <<program, buf, shown, server, consumed>>

\* An error other than EINTR.
ReadFails ==
  /\ pc = "read"
  /\ pc' = "error"
  /\ UNCHANGED <<program, buf, shown, server, consumed>>

-----------------------------------------------------------------------------
(* The clients: lines of the buffer *)

\* p is where memchr finds the end of the first line.
EndsLine(p) == buf[p] = NL /\ \A q \in 1 .. p - 1 : buf[q] # NL

\* One line is notified, and taken off the buffer.  notification-client looks for the next one,
\* and notification-stupide reads.
Handle_DropsRest(p) ==
  /\ pc = "parse" /\ EndsLine(p)
  /\ shown' = IF buf[1] \in Known(program) THEN Append(shown, SubSeq(buf, 1, p - 1)) ELSE shown
  /\ consumed' = consumed \o SubSeq(buf, 1, p)
  /\ buf' = <<>>
  /\ pc' = "read"
  /\ UNCHANGED <<program, server>>

Handle_Once(p) ==
  /\ pc = "parse" /\ EndsLine(p)
  /\ shown' = IF buf[1] \in Known(program) THEN Append(shown, SubSeq(buf, 1, p - 1)) ELSE shown
  /\ consumed' = consumed \o SubSeq(buf, 1, p)
  /\ buf' = SubSeq(buf, p + 1, Len(buf))
  /\ pc' = "read"
  /\ UNCHANGED <<program, server>>

Handle(p) ==
  /\ pc = "parse" /\ EndsLine(p)
  /\ shown' = IF buf[1] \in Known(program) THEN Append(shown, SubSeq(buf, 1, p - 1)) ELSE shown
  /\ consumed' = consumed \o SubSeq(buf, 1, p)
  /\ buf' = SubSeq(buf, p + 1, Len(buf))
  /\ pc' = IF program = "client" /\ p < Len(buf) THEN "parse" ELSE "read"
  /\ UNCHANGED <<program, server>>

\* No line is whole; if the buffer is full, none will be.
Incomplete_OffByOne ==
  /\ pc = "parse" /\ \A p \in 1 .. Len(buf) : buf[p] # NL
  /\ pc' = IF Len(buf) > BuffLen THEN "failed" ELSE "read"
  /\ UNCHANGED <<program, buf, shown, server, consumed>>

Incomplete_Early ==
  /\ pc = "parse" /\ \A p \in 1 .. Len(buf) : buf[p] # NL
  /\ pc' = IF Len(buf) >= BuffLen - 1 THEN "failed" ELSE "read"
  /\ UNCHANGED <<program, buf, shown, server, consumed>>

Incomplete ==
  /\ pc = "parse" /\ \A p \in 1 .. Len(buf) : buf[p] # NL
  /\ pc' = IF Len(buf) >= BuffLen THEN "failed" ELSE "read"
  /\ UNCHANGED <<program, buf, shown, server, consumed>>

-----------------------------------------------------------------------------

Client ==
  \/ \E n \in 1 .. BuffLen : Read(n)
  \/ ReadNothing
  \/ \E p \in 1 .. Len(buf) : Handle(p)
  \/ Incomplete

Next ==
  \/ \E m \in Messages : Send(m) \/ \E n \in 0 .. Len(m) : Die(m, n)
  \/ Client
  \/ ReadFails

\* A client that can take a step takes it.  The server need not send, or end.
Spec == Init /\ [][Next]_vars /\ WF_vars(Client)

-----------------------------------------------------------------------------

\* The first bufptr bytes of the buffer are within it (no read past BuffLen).
TypeOK ==
  /\ program \in Programs
  /\ pc \in PCs
  /\ buf \in Seq(Alphabet) /\ Len(buf) <= BuffLen
  /\ wire \in Seq(Alphabet)
  /\ open \in BOOLEAN
  /\ sent \in Seq(Messages)
  /\ shown \in Seq(Seq(Alphabet))
  /\ written \in Seq(Alphabet)
  /\ consumed \in Seq(Alphabet)

\* However the stream is cut, every byte the server wrote is in a line the client is done with, in
\* its buffer or in the socket, once and in order: the memmove of what follows a line loses none.
StreamKept == written = consumed \o (buf \o wire)

\* Those of the messages that a client notifies, in order.
Notified(prog, messages) ==
  LET notified[n \in 0 .. Len(messages)] ==
        IF n = 0 THEN <<>>
        ELSE IF Head(messages[n]) \in Known(prog) THEN Append(notified[n - 1], messages[n])
        ELSE notified[n - 1]
  IN  notified[Len(messages)]

\* What is notified is what was sent, whole, in order, each once, up to some message.
ShownAreSent ==
  \E n \in 0 .. Len(sent) : shown = Notified(program, SubSeq(sent, 1, n))

\* A client takes the stream for ended only when the server has closed it and nothing is left in
\* the socket: it never asks read(2) for zero bytes, because it always leaves room in the buffer.
EndsWhenClosed == pc = "ended" => ~open /\ wire = <<>>

\* notification-client.c:58 and report.md:213: the only message a client gives up on is one that
\* does not fit in the buffer with the end of its line.
FailsOnlyOnLong ==
  pc = "failed" =>
    \E m \in Messages : Len(m) >= BuffLen /\ buf = SubSeq(m, 1, BuffLen)

\* The ends of lines among some bytes.
LinesOf(bytes) == Cardinality({q \in 1 .. Len(bytes) : bytes[q] = NL})

\* report.md:205: notification-client handles all the notifications that a read brings before it
\* reads again.  When it waits for more, or has seen the end, the messages it has not shown are as
\* many as the lines that end in the socket: it holds back none that it has got whole.
NothingLeft ==
  program = "client" /\ pc \in {"read", "ended"} =>
    \E n \in 0 .. Len(sent) :
      /\ shown = Notified(program, SubSeq(sent, 1, n))
      /\ Len(sent) - n = LinesOf(wire)

\* What is sent to notification-client is shown, though the server sends nothing more, unless it
\* meets a message that does not fit or an error.
AllShown ==
  program = "client" => []<>(shown = Notified(program, sent) \/ pc \in {"failed", "error"})

=============================================================================
