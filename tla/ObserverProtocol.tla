--------------------------- MODULE ObserverProtocol ---------------------------
(***************************************************************************)
(* The requests of src/jni/jce_header/Observer.jce from the bytes the      *)
(* client encodes to what the daemon's handle makes of the bytes of one    *)
(* recv, and the alive check, whose reply the client decodes.  TCP keeps   *)
(* the order of bytes but not their grouping: one recv returns any part of *)
(* what was sent, and no more than the buffer holds.                       *)
(***************************************************************************)
EXTENDS JceBytes

CONSTANTS Texts,       \* paths and URLs, sequences of bytes
          kBufferSize, \* 4096 in the code
          MaxRequests  \* bound on the client's requests

\* A text write does not refuse fits an Int32 with what is written around it.
ASSUME ProtocolAssumption ==
  /\ kBufferSize \in Nat \ {0} /\ MaxRequests \in Nat
  /\ \A text \in Texts : text \in Seq(Byte) /\ Len(text) <= JCE_MAX_STRING_LENGTH
  /\ JCE_MAX_STRING_LENGTH + SizeOf["Length"] + 1 < HalfRange("Int32")

E_CTRL_HELLO == 0
E_CTRL_FILE_PATH == 1
E_CTRL_REQ_ON_DEL == 2

\* The generated writeTo and readFrom.  FilePath and ReqOnDel are one string;
\* every field is optional, and reset before it is read.
WriteText(text) == WriteString(text, 0)
WriteControlMsg(ctrl, seq, data) ==
  WriteInteger(ctrl, "Int32", 0) \o WriteString(seq, 1) \o WriteBytes(data, "Int32", 2)

ReadCtrl(buf, cur, tag) ==
  ReadTagged(LAMBDA p, type : ReadInteger(buf, p, type, "Enum"), buf, cur, E_CTRL_HELLO, tag, FALSE)
ReadText(buf, cur, tag) ==
  ReadTagged(LAMBDA p, type : ReadString(buf, p, type), buf, cur, <<>>, tag, FALSE)
ReadData(buf, cur, tag) ==
  ReadTagged(LAMBDA p, type : ReadChars(buf, p, type), buf, cur, <<>>, tag, FALSE)
ReadControlMsg(buf) ==
  Then(ReadCtrl(buf, 0, 0), LAMBDA ctrl, p :
    Then(ReadText(buf, p, 1), LAMBDA seq, q :
      Then(ReadData(buf, q, 2), LAMBDA data, r :
        Value([ctrl |-> ctrl, sSeq |-> seq, data |-> data], r))))

sSeq == <<48>> \* "0" in every request

VARIABLES alive,    \* whether the daemon's process is
          observer, \* <<path, URL>> of the daemon's observer, or None
          request,  \* the last request [ctrl, text] that reached the daemon
          bytes,    \* what is to be received next
          client,   \* "idle", "sent", "waiting" for a reply, or "dead"
          whole,    \* whether the last recv returned all that was sent
          answer,   \* of the last alive check: "yes", "no", or "open"
          requests  \* requests made, up to MaxRequests

protocolVars == <<alive, observer, request, bytes, client, whole, answer, requests>>

None == <<>>

ProtocolInit ==
  /\ alive = TRUE /\ observer = None /\ bytes = <<>>
  /\ request = [ctrl |-> E_CTRL_HELLO, text |-> <<>>]
  /\ client = "idle" /\ whole = TRUE /\ answer = "open" /\ requests = 0

-----------------------------------------------------------------------------
(* The client. *)

\* Mutant: the sequence number is sent as a number.
MessageNumbered(ctrl, data) ==
  WriteInteger(ctrl, "Int32", 0) \o WriteInteger(0, "Int32", 1) \o WriteBytes(data, "Int32", 2)

Message(ctrl, data) == WriteControlMsg(ctrl, sSeq, data)

Send(ctrl, text, message) == \* connect, write, and close where no reply is read
  /\ client = "idle" /\ requests < MaxRequests /\ requests' = requests + 1
  /\ IF alive
       THEN /\ client' = "sent" /\ bytes' = message
            /\ request' = [ctrl |-> ctrl, text |-> text]
       ELSE UNCHANGED <<client, bytes, request>> \* connect fails: nothing is sent
  /\ answer' = IF ctrl = E_CTRL_HELLO /\ ~alive THEN "no" ELSE "open"
  /\ UNCHANGED <<alive, observer, whole>>

StartWatching(path) ==
  Send(E_CTRL_FILE_PATH, path, Message(E_CTRL_FILE_PATH, WriteText(path)))

SetOnDeleteRequestInfo(url) ==
  Send(E_CTRL_REQ_ON_DEL, url, Message(E_CTRL_REQ_ON_DEL, WriteText(url)))

CheckAlive == Send(E_CTRL_HELLO, <<>>, Message(E_CTRL_HELLO, <<>>))

Some(n) == n \in 1..Len(bytes) /\ n <= kBufferSize \* what one recv may return

\* IsServerAlive behind its recv: n = 0 when the connection was closed.
ReadReply(n) ==
  /\ client = "waiting"
  /\ n > 0 \/ bytes = <<>>
  /\ n > 0 => Some(n)
  /\ whole' = (whole /\ n = Len(bytes))
  /\ \E r \in {ReadControlMsg(SubSeq(bytes, 1, n))} :
       /\ client' = IF Ok(r) THEN "idle" ELSE "dead" \* nobody catches
       /\ answer' = IF ~Ok(r) THEN "open"
                    ELSE IF n > 0 /\ r.val.ctrl = E_CTRL_HELLO THEN "yes" ELSE "no"
  /\ bytes' = <<>>
  /\ UNCHANGED <<alive, observer, request, requests>>

-----------------------------------------------------------------------------
(* The daemon: one recv, and handle. *)

Effect(ctrl, text) ==
  CASE ctrl = E_CTRL_FILE_PATH -> <<text, <<>>>>
    [] ctrl = E_CTRL_REQ_ON_DEL /\ observer # None -> <<observer[1], text>>
    [] OTHER -> observer

\* What handle decodes: the type and, where there is an observer to have it,
\* the text in vbData.
Decoded(buf) ==
  Then(ReadControlMsg(buf), LAMBDA msg, p :
    IF msg.ctrl = E_CTRL_FILE_PATH \/ (msg.ctrl = E_CTRL_REQ_ON_DEL /\ observer # None)
      THEN Then(ReadText(msg.data, 0, 0), LAMBDA text, q :
             Value([ctrl |-> msg.ctrl, text |-> text], q))
      ELSE Value([ctrl |-> msg.ctrl, text |-> <<>>], p))

Handle(n) ==
  \E r \in {Decoded(SubSeq(bytes, 1, n))} :
    /\ alive' = Ok(r) \* nobody catches
    /\ observer' = IF Ok(r) THEN Effect(r.val.ctrl, r.val.text) ELSE None
    /\ client' = IF request.ctrl = E_CTRL_HELLO THEN "waiting" ELSE "idle"
    /\ bytes' = IF client' = "waiting" /\ Ok(r) /\ r.val.ctrl = E_CTRL_HELLO
                  THEN SubSeq(bytes, 1, n) ELSE <<>>

Receive(n) ==
  /\ client = "sent" /\ Some(n)
  /\ whole' = (n = Len(bytes))
  /\ Handle(n)
  /\ UNCHANGED <<request, answer, requests>>

ProtocolDone == (client = "idle" /\ requests = MaxRequests) \/ client = "dead"

ProtocolNext ==
  \/ \E text \in Texts : StartWatching(text) \/ SetOnDeleteRequestInfo(text)
  \/ CheckAlive
  \/ \E n \in 0..Len(bytes) : Receive(n) \/ ReadReply(n)
  \/ ProtocolDone /\ UNCHANGED protocolVars

ProtocolSpec == ProtocolInit /\ [][ProtocolNext]_protocolVars

-----------------------------------------------------------------------------
(* Properties. *)

Served == client = "idle" /\ alive /\ requests > 0

\* A request that one recv returned whole does what its client asked for: the
\* path is watched, without a URL yet; the URL is the observer's, if there is
\* one; and the alive check finds the daemon.
WholeRequestsTakeEffect ==
  (Served /\ whole) =>
    CASE request.ctrl = E_CTRL_FILE_PATH -> observer = <<request.text, <<>>>>
      [] request.ctrl = E_CTRL_REQ_ON_DEL -> observer # None => observer[2] = request.text
      [] OTHER -> answer = "yes"

\* Of a request cut anywhere nothing is made up: the observer gets the text
\* that was sent or an empty one.  (An empty path takes the observer's place
\* and is no path to watch: the registration it replaces is lost.)
CutRequestsMakeNothingUp ==
  [][(observer' # observer /\ alive') =>
       \E text \in {request.text, <<>>} : observer' = Effect(request.ctrl, text)]_protocolVars

\* The daemon and the client die of an exception only from a message of which
\* recv returned a part, and never from one that fits the buffer and came whole.
OnlyCutMessagesThrow == (~alive \/ client = "dead") => ~whole

\* One recv is enough for a request that comes whole: it kills nobody and takes
\* effect (BackendServer.cpp:198-214, 228-278).
WholeRequestsArrive == WholeRequestsTakeEffect /\ OnlyCutMessagesThrow

=============================================================================
