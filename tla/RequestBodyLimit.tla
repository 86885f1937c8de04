---------------------------- MODULE RequestBodyLimit ----------------------------
(***************************************************************************)
(* One HTTP request through RequestBodyLimitMiddleware (middleware.py): it   *)
(* buffers the messages of the body, refuses a body that is too large, and   *)
(* replays the buffer to the application, which then receives from the wire  *)
(* itself.  A message is the length of a chunk and whether more follows, or  *)
(* a disconnect, which a server repeats for ever.                           *)
(***************************************************************************)
EXTENDS Naturals, Sequences, SequencesExt

CONSTANTS
  MaxBytes,             \* max_bytes
  MaxChunk, MaxMessages \* bounds on the client

Disconnect == [type |-> "http.disconnect", size |-> 0, more |-> FALSE]
Chunks == {[type |-> "http.request", size |-> n, more |-> b] : n \in 0..MaxChunk, b \in BOOLEAN}

VARIABLES
  body,                 \* where the middleware is
  buffered,
  total,
  index,
  wire,                 \* history: the messages that were received
  delivered             \* history: those the application got

vars == <<body, buffered, total, index, wire, delivered>>

Init ==
  /\ body = "headers"
  /\ buffered = <<>> /\ total = 0 /\ index = 0
  /\ wire = <<>> /\ delivered = <<>>

(* A Content-Length may be absent, invalid, negative or too large: it is    *)
(* never the reason to trust the body.                                      *)
ReadHeaders ==
  /\ body = "headers"
  /\ body' \in {"buffer", "refused"}
  /\ UNCHANGED <<buffered, total, index, wire, delivered>>

(* What receive() may return next. *)
Incoming ==
  IF wire = <<>> \/ (Last(wire).type = "http.request" /\ Last(wire).more)
  THEN Chunks \union {Disconnect}
  ELSE {Disconnect}

(* mutant: only a message with more to follow is kept *)
KeepUnfinished(m) == IF m.more THEN Append(buffered, m) ELSE buffered

Keep(m) == Append(buffered, m)

TooLarge(m) == total + m.size > MaxBytes

Buffer ==
  /\ body = "buffer" /\ Len(wire) < MaxMessages
  /\ \E m \in Incoming :
       /\ wire' = Append(wire, m)
       /\ buffered' = Keep(m)
       /\ total' = total + m.size
       /\ body' = CASE m.type = "http.request" /\ TooLarge(m) -> "refused"
                    [] m.type = "http.request" /\ ~TooLarge(m) /\ m.more -> "buffer"
                    [] OTHER -> "app"
  /\ UNCHANGED <<index, delivered>>

(* replay_receive, from the buffer and, once that is used up, from the wire *)
Replay ==
  /\ body = "app" /\ index < Len(buffered)
  /\ index' = index + 1
  /\ delivered' = Append(delivered, buffered[index + 1])
  /\ UNCHANGED <<body, buffered, total, wire>>

PassThrough ==
  /\ body = "app" /\ index >= Len(buffered) /\ Len(wire) < MaxMessages
  /\ \E m \in Incoming :
       /\ wire' = Append(wire, m)
       /\ delivered' = Append(delivered, m)
  /\ UNCHANGED <<body, buffered, total, index>>

Answer ==
  /\ body = "app"
  /\ body' = "answered"
  /\ UNCHANGED <<buffered, total, index, wire, delivered>>

Step == ReadHeaders \/ Buffer \/ Replay \/ PassThrough \/ Answer

-----------------------------------------------------------------------------
(* Properties                                                              *)

(* Only a message that the limit has refused is counted beyond it.           *)
TypeOK ==
  /\ body \in {"headers", "buffer", "refused", "app", "answered"}
  /\ buffered \in Seq(Chunks \union {Disconnect}) /\ wire \in Seq(Chunks \union {Disconnect})
  /\ delivered \in Seq(Chunks \union {Disconnect})
  /\ index \in 0..Len(buffered)
  /\ total \in 0..(MaxBytes + MaxChunk)
  /\ body # "refused" => total <= MaxBytes

(* Every sum of the sizes of the first messages is within a limit. *)
SizeWithin(messages, limit) ==
  \E sums \in [0..Len(messages) -> 0..limit] :
    sums[0] = 0 /\ \A i \in 1..Len(messages) : sums[i] = sums[i - 1] + messages[i].size

(* The application gets the messages of the wire in order, each once, none  *)
(* left out: where the buffer ends and the wire goes on makes no difference. *)
WireInOrder == IsPrefix(delivered, wire)

(* The application is not called for a body above the limit, however it is  *)
(* cut into chunks, and no more than one chunk beyond it is ever buffered.  *)
BodyWithinLimit ==
  /\ body \in {"app", "answered"} => SizeWithin(wire, MaxBytes)
  /\ SizeWithin(buffered, MaxBytes + MaxChunk)
==============================================================================
