----------------------------- MODULE FrameCodec -----------------------------
(***************************************************************************)
(* send_json and recv_json over one direction of a byte stream: a length   *)
(* prefix and a payload, taken by the kernel and delivered in pieces of    *)
(* any size, with a sender that may hang up anywhere. Agent and HostServer *)
(* assume messages that arrive whole or not at all.                        *)
(***************************************************************************)
EXTENDS Naturals, SequencesExt

CONSTANTS
  Base,          \* 256 in the code: values of a byte
  HeaderBytes,   \* 4 in the code: bytes of the length prefix
  MaxMsgBytes,   \* MAX_MSG_BYTES
  Messages       \* sequences of payload lengths a sender may send

\* The value of a byte n places from the right of the prefix.
Place[n \in 0..HeaderBytes] == IF n = 0 THEN 1 ELSE Base * Place[n - 1]

ASSUME CodecAssumption ==
  /\ Base \in Nat \ {0, 1}
  /\ HeaderBytes \in Nat \ {0}
  /\ MaxMsgBytes \in Nat /\ MaxMsgBytes < Place[HeaderBytes]
  /\ \A m \in Messages : m \in Seq(Nat \ {0})

VARIABLES
  msgs,      \* the values to send, each by the length of its JSON
  sent,      \* calls of send_json so far
  pending,   \* bytes of the current call that the kernel has not taken
  wire,      \* bytes in the stream
  sender,    \* "open" until it is dropped
  reader,    \* what recv_json reads: "header", "payload", or "failed"
  want,      \* length of the buffer its read_exact fills
  buf,       \* bytes it has
  got        \* values received, each by its number among msgs

vars == <<msgs, sent, pending, wire, sender, reader, want, buf, got>>

\* Payload bytes are known by their message and place. serde_json accepts a buffer
\* that is all of one payload and nothing else.
Payload(i) == [k \in 1..msgs[i] |-> <<i, k>>]

\* `len as u32` keeps the low bytes; to_be_bytes and from_be_bytes.
Header(len) == [k \in 1..HeaderBytes |-> (len \div Place[HeaderBytes - k]) % Base]
LengthSwapped(bytes) == FoldRight(LAMBDA b, v : v * Base + b, bytes, 0)   \* mutant: little-endian
Length(bytes) ==
  LET value[n \in 0..Len(bytes)] == IF n = 0 THEN 0 ELSE value[n - 1] * Base + bytes[n]
  IN  value[Len(bytes)]

TypeOK ==
  /\ msgs \in Messages
  /\ sent \in 0..Len(msgs)
  /\ sender \in {"open", "closed"}
  /\ reader \in {"header", "payload", "failed"}
  /\ want \in 0..MaxMsgBytes \cup {HeaderBytes}
  /\ Len(buf) \in 0..want
  /\ got \in Seq(1..Len(msgs))

Init ==
  /\ msgs \in Messages
  /\ sent = 0
  /\ pending = <<>>
  /\ wire = <<>>
  /\ sender = "open"
  /\ reader = "header"
  /\ want = HeaderBytes
  /\ buf = <<>>
  /\ got = <<>>

-----------------------------------------------------------------------------
(* send_json: nothing checks the length.                                   *)

Send ==
  /\ sender = "open"
  /\ pending = <<>>
  /\ sent < Len(msgs)
  /\ sent' = sent + 1
  /\ pending' = Header(msgs[sent + 1]) \o Payload(sent + 1)
  /\ UNCHANGED <<msgs, wire, sender, reader, want, buf, got>>

\* write_all: the kernel takes some of the bytes.
Write ==
  /\ sender = "open"
  /\ \E n \in 1..Len(pending) :
       /\ wire' = wire \o SubSeq(pending, 1, n)
       /\ pending' = SubSeq(pending, n + 1, Len(pending))
  /\ UNCHANGED <<msgs, sent, sender, reader, want, buf, got>>

\* The sender is dropped or dies; a reset loses what was not yet read.
HangUp ==
  /\ sender = "open"
  /\ sender' = "closed"
  /\ wire' \in {wire, <<>>}
  /\ pending' = <<>>
  /\ UNCHANGED <<msgs, sent, reader, want, buf, got>>

-----------------------------------------------------------------------------
(* recv_json.                                                              *)

\* read_exact gets some of the bytes it still wants.
ReadGreedy ==   \* mutant: it takes what there is
  /\ reader # "failed"
  /\ wire # <<>>
  /\ buf' = buf \o wire
  /\ wire' = <<>>
  /\ UNCHANGED <<msgs, sent, pending, sender, reader, want, got>>
Read ==
  /\ reader # "failed"
  /\ \E n \in 1..(want - Len(buf)) :
       /\ n <= Len(wire)
       /\ buf' = buf \o SubSeq(wire, 1, n)
       /\ wire' = SubSeq(wire, n + 1, Len(wire))
  /\ UNCHANGED <<msgs, sent, pending, sender, reader, want, got>>

Expect(state, n) ==
  /\ reader' = state
  /\ want' = n
  /\ buf' = <<>>

\* The buffer of the next read is full.
Filled == Len(buf) = want

AcceptedAny(len)   == TRUE                 \* mutant: no limit
AcceptedBelow(len) == len < MaxMsgBytes    \* mutant: the limit is off by one
Accepted(len) == len <= MaxMsgBytes

HeaderRead ==
  /\ reader = "header"
  /\ Filled
  /\ LET len == Length(buf)
     IN  IF Accepted(len) THEN Expect("payload", len) ELSE Expect("failed", 0)
  /\ UNCHANGED <<msgs, sent, pending, wire, sender, got>>

PayloadRead ==
  /\ reader = "payload"
  /\ Filled
  /\ \E i \in 1..sent : buf = Payload(i) /\ got' = Append(got, i)
  /\ Expect("header", HeaderBytes)
  /\ UNCHANGED <<msgs, sent, pending, wire, sender>>

NotJson ==
  /\ reader = "payload"
  /\ Filled
  /\ \A i \in 1..sent : buf # Payload(i)
  /\ Expect("failed", 0)
  /\ UNCHANGED <<msgs, sent, pending, wire, sender, got>>

\* The stream ends before the buffer is full.
UnexpectedEof ==
  /\ reader # "failed"
  /\ ~Filled
  /\ wire = <<>>
  /\ sender = "closed"
  /\ Expect("failed", 0)
  /\ UNCHANGED <<msgs, sent, pending, wire, sender, got>>

SendJson == Send \/ Write
RecvJson == Read \/ HeaderRead \/ PayloadRead \/ NotJson \/ UnexpectedEof

Next == SendJson \/ HangUp \/ RecvJson

Spec == Init /\ [][Next]_vars /\ WF_vars(SendJson) /\ WF_vars(RecvJson)

-----------------------------------------------------------------------------
(* Properties.                                                             *)

\* Message i is one the receiver takes.
Fits(i) == msgs[i] <= MaxMsgBytes

\* What recv_json has returned are the first messages sent, whole and in order,
\* however the stream was cut into pieces or cut off; none above the limit is ever
\* returned, nor a piece of one whose length prefix wrapped.
WholeInOrder ==
  /\ got = [i \in 1..Len(got) |-> i]
  /\ \A i \in 1..Len(got) : Fits(i)

\* recv_json fails only for cause: the sender went away, or sent a message above
\* the limit, which send_json does not refuse.
FailsForCause ==
  reader = "failed" => sender = "closed" \/ \E i \in 1..sent : ~Fits(i)

\* A message is received unless its sender goes away, or one up to it is above the
\* limit: pieces of any size add up, and the limit itself is allowed.
FitsIsDelivered ==
  \A n \in 1..Max({Len(m) : m \in Messages}) :
    n <= Len(msgs) /\ (\A i \in 1..n : Fits(i))
      ~> Len(got) >= n \/ sender = "closed"
=============================================================================
