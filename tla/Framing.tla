------------------------------ MODULE Framing -------------------------------
(***************************************************************************)
(* Length-prefixed messages on one TCP connection, from a peer's           *)
(* send_serialized_message to handle_client's loop over MessageType::      *)
(* receive (utils/src/lib.rs, server/src/lib.rs).                          *)
(*                                                                         *)
(* receive runs in a branch of tokio::select!: when the other branch (a    *)
(* broadcast) is ready first, the receive future is dropped with all that  *)
(* its read_exact calls have taken off the stream.  A byte is the number   *)
(* of the frame it belongs to and its place there; the prefix takes        *)
(* PrefixLen places, then comes the payload.  The sizes are scaled down:   *)
(* PrefixLen stands for 4 bytes, PrefixValues for 2^32, Limit for 10^8.    *)
(***************************************************************************)
EXTENDS Integers, Sequences

CONSTANTS Sizes,         \* payload lengths a peer sends
          PrefixLen,     \* bytes of the length prefix
          PrefixValues,  \* lengths the prefix can express (u32)
          Limit,         \* largest payload accepted
          MaxFrames,     \* bound: frames the peer sends
          Cancellable    \* whether receive is raced against a broadcast

ASSUME FramingAssumption ==
    /\ Sizes \subseteq Nat \ {0}
    /\ PrefixLen \in Nat \ {0}
    /\ PrefixValues \in Nat \ {0}
    /\ Limit \in 1..(PrefixValues - 1)
    /\ MaxFrames \in Nat
    /\ Cancellable \in BOOLEAN

VARIABLES sizes,     \* sizes[k]: the payload length of the k-th frame sent
          wire,      \* bytes sent and not yet read
          closed,    \* the peer has closed its side
          cutOff,    \* history: the frame it closed in the middle of, or 0
          phase,     \* what receive is reading: "prefix", "payload"; or "done"
          wanted,    \* bytes the current read_exact asks for
          buffer,    \* bytes the current read_exact has taken
          outcomes,  \* what receive returned, in order
          strayed    \* history: what first broke the frame boundaries

peerVars == <<sizes, closed, cutOff>>
vars     == <<peerVars, wire, phase, wanted, buffer, outcomes, strayed>>

Byte    == [frame : 1..MaxFrames, place : Nat \ {0}]
Outcome == [kind : {"message", "unsent", "bad", "empty", "large", "closed", "broken"},
            frame : 0..MaxFrames]

(* Types; and what read_message_from_stream allocates is within the limit. *)
TypeOK ==
    /\ sizes \in Seq(Sizes)
    /\ wire \in Seq(Byte)
    /\ closed \in BOOLEAN
    /\ cutOff \in 0..MaxFrames
    /\ phase \in {"prefix", "payload", "done"}
    /\ wanted \in IF phase = "payload" THEN 1..Limit ELSE 1..PrefixLen \cup 1..Limit
    /\ buffer \in Seq(Byte) /\ Len(buffer) <= wanted
    /\ outcomes \in Seq(Outcome)
    /\ strayed \in {"no", "oversize", "wrapped", "dropped"}

Init ==
    /\ sizes = <<>>
    /\ wire = <<>>
    /\ closed = FALSE
    /\ cutOff = 0
    /\ phase = "prefix"
    /\ wanted = PrefixLen
    /\ buffer = <<>>
    /\ outcomes = <<>>
    /\ strayed = "no"

Place(k, p) == [frame |-> k, place |-> p]
FrameBytes(k, size) == [p \in 1..(PrefixLen + size) |-> Place(k, p)]

-----------------------------------------------------------------------------
(* The peer. *)

(* A prefix that also counts something besides the payload. *)
MutantLengthPrefix(size) == (size + 1) % PrefixValues

(* `serialized.len() as u32` *)
LengthPrefix(size) == size % PrefixValues

SendMessage(size) ==
    /\ ~closed
    /\ Len(sizes) < MaxFrames
    /\ sizes' = Append(sizes, size)
    /\ wire' = wire \o FrameBytes(Len(sizes) + 1, size)
    /\ UNCHANGED <<closed, cutOff, phase, wanted, buffer, outcomes, strayed>>

(* The peer goes away, perhaps with the end of its last frame unsent. *)
Close ==
    /\ ~closed
    /\ closed' = TRUE
    /\ \E n \in 0..Len(wire) :
        /\ n < Len(wire) => wire[n + 1].frame = Len(sizes)
        /\ wire' = SubSeq(wire, 1, n)
        /\ cutOff' = IF n < Len(wire) THEN Len(sizes) ELSE 0
    /\ UNCHANGED <<sizes, phase, wanted, buffer, outcomes, strayed>>

-----------------------------------------------------------------------------
(* read_message_from_stream. *)

Filled == Len(buffer) = wanted

(* read_exact takes what has arrived. *)
ReadByte ==
    /\ phase # "done"
    /\ ~Filled
    /\ wire # <<>>
    /\ buffer' = Append(buffer, Head(wire))
    /\ wire' = Tail(wire)
    /\ UNCHANGED <<peerVars, phase, wanted, outcomes, strayed>>

(* The buffer holds the places first..last of frame k and nothing else. *)
Holds(k, first, last) ==
    /\ Len(buffer) = last - first + 1
    /\ \A i \in 1..Len(buffer) : buffer[i] = Place(k, first + i - 1)

(* The lengths the four bytes in hand may spell: the prefix of a frame, or *)
(* bytes that were never meant as one, which may spell anything.           *)
LengthsRead ==
    LET k == buffer[1].frame
    IN  IF Holds(k, 1, PrefixLen) THEN {LengthPrefix(sizes[k])} ELSE 0..(PrefixValues - 1)

Return(kind, k) ==
    /\ outcomes' = Append(outcomes, [kind |-> kind, frame |-> k])
    /\ phase' = "prefix"
    /\ wanted' = PrefixLen
    /\ buffer' = <<>>

ReadPayload(len) ==
    /\ phase' = "payload"
    /\ wanted' = len
    /\ buffer' = <<>>
    /\ UNCHANGED outcomes

(* What a frame of this size does to those that follow. *)
Breach(size) ==
    IF size >= PrefixValues THEN "wrapped" ELSE IF size > Limit THEN "oversize" ELSE "no"

StraysAs(why) == strayed' = IF strayed = "no" THEN why ELSE strayed

MutantPrefixRead ==
    /\ phase = "prefix"
    /\ Filled
    /\ \E len \in LengthsRead :
        \/ len = 0 /\ Return("empty", 0)
        \/ len > Limit + 1 /\ Return("large", 0)
        \/ len \in 1..(Limit + 1) /\ ReadPayload(len)
    /\ StraysAs(Breach(sizes[buffer[1].frame]))
    /\ UNCHANGED <<peerVars, wire>>

(* The prefix is complete: EmptyMessage, MessageTooLarge or the payload.   *)
(* handle_client reports the first two to the peer and goes on receiving.  *)
PrefixRead ==
    /\ phase = "prefix"
    /\ Filled
    /\ \E len \in LengthsRead :
        \/ len = 0 /\ Return("empty", 0)
        \/ len > Limit /\ Return("large", 0)
        \/ len \in 1..Limit /\ ReadPayload(len)
    /\ StraysAs(Breach(sizes[buffer[1].frame]))
    /\ UNCHANGED <<peerVars, wire>>

(* The payload is complete: deserialize gives the message that was sent,   *)
(* or, for any other bytes, an error or a message nobody sent.             *)
PayloadRead ==
    /\ phase = "payload"
    /\ Filled
    /\ LET k == buffer[1].frame
       IN  IF Holds(k, PrefixLen + 1, PrefixLen + sizes[k])
           THEN Return("message", k)
           ELSE Return("bad", 0) \/ Return("unsent", 0)
    /\ UNCHANGED <<peerVars, wire, strayed>>

(* An error that ends the loop of handle_client. *)
Leave(kind) ==
    /\ phase' = "done"
    /\ outcomes' = Append(outcomes, [kind |-> kind, frame |-> 0])
    /\ UNCHANGED <<peerVars, wire, wanted, buffer, strayed>>

(* The end of the stream noticed before what came ahead of it is read. *)
MutantEof ==
    /\ phase # "done"
    /\ ~Filled
    /\ closed
    /\ Leave("closed")

(* UnexpectedEof, in the prefix or in the payload: ConnectionClosed. *)
Eof ==
    /\ phase # "done"
    /\ ~Filled
    /\ closed /\ wire = <<>>
    /\ Leave("closed")

(* Any other error of read_exact, as after a reset: ConnectionError. *)
ReadFails ==
    /\ phase # "done"
    /\ ~Filled
    /\ Leave("broken")

(* select! picks the broadcast and drops the receive future. *)
Cancel ==
    /\ Cancellable
    /\ phase # "done"
    /\ phase' = "prefix"
    /\ wanted' = PrefixLen
    /\ buffer' = <<>>
    /\ StraysAs(IF phase = "payload" \/ buffer # <<>> THEN "dropped" ELSE "no")
    /\ UNCHANGED <<peerVars, wire, outcomes>>

Finished == phase = "done" /\ UNCHANGED vars

Receive == ReadByte \/ PrefixRead \/ PayloadRead \/ Eof

Next ==
    \/ \E size \in Sizes : SendMessage(size)
    \/ Close
    \/ Receive
    \/ ReadFails
    \/ Cancel
    \/ Finished

Spec == Init /\ [][Next]_vars

(* What has arrived is read: the runtime polls a ready receive. *)
FairSpec == Spec /\ WF_vars(Receive)

-----------------------------------------------------------------------------
(* While no receive was dropped half way and no frame was over the limit,  *)
(* receive returns the frames that were sent, each once and in order, and  *)
(* at last that the connection closed or broke (utils/src/lib.rs:406-468). *)
InStep ==
    strayed = "no" => \A i \in 1..Len(outcomes) :
        \/ outcomes[i] = [kind |-> "message", frame |-> i]
        \/ i = Len(outcomes) /\ outcomes[i].kind \in {"closed", "broken"}

(* The first thing to go wrong with a frame over the limit, if its prefix  *)
(* can say so, is that the peer is told in that frame's place: whatever    *)
(* its payload is then taken for, nothing is delivered or lost before that *)
(* (lib.rs:289-299).                                                       *)
OversizeIsTold ==
    strayed = "oversize" => \E i \in 1..Len(outcomes) :
        /\ outcomes[i].kind = "large" /\ sizes[i] > Limit
        /\ \A j \in 1..(i - 1) : outcomes[j] = [kind |-> "message", frame |-> j]

(* Then every frame that was sent is also received, also when the peer has *)
(* closed since, unless it closed before all of that frame was on the wire *)
(* or a read failed (utils/src/lib.rs:413-466).                            *)
Delivered(k) == k <= Len(outcomes) /\ outcomes[k] = [kind |-> "message", frame |-> k]
Broken       == \E i \in 1..Len(outcomes) : outcomes[i].kind = "broken"

FramesArrive ==
    \A k \in 1..MaxFrames :
        Len(sizes) >= k ~> (Delivered(k) \/ cutOff = k \/ Broken \/ strayed # "no")

(* "Asynchronously receives a length-prefixed message" (utils/src/lib.rs:  *)
(* 179): a frame within the limit is received as it was sent.              *)
ReceivedAsSent ==
    \A i \in 1..Len(outcomes) : outcomes[i].kind \in {"message", "closed", "broken"}
=============================================================================
