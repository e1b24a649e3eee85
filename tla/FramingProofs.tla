--------------------------- MODULE FramingProofs ----------------------------
(***************************************************************************)
(* As long as nothing has broken the frame boundaries, receive returns the *)
(* frames that were sent.  The stream is described byte by byte, by what   *)
(* follows what: the next is Upcoming, after each byte its Successor, and  *)
(* after the last the first byte of the frame that is sent next.           *)
(***************************************************************************)
EXTENDS Framing, TLAPS

(* The frame receive is reading. *)
Current == Len(outcomes) + 1

(* The last place of a frame, when frames of these sizes have been sent. *)
End(s, k) == PrefixLen + s[k]

Successor(s, b) ==
    IF b.place = End(s, b.frame) THEN Place(b.frame + 1, 1) ELSE Place(b.frame, b.place + 1)

(* The byte read_exact takes next. *)
Upcoming ==
    IF phase = "prefix" THEN Place(Current, Len(buffer) + 1)
    ELSE IF Filled THEN Place(Current + 1, 1)
    ELSE Place(Current, PrefixLen + Len(buffer) + 1)

(* The first byte of the frame that is sent next. *)
Unsent == Place(Len(sizes) + 1, 1)

(* Bytes are bytes of frames that were sent. *)
Sent(s, b) == b \in Byte /\ b.frame \in 1..Len(s) /\ b.place <= End(s, b.frame)

AllSent ==
    /\ \A i \in 1..Len(wire) : Sent(sizes, wire[i])
    /\ \A i \in 1..Len(buffer) : Sent(sizes, buffer[i])

(* What has been received, *)
Received == \A i \in 1..Len(outcomes) : outcomes[i] = [kind |-> "message", frame |-> i]

(* what is being received, *)
InHand ==
    LET before == IF phase = "prefix" THEN 0 ELSE PrefixLen
    IN  /\ \A i \in 1..Len(buffer) : buffer[i] = Place(Current, before + i)
        /\ phase = "prefix" => wanted = PrefixLen
        /\ phase = "payload" => Current \in 1..Len(sizes) /\ wanted = sizes[Current]

(* and what is still to come. *)
OnTheWire ==
    /\ wire # <<>> => wire[1] = Upcoming
    /\ \A i \in 1..(Len(wire) - 1) : wire[i + 1] = Successor(sizes, wire[i])
    /\ ~closed => IF wire = <<>> THEN Upcoming = Unsent ELSE Successor(sizes, wire[Len(wire)]) = Unsent

Synchronous == strayed = "no" /\ phase # "done" => Received /\ InHand /\ OnTheWire

(* The frame over the limit, also when more have been sent since. *)
Told ==
    strayed = "oversize" => \E i \in 1..Len(outcomes) :
        /\ outcomes[i].kind = "large" /\ i \in 1..Len(sizes) /\ sizes[i] > Limit
        /\ \A j \in 1..(i - 1) : outcomes[j] = [kind |-> "message", frame |-> j]

FramingInv == TypeOK /\ Len(sizes) <= MaxFrames /\ AllSent /\ Synchronous /\ InStep /\ Told

(* What the constants are. *)
LEMMA Constants ==
    /\ Sizes \subseteq Nat \ {0} /\ PrefixLen \in Nat \ {0} /\ PrefixValues \in Nat \ {0}
    /\ Limit \in Nat \ {0} /\ Limit < PrefixValues /\ MaxFrames \in Nat
BY FramingAssumption

(* A length the prefix can express is the length it spells. *)
LEMMA SmallPrefix ==
    ASSUME NEW size \in Nat, size < PrefixValues
    PROVE  LengthPrefix(size) = size
BY Constants DEF LengthPrefix

(* Types of what the lemmas below take apart. *)
Typed ==
    /\ sizes \in Seq(Sizes) /\ wire \in Seq(Byte) /\ buffer \in Seq(Byte)
    /\ outcomes \in Seq(Outcome)
    /\ Len(sizes) \in Nat /\ Len(wire) \in Nat /\ Len(buffer) \in Nat /\ Len(outcomes) \in Nat
    /\ Current \in Nat \ {0}
    /\ wanted \in Nat \ {0} /\ Len(buffer) <= wanted
    /\ \A k \in 1..Len(sizes) : sizes[k] \in Nat \ {0} /\ End(sizes, k) \in Nat \ {0}

(* They follow from TypeOK. *)
LEMMA TypesApart == TypeOK => Typed
<1>. SUFFICES ASSUME TypeOK PROVE Typed
  OBVIOUS
<1>1. wanted \in Nat \ {0}
  BY Constants DEF TypeOK
<1>2. \A k \in 1..Len(sizes) : sizes[k] \in Nat \ {0} /\ End(sizes, k) \in Nat \ {0}
  <2>1. \A k \in 1..Len(sizes) : sizes[k] \in Sizes
    BY DEF TypeOK
  <2>2. \A k \in 1..Len(sizes) : sizes[k] \in Nat \ {0}
    BY <2>1, Constants
  <2>3. QED
    BY <2>2, Constants DEF End
<1>3. /\ Len(sizes) \in Nat /\ Len(wire) \in Nat /\ Len(buffer) \in Nat /\ Len(outcomes) \in Nat
  BY DEF TypeOK
<1>4. Current \in Nat \ {0}
  BY <1>3 DEF Current
<1>5. QED
  BY <1>1, <1>2, <1>3, <1>4 DEF TypeOK, Typed

(* A full buffer has a first byte, of a frame that was sent. *)
LEMMA FirstByte ==
    ASSUME TypeOK, AllSent, Filled
    PROVE  /\ 1 \in 1..Len(buffer)
           /\ buffer[1].frame \in 1..Len(sizes)
           /\ sizes[buffer[1].frame] \in Nat \ {0}
<1>1. Typed
  BY TypesApart
<1>2. 1 \in 1..Len(buffer)
  BY <1>1 DEF Filled, Typed
<1>3. buffer[1].frame \in 1..Len(sizes)
  BY <1>2 DEF AllSent, Sent
<1>4. QED
  BY <1>1, <1>2, <1>3 DEF Typed

(* Reading on, the next byte follows the one just read. *)
LEMMA ReadOn ==
    ASSUME TypeOK, InHand, ~Filled, phase # "done", Upcoming.frame \in 1..Len(sizes),
           buffer' = Append(buffer, Upcoming), UNCHANGED <<sizes, phase, wanted, outcomes>>
    PROVE  InHand' /\ Upcoming' = Successor(sizes, Upcoming)
<1>. DEFINE n == Len(buffer)
            before == IF phase = "prefix" THEN 0 ELSE PrefixLen
<1>1. Typed /\ PrefixLen \in Nat \ {0}
  BY TypesApart, Constants
<1>2. n \in Nat /\ before \in Nat /\ n < wanted /\ wanted \in Nat /\ Current \in Nat
  BY <1>1 DEF Typed, Filled
<1>3. Len(buffer') = n + 1 /\ Current' = Current
  BY <1>1 DEF Typed, Current
<1>4. \A i \in 1..(n + 1) : buffer'[i] = IF i = n + 1 THEN Upcoming ELSE buffer[i]
  BY <1>1 DEF Typed
<1>5. Upcoming = Place(Current, before + (n + 1))
  BY <1>1, <1>2 DEF Upcoming
<1>6. Upcoming.frame = Current /\ Upcoming.place = before + (n + 1)
  BY <1>5 DEF Place
<1>7. \A i \in 1..(n + 1) : buffer'[i] = Place(Current, before + i)
  <2>1. \A i \in 1..n : buffer[i] = Place(Current, before + i)
    BY DEF InHand
  <2>2. \A i \in 1..(n + 1) : i = n + 1 \/ i \in 1..n
    BY <1>2
  <2>3. QED
    BY <1>4, <1>5, <2>1, <2>2
<1>8. InHand'
  BY <1>3, <1>7 DEF InHand
<1>9. sizes[Current] \in Nat \ {0}
  BY <1>1, <1>6 DEF Typed
<1>10. CASE phase = "prefix"
  <2>1. wanted = PrefixLen /\ Upcoming.place # End(sizes, Current)
    BY <1>1, <1>2, <1>6, <1>9, <1>10 DEF InHand, End
  <2>2. Successor(sizes, Upcoming) = Place(Current, n + 1 + 1)
    BY <1>2, <1>6, <1>10, <2>1 DEF Successor
  <2>3. Upcoming' = Place(Current, n + 1 + 1)
    BY <1>3, <1>10 DEF Upcoming
  <2>4. QED
    BY <1>8, <2>2, <2>3
<1>11. CASE phase = "payload"
  <2>1. wanted = sizes[Current] /\ phase # "prefix"
    BY <1>11 DEF InHand
  <2>2. Filled' <=> Upcoming.place = End(sizes, Current)
    <3>1. Filled' <=> n + 1 = sizes[Current]
      BY <1>3, <2>1 DEF Filled
    <3>2. Upcoming.place = PrefixLen + (n + 1) /\ End(sizes, Current) = PrefixLen + sizes[Current]
      BY <1>6, <2>1 DEF End
    <3>3. \A l, m \in Nat : PrefixLen + (l + 1) = PrefixLen + m <=> l + 1 = m
      BY <1>1
    <3>4. PrefixLen + (n + 1) = PrefixLen + sizes[Current] <=> n + 1 = sizes[Current]
      BY <1>2, <1>9, <3>3
    <3>5. QED
      BY <3>1, <3>2, <3>4
  <2>3. Upcoming' = IF Filled' THEN Place(Current + 1, 1)
                    ELSE Place(Current, PrefixLen + (n + 1) + 1)
    BY <1>3, <2>1 DEF Upcoming
  <2>4. Successor(sizes, Upcoming) = IF Filled' THEN Place(Current + 1, 1)
                                     ELSE Place(Current, PrefixLen + (n + 1) + 1)
    BY <1>6, <2>1, <2>2 DEF Successor
  <2>5. QED
    BY <1>8, <2>3, <2>4
<1>12. QED
  BY <1>8, <1>10, <1>11 DEF TypeOK

(* A full prefix is the current frame's. *)
LEMMA FullPrefix ==
    ASSUME TypeOK, AllSent, InHand, phase = "prefix", Filled
    PROVE  /\ buffer[1].frame = Current
           /\ Current \in 1..Len(sizes) /\ sizes[Current] \in Nat \ {0}
           /\ LengthsRead = {LengthPrefix(sizes[Current])}
<1>1. Len(buffer) = PrefixLen /\ PrefixLen \in Nat \ {0} /\ Typed
  BY Constants, TypesApart DEF InHand, Filled
<1>2. \A i \in 1..Len(buffer) : buffer[i] = Place(Current, i)
  <2>1. \A i \in 1..Len(buffer) : buffer[i] = Place(Current, 0 + i)
    BY DEF InHand
  <2>2. \A i \in 1..Len(buffer) : 0 + i = i
    BY <1>1
  <2>3. QED
    BY <2>1, <2>2
<1>3. buffer[1].frame = Current
  <2>1. buffer[1] = Place(Current, 1)
    BY <1>2, FirstByte
  <2>2. QED
    BY <2>1 DEF Place
<1>4. Holds(Current, 1, PrefixLen)
  <2>1. \A i \in 1..Len(buffer) : 1 + i - 1 = i
    BY <1>1
  <2>2. PrefixLen - 1 + 1 = PrefixLen
    BY <1>1
  <2>3. QED
    BY <1>1, <1>2, <2>1, <2>2 DEF Holds
<1>5. QED
  BY <1>3, <1>4, FirstByte DEF LengthsRead

(* A full payload is the current frame's. *)
LEMMA FullPayload ==
    ASSUME TypeOK, AllSent, InHand, phase = "payload", Filled
    PROVE  /\ buffer[1].frame = Current
           /\ Holds(Current, PrefixLen + 1, PrefixLen + sizes[Current])
<1>1. Len(buffer) = sizes[Current] /\ Current \in 1..Len(sizes)
  BY DEF InHand, Filled
<1>2. PrefixLen \in Nat /\ sizes[Current] \in Nat \ {0}
  BY <1>1, Constants, TypesApart DEF Typed
<1>3. \A i \in 1..Len(buffer) : buffer[i] = Place(Current, PrefixLen + i)
  BY DEF InHand
<1>4. buffer[1].frame = Current
  <2>1. buffer[1] = Place(Current, PrefixLen + 1)
    BY <1>3, FirstByte
  <2>2. QED
    BY <2>1 DEF Place
<1>5. Holds(Current, PrefixLen + 1, PrefixLen + sizes[Current])
  <2>. DEFINE first == PrefixLen + 1
              last  == PrefixLen + sizes[Current]
  <2>1. \A i \in 1..Len(buffer) : first + i - 1 = PrefixLen + i
    BY <1>1, <1>2
  <2>2. Len(buffer) = last - first + 1
    BY <1>1, <1>2
  <2>. HIDE DEF first, last
  <2>3. Holds(Current, first, last)
    BY <1>3, <2>1, <2>2 DEF Holds
  <2>4. QED
    BY <2>3 DEF first, last
<1>6. QED
  BY <1>4, <1>5

-----------------------------------------------------------------------------
(* t is s with nothing or something after it. *)
Extends(s, t) ==
    /\ Len(s) \in Nat /\ Len(t) \in Nat /\ Len(s) <= Len(t)
    /\ \A i \in 1..Len(s) : t[i] = s[i]

(* What Append leaves. *)
LEMMA AppendExtends ==
    ASSUME NEW S, NEW s \in Seq(S), NEW e \in S
    PROVE  /\ Append(s, e) \in Seq(S) /\ Extends(s, Append(s, e)) /\ Extends(s, s)
           /\ Len(Append(s, e)) = Len(s) + 1 /\ Append(s, e)[Len(s) + 1] = e
BY DEF Extends

(* More frames and more outcomes leave what is said of those before. *)
LEMMA StillTold ==
    ASSUME Told, UNCHANGED strayed, Extends(outcomes, outcomes'), Extends(sizes, sizes')
    PROVE  Told'
<1>1. SUFFICES ASSUME strayed = "oversize"
               PROVE  \E i \in 1..Len(outcomes') :
                        /\ outcomes'[i].kind = "large" /\ i \in 1..Len(sizes') /\ sizes'[i] > Limit
                        /\ \A j \in 1..(i - 1) : outcomes'[j] = [kind |-> "message", frame |-> j]
  BY DEF Told
<1>2. PICK i \in 1..Len(outcomes) :
          /\ outcomes[i].kind = "large" /\ i \in 1..Len(sizes) /\ sizes[i] > Limit
          /\ \A j \in 1..(i - 1) : outcomes[j] = [kind |-> "message", frame |-> j]
  BY <1>1 DEF Told
<1>3. i \in 1..Len(outcomes') /\ outcomes'[i] = outcomes[i]
  BY DEF Extends
<1>4. i \in 1..Len(sizes') /\ sizes'[i] = sizes[i]
  BY <1>2 DEF Extends
<1>5. \A j \in 1..(i - 1) : j \in 1..Len(outcomes)
  BY DEF Extends
<1>6. \A j \in 1..(i - 1) : outcomes'[j] = outcomes[j]
  BY <1>5 DEF Extends
<1>7. QED
  BY <1>2, <1>3, <1>4, <1>6

(* While receive goes on, being in step is what Received says. *)
LEMMA StepsReceived == ASSUME phase # "done", Synchronous PROVE InStep
BY DEF Synchronous, Received, InStep

(* The peer sends a frame: its bytes follow those on the wire. *)
LEMMA SendKeeps ==
    ASSUME FramingInv, NEW size \in Sizes, SendMessage(size)
    PROVE  FramingInv'
<1>. DEFINE k == Len(sizes) + 1
            len == PrefixLen + size
            new == FrameBytes(k, size)
            w == Len(wire)
<1>1. /\ TypeOK /\ Typed /\ AllSent /\ Synchronous /\ ~closed
      /\ UNCHANGED <<closed, cutOff, phase, wanted, buffer, outcomes, strayed>>
      /\ sizes' = Append(sizes, size) /\ wire' = wire \o new
      /\ Len(sizes) < MaxFrames
  BY TypesApart DEF FramingInv, SendMessage
<1>2. size \in Nat \ {0} /\ PrefixLen \in Nat \ {0} /\ len \in Nat \ {0} /\ MaxFrames \in Nat
  BY Constants
<1>3. /\ k \in 1..MaxFrames /\ w \in Nat /\ Len(sizes) \in Nat
      /\ sizes' \in Seq(Sizes) /\ Len(sizes') = k /\ sizes'[k] = size
      /\ \A j \in 1..Len(sizes) : sizes'[j] = sizes[j]
      /\ Extends(sizes, sizes')
  BY <1>1, <1>2, AppendExtends DEF Typed, Extends
<1>4. new \in Seq(Byte) /\ Len(new) = len /\ \A p \in 1..len : new[p] = Place(k, p)
  <2>1. \A p \in 1..len : Place(k, p) \in Byte
    BY <1>2, <1>3 DEF Place, Byte
  <2>2. new = [p \in 1..len |-> Place(k, p)]
    BY DEF FrameBytes
  <2>. HIDE DEF len, k, new
  <2>3. QED
    BY <1>2, <2>1, <2>2
<1>. HIDE DEF new, len
<1>5. /\ wire' \in Seq(Byte) /\ Len(wire') = w + len
      /\ \A i \in 1..w : wire'[i] = wire[i]
      /\ \A p \in 1..len : wire'[w + p] = Place(k, p)
  <2>1. wire \in Seq(Byte)
    BY <1>1 DEF Typed
  <2>2. wire' \in Seq(Byte) /\ Len(wire') = w + len
    <3>1. wire' = wire \o new
      BY <1>1
    <3>2. new \in Seq(Byte) /\ Len(new) = len
      BY <1>4
    <3>3. wire \o new \in Seq(Byte)
      BY <2>1, <3>2
    <3>4. Len(wire \o new) = Len(wire) + Len(new)
      BY <2>1, <3>2
    <3>5. QED
      BY <3>1, <3>2, <3>3, <3>4
  <2>3. \A i \in 1..w : wire'[i] = wire[i]
    BY <1>1, <1>2, <1>4, <2>1
  <2>4. ASSUME NEW p \in 1..len PROVE wire'[w + p] = new[p]
    BY <1>1, <1>2, <1>4, <2>1
  <2>5. QED
    BY <1>4, <2>2, <2>3, <2>4
<1>6. \A i \in 1..(w + len) : i \in 1..w \/ i - w \in 1..len
  BY <1>2, <1>3
<1>7. \A i \in 1..(w + len) : i \in 1..w \/ wire'[i] = Place(k, i - w)
  <2>1. ASSUME NEW i \in 1..(w + len), i \notin 1..w PROVE wire'[i] = Place(k, i - w)
    <3>1. i - w \in 1..len /\ w + (i - w) = i
      BY <1>2, <1>3, <1>6, <2>1
    <3>2. QED
      BY <1>5, <3>1
  <2>2. QED
    BY <2>1
<1>8. TypeOK' /\ Len(sizes') <= MaxFrames
  BY <1>1, <1>2, <1>3, <1>5 DEF TypeOK
<1>9. End(sizes', k) = len /\ \A j \in 1..Len(sizes) : End(sizes', j) = End(sizes, j)
  BY <1>3 DEF End, len
<1>10. AllSent'
  <2>1. ASSUME NEW b \in Byte, Sent(sizes, b) PROVE Sent(sizes', b)
    <3>1. b.frame \in 1..Len(sizes) /\ b.frame \in 1..Len(sizes')
      BY <1>3, <2>1 DEF Sent
    <3>2. QED
      BY <1>9, <2>1, <3>1 DEF Sent
  <2>2. ASSUME NEW p \in 1..len PROVE Sent(sizes', Place(k, p))
    <3>1. Place(k, p) \in Byte /\ Place(k, p).frame = k /\ Place(k, p).place = p
      BY <1>2, <1>3 DEF Place, Byte
    <3>2. k \in 1..Len(sizes') /\ p <= len
      BY <1>2, <1>3
    <3>3. Place(k, p).place <= End(sizes', Place(k, p).frame)
      BY <1>9, <3>1, <3>2
    <3>4. QED
      BY <3>1, <3>2, <3>3 DEF Sent
  <2>3. ASSUME NEW i \in 1..Len(wire') PROVE Sent(sizes', wire'[i])
    <3>1. CASE i \in 1..w
      BY <1>1, <1>5, <2>1, <3>1 DEF AllSent, Typed
    <3>2. CASE i \notin 1..w
      BY <1>5, <1>6, <1>7, <2>2, <3>2
    <3>3. QED
      BY <3>1, <3>2
  <2>4. \A i \in 1..Len(buffer) : Sent(sizes', buffer[i])
    BY <1>1, <2>1 DEF AllSent, Typed
  <2>5. QED
    BY <1>1, <2>3, <2>4 DEF AllSent
<1>11. InStep' /\ Told'
  <2>1. Extends(outcomes, outcomes')
    BY <1>1 DEF Extends, Typed
  <2>2. Told'
    BY <1>1, <1>3, <2>1, StillTold DEF FramingInv
  <2>3. QED
    BY <1>1, <2>2 DEF FramingInv, InStep
<1>12. Synchronous'
  <2>1. SUFFICES ASSUME strayed = "no", phase # "done"
                 PROVE  Received' /\ InHand' /\ OnTheWire'
    BY <1>1 DEF Synchronous
  <2>2. Received /\ InHand /\ OnTheWire
    BY <1>1, <2>1 DEF Synchronous
  <2>3. Received' /\ Current' = Current
    BY <1>1, <2>2 DEF Received, Current
  <2>4. InHand'
    <3>1. ASSUME phase = "payload"
          PROVE  Current \in 1..Len(sizes') /\ wanted = sizes'[Current]
      <4>1. Current \in 1..Len(sizes) /\ wanted = sizes[Current]
        BY <2>2, <3>1 DEF InHand
      <4>2. QED
        BY <1>3, <4>1
    <3>2. QED
      BY <1>1, <2>2, <2>3, <3>1 DEF InHand
  <2>5. Upcoming' = Upcoming
    BY <1>1, <2>3 DEF Upcoming, Filled
  <2>6. Unsent = Place(k, 1) /\ Unsent' = Place(k + 1, 1)
    BY <1>3 DEF Unsent
  <2>7. wire' # <<>> /\ wire'[1] = Upcoming'
    <3>1. wire' # <<>>
      BY <1>2, <1>3, <1>5
    <3>2. CASE wire = <<>>
      <4>1. w = 0 /\ 1 \in 1..len /\ w + 1 = 1
        BY <1>2, <3>2
      <4>2. wire'[1] = Place(k, 1)
        BY <1>5, <4>1
      <4>3. QED
        BY <1>1, <2>2, <2>5, <2>6, <3>1, <3>2, <4>2 DEF OnTheWire
    <3>3. CASE wire # <<>>
      <4>1. 1 \in 1..w
        BY <1>1, <3>3 DEF Typed
      <4>2. QED
        BY <1>5, <2>2, <2>5, <3>1, <3>3, <4>1 DEF OnTheWire
    <3>4. QED
      BY <3>2, <3>3
  <2>8. ASSUME NEW i \in 1..w PROVE Successor(sizes', wire[i]) = Successor(sizes, wire[i])
    <3>1. wire[i].frame \in 1..Len(sizes)
      BY <1>1 DEF AllSent, Sent
    <3>2. QED
      BY <1>9, <3>1 DEF Successor
  <2>9. ASSUME NEW p \in 1..len
        PROVE  Successor(sizes', Place(k, p)) = IF p = len THEN Place(k + 1, 1) ELSE Place(k, p + 1)
    BY <1>9 DEF Successor, Place
  <2>10. ASSUME NEW i \in 1..(Len(wire') - 1)
         PROVE  wire'[i + 1] = Successor(sizes', wire'[i])
    <3>1. CASE i < w
      <4>1. i \in 1..w /\ i + 1 \in 1..w /\ i \in 1..(w - 1)
        BY <1>3, <3>1
      <4>2. wire[i + 1] = Successor(sizes, wire[i])
        BY <2>2, <4>1 DEF OnTheWire
      <4>3. QED
        BY <1>5, <2>8, <4>1, <4>2
    <3>2. CASE i = w
      <4>1. wire # <<>> /\ w \in 1..w /\ 1 \in 1..len
        BY <1>2, <1>3, <3>2
      <4>2. Successor(sizes, wire[w]) = Place(k, 1)
        BY <1>1, <2>2, <2>6, <4>1 DEF OnTheWire
      <4>3. wire'[w + 1] = Place(k, 1) /\ wire'[w] = wire[w]
        BY <1>5, <4>1
      <4>4. QED
        BY <2>8, <3>2, <4>1, <4>2, <4>3
    <3>3. CASE i > w
      <4>1. i - w \in 1..len /\ (i - w) + 1 \in 1..len /\ i - w # len
        BY <1>2, <1>3, <1>5, <3>3
      <4>2. w + (i - w) = i /\ w + ((i - w) + 1) = i + 1
        BY <1>3
      <4>3. wire'[i] = Place(k, i - w) /\ wire'[i + 1] = Place(k, (i - w) + 1)
        BY <1>5, <4>1, <4>2
      <4>4. QED
        BY <2>9, <4>1, <4>3
    <3>4. QED
      BY <1>3, <3>1, <3>2, <3>3
  <2>11. Successor(sizes', wire'[Len(wire')]) = Unsent'
    <3>1. len \in 1..len
      BY <1>2
    <3>2. wire'[Len(wire')] = Place(k, len)
      BY <1>5, <3>1
    <3>3. QED
      BY <2>6, <2>9, <3>1, <3>2
  <2>12. OnTheWire'
    BY <2>7, <2>10, <2>11 DEF OnTheWire
  <2>13. QED
    BY <2>3, <2>4, <2>12
<1>13. QED
  BY <1>8, <1>10, <1>11, <1>12 DEF FramingInv

(* The peer goes away: what stays on the wire is its beginning. *)
LEMMA CloseKeeps == ASSUME FramingInv, Close PROVE FramingInv'
<1>1. /\ TypeOK /\ Typed /\ AllSent /\ Synchronous /\ closed' = TRUE
      /\ UNCHANGED <<sizes, phase, wanted, buffer, outcomes, strayed>>
  BY TypesApart DEF FramingInv, Close
<1>2. PICK n \in 0..Len(wire) :
        wire' = SubSeq(wire, 1, n) /\ cutOff' = IF n < Len(wire) THEN Len(sizes) ELSE 0
  BY DEF Close
<1>3. /\ wire' \in Seq(Byte) /\ Len(wire') = n /\ n \in Nat /\ n <= Len(wire) /\ Len(wire) \in Nat
      /\ \A i \in 1..n : wire'[i] = wire[i]
  <2>1. wire \in Seq(Byte) /\ Len(wire) \in Nat /\ n \in Nat /\ n <= Len(wire)
    BY <1>1 DEF Typed
  <2>2. \A i \in 1..n : wire[i] \in Byte
    BY <2>1
  <2>3. SubSeq(wire, 1, n) \in Seq(Byte) /\ Len(SubSeq(wire, 1, n)) = n
    BY <2>1, <2>2
  <2>4. \A i \in 1..n : SubSeq(wire, 1, n)[i] = wire[i]
    BY <2>1
  <2>5. QED
    BY <1>2, <2>1, <2>3, <2>4
<1>4. TypeOK' /\ Len(sizes') <= MaxFrames
  <2>1. Len(sizes) <= MaxFrames /\ Len(sizes) \in Nat /\ MaxFrames \in Nat
    BY <1>1, Constants DEF FramingInv, Typed
  <2>2. cutOff' \in 0..MaxFrames
    BY <1>2, <2>1
  <2>3. QED
    BY <1>1, <1>3, <2>1, <2>2 DEF TypeOK
<1>5. AllSent'
  <2>1. \A i \in 1..n : i \in 1..Len(wire)
    BY <1>3
  <2>2. \A i \in 1..Len(wire') : Sent(sizes, wire'[i])
    BY <1>1, <1>3, <2>1 DEF AllSent
  <2>3. QED
    BY <1>1, <2>2 DEF AllSent
<1>6. InStep' /\ Told'
  <2>1. Extends(outcomes, outcomes') /\ Extends(sizes, sizes')
    BY <1>1 DEF Extends, Typed
  <2>2. QED
    BY <1>1, <2>1, StillTold DEF FramingInv, InStep
<1>7. Synchronous'
  <2>1. SUFFICES ASSUME strayed = "no", phase # "done"
                 PROVE  Received' /\ InHand' /\ OnTheWire'
    BY <1>1 DEF Synchronous
  <2>2. Received /\ InHand /\ OnTheWire
    BY <1>1, <2>1 DEF Synchronous
  <2>3. Received' /\ Current' = Current
    BY <1>1, <2>2 DEF Received, Current
  <2>4. InHand' /\ Upcoming' = Upcoming
    BY <1>1, <2>2, <2>3 DEF InHand, Upcoming, Filled
  <2>5. wire' # <<>> => wire'[1] = Upcoming'
    <3>1. ASSUME wire' # <<>> PROVE 1 \in 1..n /\ wire # <<>>
      BY <1>3, <3>1
    <3>2. QED
      BY <1>3, <2>2, <2>4, <3>1 DEF OnTheWire
  <2>6. ASSUME NEW i \in 1..(Len(wire') - 1) PROVE wire'[i + 1] = Successor(sizes', wire'[i])
    <3>1. i \in 1..n /\ i + 1 \in 1..n /\ i \in 1..(Len(wire) - 1)
      BY <1>3
    <3>2. wire[i + 1] = Successor(sizes, wire[i])
      BY <2>2, <3>1 DEF OnTheWire
    <3>3. QED
      BY <1>1, <1>3, <3>1, <3>2
  <2>7. OnTheWire'
    BY <1>1, <2>5, <2>6 DEF OnTheWire
  <2>8. QED
    BY <2>3, <2>4, <2>7
<1>8. QED
  BY <1>4, <1>5, <1>6, <1>7 DEF FramingInv

(* One byte is read. *)
LEMMA ReadKeeps == ASSUME FramingInv, ReadByte PROVE FramingInv'
<1>1. /\ TypeOK /\ Typed /\ AllSent /\ Synchronous /\ ~Filled /\ phase # "done" /\ wire # <<>>
      /\ buffer' = Append(buffer, wire[1]) /\ wire' = Tail(wire)
      /\ UNCHANGED <<sizes, closed, cutOff, phase, wanted, outcomes, strayed>>
  BY TypesApart DEF FramingInv, ReadByte, peerVars
<1>2. /\ Len(wire) \in Nat \ {0} /\ 1 \in 1..Len(wire) /\ wire[1] \in Byte
      /\ wire' \in Seq(Byte) /\ Len(wire') = Len(wire) - 1
      /\ \A i \in 1..Len(wire') : wire'[i] = wire[i + 1]
  BY <1>1 DEF Typed
<1>3. /\ buffer' \in Seq(Byte) /\ Len(buffer') = Len(buffer) + 1 /\ Len(buffer) \in Nat
      /\ buffer'[Len(buffer) + 1] = wire[1]
      /\ \A i \in 1..Len(buffer) : buffer'[i] = buffer[i]
  BY <1>1, <1>2, AppendExtends DEF Typed, Extends
<1>4. TypeOK' /\ Len(sizes') <= MaxFrames
  <2>1. Len(buffer') <= wanted'
    BY <1>1, <1>3 DEF Typed, Filled
  <2>2. QED
    BY <1>1, <1>2, <1>3, <2>1 DEF TypeOK, FramingInv
<1>5. AllSent'
  <2>1. ASSUME NEW i \in 1..Len(wire') PROVE Sent(sizes, wire'[i])
    <3>1. i + 1 \in 1..Len(wire)
      BY <1>2
    <3>2. QED
      BY <1>1, <1>2, <3>1 DEF AllSent
  <2>2. ASSUME NEW i \in 1..Len(buffer') PROVE Sent(sizes, buffer'[i])
    <3>1. i \in 1..Len(buffer) \/ i = Len(buffer) + 1
      BY <1>3
    <3>2. Sent(sizes, wire[1])
      BY <1>1, <1>2 DEF AllSent
    <3>3. QED
      BY <1>1, <1>3, <3>1, <3>2 DEF AllSent
  <2>3. QED
    BY <1>1, <2>1, <2>2 DEF AllSent
<1>6. InStep' /\ Told'
  <2>1. Extends(outcomes, outcomes') /\ Extends(sizes, sizes')
    BY <1>1 DEF Extends, Typed
  <2>2. QED
    BY <1>1, <2>1, StillTold DEF FramingInv, InStep
<1>7. Synchronous'
  <2>1. SUFFICES ASSUME strayed = "no"
                 PROVE  Received' /\ InHand' /\ OnTheWire'
    BY <1>1 DEF Synchronous
  <2>2. Received /\ InHand /\ OnTheWire
    BY <1>1, <2>1 DEF Synchronous
  <2>3. wire[1] = Upcoming /\ Upcoming.frame \in 1..Len(sizes)
    BY <1>1, <1>2, <2>2 DEF OnTheWire, AllSent, Sent
  <2>4. InHand' /\ Upcoming' = Successor(sizes, wire[1])
    BY <1>1, <2>2, <2>3, ReadOn
  <2>5. Received' /\ Unsent' = Unsent
    BY <1>1, <2>2 DEF Received, Unsent
  <2>6. \A i \in 1..(Len(wire) - 1) : wire[i + 1] = Successor(sizes, wire[i])
    BY <2>2 DEF OnTheWire
  <2>7. wire' # <<>> => wire'[1] = Upcoming'
    <3>1. ASSUME wire' # <<>> PROVE wire'[1] = Upcoming'
      <4>1. 1 \in 1..Len(wire') /\ 1 \in 1..(Len(wire) - 1)
        BY <1>2, <3>1
      <4>2. QED
        BY <1>2, <2>4, <2>6, <4>1
    <3>2. QED
      BY <3>1
  <2>8. ASSUME NEW i \in 1..(Len(wire') - 1) PROVE wire'[i + 1] = Successor(sizes', wire'[i])
    <3>1. i \in 1..Len(wire') /\ i + 1 \in 1..Len(wire') /\ i + 1 \in 1..(Len(wire) - 1)
      BY <1>2
    <3>2. wire'[i + 1] = Successor(sizes, wire[i + 1]) /\ wire'[i] = wire[i + 1]
      BY <1>2, <2>6, <3>1
    <3>3. QED
      BY <1>1, <3>2
  <2>9. ~closed => IF wire' = <<>> THEN Upcoming' = Unsent
                   ELSE Successor(sizes, wire'[Len(wire')]) = Unsent
    <3>1. ~closed => Successor(sizes, wire[Len(wire)]) = Unsent
      BY <1>1, <2>2 DEF OnTheWire
    <3>2. wire' = <<>> => Len(wire) = 1
      BY <1>2
    <3>3. ASSUME wire' # <<>> PROVE wire'[Len(wire')] = wire[Len(wire)]
      <4>1. Len(wire') \in 1..Len(wire') /\ Len(wire') + 1 = Len(wire)
        BY <1>2, <3>3
      <4>2. QED
        BY <1>2, <4>1
    <3>4. QED
      BY <2>4, <3>1, <3>2, <3>3
  <2>10. OnTheWire'
    BY <1>1, <2>5, <2>7, <2>8, <2>9 DEF OnTheWire
  <2>11. QED
    BY <2>4, <2>5, <2>10
<1>8. QED
  BY <1>4, <1>5, <1>6, <1>7 DEF FramingInv

(* What is still to come stays, if nothing is read or sent. *)
LEMMA WireStays ==
    ASSUME OnTheWire, UNCHANGED <<sizes, wire, closed>>, Upcoming' = Upcoming
    PROVE  OnTheWire'
BY DEF OnTheWire, Unsent

(* Every outcome is typed, and what Return leaves. *)
LEMMA Returned ==
    ASSUME TypeOK, NEW kind \in {"message", "unsent", "bad", "empty", "large"},
           NEW k \in 0..MaxFrames, Return(kind, k), UNCHANGED <<sizes, wire, closed, cutOff>>,
           strayed' \in {"no", "oversize", "wrapped", "dropped"}
    PROVE  /\ TypeOK' /\ phase' = "prefix"
           /\ Extends(outcomes, outcomes') /\ Extends(sizes, sizes')
           /\ Len(outcomes') = Len(outcomes) + 1
           /\ outcomes'[Len(outcomes) + 1] = [kind |-> kind, frame |-> k]
           /\ Current' = Current + 1 /\ Upcoming' = Place(Current + 1, 1)
           /\ Received /\ kind = "message" /\ k = Current => Received'
           /\ Len(buffer') = 0 /\ wanted' = PrefixLen
<1>1. /\ outcomes' = Append(outcomes, [kind |-> kind, frame |-> k])
      /\ phase' = "prefix" /\ wanted' = PrefixLen /\ buffer' = <<>>
      /\ PrefixLen \in Nat \ {0}
  BY Constants DEF Return
<1>2. Typed /\ [kind |-> kind, frame |-> k] \in Outcome
  BY TypesApart DEF Outcome
<1>3. /\ outcomes' \in Seq(Outcome) /\ Extends(outcomes, outcomes') /\ Extends(sizes, sizes')
      /\ Len(outcomes') = Len(outcomes) + 1
      /\ outcomes'[Len(outcomes) + 1] = [kind |-> kind, frame |-> k]
  <2>1. Extends(sizes, sizes')
    BY <1>2 DEF Typed, Extends
  <2>2. QED
    BY <1>1, <1>2, <2>1, AppendExtends DEF Typed
<1>4. buffer' \in Seq(Byte) /\ Len(buffer') = 0
  BY <1>1
<1>5. TypeOK'
  BY <1>1, <1>3, <1>4 DEF TypeOK
<1>6. Current' = Current + 1 /\ Upcoming' = Place(Current + 1, 1)
  <2>1. Current' = Current + 1
    BY <1>2, <1>3 DEF Typed, Current
  <2>2. Upcoming' = Place(Current', Len(buffer') + 1)
    BY <1>1 DEF Upcoming
  <2>3. QED
    BY <1>4, <2>1, <2>2
<1>7. ASSUME Received, kind = "message", k = Current PROVE Received'
  <2>1. ASSUME NEW i \in 1..Len(outcomes') PROVE outcomes'[i] = [kind |-> "message", frame |-> i]
    <3>1. i \in 1..Len(outcomes) \/ i = Len(outcomes) + 1
      BY <1>2, <1>3 DEF Typed
    <3>2. QED
      BY <1>3, <1>7, <3>1 DEF Received, Extends, Current
  <2>2. QED
    BY <2>1 DEF Received
<1>8. QED
  BY <1>1, <1>3, <1>4, <1>5, <1>6, <1>7

(* The prefix is complete. *)
LEMMA PrefixReadKeeps == ASSUME FramingInv, PrefixRead PROVE FramingInv'
<1>1. /\ TypeOK /\ Typed /\ AllSent /\ Synchronous /\ Told /\ Len(sizes) <= MaxFrames
      /\ phase = "prefix" /\ Filled /\ UNCHANGED <<sizes, wire, closed, cutOff>>
      /\ strayed' = IF strayed = "no" THEN Breach(sizes[buffer[1].frame]) ELSE strayed
  BY TypesApart DEF FramingInv, PrefixRead, StraysAs, peerVars
<1>2. PICK len \in LengthsRead :
        \/ len = 0 /\ Return("empty", 0)
        \/ len > Limit /\ Return("large", 0)
        \/ len \in 1..Limit /\ ReadPayload(len)
  BY DEF PrefixRead
<1>3. strayed' \in {"no", "oversize", "wrapped", "dropped"}
  BY <1>1 DEF TypeOK, Breach
<1>4. 0 \in 0..MaxFrames /\ Limit \in Nat \ {0} /\ Limit < PrefixValues /\ PrefixValues \in Nat
  BY Constants
<1>5. /\ TypeOK' /\ phase' # "done" /\ Extends(outcomes, outcomes') /\ Extends(sizes, sizes')
      /\ Len(buffer') = 0
  <2>1. CASE Return("empty", 0) \/ Return("large", 0)
    BY <1>1, <1>3, <1>4, <2>1, Returned
  <2>2. CASE len \in 1..Limit /\ ReadPayload(len)
    <3>1. /\ phase' = "payload" /\ wanted' = len /\ buffer' = <<>> /\ outcomes' = outcomes
          /\ len \in Nat
      BY <1>4, <2>2 DEF ReadPayload
    <3>2. TypeOK'
      BY <1>1, <1>3, <2>2, <3>1 DEF TypeOK
    <3>3. Extends(outcomes, outcomes') /\ Extends(sizes, sizes')
      BY <1>1, <3>1 DEF Extends, Typed
    <3>4. QED
      BY <3>1, <3>2, <3>3
  <2>3. QED
    BY <1>2, <2>1, <2>2
<1>6. AllSent'
  BY <1>1, <1>5 DEF AllSent
<1>7. CASE strayed # "no"
  <2>1. strayed' = strayed
    BY <1>1, <1>7
  <2>2. Told'
    BY <1>1, <1>5, <2>1, StillTold
  <2>3. QED
    BY <1>1, <1>5, <1>6, <1>7, <2>1, <2>2 DEF FramingInv, InStep, Synchronous
<1>8. CASE strayed = "no"
  <2>1. Received /\ InHand /\ OnTheWire
    BY <1>1, <1>8 DEF Synchronous
  <2>. DEFINE size == sizes[Current]
  <2>2. /\ buffer[1].frame = Current /\ Current \in 1..Len(sizes) /\ size \in Nat \ {0}
        /\ LengthsRead = {LengthPrefix(size)}
    BY <1>1, <2>1, FullPrefix
  <2>3. len = LengthPrefix(size) /\ strayed' = Breach(size)
    BY <1>1, <1>8, <2>2
  <2>4. Len(buffer) = PrefixLen /\ Upcoming = Place(Current, PrefixLen + 1)
    BY <1>1, <2>1 DEF InHand, Filled, Upcoming
  <2>. HIDE DEF size
  <2>5. CASE size >= PrefixValues
    <3>1. strayed' = "wrapped"
      BY <2>3, <2>5 DEF Breach
    <3>2. QED
      BY <1>1, <1>5, <1>6, <3>1 DEF FramingInv, InStep, Synchronous, Told
  <2>6. CASE size < PrefixValues /\ size > Limit
    <3>1. strayed' = "oversize" /\ len = size
      BY <1>4, <2>2, <2>3, <2>6, SmallPrefix DEF Breach
    <3>2. Return("large", 0)
      BY <1>2, <1>4, <2>2, <2>6, <3>1
    <3>3. /\ Len(outcomes') = Len(outcomes) + 1
          /\ outcomes'[Len(outcomes) + 1] = [kind |-> "large", frame |-> 0]
      BY <1>1, <1>3, <1>4, <3>2, Returned
    <3>4. /\ Current \in 1..Len(outcomes') /\ outcomes'[Current].kind = "large"
          /\ Current \in 1..Len(sizes') /\ sizes'[Current] > Limit
      BY <1>1, <2>2, <2>6, <3>3 DEF Current, Typed, size
    <3>5. ASSUME NEW j \in 1..(Current - 1)
          PROVE  outcomes'[j] = [kind |-> "message", frame |-> j]
      <4>1. j \in 1..Len(outcomes)
        BY <1>1 DEF Current, Typed
      <4>2. QED
        BY <1>5, <2>1, <4>1 DEF Received, Extends
    <3>6. Told'
      BY <3>4, <3>5 DEF Told
    <3>7. QED
      BY <1>1, <1>5, <1>6, <3>1, <3>6 DEF FramingInv, InStep, Synchronous
  <2>7. CASE size <= Limit
    <3>1. strayed' = "no" /\ len = size
      BY <1>4, <2>2, <2>3, <2>7, SmallPrefix DEF Breach
    <3>2. ReadPayload(size)
      BY <1>2, <1>4, <2>2, <2>7, <3>1
    <3>3. phase' = "payload" /\ wanted' = size /\ buffer' = <<>> /\ outcomes' = outcomes
      BY <3>2 DEF ReadPayload
    <3>4. Received' /\ Current' = Current
      BY <2>1, <3>3 DEF Received, Current
    <3>5. InHand'
      BY <1>1, <2>2, <3>3, <3>4 DEF InHand, size
    <3>6. Upcoming' = Upcoming
      <4>1. ~Filled'
        BY <2>2, <3>3 DEF Filled
      <4>2. Upcoming' = Place(Current, PrefixLen + 0 + 1)
        BY <3>3, <3>4, <4>1 DEF Upcoming
      <4>3. QED
        BY <2>4, <4>2, Constants
    <3>7. OnTheWire'
      BY <1>1, <2>1, <3>6, WireStays
    <3>8. Synchronous' /\ InStep' /\ Told'
      BY <1>5, <3>1, <3>4, <3>5, <3>7 DEF Synchronous, InStep, Received, Told
    <3>9. QED
      BY <1>1, <1>5, <1>6, <3>8 DEF FramingInv
  <2>8. QED
    BY <1>4, <2>2, <2>5, <2>6, <2>7
<1>9. QED
  BY <1>7, <1>8

(* The payload is complete. *)
LEMMA PayloadReadKeeps == ASSUME FramingInv, PayloadRead PROVE FramingInv'
<1>. DEFINE k == buffer[1].frame
<1>1. /\ TypeOK /\ Typed /\ AllSent /\ Synchronous /\ Told /\ Len(sizes) <= MaxFrames
      /\ phase = "payload" /\ Filled /\ UNCHANGED <<sizes, wire, closed, cutOff, strayed>>
      /\ IF Holds(k, PrefixLen + 1, PrefixLen + sizes[k])
         THEN Return("message", k) ELSE Return("bad", 0) \/ Return("unsent", 0)
  BY TypesApart DEF FramingInv, PayloadRead, peerVars
<1>2. k \in 0..MaxFrames /\ 0 \in 0..MaxFrames
  <2>1. k \in 1..Len(sizes)
    BY <1>1, FirstByte
  <2>2. Len(sizes) \in Nat /\ Len(sizes) <= MaxFrames /\ MaxFrames \in Nat
    BY <1>1, Constants DEF Typed
  <2>. HIDE DEF k
  <2>3. QED
    BY <2>1, <2>2
<1>3. strayed' \in {"no", "oversize", "wrapped", "dropped"}
  BY <1>1 DEF TypeOK
<1>4. /\ TypeOK' /\ phase' = "prefix" /\ Extends(outcomes, outcomes') /\ Extends(sizes, sizes')
      /\ Len(buffer') = 0 /\ wanted' = PrefixLen
  <2>1. Return("message", k) \/ Return("bad", 0) \/ Return("unsent", 0)
    BY <1>1
  <2>2. QED
    BY <1>1, <1>2, <1>3, <2>1, Returned
<1>5. AllSent' /\ Told'
  BY <1>1, <1>4, StillTold DEF AllSent
<1>6. ASSUME strayed = "no"
      PROVE  Received' /\ InHand' /\ OnTheWire'
  <2>1. Received /\ InHand /\ OnTheWire
    BY <1>1, <1>6 DEF Synchronous
  <2>2. k = Current /\ Return("message", k)
    BY <1>1, <2>1, FullPayload
  <2>3. Received' /\ Upcoming' = Place(Current + 1, 1)
    BY <1>1, <1>2, <1>3, <2>1, <2>2, Returned
  <2>4. Upcoming = Place(Current + 1, 1)
    BY <1>1 DEF Upcoming
  <2>5. InHand'
    BY <1>4 DEF InHand
  <2>6. QED
    BY <1>1, <2>1, <2>3, <2>4, <2>5, WireStays
<1>7. Synchronous' /\ InStep'
  BY <1>1, <1>4, <1>6 DEF Synchronous, InStep, Received
<1>8. QED
  BY <1>1, <1>4, <1>5, <1>7 DEF FramingInv

(* The stream has ended, or reading it failed. *)
LEMMA LeaveKeeps ==
    ASSUME FramingInv, NEW kind \in {"closed", "broken"}, phase # "done", Leave(kind)
    PROVE  FramingInv'
<1>. DEFINE last == [kind |-> kind, frame |-> 0]
<1>1. /\ TypeOK /\ Typed /\ AllSent /\ Synchronous /\ Told /\ Len(sizes) <= MaxFrames
      /\ phase # "done" /\ phase' = "done" /\ outcomes' = Append(outcomes, last)
      /\ UNCHANGED <<sizes, wire, closed, cutOff, wanted, buffer, strayed>>
  BY TypesApart DEF FramingInv, Leave, peerVars
<1>2. last \in Outcome
  BY Constants DEF Outcome
<1>3. /\ outcomes' \in Seq(Outcome) /\ Extends(outcomes, outcomes') /\ Extends(sizes, sizes')
      /\ Len(outcomes') = Len(outcomes) + 1 /\ outcomes'[Len(outcomes) + 1] = last
  <2>1. Extends(sizes, sizes')
    BY <1>1 DEF Extends, Typed
  <2>. HIDE DEF last
  <2>2. QED
    BY <1>1, <1>2, <2>1, AppendExtends DEF Typed
<1>4. TypeOK'
  <2>1. wanted \in 1..PrefixLen \cup 1..Limit
    BY <1>1 DEF TypeOK
  <2>2. QED
    BY <1>1, <1>3, <2>1 DEF TypeOK
<1>5. AllSent' /\ Told' /\ Synchronous'
  BY <1>1, <1>3, StillTold DEF AllSent, Synchronous
<1>6. InStep'
  <2>1. ASSUME strayed = "no", NEW i \in 1..Len(outcomes')
        PROVE  \/ outcomes'[i] = [kind |-> "message", frame |-> i]
               \/ i = Len(outcomes') /\ outcomes'[i].kind \in {"closed", "broken"}
    <3>1. i \in 1..Len(outcomes) \/ i = Len(outcomes) + 1
      BY <1>1, <1>3 DEF Typed
    <3>2. Received
      BY <1>1, <2>1 DEF Synchronous
    <3>3. CASE i \in 1..Len(outcomes)
      BY <1>3, <3>2, <3>3 DEF Received, Extends
    <3>4. CASE i = Len(outcomes) + 1
      <4>1. outcomes'[i] = last /\ i = Len(outcomes')
        BY <1>3, <3>4
      <4>2. QED
        BY <4>1
    <3>5. QED
      BY <3>1, <3>3, <3>4
  <2>2. QED
    BY <1>1, <2>1 DEF InStep
<1>7. QED
  BY <1>1, <1>4, <1>5, <1>6 DEF FramingInv

(* receive is dropped; only between two frames does it lose nothing. *)
LEMMA CancelKeeps == ASSUME FramingInv, Cancel PROVE FramingInv'
<1>1. /\ TypeOK /\ Typed /\ AllSent /\ Synchronous /\ Told /\ InStep /\ Len(sizes) <= MaxFrames
      /\ phase # "done" /\ phase' = "prefix" /\ wanted' = PrefixLen /\ buffer' = <<>>
      /\ UNCHANGED <<sizes, wire, closed, cutOff, outcomes>>
      /\ strayed' = IF strayed # "no" THEN strayed
                    ELSE IF phase = "payload" \/ buffer # <<>> THEN "dropped" ELSE "no"
  BY TypesApart DEF FramingInv, Cancel, StraysAs, peerVars
<1>2. TypeOK'
  BY <1>1, Constants DEF TypeOK
<1>3. AllSent'
  BY <1>1 DEF AllSent
<1>4. CASE strayed' = strayed
  <2>1. Extends(outcomes, outcomes') /\ Extends(sizes, sizes')
    BY <1>1 DEF Extends, Typed
  <2>2. Told' /\ InStep'
    BY <1>1, <1>4, <2>1, StillTold DEF InStep
  <2>3. ASSUME strayed = "no" PROVE Received' /\ InHand' /\ OnTheWire'
    <3>1. phase = "prefix" /\ buffer = <<>>
      BY <1>1, <1>4, <2>3 DEF TypeOK
    <3>2. wanted = PrefixLen /\ Received /\ OnTheWire /\ InHand
      BY <1>1, <2>3, <3>1 DEF Synchronous, InHand
    <3>3. UNCHANGED vars
      BY <1>1, <1>4, <3>1, <3>2 DEF vars, peerVars
    <3>4. Received' /\ InHand'
      BY <3>2, <3>3 DEF vars, peerVars, Received, InHand, Current
    <3>5. Upcoming' = Upcoming
      BY <3>3 DEF vars, peerVars, Upcoming, Current, Filled
    <3>6. QED
      BY <1>1, <3>2, <3>4, <3>5, WireStays
  <2>4. Synchronous'
    BY <1>4, <2>3 DEF Synchronous
  <2>5. QED
    BY <1>1, <1>2, <1>3, <2>2, <2>4 DEF FramingInv
<1>5. CASE strayed' = "dropped"
  BY <1>1, <1>2, <1>3, <1>5 DEF FramingInv, Synchronous, InStep, Told
<1>6. QED
  BY <1>1, <1>4, <1>5

-----------------------------------------------------------------------------
(* It holds at the start, *)
LEMMA FramingStarts == Init => FramingInv
<1>. SUFFICES ASSUME Init PROVE FramingInv
  OBVIOUS
<1>1. /\ sizes = <<>> /\ wire = <<>> /\ buffer = <<>> /\ outcomes = <<>> /\ closed = FALSE /\ cutOff = 0
      /\ phase = "prefix" /\ wanted = PrefixLen /\ strayed = "no"
      /\ PrefixLen \in Nat \ {0} /\ MaxFrames \in Nat
  BY Constants DEF Init
<1>2. TypeOK
  <2>1. wanted \in 1..PrefixLen \cup 1..Limit /\ Len(buffer) <= wanted
    BY <1>1
  <2>2. /\ sizes \in Seq(Sizes) /\ wire \in Seq(Byte)
        /\ buffer \in Seq(Byte) /\ outcomes \in Seq(Outcome)
    BY <1>1
  <2>3. cutOff \in 0..MaxFrames
    BY <1>1
  <2>4. QED
    BY <1>1, <2>1, <2>2, <2>3 DEF TypeOK
<1>3. AllSent /\ Received /\ InHand /\ InStep /\ Told
  BY <1>1 DEF AllSent, Received, InHand, InStep, Told
<1>4. OnTheWire
  <2>1. Upcoming = Place(1, 1) /\ Unsent = Place(1, 1)
    BY <1>1 DEF Upcoming, Unsent, Current
  <2>2. QED
    BY <1>1, <2>1 DEF OnTheWire
<1>5. QED
  BY <1>1, <1>2, <1>3, <1>4 DEF FramingInv, Synchronous

(* and every step keeps it. *)
LEMMA FramingKept == FramingInv /\ [Next]_vars => FramingInv'
<1>. SUFFICES ASSUME FramingInv, [Next]_vars PROVE FramingInv'
  OBVIOUS
<1>1. CASE \E size \in Sizes : SendMessage(size)
  BY <1>1, SendKeeps
<1>2. CASE Close
  BY <1>2, CloseKeeps
<1>3. CASE Receive
  <2>1. CASE Eof
    BY <2>1, LeaveKeeps DEF Eof
  <2>2. QED
    BY <1>3, <2>1, ReadKeeps, PrefixReadKeeps, PayloadReadKeeps DEF Receive
<1>4. CASE Cancel
  BY <1>4, CancelKeeps
<1>5. CASE ReadFails
  BY <1>5, LeaveKeeps DEF ReadFails
<1>6. CASE UNCHANGED vars
  <2>1. TypeOK' /\ Len(sizes') <= MaxFrames /\ AllSent' /\ InStep' /\ Told'
    BY <1>6 DEF vars, peerVars, FramingInv, TypeOK, AllSent, InStep, Told
  <2>2. UNCHANGED <<Received, InHand, Upcoming>>
    BY <1>6 DEF vars, peerVars, Received, InHand, Upcoming, Current, Filled
  <2>3. Synchronous'
    BY <1>6, <2>2, WireStays DEF vars, peerVars, FramingInv, Synchronous
  <2>4. QED
    BY <2>1, <2>3 DEF FramingInv
<1>7. QED
  BY <1>1, <1>2, <1>3, <1>4, <1>5, <1>6 DEF Next, Finished

(* For every frame size, prefix and limit, receive keeps its types, and in *)
(* particular never asks for a payload over the limit.                     *)
THEOREM ReceiveTyped == Spec => []TypeOK
<1>1. FramingInv => TypeOK
  BY DEF FramingInv
<1>2. QED
  BY <1>1, FramingStarts, FramingKept, PTL DEF Spec

(* As long as no frame over the limit was sent and no receive was dropped  *)
(* within a frame, what is received is what was sent, frame by frame.      *)
THEOREM StaysInStep == Spec => []InStep
<1>1. FramingInv => InStep
  BY DEF FramingInv
<1>2. QED
  BY <1>1, FramingStarts, FramingKept, PTL DEF Spec

(* A frame over the limit, if it is what first breaks the stream, has      *)
(* MessageTooLarge returned in its place, after all frames before it.      *)
THEOREM OversizeAnswered == Spec => []OversizeIsTold
<1>1. FramingInv => OversizeIsTold
  BY DEF FramingInv, Told, OversizeIsTold
<1>2. QED
  BY <1>1, FramingStarts, FramingKept, PTL DEF Spec
=============================================================================
