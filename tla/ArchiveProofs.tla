--------------------------- MODULE ArchiveProofs ---------------------------
(***************************************************************************)
(* The files behind the rows and the page in front of them.  A file nobody *)
(* else had open is followed chunk by chunk (OpenedInv); a row is as good  *)
(* as what its session had done before it (Carried); a page may be old,    *)
(* but ids are given out once (PageInv).                                   *)
(***************************************************************************)
EXTENDS MessagesPage, TLAPS

(* Messages, as sessions hold them. *)
Message == [kind : Kind, number : Nat, size : Nat, path : Content]

(* What step, message and the rest are functions of. *)
Shape ==
    /\ step \in [Session -> {"idle", "create", "write", "store"}]
    /\ message \in [Session -> Message \cup {Nothing}]
    /\ written \in [Session -> Nat]
    /\ files \in [DOMAIN files -> Seq(Chunk)] /\ DOMAIN files \subseteq Path
    /\ opened \in [DOMAIN files -> Message]
    /\ sends \in 0..MaxSends /\ now \in 0..MaxClock
    /\ alone \cup whole \subseteq 1..sends

(* A session with a message has it from a client: a number of its own,     *)
(* and a path unless it is a text.                                         *)
Carried(s) ==
    LET m == message[s]
    IN  /\ step[s] = "idle" <=> m = Nothing
        /\ step[s] # "idle" =>
             /\ m \in Message /\ m.number \in 1..sends
             /\ m.kind = "Text" => step[s] = "store"
             /\ m.kind # "Text" => m.path \in Path

(* How far it has come with the file. *)
Saved(s) ==
    LET m == message[s]
    IN  /\ step[s] \in {"idle", "create"} => written[s] = 0
        /\ step[s] = "create" => m.number \notin alone \cup whole
        /\ step[s] = "write" => /\ m.path \in DOMAIN files
                                /\ written[s] < m.size /\ m.number \notin whole
        /\ step[s] = "store" /\ m.kind # "Text" =>
               m.path \in DOMAIN files /\ m.number \in whole

Distinct ==
    \A s, t \in Session : s # t /\ step[s] # "idle" /\ step[t] # "idle" =>
        message[s].number # message[t].number

HandsInv == Distinct /\ \A s \in Session : Carried(s) /\ Saved(s)

(* The first k chunks of message n. *)
Chunks(n, k) == [i \in 1..k |-> [of |-> n, place |-> i]]

(* The file at p is the one its last opener has in hand, if that is still  *)
(* at it, and holds what was written of it as long as it is alone there.   *)
OpenedInv ==
    \A p \in DOMAIN files :
        LET m == opened[p]
        IN  /\ m.path = p /\ m.number \in 1..sends
            /\ \A s \in Session : step[s] # "idle" /\ message[s].number = m.number =>
                   step[s] # "create" /\ message[s] = m
            /\ m.number \in alone =>
                 /\ m.number \in whole => files[p] = Chunks(m.number, m.size)
                 /\ \A s \in Session : step[s] = "write" /\ message[s].path = p =>
                        /\ message[s].number = m.number
                        /\ files[p] = Chunks(m.number, written[s])

(* A row has a file that was there before it, and that was written.        *)
RowBacked(r) ==
    r.kind # "Text" =>
        /\ r.number \in whole /\ r.saved \in DOMAIN files
        /\ r.kind = "File" => r.content = r.saved

RowsInv ==
    /\ rowSeq \in Nat /\ rows \subseteq Row
    /\ \A r \in rows : r.id \in 1..rowSeq /\ RowBacked(r)
    /\ \A q, r \in rows : q.id = r.id => q = r

(* The page is a copy of rows that were there. *)
PageInv ==
    /\ page \in {"none", "shown", "panicked"}
    /\ shown \subseteq [id : 1..rowSeq, number : 1..MaxSends]
    /\ ButtonsHitTheirRow

ArchiveInv == Shape /\ HandsInv /\ OpenedInv /\ RowsInv /\ PageInv

StoreInv == Shape /\ HandsInv /\ OpenedInv /\ RowsInv

(* What the constants are. *)
LEMMA Constants == Sizes \subseteq Nat /\ MaxSends \in Nat /\ MaxClock \in Nat
BY FileStoreAssumption

(* A message is taken in. *)
LEMMA TakeKeeps ==
    ASSUME StoreInv, NEW s \in Session, NEW msg \in Message, NEW next, Take(s, msg, next),
           msg.number = sends + 1, next \in {"create", "store"},
           next = "store" <=> msg.kind = "Text",
           msg.kind # "Text" => msg.path \in Path
    PROVE  StoreInv'
<1>1. /\ step[s] = "idle" /\ sends' = sends + 1 /\ sends < MaxSends
      /\ message' = [message EXCEPT ![s] = msg] /\ step' = [step EXCEPT ![s] = next]
      /\ UNCHANGED <<written, files, opened, alone, whole, rows, rowSeq, now>>
  BY DEF Take, tableVars
<1>2. /\ step'[s] = next /\ message'[s] = msg
      /\ \A t \in Session : t # s => step'[t] = step[t] /\ message'[t] = message[t]
  BY <1>1 DEF StoreInv, Shape
<1>3. sends \in Nat /\ MaxSends \in Nat
  BY Constants DEF StoreInv, Shape
<1>4. Shape'
  <2>1. /\ step' \in [Session -> {"idle", "create", "write", "store"}]
        /\ message' \in [Session -> Message \cup {Nothing}]
    BY <1>1 DEF StoreInv, Shape
  <2>2. sends' \in 0..MaxSends /\ alone' \cup whole' \subseteq 1..sends'
    BY <1>1, <1>3 DEF StoreInv, Shape
  <2>3. QED
    BY <1>1, <2>1, <2>2 DEF StoreInv, Shape
<1>5. HandsInv'
  <2>1. ASSUME NEW t \in Session, t # s, step[t] # "idle" PROVE message[t].number # msg.number
    BY <1>3, <2>1 DEF StoreInv, HandsInv, Carried
  <2>2. Distinct'
    BY <1>2, <2>1 DEF StoreInv, HandsInv, Distinct
  <2>3. Carried(s)' /\ Saved(s)'
    <3>1. msg # Nothing /\ msg.number \in 1..sends'
      BY <1>1, <1>3 DEF Nothing
    <3>2. msg.number \notin alone \cup whole
      BY <1>3 DEF StoreInv, Shape
    <3>3. written[s] = 0
      BY <1>1 DEF StoreInv, HandsInv, Saved
    <3>4. Carried(s)'
      BY <1>1, <1>2, <3>1 DEF Carried
    <3>5. QED
      BY <1>1, <1>2, <3>2, <3>3, <3>4 DEF Saved
  <2>4. ASSUME NEW t \in Session, t # s PROVE Carried(t)' /\ Saved(t)'
    <3>1. Carried(t) /\ Saved(t) /\ 1..sends \subseteq 1..sends'
      BY <1>1, <1>3 DEF StoreInv, HandsInv
    <3>2. Carried(t)'
      BY <1>1, <1>2, <2>4, <3>1 DEF Carried
    <3>3. Saved(t)'
      BY <1>1, <1>2, <2>4, <3>1 DEF Saved
    <3>4. QED
      BY <3>2, <3>3
  <2>5. QED
    BY <2>2, <2>3, <2>4 DEF HandsInv
<1>6. OpenedInv'
  <2>1. ASSUME NEW p \in DOMAIN files PROVE opened[p].number \in 1..sends /\ opened[p].number # msg.number
    BY <1>3 DEF StoreInv, OpenedInv
  <2>2. 1..sends \subseteq 1..sends'
    BY <1>1, <1>3
  <2>3. step'[s] # "write"
    BY <1>2
  <2>4. QED
    BY <1>1, <1>2, <2>1, <2>2, <2>3 DEF StoreInv, OpenedInv
<1>7. RowsInv'
  BY <1>1 DEF StoreInv, RowsInv, RowBacked
<1>8. QED
  BY <1>4, <1>5, <1>6, <1>7 DEF StoreInv

(* The file is created, or emptied. *)
LEMMA CreateKeeps ==
    ASSUME StoreInv, NEW s \in Session, CreateFile(s)
    PROVE  StoreInv'
<1>. DEFINE m == message[s]
            p == m.path
            others == {message[t].number : t \in Writers(p)}
<1>1. step[s] = "create" /\ UNCHANGED <<message, written, rows, rowSeq, now, sends>>
  BY DEF CreateFile, Open, tableVars
<1>2. /\ files' = [q \in DOMAIN files \cup {p} |-> IF q = p THEN <<>> ELSE files[q]]
      /\ opened' = [q \in DOMAIN files \cup {p} |-> IF q = p THEN m ELSE opened[q]]
  BY DEF CreateFile, Open
<1>3. /\ alone' = IF others = {} THEN alone \cup {m.number} ELSE alone \ others
      /\ whole' = IF m.size = 0 THEN whole \cup {m.number} ELSE whole
      /\ step' = [step EXCEPT ![s] = AfterWriting(s, 0)]
  BY DEF CreateFile, Open
<1>4. /\ m \in Message /\ m.number \in 1..sends /\ p \in Path /\ m.size \in Nat
      /\ m.number \notin alone \cup whole /\ m # Nothing /\ written[s] = 0
  <2>1. m \in Message /\ m.number \in 1..sends /\ p \in Path /\ m # Nothing
    BY <1>1 DEF StoreInv, HandsInv, Carried
  <2>2. m.number \notin alone \cup whole /\ written[s] = 0
    BY <1>1 DEF StoreInv, HandsInv, Saved
  <2>3. m.size \in Nat
    BY <2>1 DEF Message
  <2>4. QED
    BY <2>1, <2>2, <2>3
<1>5. /\ step'[s] = IF m.size = 0 THEN "store" ELSE "write"
      /\ \A t \in Session : t # s => step'[t] = step[t]
  BY <1>3, <1>4 DEF StoreInv, Shape, AfterWriting
<1>6. DOMAIN files' = DOMAIN files \cup {p} /\ files'[p] = <<>> /\ opened'[p] = m
  BY <1>2
<1>7. \A q \in DOMAIN files : q # p => files'[q] = files[q] /\ opened'[q] = opened[q]
  BY <1>2
<1>. HIDE DEF m, p, others
<1>8. Shape'
  <2>1. step' \in [Session -> {"idle", "create", "write", "store"}]
    BY <1>3 DEF StoreInv, Shape, AfterWriting
  <2>2. /\ files' \in [DOMAIN files' -> Seq(Chunk)]
        /\ opened' \in [DOMAIN files' -> Message] /\ DOMAIN files' \subseteq Path
    <3>1. ASSUME NEW q \in DOMAIN files' PROVE files'[q] \in Seq(Chunk) /\ opened'[q] \in Message
      <4>1. CASE q = p
        BY <1>4, <1>6, <4>1
      <4>2. CASE q # p
        <5>1. q \in DOMAIN files /\ files'[q] = files[q] /\ opened'[q] = opened[q]
          BY <1>6, <1>7, <4>2
        <5>2. QED
          BY <5>1 DEF StoreInv, Shape
      <4>3. QED
        BY <4>1, <4>2
    <3>2. files' = [q \in DOMAIN files' |-> files'[q]] /\ opened' = [q \in DOMAIN files' |-> opened'[q]]
      BY <1>2
    <3>3. DOMAIN files' \subseteq Path
      BY <1>4, <1>6 DEF StoreInv, Shape
    <3>4. QED
      BY <3>1, <3>2, <3>3
  <2>3. alone' \cup whole' \subseteq 1..sends
    BY <1>3, <1>4 DEF StoreInv, Shape
  <2>4. QED
    BY <1>1, <2>1, <2>2, <2>3 DEF StoreInv, Shape
<1>9. \A t \in Session : t # s /\ step[t] # "idle" => message[t].number # m.number
  BY <1>1 DEF StoreInv, HandsInv, Distinct, m
<1>10. /\ \A n \in alone' \cup whole' : n # m.number => n \in alone \cup whole
       /\ \A n \in alone' : n # m.number => n \in alone
       /\ \A n \in whole' : n # m.number => n \in whole
       /\ whole \subseteq whole'
  BY <1>3
<1>11. HandsInv'
  <2>1. Distinct'
    BY <1>1, <1>5 DEF StoreInv, HandsInv, Distinct
  <2>2. Carried(s)' /\ Saved(s)'
    <3>1. Carried(s)'
      BY <1>1, <1>4, <1>5 DEF StoreInv, HandsInv, Carried, m
    <3>2. CASE m.size = 0
      <4>1. step'[s] = "store" /\ m.number \in whole'
        BY <1>3, <1>5, <3>2
      <4>2. QED
        BY <1>1, <1>6, <3>1, <4>1 DEF Saved, m, p
    <3>3. CASE m.size # 0
      <4>1. step'[s] = "write" /\ m.number \notin whole'
        BY <1>3, <1>4, <1>5, <3>3
      <4>2. QED
        BY <1>1, <1>4, <1>6, <3>1, <3>3, <4>1 DEF Saved, m, p
    <3>4. QED
      BY <3>1, <3>2, <3>3
  <2>3. ASSUME NEW t \in Session, t # s PROVE Carried(t)' /\ Saved(t)'
    <3>1. Carried(t) /\ Saved(t) /\ step'[t] = step[t]
      BY <1>5, <2>3 DEF StoreInv, HandsInv
    <3>2. Carried(t)'
      BY <1>1, <3>1 DEF Carried
    <3>3. step[t] # "idle" => message[t].number # m.number
      BY <1>9, <2>3
    <3>4. Saved(t)'
      BY <1>1, <1>6, <1>10, <3>1, <3>3 DEF Saved
    <3>5. QED
      BY <3>2, <3>4
  <2>4. QED
    BY <2>1, <2>2, <2>3 DEF HandsInv
<1>12. OpenedInv'
  <2>. SUFFICES ASSUME NEW q \in DOMAIN files'
       PROVE  /\ opened'[q].path = q /\ opened'[q].number \in 1..sends
              /\ \A t \in Session : step'[t] # "idle" /\ message[t].number = opened'[q].number =>
                     step'[t] # "create" /\ message[t] = opened'[q]
              /\ opened'[q].number \in alone' =>
                   /\ opened'[q].number \in whole' =>
                        files'[q] = Chunks(opened'[q].number, opened'[q].size)
                   /\ \A t \in Session : step'[t] = "write" /\ message[t].path = q =>
                          /\ message[t].number = opened'[q].number
                          /\ files'[q] = Chunks(opened'[q].number, written[t])
    BY <1>1 DEF OpenedInv
  <2>1. CASE q = p
    <3>1. opened'[q] = m /\ files'[q] = <<>>
      BY <1>6, <2>1
    <3>2. \A t \in Session : step'[t] # "idle" /\ message[t].number = m.number => t = s
      BY <1>5, <1>9
    <3>3. step'[s] # "create"
      BY <1>5
    <3>4. Chunks(m.number, 0) = <<>>
      BY DEF Chunks
    <3>5. m.number \in whole' => m.size = 0
      BY <1>3, <1>4
    <3>6. ASSUME m.number \in alone', NEW t \in Session, step'[t] = "write", message[t].path = p
          PROVE  t = s
      <4>1. others = {}
        BY <1>3, <1>4, <3>6
      <4>2. t # s => t \in Writers(p)
        BY <1>5, <3>6 DEF Writers
      <4>3. QED
        BY <4>1, <4>2 DEF others
    <3>7. QED
      BY <1>4, <2>1, <3>1, <3>2, <3>3, <3>4, <3>5, <3>6 DEF m, p
  <2>2. CASE q # p
    <3>1. q \in DOMAIN files /\ opened'[q] = opened[q] /\ files'[q] = files[q]
      BY <1>6, <1>7, <2>2
    <3>2. opened[q].number # m.number
      BY <1>1, <3>1 DEF StoreInv, OpenedInv, m
    <3>3. message[s].path # q /\ message[s].number # opened[q].number
      BY <2>2, <3>2 DEF m, p
    <3>4. opened[q].number \in alone' => opened[q].number \in alone
      BY <1>10, <3>2
    <3>5. opened[q].number \in whole' => opened[q].number \in whole
      BY <1>10, <3>2
    <3>6. QED
      BY <1>5, <3>1, <3>3, <3>4, <3>5 DEF StoreInv, OpenedInv
  <2>3. QED
    BY <2>1, <2>2
<1>13. RowsInv'
  <2>1. ASSUME NEW r, RowBacked(r) PROVE RowBacked(r)'
    BY <1>1, <1>6, <1>10, <2>1 DEF RowBacked
  <2>2. QED
    BY <1>1, <2>1 DEF StoreInv, RowsInv
<1>14. QED
  BY <1>8, <1>11, <1>12, <1>13 DEF StoreInv

(* Chunk by chunk: the next one goes to the end of what is there. *)
LEMMA PutNext ==
    ASSUME NEW n, NEW k \in Nat
    PROVE  PutAt(Chunks(n, k), k + 1, [of |-> n, place |-> k + 1]) = Chunks(n, k + 1)
<1>1. Len(Chunks(n, k)) = k
  BY DEF Chunks
<1>2. (IF k + 1 > k THEN k + 1 ELSE k) = k + 1
  OBVIOUS
<1>3. \A j \in 1..(k + 1) : j = k + 1 \/ (j <= k /\ j \in 1..k)
  OBVIOUS
<1>4. PutAt(Chunks(n, k), k + 1, [of |-> n, place |-> k + 1])
        = [j \in 1..(k + 1) |->
              IF j = k + 1 THEN [of |-> n, place |-> k + 1]
              ELSE IF j <= k THEN Chunks(n, k)[j] ELSE Hole]
  BY <1>1, <1>2 DEF PutAt
<1>5. \A j \in 1..k : Chunks(n, k)[j] = [of |-> n, place |-> j]
  BY DEF Chunks
<1>6. QED
  BY <1>3, <1>4, <1>5 DEF Chunks

(* What is put makes a file again. *)
LEMMA PutTyped ==
    ASSUME NEW f \in Seq(Chunk), NEW i \in Nat \ {0}, NEW c \in Chunk
    PROVE  PutAt(f, i, c) \in Seq(Chunk)
<1>. DEFINE l == IF i > Len(f) THEN i ELSE Len(f)
<1>1. l \in Nat
  OBVIOUS
<1>2. Hole \in Chunk
  BY Constants DEF Hole, Chunk
<1>3. \A j \in 1..l : PutAt(f, i, c)[j] \in Chunk
  BY <1>2 DEF PutAt
<1>4. PutAt(f, i, c) \in [1..l -> Chunk]
  BY <1>3 DEF PutAt
<1>5. QED
  BY <1>1, <1>4

(* A chunk is written. *)
LEMMA WriteKeeps ==
    ASSUME StoreInv, NEW s \in Session, WriteChunk(s)
    PROVE  StoreInv'
<1>. DEFINE m == message[s]
            p == m.path
            i == written[s] + 1
            c == [of |-> m.number, place |-> i]
<1>1. step[s] = "write" /\ UNCHANGED <<message, opened, alone, rows, rowSeq, now, sends>>
  BY DEF WriteChunk, tableVars
<1>2. /\ files' = [files EXCEPT ![p] = PutAt(@, i, c)]
      /\ written' = [written EXCEPT ![s] = i]
      /\ step' = [step EXCEPT ![s] = AfterWriting(s, i)]
      /\ whole' = IF i = m.size THEN whole \cup {m.number} ELSE whole
  BY DEF WriteChunk
<1>3. /\ m \in Message /\ m.number \in 1..sends /\ m.size \in Nat /\ m # Nothing
      /\ p \in DOMAIN files /\ i \in Nat \ {0} /\ i <= m.size /\ written[s] \in Nat
      /\ m.number \notin whole /\ m.kind # "Text"
  <2>1. m \in Message /\ m.number \in 1..sends /\ m # Nothing /\ m.kind # "Text"
    BY <1>1 DEF StoreInv, HandsInv, Carried
  <2>2. m.size \in Nat /\ written[s] \in Nat
    BY <2>1 DEF Message, StoreInv, Shape
  <2>3. p \in DOMAIN files /\ m.number \notin whole /\ written[s] < m.size
    BY <1>1 DEF StoreInv, HandsInv, Saved
  <2>4. QED
    BY <2>1, <2>2, <2>3
<1>4. /\ step'[s] = IF i < m.size THEN "write" ELSE "store"
      /\ written'[s] = i
      /\ \A t \in Session : t # s => step'[t] = step[t] /\ written'[t] = written[t]
  BY <1>2 DEF StoreInv, Shape, AfterWriting
<1>5. /\ DOMAIN files' = DOMAIN files /\ files'[p] = PutAt(files[p], i, c)
      /\ \A q \in DOMAIN files : q # p => files'[q] = files[q]
  BY <1>2, <1>3 DEF StoreInv, Shape
<1>6. c \in Chunk
  <2>1. m.number \in 0..MaxSends
    BY <1>3, Constants DEF StoreInv, Shape
  <2>2. QED
    BY <1>3, <2>1 DEF Chunk
<1>. HIDE DEF m, p, i, c
<1>7. Shape'
  <2>1. step' \in [Session -> {"idle", "create", "write", "store"}] /\ written' \in [Session -> Nat]
    BY <1>2, <1>3 DEF StoreInv, Shape, AfterWriting
  <2>2. files' \in [DOMAIN files' -> Seq(Chunk)]
    <3>1. files[p] \in Seq(Chunk)
      BY <1>3 DEF StoreInv, Shape
    <3>2. PutAt(files[p], i, c) \in Seq(Chunk)
      BY <1>3, <1>6, <3>1, PutTyped
    <3>3. QED
      BY <1>2, <1>5, <3>2 DEF StoreInv, Shape
  <2>3. alone' \cup whole' \subseteq 1..sends
    BY <1>1, <1>2, <1>3 DEF StoreInv, Shape
  <2>4. QED
    BY <1>1, <1>5, <2>1, <2>2, <2>3 DEF StoreInv, Shape
<1>8. \A t \in Session : t # s /\ step[t] # "idle" => message[t].number # m.number
  BY <1>1 DEF StoreInv, HandsInv, Distinct, m
<1>9. whole \subseteq whole' /\ \A n \in whole' : n # m.number => n \in whole
  BY <1>2
<1>10. HandsInv'
  <2>1. Distinct'
    BY <1>1, <1>4 DEF StoreInv, HandsInv, Distinct
  <2>2. Carried(s)'
    BY <1>1, <1>3, <1>4 DEF StoreInv, HandsInv, Carried, m
  <2>3. Saved(s)'
    <3>1. CASE i < m.size
      <4>1. step'[s] = "write" /\ m.number \notin whole'
        BY <1>2, <1>3, <1>4, <3>1
      <4>2. QED
        BY <1>1, <1>3, <1>4, <1>5, <3>1, <4>1 DEF Saved, m, p
    <3>2. CASE ~(i < m.size)
      <4>1. step'[s] = "store" /\ m.number \in whole'
        BY <1>2, <1>3, <1>4, <3>2
      <4>2. QED
        BY <1>1, <1>3, <1>5, <4>1 DEF Saved, m, p
    <3>3. QED
      BY <3>1, <3>2
  <2>4. ASSUME NEW t \in Session, t # s PROVE Carried(t)' /\ Saved(t)'
    <3>1. Carried(t) /\ Saved(t) /\ step'[t] = step[t] /\ written'[t] = written[t]
      BY <1>4, <2>4 DEF StoreInv, HandsInv
    <3>2. Carried(t)'
      BY <1>1, <3>1 DEF Carried
    <3>3. step[t] # "idle" => message[t].number # m.number
      BY <1>8, <2>4
    <3>4. Saved(t)'
      BY <1>1, <1>5, <1>9, <3>1, <3>3 DEF Saved
    <3>5. QED
      BY <3>2, <3>4
  <2>5. QED
    BY <2>1, <2>2, <2>3, <2>4 DEF HandsInv
<1>11. OpenedInv'
  <2>. SUFFICES ASSUME NEW q \in DOMAIN files
       PROVE  /\ opened[q].path = q /\ opened[q].number \in 1..sends
              /\ \A t \in Session : step'[t] # "idle" /\ message[t].number = opened[q].number =>
                     step'[t] # "create" /\ message[t] = opened[q]
              /\ opened[q].number \in alone =>
                   /\ opened[q].number \in whole' =>
                        files'[q] = Chunks(opened[q].number, opened[q].size)
                   /\ \A t \in Session : step'[t] = "write" /\ message[t].path = q =>
                          /\ message[t].number = opened[q].number
                          /\ files'[q] = Chunks(opened[q].number, written'[t])
    BY <1>1, <1>5 DEF OpenedInv
  <2>1. /\ opened[q].path = q /\ opened[q].number \in 1..sends
        /\ \A t \in Session : step'[t] # "idle" /\ message[t].number = opened[q].number =>
               step'[t] # "create" /\ message[t] = opened[q]
    BY <1>1, <1>4 DEF StoreInv, OpenedInv
  <2>2. CASE q = p
    <3>. SUFFICES ASSUME opened[q].number \in alone
         PROVE  /\ opened[q].number \in whole' =>
                     files'[q] = Chunks(opened[q].number, opened[q].size)
                /\ \A t \in Session : step'[t] = "write" /\ message[t].path = q =>
                       /\ message[t].number = opened[q].number
                       /\ files'[q] = Chunks(opened[q].number, written'[t])
      BY <2>1
    <3>1. /\ \A t \in Session : step[t] = "write" /\ message[t].path = q =>
                 message[t].number = opened[q].number
          /\ files[q] = Chunks(opened[q].number, written[s])
          /\ m.number = opened[q].number
      BY <1>1, <2>2 DEF StoreInv, OpenedInv, m, p
    <3>2. m = opened[q]
      BY <1>1, <3>1 DEF StoreInv, OpenedInv, m
    <3>3. files'[q] = Chunks(m.number, i)
      <4>1. files'[q] = PutAt(Chunks(m.number, written[s]), written[s] + 1,
                              [of |-> m.number, place |-> written[s] + 1])
        BY <1>5, <2>2, <3>1 DEF i, c
      <4>2. QED
        BY <1>3, <4>1, PutNext DEF i
    <3>4. m.number \in whole' => i = m.size
      BY <1>2, <1>3
    <3>5. ASSUME NEW t \in Session, step'[t] = "write", message[t].path = q PROVE t = s
      <4>1. t # s => step[t] = "write" /\ message[t].number # m.number
        BY <1>4, <1>8, <3>5
      <4>2. QED
        BY <3>1, <3>5, <4>1
    <3>6. message[s].number = opened[q].number
      BY <3>1 DEF m
    <3>7. QED
      BY <1>4, <3>2, <3>3, <3>4, <3>5, <3>6
  <2>3. CASE q # p
    <3>1. files'[q] = files[q]
      BY <1>5, <2>3
    <3>2. opened[q].number # m.number
      BY <1>1, <2>1, <2>3 DEF StoreInv, OpenedInv, m, p
    <3>3. opened[q].number \in whole' => opened[q].number \in whole
      BY <1>9, <3>2
    <3>4. ASSUME NEW t \in Session, step'[t] = "write", message[t].path = q
          PROVE  step[t] = "write" /\ written'[t] = written[t]
      BY <1>4, <2>3, <3>4 DEF m, p
    <3>5. QED
      BY <2>1, <3>1, <3>3, <3>4 DEF StoreInv, OpenedInv
  <2>4. QED
    BY <2>2, <2>3
<1>12. RowsInv'
  <2>1. ASSUME NEW r, RowBacked(r) PROVE RowBacked(r)'
    BY <1>1, <1>5, <1>9, <2>1 DEF RowBacked
  <2>2. QED
    BY <1>1, <2>1 DEF StoreInv, RowsInv
<1>13. QED
  BY <1>7, <1>10, <1>11, <1>12 DEF StoreInv

(* A message is dropped, or none is: what is left does not depend on it.   *)
Dropped(t) == step'[t] = "idle" /\ message'[t] = Nothing /\ written'[t] = 0
Untouched(t) == step'[t] = step[t] /\ message'[t] = message[t] /\ written'[t] = written[t]

(* Sessions that drop their messages disturb nobody. *)
LEMMA DropKeeps ==
    ASSUME StoreInv, UNCHANGED <<files, opened, alone, whole, now, sends>>,
           step' \in [Session -> {"idle", "create", "write", "store"}],
           message' \in [Session -> Message \cup {Nothing}], written' \in [Session -> Nat],
           \A t \in Session : Dropped(t) \/ Untouched(t)
    PROVE  Shape' /\ HandsInv' /\ OpenedInv'
<1>1. \A t \in Session : step'[t] # "idle" => Untouched(t)
  BY DEF Dropped
<1>2. Shape'
  BY DEF StoreInv, Shape
<1>3. Distinct'
  BY <1>1 DEF StoreInv, HandsInv, Distinct, Untouched
<1>4. ASSUME NEW t \in Session PROVE Carried(t)' /\ Saved(t)'
  <2>1. CASE Dropped(t)
    BY <2>1 DEF Dropped, Carried, Saved
  <2>2. CASE Untouched(t)
    <3>1. Carried(t)'
      BY <2>2 DEF StoreInv, HandsInv, Carried, Untouched
    <3>2. Saved(t)'
      BY <2>2 DEF StoreInv, HandsInv, Saved, Untouched
    <3>3. QED
      BY <3>1, <3>2
  <2>3. QED
    BY <2>1, <2>2
<1>5. HandsInv'
  BY <1>3, <1>4 DEF HandsInv
<1>6. OpenedInv'
  BY <1>1 DEF StoreInv, OpenedInv, Untouched
<1>7. QED
  BY <1>2, <1>5, <1>6

(* One session does, *)
LEMMA GiveUpKeeps ==
    ASSUME StoreInv, NEW s \in Session, GiveUp(s),
           UNCHANGED <<files, opened, alone, whole, now, sends>>
    PROVE  Shape' /\ HandsInv' /\ OpenedInv'
<1>1. /\ step' \in [Session -> {"idle", "create", "write", "store"}]
      /\ message' \in [Session -> Message \cup {Nothing}] /\ written' \in [Session -> Nat]
  BY DEF StoreInv, Shape, GiveUp
<1>2. \A t \in Session : Dropped(t) \/ Untouched(t)
  BY DEF StoreInv, Shape, GiveUp, Dropped, Untouched
<1>3. QED
  BY <1>1, <1>2, DropKeeps

(* or all of them. *)
LEMMA ArchiveCrashKeeps ==
    ASSUME StoreInv, Crash
    PROVE  StoreInv'
<1>1. /\ UNCHANGED <<files, opened, alone, whole, now, sends>>
      /\ step' \in [Session -> {"idle", "create", "write", "store"}]
      /\ message' \in [Session -> Message \cup {Nothing}] /\ written' \in [Session -> Nat]
      /\ \A t \in Session : Dropped(t)
  BY DEF Crash, Dropped
<1>2. Shape' /\ HandsInv' /\ OpenedInv'
  BY <1>1, DropKeeps
<1>3. RowsInv'
  BY DEF StoreInv, RowsInv, RowBacked, Crash, tableVars
<1>4. QED
  BY <1>2, <1>3 DEF StoreInv

(* The save or the INSERT fails. *)
LEMMA FailKeeps ==
    ASSUME StoreInv, NEW s \in Session, SaveFails(s) \/ StoreRowFails(s)
    PROVE  StoreInv'
<1>1. GiveUp(s) /\ UNCHANGED <<files, opened, alone, whole, rows, rowSeq, now, sends>>
  BY DEF SaveFails, StoreRowFails, tableVars
<1>2. Shape' /\ HandsInv' /\ OpenedInv'
  BY <1>1, GiveUpKeeps
<1>3. RowsInv'
  BY <1>1 DEF StoreInv, RowsInv, RowBacked
<1>4. QED
  BY <1>2, <1>3 DEF StoreInv

(* The row is stored. *)
LEMMA StoreKeeps ==
    ASSUME StoreInv, NEW s \in Session, StoreRow(s)
    PROVE  StoreInv'
<1>. DEFINE m == message[s]
            row == [id |-> rowSeq + 1, kind |-> m.kind, from |-> s, number |-> m.number,
                    content |-> ContentOf(s), saved |-> m.path, sent_at |-> now]
<1>1. /\ step[s] = "store" /\ GiveUp(s) /\ rowSeq' = rowSeq + 1 /\ rows' = rows \cup {row}
      /\ UNCHANGED <<files, opened, alone, whole, now, sends>>
  BY DEF StoreRow, NextRowId
<1>2. Shape' /\ HandsInv' /\ OpenedInv'
  BY <1>1, GiveUpKeeps
<1>3. /\ m \in Message /\ m.number \in 1..MaxSends /\ rowSeq \in Nat /\ now \in 0..MaxClock
      /\ m.kind # "Text" => /\ m.path \in Path /\ m.path \in DOMAIN files
                            /\ m.number \in whole
  <2>1. Carried(s) /\ Saved(s)
    BY DEF StoreInv, HandsInv
  <2>2. sends \in 0..MaxSends /\ now \in 0..MaxClock /\ MaxSends \in Nat /\ rowSeq \in Nat
    BY Constants DEF StoreInv, Shape, RowsInv
  <2>3. /\ m \in Message /\ m.number \in 1..sends
        /\ m.kind # "Text" => m.path \in Path
    BY <1>1, <2>1 DEF Carried
  <2>4. m.kind # "Text" => m.path \in DOMAIN files /\ m.number \in whole
    BY <1>1, <2>1 DEF Saved
  <2>5. QED
    BY <2>2, <2>3, <2>4
<1>4. ContentOf(s) = IF m.kind = "Image" THEN ImagePath(s) ELSE m.path
  BY DEF ContentOf
<1>5. ContentOf(s) \in Content /\ m.path \in Content
  <2>1. ImagePath(s) \in Path
    BY <1>3 DEF ImagePath, Path
  <2>2. m.path \in Content
    BY <1>3 DEF Message
  <2>3. QED
    BY <1>4, <2>1, <2>2 DEF Content
<1>6. row \in Row /\ row.id \in 1..rowSeq'
  <2>1. m.kind \in Kind
    BY <1>3 DEF Message
  <2>2. QED
    BY <1>1, <1>3, <1>5, <2>1 DEF Row
<1>7. ASSUME NEW r, r = row PROVE RowBacked(r)'
  <2>1. /\ r.kind = m.kind /\ r.number = m.number /\ r.content = ContentOf(s)
        /\ r.saved = m.path
    BY <1>7
  <2>2. CASE m.kind = "Text"
    BY <2>1, <2>2 DEF RowBacked
  <2>3. CASE m.kind # "Text"
    <3>1. m.path \in DOMAIN files' /\ m.number \in whole'
      BY <1>1, <1>3, <2>3
    <3>2. r.kind = "File" => r.content = r.saved
      BY <1>4, <2>1
    <3>3. QED
      BY <2>1, <3>1, <3>2 DEF RowBacked
  <2>4. QED
    BY <2>2, <2>3
<1>8. RowsInv'
  <2>1. ASSUME NEW r \in rows PROVE r.id \in 1..rowSeq /\ r.id # row.id /\ RowBacked(r)'
    <3>1. r.id \in 1..rowSeq /\ RowBacked(r)
      BY DEF StoreInv, RowsInv
    <3>2. row.id = rowSeq + 1
      OBVIOUS
    <3>3. RowBacked(r)'
      BY <1>1, <3>1 DEF RowBacked
    <3>4. QED
      BY <1>3, <3>1, <3>2, <3>3
  <2>2. rowSeq' \in Nat /\ 1..rowSeq \subseteq 1..rowSeq'
    BY <1>1, <1>3
  <2>3. rows' \subseteq Row
    BY <1>1, <1>6 DEF StoreInv, RowsInv
  <2>. HIDE DEF row
  <2>4. \A r \in rows' : r.id \in 1..rowSeq' /\ RowBacked(r)'
    <3>1. ASSUME NEW r \in rows' PROVE r.id \in 1..rowSeq' /\ RowBacked(r)'
      <4>1. CASE r \in rows
        BY <2>1, <2>2, <4>1
      <4>2. CASE r = row
        BY <1>6, <1>7, <4>2
      <4>3. QED
        BY <1>1, <4>1, <4>2
    <3>2. QED
      BY <3>1
  <2>5. \A q, r \in rows' : q.id = r.id => q = r
    BY <1>1, <2>1 DEF StoreInv, RowsInv
  <2>6. QED
    BY <2>2, <2>3, <2>4, <2>5 DEF RowsInv
<1>9. QED
  BY <1>2, <1>8 DEF StoreInv

(* A row goes; the clock goes on. *)
LEMMA OthersKeep ==
    ASSUME StoreInv, (\E id : DeleteRow(id)) \/ Tick
    PROVE  StoreInv'
<1>1. UNCHANGED <<step, message, written, files, opened, alone, whole, rowSeq, sends>>
  BY DEF DeleteRow, Tick, saveVars, tableVars
<1>2. now' \in 0..MaxClock
  <2>1. now \in 0..MaxClock /\ MaxClock \in Nat
    BY Constants DEF StoreInv, Shape
  <2>2. QED
    BY <2>1 DEF DeleteRow, Tick
<1>3. Shape'
  BY <1>1, <1>2 DEF StoreInv, Shape
<1>4. HandsInv'
  <2>1. \A s \in Session : Carried(s)'
    BY <1>1 DEF StoreInv, HandsInv, Carried
  <2>2. \A s \in Session : Saved(s)'
    BY <1>1 DEF StoreInv, HandsInv, Saved
  <2>3. QED
    BY <1>1, <2>1, <2>2 DEF StoreInv, HandsInv, Distinct
<1>5. OpenedInv'
  BY <1>1 DEF StoreInv, OpenedInv
<1>6. RowsInv'
  <2>1. rows' \subseteq rows
    BY DEF DeleteRow, Tick, tableVars
  <2>2. \A r \in rows : RowBacked(r) => RowBacked(r)'
    BY <1>1 DEF RowBacked
  <2>3. QED
    BY <1>1, <2>1, <2>2 DEF StoreInv, RowsInv
<1>7. QED
  BY <1>3, <1>4, <1>5, <1>6 DEF StoreInv

-----------------------------------------------------------------------------
(* The store goes on behind a page. *)
LEMMA PageKeeps ==
    ASSUME StoreInv, PageInv, UNCHANGED pageVars, rowSeq' \in Nat, rowSeq <= rowSeq',
           \A r \in rows' : r \in rows \/ r.id = rowSeq + 1
    PROVE  PageInv'
<1>1. rowSeq \in Nat
  BY DEF StoreInv, RowsInv
<1>2. \A l \in shown : l.id \in 1..rowSeq /\ l.id # rowSeq + 1 /\ l.id \in 1..rowSeq'
  BY <1>1 DEF PageInv
<1>3. ButtonsHitTheirRow'
  BY <1>2 DEF PageInv, ButtonsHitTheirRow, pageVars
<1>4. shown' \subseteq [id : 1..rowSeq', number : 1..MaxSends]
  BY <1>2 DEF PageInv, pageVars
<1>5. QED
  BY <1>3, <1>4 DEF PageInv, pageVars

(* A page is served. *)
LEMMA ListKeeps ==
    ASSUME StoreInv, NEW f \in Filters, ListMessages(f)
    PROVE  PageInv'
<1>. DEFINE Line(r) == [id |-> r.id, number |-> r.number]
<1>1. UNCHANGED <<rows, rowSeq>>
  BY DEF ListMessages, storeVars, tableVars
<1>2. PICK rs \in Newest(Matching(f), LimitOf(f)) :
        IF Renders(rs) THEN page' = "shown" /\ shown' = {Line(r) : r \in rs}
        ELSE page' = "panicked" /\ shown' = {}
  BY DEF ListMessages
<1>3. rs \subseteq rows
  BY DEF Newest, Matching
<1>4. ASSUME NEW l \in shown'
      PROVE  \E r \in rows : l = [id |-> r.id, number |-> r.number]
  <2>1. PICK r \in rs : l = Line(r)
    BY <1>2, <1>4
  <2>2. QED
    BY <1>3, <2>1
<1>5. \A r \in rows : r.number \in 1..MaxSends /\ r.id \in 1..rowSeq
  BY DEF StoreInv, RowsInv, Row
<1>6. shown' \subseteq [id : 1..rowSeq, number : 1..MaxSends]
  BY <1>4, <1>5
<1>7. ButtonsHitTheirRow'
  BY <1>1, <1>4 DEF ButtonsHitTheirRow, StoreInv, RowsInv
<1>8. page' \in {"none", "shown", "panicked"}
  BY <1>2
<1>9. QED
  BY <1>1, <1>6, <1>7, <1>8 DEF PageInv

(* The messages sessions take in are as TakeKeeps wants them. *)
LEMMA SessionKeeps ==
    ASSUME StoreInv, NEW s \in Session, SessionStep(s)
    PROVE  StoreInv'
<1>1. sends \in Nat /\ now \in 0..MaxClock
  BY Constants DEF StoreInv, Shape
<1>2. ASSUME NEW t \in Text, TakeText(s, t) PROVE StoreInv'
  <2>. DEFINE msg == [kind |-> "Text", number |-> sends + 1, size |-> 0,
                      path |-> [dir |-> "none", name |-> t]]
  <2>1. msg \in Message /\ msg.number = sends + 1 /\ msg.kind = "Text"
    BY <1>1 DEF Message, Kind, Content
  <2>2. Take(s, msg, "store")
    BY <1>2 DEF TakeText
  <2>. HIDE DEF msg
  <2>3. QED
    BY <2>1, <2>2, TakeKeeps
<1>3. ASSUME NEW n \in Name, NEW size \in Sizes, TakeFile(s, n, size) PROVE StoreInv'
  <2>. DEFINE msg == [kind |-> "File", number |-> sends + 1, size |-> size,
                      path |-> [dir |-> "files", name |-> n]]
  <2>1. /\ msg \in Message /\ msg.number = sends + 1 /\ msg.kind = "File" /\ msg.path \in Path
    BY <1>1, Constants DEF Message, Kind, Content, Path
  <2>2. Take(s, msg, "create")
    BY <1>3 DEF TakeFile
  <2>. HIDE DEF msg
  <2>3. QED
    BY <2>1, <2>2, TakeKeeps
<1>4. ASSUME NEW size \in Sizes, TakeImage(s, size) PROVE StoreInv'
  <2>. DEFINE msg == [kind |-> "Image", number |-> sends + 1, size |-> size, path |-> ImagePath(s)]
  <2>1. ImagePath(s) \in Path
    BY <1>1, Constants DEF ImagePath, Path
  <2>2. /\ msg \in Message /\ msg.number = sends + 1 /\ msg.kind = "Image"
        /\ msg.path = ImagePath(s)
    BY <1>1, <2>1, Constants DEF Message, Kind, Content
  <2>3. Take(s, msg, "create")
    BY <1>4 DEF TakeImage
  <2>. HIDE DEF msg
  <2>4. QED
    BY <2>1, <2>2, <2>3, TakeKeeps
<1>5. QED
  BY <1>2, <1>3, <1>4, CreateKeeps, WriteKeeps, FailKeeps, StoreKeeps DEF SessionStep

(* Only StoreRow adds a row, under the next id. *)
LEMMA SessionAddsRows ==
    ASSUME StoreInv, NEW s \in Session, SessionStep(s)
    PROVE  /\ rowSeq' \in Nat /\ rowSeq <= rowSeq'
           /\ \A r \in rows' : r \in rows \/ r.id = rowSeq + 1
<1>1. rowSeq \in Nat
  BY DEF StoreInv, RowsInv
<1>2. CASE StoreRow(s)
  BY <1>1, <1>2 DEF StoreRow, NextRowId
<1>3. CASE ~StoreRow(s)
  <2>1. UNCHANGED tableVars
    BY <1>3 DEF SessionStep, TakeText, TakeFile, TakeImage, Take, CreateFile, Open, WriteChunk,
                SaveFails, StoreRowFails
  <2>2. QED
    BY <1>1, <2>1 DEF tableVars
<1>4. QED
  BY <1>2, <1>3

(* Every step preserves the invariant. *)
LEMMA NextArchive == ArchiveInv /\ [Next]_vars => ArchiveInv'
<1>. SUFFICES ASSUME ArchiveInv, [Next]_vars PROVE ArchiveInv'
  OBVIOUS
<1>1. StoreInv /\ PageInv /\ rowSeq \in Nat
  BY DEF ArchiveInv, StoreInv, RowsInv
<1>2. ASSUME StoreInv', PageInv' PROVE ArchiveInv'
  BY <1>2 DEF ArchiveInv, StoreInv
<1>3. ASSUME NEW s \in Session, SessionStep(s), UNCHANGED pageVars PROVE ArchiveInv'
  BY <1>1, <1>2, <1>3, SessionKeeps, SessionAddsRows, PageKeeps
<1>4. CASE Tick /\ UNCHANGED pageVars
  BY <1>1, <1>2, <1>4, OthersKeep, PageKeeps DEF Tick, tableVars
<1>5. ASSUME NEW f \in Filters, ListMessages(f) PROVE ArchiveInv'
  <2>1. UNCHANGED storeVars
    BY <1>5 DEF ListMessages
  <2>2. StoreInv'
    BY <1>1, <2>1 DEF StoreInv, Shape, HandsInv, Distinct, Carried, Saved, OpenedInv, RowsInv,
                      RowBacked, storeVars, saveVars, tableVars
  <2>3. QED
    BY <1>1, <1>2, <1>5, <2>2, ListKeeps
<1>6. CASE DeleteMessage
  <2>1. PICK l \in shown : DeleteRow(l.id)
    BY <1>6 DEF DeleteMessage
  <2>2. UNCHANGED pageVars
    BY <1>6 DEF DeleteMessage
  <2>3. rowSeq' = rowSeq /\ rows' \subseteq rows
    BY <2>1 DEF DeleteRow
  <2>4. QED
    BY <1>1, <1>2, <2>1, <2>2, <2>3, OthersKeep, PageKeeps
<1>7. CASE Crash /\ UNCHANGED pageVars
  BY <1>1, <1>2, <1>7, ArchiveCrashKeeps, PageKeeps DEF Crash, tableVars
<1>8. CASE UNCHANGED vars
  BY <1>8 DEF ArchiveInv, Shape, HandsInv, Distinct, Carried, Saved, OpenedInv, RowsInv, RowBacked,
              PageInv, ButtonsHitTheirRow, vars, storeVars, saveVars, tableVars, pageVars
<1>9. QED
  BY <1>3, <1>4, <1>5, <1>6, <1>7, <1>8 DEF Next

(* Nothing is there at the beginning. *)
LEMMA InitArchive == Init => ArchiveInv
<1>. SUFFICES ASSUME Init PROVE ArchiveInv
  OBVIOUS
<1>1. /\ step = [s \in Session |-> "idle"] /\ message = [s \in Session |-> Nothing]
      /\ written = [s \in Session |-> 0] /\ files = <<>> /\ opened = <<>> /\ rows = {}
      /\ rowSeq = 0 /\ now = 0 /\ sends = 0 /\ alone = {} /\ whole = {} /\ page = "none" /\ shown = {}
  BY DEF Init, StoreInit
<1>2. DOMAIN files = {} /\ DOMAIN opened = {} /\ files = [q \in {} |-> {}] /\ opened = [q \in {} |-> {}]
  BY <1>1
<1>3. Shape
  BY <1>1, <1>2, Constants DEF Shape
<1>4. HandsInv
  BY <1>1 DEF HandsInv, Distinct, Carried, Saved
<1>5. OpenedInv
  BY <1>2 DEF OpenedInv
<1>6. RowsInv /\ PageInv
  BY <1>1 DEF RowsInv, PageInv, ButtonsHitTheirRow
<1>7. QED
  BY <1>3, <1>4, <1>5, <1>6 DEF ArchiveInv

(* The invariant holds of every reachable state. *)
THEOREM ArchiveHolds == Spec => []ArchiveInv
BY InitArchive, NextArchive, PTL DEF Spec

(* What the sessions, the files, the rows and the page are, always. *)
THEOREM ArchiveTyped == Spec => []TypeOK
<1>1. ArchiveInv => TypeOK
  <2>. SUFFICES ASSUME ArchiveInv PROVE TypeOK
    OBVIOUS
  <2>1. /\ sends \in 0..MaxSends /\ sends \in Nat
    BY Constants DEF ArchiveInv, Shape
  <2>2. ASSUME NEW s \in Session PROVE message[s].number \in 0..sends /\ written[s] \in Nat
    <3>1. Carried(s) /\ written[s] \in Nat
      BY DEF ArchiveInv, HandsInv, Shape
    <3>2. CASE step[s] = "idle"
      BY <2>1, <3>1, <3>2 DEF Carried, Nothing
    <3>3. CASE step[s] # "idle"
      BY <2>1, <3>1, <3>3 DEF Carried
    <3>4. QED
      BY <3>1, <3>2, <3>3
  <2>3. DOMAIN opened = DOMAIN files /\ \A p \in DOMAIN files : files[p] \in Seq(Chunk)
    BY DEF ArchiveInv, Shape
  <2>4. StoreTypeOK
    BY <2>1, <2>2, <2>3 DEF ArchiveInv, Shape, RowsInv, StoreTypeOK
  <2>5. QED
    BY <2>4 DEF ArchiveInv, PageInv, TypeOK
<1>2. QED
  BY <1>1, ArchiveHolds, PTL

(* A file whose last opener was alone with it and wrote it to the end      *)
(* holds that message's bytes and no other (utils/src/lib.rs:309-322).     *)
THEOREM FilesAreWhole == Spec => []WholeUnlessShared
<1>1. ArchiveInv => WholeUnlessShared
  BY DEF ArchiveInv, OpenedInv, WholeUnlessShared, Intact, Chunks
<1>2. QED
  BY <1>1, ArchiveHolds, PTL

(* The bytes of a File's or an Image's row were all written before it, to  *)
(* a file that is there and holds just them unless another message shared  *)
(* the path with it or took it since (utils/src/lib.rs:309-322,            *)
(* server/src/lib.rs:323 and 344).                                         *)
THEOREM RowsHaveFiles == Spec => []FilesBehindRows
<1>1. ArchiveInv => FilesBehindRows
  BY DEF ArchiveInv, OpenedInv, RowsInv, RowBacked, FilesBehindRows, Intact, Chunks
<1>2. QED
  BY <1>1, ArchiveHolds, PTL

(* The button of an old page deletes the message it stands beside, or      *)
(* nothing (admin.rs:266 and 498).                                         *)
THEOREM ButtonsHit == Spec => []ButtonsHitTheirRow
<1>1. ArchiveInv => ButtonsHitTheirRow
  BY DEF ArchiveInv, PageInv
<1>2. QED
  BY <1>1, ArchiveHolds, PTL
=============================================================================
