---------------------------- MODULE MessageProofs ----------------------------
(****************************************************************************)
(* A message on its way from the task that stores it to the clients that    *)
(* hear it: what they are shown was stored first, once, in the order of its *)
(* session, and counted on its way in; and each of them hears it in its     *)
(* place, unless lag took it.  Passes says how a message passes through a   *)
(* task, Hears what a step of a task can do to its socket, its cursor and   *)
(* the channel; every step of a task is one of the cases of each, and the   *)
(* two invariants go by them.                                               *)
(****************************************************************************)
EXTENDS CrabChatProofs, FiniteSetTheorems

(* Stored once, in order. *)

(* Where a task has a message on its hands. *)
Working == {"save", "store", "announce"}

(* A step of a leaves the other tasks and their messages alone. *)
Apart(a) == \A b \in Addr : b # a => pc'[b] = pc[b] /\ held'[b] = held[b]

(* A failed store may have used up an id, or even stored the message. *)
IdTaken ==
    \/ UNCHANGED <<messageSeq, committed>>
    \/ /\ messageSeq' = messageSeq + 1
       /\ committed' \in {committed, committed \cup {messageSeq + 1}}

Elsewhere(a) ==
    /\ pc[a] \notin Working /\ pc'[a] \notin Working
    /\ messagesSent' \in {messagesSent, messagesSent + 1}
    /\ \/ UNCHANGED log
       \/ \E kind \in {"join", "left"} :
              log' = Append(log, [from |-> a, kind |-> kind, row |-> 0])
    /\ UNCHANGED <<messageSeq, committed>>

TakesIn(a) ==
    /\ pc[a] \notin Working /\ pc'[a] \in {"save", "store"}
    /\ messagesSent' = messagesSent + 1
    /\ UNCHANGED <<log, messageSeq, committed>>

Carries(a) ==
    /\ pc[a] \in Working /\ pc'[a] \in {"store", "storeFailed"}
    /\ IdTaken
    /\ UNCHANGED <<log, messagesSent>>

Stores(a) ==
    /\ pc[a] \in Working /\ pc'[a] = "announce"
    /\ held'[a] = messageSeq + 1
    /\ messageSeq' = messageSeq + 1
    /\ committed' = committed \cup {messageSeq + 1}
    /\ UNCHANGED <<log, messagesSent>>

Shows(a) ==
    /\ pc[a] = "announce" /\ pc'[a] \notin Working
    /\ log' = Append(log, [from |-> a, kind |-> "chat", row |-> held[a]])
    /\ UNCHANGED <<messageSeq, committed, messagesSent>>

Passes(a) ==
    Apart(a) /\ (Elsewhere(a) \/ TakesIn(a) \/ Carries(a) \/ Stores(a) \/ Shows(a))

(* What the lemmas below need of the types. *)
Formed ==
    /\ pc \in [Addr -> Step]
    /\ held \in [Addr -> Nat]
    /\ log \in Seq(Entry)
    /\ messageSeq \in Nat
    /\ messagesSent \in Nat

(* The type invariant gives it. *)
LEMMA FormHolds == TypeInv => Formed
BY DEF TypeInv, ServerInv, ChatTypeOK, ChannelTypeOK, DatabaseTypeOK, Formed

-----------------------------------------------------------------------------
(* The steps of a login, *)
LEMMA LoginPasses ==
    ASSUME Formed, NEW a \in Addr, LoginStep(a)
    PROVE  Passes(a)
<1>. USE DEF Formed, Passes, Apart, Elsewhere, Working, At, Goto, metricVars, channelVars, dbVars
<1>1. CASE Accept(a)
  BY <1>1 DEF Accept
<1>2. ASSUME NEW n \in Username, ReceiveLogin(a, n) PROVE Passes(a)
  BY <1>2 DEF ReceiveLogin
<1>3. CASE ReceiveBadLogin(a)
  BY <1>3 DEF ReceiveBadLogin
<1>4. CASE ReceiveNoLogin(a)
  BY <1>4 DEF ReceiveNoLogin
<1>5. CASE Refuse(a)
  BY <1>5 DEF Refuse
<1>6. CASE CheckFree(a)
  BY <1>6 DEF CheckFree
<1>7. CASE CheckTaken(a)
  BY <1>7 DEF CheckTaken
<1>8. CASE RefuseInUse(a)
  BY <1>8 DEF RefuseInUse
<1>9. CASE SelectUser(a)
  BY <1>9 DEF SelectUser
<1>10. CASE InsertUser(a)
  BY <1>10 DEF InsertUser, InsertUserRow
<1>11. CASE InsertUserTwice(a)
  BY <1>11 DEF InsertUserTwice, InsertUserConflict
<1>12. CASE InsertUserFails(a)
  BY <1>12 DEF InsertUserFails
<1>13. CASE Welcome(a)
  BY <1>13 DEF Welcome
<1>14. CASE AnnounceJoin(a)
  BY <1>14 DEF AnnounceJoin, Send
<1>15. CASE FinalError(a)
  BY <1>15 DEF FinalError
<1>16. CASE Register(a)
  BY <1>16 DEF Register
<1>17. CASE SubscribeToFeed(a)
  BY <1>17 DEF SubscribeToFeed, Subscribe
<1>18. QED
  BY <1>1, <1>2, <1>3, <1>4, <1>5, <1>6, <1>7, <1>8, <1>9, <1>10, <1>11,
     <1>12, <1>13, <1>14, <1>15, <1>16, <1>17 DEF LoginStep

(* of the loop, *)
LEMMA LoopPasses ==
    ASSUME Formed, NEW a \in Addr, LoopStep(a)
    PROVE  Passes(a)
<1>. USE DEF Formed, Passes, Apart, Working, At, Goto, metricVars, channelVars, dbVars
<1>1. CASE ReceiveText(a)
  BY <1>1 DEF ReceiveText, ReceiveAt, CountReceive, TakesIn
<1>2. CASE ReceiveBinary(a)
  BY <1>2 DEF ReceiveBinary, ReceiveAt, CountReceive, TakesIn
<1>3. CASE ReceiveOther(a)
  BY <1>3 DEF ReceiveOther, ReceiveAt, CountReceive, Elsewhere
<1>4. CASE ReceiveMalformed(a)
  BY <1>4 DEF ReceiveMalformed, ReceiveAt, CountReceive, Elsewhere
<1>5. CASE ReceiveBroken(a)
  BY <1>5 DEF ReceiveBroken, ReceiveAt, CountReceive, Elsewhere
<1>6. CASE ReceiveClosed(a)
  BY <1>6 DEF ReceiveClosed, ReceiveAt, CountReceive, Elsewhere
<1>7. CASE Complain(a)
  BY <1>7 DEF Complain, Elsewhere
<1>8. CASE ComplainLeave(a)
  BY <1>8 DEF ComplainLeave, Elsewhere
<1>9. CASE SaveBinary(a)
  BY <1>9 DEF SaveBinary, Carries, IdTaken
<1>10. CASE StoreMessage(a)
  BY <1>10 DEF StoreMessage, InsertMessageRow, Stores, Carries, IdTaken
<1>11. CASE StoreOrphan(a)
  BY <1>11 DEF StoreOrphan, InsertMessageOrphan, Carries, IdTaken
<1>12. CASE StoreFails(a)
  BY <1>12 DEF StoreFails, Carries, IdTaken
<1>13. CASE ReportStoreFailed(a)
  BY <1>13 DEF ReportStoreFailed, Elsewhere
<1>14. CASE Announce(a)
  BY <1>14 DEF Announce, Send, Shows
<1>15. CASE RecvBroadcast(a)
  BY <1>15 DEF RecvBroadcast, TakeEntry, Elsewhere
<1>16. CASE RecvLagged(a)
  BY <1>16 DEF RecvLagged, SkipOverwritten, taskVars, Elsewhere
<1>17. CASE Forward(a)
  BY <1>17 DEF Forward, Elsewhere
<1>18. QED
  BY <1>1, <1>2, <1>3, <1>4, <1>5, <1>6, <1>7, <1>8, <1>9, <1>10, <1>11,
     <1>12, <1>13, <1>14, <1>15, <1>16, <1>17 DEF LoopStep

(* and of the cleanup, and so every step of a task. *)
LEMMA TaskPasses ==
    ASSUME Formed, NEW a \in Addr, TaskStep(a)
    PROVE  Passes(a)
<1>. USE DEF Formed, Passes, Apart, Elsewhere, Working, At, Goto, metricVars, channelVars, dbVars
<1>1. CASE AnnounceLeft(a)
  BY <1>1 DEF AnnounceLeft, Send
<1>2. CASE Unregister(a)
  BY <1>2 DEF Unregister, Unsubscribe
<1>3. CASE Exit(a)
  BY <1>3 DEF Exit
<1>4. QED
  BY <1>1, <1>2, <1>3, LoginPasses, LoopPasses DEF TaskStep, CleanupStep

-----------------------------------------------------------------------------
Chats == {i \in 1..Len(log) : log[i].kind = "chat"}
Busy  == {a \in Addr : pc[a] \in Working}

IdsCommitted == committed \subseteq 1..messageSeq

ChatsStored == \A i \in Chats : log[i].row \in committed

ChatsOnce == \A i, j \in Chats : log[i].row = log[j].row => i = j

ChatsInOrder == \A i, j \in Chats : log[i].from = log[j].from /\ i < j => log[i].row < log[j].row

(* A message about to be shown is stored, newer than what its session has  *)
(* shown, and shown by nobody else.                                        *)
HeldIsNew ==
    \A a \in Addr : pc[a] = "announce" =>
        /\ held[a] \in committed
        /\ \A i \in Chats :
              log[i].row # held[a] /\ (log[i].from = a => log[i].row < held[a])
        /\ \A b \in Addr : pc[b] = "announce" /\ held[b] = held[a] => b = a

CountInv == IsFiniteSet(Busy) /\ Cardinality(Chats) + Cardinality(Busy) <= messagesSent

StoredInv == IdsCommitted /\ ChatsStored /\ ChatsOnce /\ ChatsInOrder /\ HeldIsNew

-----------------------------------------------------------------------------
(* There are finitely many entries. *)
LEMMA ChatsFinite == Formed => IsFiniteSet(Chats) /\ Cardinality(Chats) \in Nat
<1>. SUFFICES ASSUME Formed PROVE IsFiniteSet(Chats) /\ Cardinality(Chats) \in Nat
  OBVIOUS
<1>1. Len(log) \in Int /\ 1 \in Int
  BY DEF Formed
<1>2. IsFiniteSet(1..Len(log))
  BY <1>1, FS_Interval
<1>3. Chats \subseteq 1..Len(log)
  BY DEF Chats
<1>4. QED
  BY <1>2, <1>3, FS_Subset, FS_CardinalityType

(* What one more entry makes of the chat entries. *)
LEMMA AppendChats ==
    ASSUME log \in Seq(Entry), NEW e \in Entry, log' = Append(log, e)
    PROVE  /\ Chats' = IF e.kind = "chat" THEN Chats \cup {Len(log) + 1} ELSE Chats
           /\ Len(log) + 1 \notin Chats
           /\ Chats \subseteq 1..Len(log)
           /\ log'[Len(log) + 1] = e
           /\ \A i \in Chats : log'[i] = log[i]
<1>1. /\ Len(log') = Len(log) + 1 /\ Len(log) \in Nat
      /\ log'[Len(log) + 1] = e
      /\ \A i \in 1..Len(log) : log'[i] = log[i]
  OBVIOUS
<1>2. QED
  BY <1>1 DEF Chats

(* An entry that is no chat, or none at all, is nothing to StoredInv. *)
LEMMA OtherEntry ==
    ASSUME Formed,
           \/ UNCHANGED log
           \/ \E e \in Entry : e.kind # "chat" /\ log' = Append(log, e)
    PROVE  Chats' = Chats /\ \A i \in Chats : log'[i] = log[i]
<1>1. CASE UNCHANGED log
  BY <1>1 DEF Chats
<1>2. ASSUME NEW e \in Entry, e.kind # "chat", log' = Append(log, e)
      PROVE  Chats' = Chats /\ \A i \in Chats : log'[i] = log[i]
  BY <1>2, AppendChats DEF Formed
<1>3. QED
  BY <1>1, <1>2

(* Neither is an id that comes to nothing. *)
LEMMA NothingShown ==
    ASSUME Formed, StoredInv, IdTaken,
           Chats' = Chats, \A i \in Chats : log'[i] = log[i],
           \A b \in Addr : pc'[b] = "announce" => pc[b] = "announce" /\ held'[b] = held[b]
    PROVE  StoredInv'
<1>1. IdsCommitted' /\ committed \subseteq committed'
  <2>1. committed \subseteq 1..messageSeq /\ messageSeq \in Nat
    BY DEF StoredInv, IdsCommitted, Formed
  <2>2. CASE UNCHANGED <<messageSeq, committed>>
    BY <2>1, <2>2 DEF IdsCommitted
  <2>3. CASE messageSeq' = messageSeq + 1 /\ committed' \in {committed, committed \cup {messageSeq + 1}}
    BY <2>1, <2>3 DEF IdsCommitted
  <2>4. QED
    BY <2>2, <2>3 DEF IdTaken
<1>2. ChatsStored' /\ ChatsOnce' /\ ChatsInOrder'
  BY <1>1 DEF StoredInv, ChatsStored, ChatsOnce, ChatsInOrder
<1>3. HeldIsNew'
  BY <1>1 DEF StoredInv, HeldIsNew
<1>4. QED
  BY <1>1, <1>2, <1>3 DEF StoredInv

(* A step of a task keeps StoredInv *)
LEMMA PassKeeps ==
    ASSUME Formed, StoredInv, NEW a \in Addr, Passes(a)
    PROVE  StoredInv'
<1>1. \A b \in Addr : b # a => pc'[b] = pc[b] /\ held'[b] = held[b]
  BY DEF Passes, Apart
<1>2. CASE Elsewhere(a) \/ TakesIn(a) \/ Carries(a)
  <2>1. IdTaken
    BY <1>2 DEF Elsewhere, TakesIn, Carries, IdTaken
  <2>2. Chats' = Chats /\ \A i \in Chats : log'[i] = log[i]
    <3>1. ASSUME NEW kind \in {"join", "left"},
                 log' = Append(log, [from |-> a, kind |-> kind, row |-> 0])
          PROVE  \E e \in Entry : e.kind # "chat" /\ log' = Append(log, e)
      BY <3>1 DEF Entry
    <3>2. QED
      BY <1>2, <3>1, OtherEntry DEF Elsewhere, TakesIn, Carries
  <2>3. pc'[a] # "announce"
    BY <1>2 DEF Elsewhere, TakesIn, Carries, Working
  <2>4. QED
    BY <1>1, <2>1, <2>2, <2>3, NothingShown
<1>3. CASE Stores(a)
  <2>1. /\ Chats' = Chats /\ UNCHANGED log
        /\ committed' = committed \cup {messageSeq + 1}
        /\ held'[a] = messageSeq + 1
        /\ pc'[a] = "announce"
    BY <1>3 DEF Stores, Chats
  <2>2. IdsCommitted' /\ \A id \in committed : id \in Nat /\ id < messageSeq + 1
    <3>1. committed \subseteq 1..messageSeq /\ messageSeq \in Nat /\ messageSeq' = messageSeq + 1
      BY <1>3 DEF Stores, StoredInv, IdsCommitted, Formed
    <3>2. \A id \in committed : id \in 1..messageSeq
      BY <3>1
    <3>3. \A id \in 1..messageSeq :
              id \in Nat /\ id < messageSeq + 1 /\ id \in 1..(messageSeq + 1)
      BY <3>1
    <3>4. messageSeq + 1 \in 1..(messageSeq + 1)
      BY <3>1
    <3>5. IdsCommitted'
      BY <2>1, <3>1, <3>2, <3>3, <3>4 DEF IdsCommitted
    <3>6. QED
      BY <3>2, <3>3, <3>5
  <2>3. ChatsStored' /\ ChatsOnce' /\ ChatsInOrder'
    BY <2>1 DEF StoredInv, ChatsStored, ChatsOnce, ChatsInOrder
  <2>4. \A i \in Chats : log[i].row \in Nat /\ log[i].row < messageSeq + 1
    BY <2>2 DEF StoredInv, ChatsStored
  <2>5. \A b \in Addr : pc[b] = "announce" => held[b] < messageSeq + 1 /\ held[b] \in Nat
    BY <2>2 DEF StoredInv, HeldIsNew
  <2>6. messageSeq + 1 \in Nat
    BY DEF Formed
  <2>7. HeldIsNew'
    <3>1. \A b \in Addr : pc'[b] = "announce" => held'[b] \in committed'
      BY <1>1, <2>1 DEF StoredInv, HeldIsNew
    <3>2. \A b \in Addr : pc'[b] = "announce" => \A i \in Chats :
              log[i].row # held'[b] /\ (log[i].from = b => log[i].row < held'[b])
      BY <1>1, <2>1, <2>4, <2>6 DEF StoredInv, HeldIsNew
    <3>3. \A b, c \in Addr :
              pc'[b] = "announce" /\ pc'[c] = "announce" /\ held'[b] = held'[c] => b = c
      BY <1>1, <2>1, <2>5, <2>6 DEF StoredInv, HeldIsNew
    <3>4. QED
      BY <2>1, <3>1, <3>2, <3>3 DEF HeldIsNew
  <2>8. QED
    BY <2>2, <2>3, <2>7 DEF StoredInv
<1>4. CASE Shows(a)
  <2>. DEFINE new == Len(log) + 1
              e   == [from |-> a, kind |-> "chat", row |-> held[a]]
  <2>1. e \in Entry /\ log' = Append(log, e)
    BY <1>4 DEF Shows, Entry, Formed
  <2>2. /\ Chats' = Chats \cup {new} /\ new \notin Chats
        /\ Chats \subseteq 1..Len(log)
        /\ log'[new] = e
        /\ \A i \in Chats : log'[i] = log[i]
    BY <2>1, AppendChats DEF Formed
  <2>3. /\ held[a] \in committed
        /\ \A i \in Chats :
              log[i].row # held[a] /\ (log[i].from = a => log[i].row < held[a])
        /\ \A b \in Addr : pc[b] = "announce" /\ held[b] = held[a] => b = a
    BY <1>4 DEF Shows, StoredInv, HeldIsNew
  <2>4. UNCHANGED <<messageSeq, committed>> /\ pc'[a] # "announce"
    BY <1>4 DEF Shows, Working
  <2>5. IdsCommitted'
    BY <2>4 DEF StoredInv, IdsCommitted
  <2>6. e.from = a /\ e.row = held[a]
    OBVIOUS
  <2>7. ChatsStored'
    BY <2>2, <2>3, <2>4, <2>6 DEF StoredInv, ChatsStored
  <2>8. ChatsOnce'
    BY <2>2, <2>3, <2>6 DEF StoredInv, ChatsOnce
  <2>9. ChatsInOrder'
    <3>1. \A i \in Chats : i \in Nat /\ i < new
      BY <2>2 DEF Formed
    <3>2. new \in Nat
      BY DEF Formed
    <3>3. QED
      BY <2>2, <2>3, <2>6, <3>1, <3>2 DEF StoredInv, ChatsInOrder
  <2>10. HeldIsNew'
    <3>1. ASSUME NEW b \in Addr, pc'[b] = "announce"
          PROVE  b # a /\ pc[b] = "announce" /\ held'[b] = held[b] /\ held[b] # held[a]
      BY <1>1, <2>3, <2>4, <3>1
    <3>2. QED
      BY <2>2, <2>4, <2>6, <3>1 DEF StoredInv, HeldIsNew
  <2>11. QED
    BY <2>5, <2>7, <2>8, <2>9, <2>10 DEF StoredInv
<1>5. QED
  BY <1>2, <1>3, <1>4 DEF Passes

(* and the count. *)
LEMMA PassCounts ==
    ASSUME Formed, CountInv, NEW a \in Addr, Passes(a)
    PROVE  CountInv'
<1>1. \A b \in Addr : b # a => pc'[b] = pc[b]
  BY DEF Passes, Apart
<1>2. /\ IsFiniteSet(Chats) /\ Cardinality(Chats) \in Nat
      /\ IsFiniteSet(Busy) /\ Cardinality(Busy) \in Nat
      /\ messagesSent \in Nat
  BY ChatsFinite, FS_CardinalityType DEF CountInv, Formed
<1>3. CASE Elsewhere(a)
  <2>1. Busy' = Busy
    BY <1>1, <1>3 DEF Elsewhere, Busy
  <2>2. ASSUME NEW kind \in {"join", "left"},
               log' = Append(log, [from |-> a, kind |-> kind, row |-> 0])
        PROVE  \E e \in Entry : e.kind # "chat" /\ log' = Append(log, e)
    BY <2>2 DEF Entry
  <2>3. Chats' = Chats
    BY <1>3, <2>2, OtherEntry DEF Elsewhere
  <2>4. messagesSent' \in {messagesSent, messagesSent + 1}
    BY <1>3 DEF Elsewhere
  <2>5. QED
    BY <1>2, <2>1, <2>3, <2>4 DEF CountInv
<1>4. CASE TakesIn(a)
  <2>1. Busy' = Busy \cup {a} /\ a \notin Busy
    BY <1>1, <1>4 DEF TakesIn, Busy, Working
  <2>2. IsFiniteSet(Busy') /\ Cardinality(Busy') = Cardinality(Busy) + 1
    BY <1>2, <2>1, FS_AddElement
  <2>3. Chats' = Chats /\ messagesSent' = messagesSent + 1
    BY <1>4 DEF TakesIn, Chats
  <2>4. QED
    BY <1>2, <2>2, <2>3 DEF CountInv
<1>5. CASE Carries(a) \/ Stores(a)
  <2>1. Busy' \subseteq Busy /\ Chats' = Chats /\ UNCHANGED messagesSent
    BY <1>1, <1>5 DEF Carries, Stores, Busy, Chats
  <2>2. IsFiniteSet(Busy') /\ Cardinality(Busy') <= Cardinality(Busy)
    BY <1>2, <2>1, FS_Subset
  <2>3. Cardinality(Busy') \in Nat
    BY <2>2, FS_CardinalityType
  <2>4. QED
    BY <1>2, <2>1, <2>2, <2>3 DEF CountInv
<1>6. CASE Shows(a)
  <2>1. Busy' = Busy \ {a} /\ a \in Busy
    BY <1>1, <1>6 DEF Shows, Busy, Working
  <2>2. IsFiniteSet(Busy') /\ Cardinality(Busy') = Cardinality(Busy) - 1
    BY <1>2, <2>1, FS_RemoveElement
  <2>3. [from |-> a, kind |-> "chat", row |-> held[a]] \in Entry
    BY DEF Entry, Formed
  <2>4. Chats' = Chats \cup {Len(log) + 1} /\ Len(log) + 1 \notin Chats
    BY <1>6, <2>3, AppendChats DEF Shows, Formed
  <2>5. Cardinality(Chats') = Cardinality(Chats) + 1
    BY <1>2, <2>4, FS_AddElement
  <2>6. UNCHANGED messagesSent
    BY <1>6 DEF Shows
  <2>7. QED
    BY <1>2, <2>2, <2>5, <2>6 DEF CountInv
<1>7. QED
  BY <1>3, <1>4, <1>5, <1>6 DEF Passes

(* The admin stores nothing, and what it says is no chat. *)
LEMMA AdminShowsNothing ==
    ASSUME Formed, StoredInv, CountInv, AdminAction
    PROVE  StoredInv' /\ CountInv'
<1>1. UNCHANGED <<pc, held, messagesSent>>
  BY DEF AdminAction, chatVars, taskVars, metricVars
<1>2. /\ UNCHANGED <<messageSeq, committed>>
      /\ \/ UNCHANGED log
         \/ \E e \in Entry : e.kind # "chat" /\ log' = Append(log, e)
  <2>1. ASSUME Send(AdminAddr, "removed", 0)
        PROVE  \E e \in Entry : e.kind # "chat" /\ log' = Append(log, e)
    BY <2>1 DEF Send, Entry
  <2>2. ASSUME NEW r \in Request, DeletionStep(r)
        PROVE  /\ UNCHANGED <<messageSeq, committed>>
               /\ UNCHANGED log \/ Send(AdminAddr, "removed", 0)
    BY <2>2 DEF DeletionStep, StartDelete, DeleteMessages, DeleteUserRow, Cascade, Commit, Abort,
                Notify, channelVars, dbVars
  <2>3. ASSUME NEW m \in messages, DeleteMessage(m) PROVE UNCHANGED <<messageSeq, committed, log>>
    BY <2>3 DEF DeleteMessage, channelVars
  <2>4. QED
    BY <2>1, <2>2, <2>3 DEF AdminAction, AdminStep
<1>3. Chats' = Chats /\ \A i \in Chats : log'[i] = log[i]
  BY <1>2, OtherEntry
<1>4. StoredInv'
  BY <1>1, <1>2, <1>3, NothingShown DEF IdTaken
<1>5. CountInv'
  BY <1>1, <1>3 DEF CountInv, Busy
<1>6. QED
  BY <1>4, <1>5

(* A new process has shown nothing and works on nothing. *)
LEMMA FreshShowsNothing ==
    ASSUME pc = NoTasks, log = <<>>, messagesSent = 0
    PROVE  ChatsStored /\ ChatsOnce /\ ChatsInOrder /\ HeldIsNew /\ CountInv
<1>1. Chats = {} /\ Busy = {}
  BY DEF Chats, Busy, NoTasks, Working
<1>2. QED
  BY <1>1, FS_EmptySet
     DEF ChatsStored, ChatsOnce, ChatsInOrder, HeldIsNew, CountInv, NoTasks

-----------------------------------------------------------------------------
(* The two invariants are inductive. *)
LEMMA NextStored ==
    TypeInv /\ StoredInv /\ CountInv /\ [Next]_vars => StoredInv' /\ CountInv'
<1>. SUFFICES ASSUME TypeInv, StoredInv, CountInv, [Next]_vars PROVE StoredInv' /\ CountInv'
  OBVIOUS
<1>1. Formed
  BY FormHolds
<1>2. ASSUME NEW a \in Addr, ChatStep(a) PROVE StoredInv' /\ CountInv'
  BY <1>1, <1>2, TaskPasses, PassKeeps, PassCounts DEF ChatStep
<1>3. CASE AdminAction
  BY <1>1, <1>3, AdminShowsNothing
<1>4. CASE Crash
  <2>1. /\ pc' = NoTasks /\ log' = <<>> /\ messagesSent' = 0
        /\ UNCHANGED <<messageSeq, committed>>
    BY <1>4 DEF Crash, ServerRestart, NewChannel, RollBackAll
  <2>2. ChatsStored' /\ ChatsOnce' /\ ChatsInOrder' /\ HeldIsNew' /\ CountInv'
    <3>1. Chats' = {} /\ Busy' = {}
      BY <2>1 DEF Chats, Busy, NoTasks, Working
    <3>2. QED
      BY <2>1, <3>1, FS_EmptySet
         DEF ChatsStored, ChatsOnce, ChatsInOrder, HeldIsNew, CountInv, NoTasks
  <2>3. QED
    BY <2>1, <2>2 DEF StoredInv, IdsCommitted
<1>5. CASE UNCHANGED vars
  <2>1. UNCHANGED <<pc, held, log, messageSeq, committed, messagesSent>>
    BY <1>5 DEF vars, chatVars, taskVars, metricVars, channelVars, dbVars
  <2>2. QED
    BY <2>1 DEF StoredInv, IdsCommitted, ChatsStored, ChatsOnce, ChatsInOrder, HeldIsNew,
                CountInv, Chats, Busy
<1>6. QED
  BY <1>2, <1>3, <1>4, <1>5 DEF Next, Finished

(* They hold throughout. *)
THEOREM StoredHolds == Spec => [](TypeInv /\ StoredInv /\ CountInv)
<1>1. Init => TypeInv /\ StoredInv /\ CountInv
  <2>1. Init => pc = NoTasks /\ log = <<>> /\ messagesSent = 0 /\ committed = {}
    BY DEF Init, ChatInit, ChannelInit, DatabaseInit
  <2>2. QED
    BY <2>1, InitTyped, FreshShowsNothing DEF StoredInv, IdsCommitted
<1>2. TypeInv /\ StoredInv /\ CountInv /\ [Next]_vars => (TypeInv /\ StoredInv /\ CountInv)'
  BY NextTyped, NextStored
<1>3. QED
  BY <1>1, <1>2, PTL DEF Spec

(* No client is shown a message that is not stored, or one message twice. *)
THEOREM NothingShownUnstored == Spec => []AnnouncedWasCommitted
<1>1. StoredInv => AnnouncedWasCommitted
  BY DEF StoredInv, ChatsStored, ChatsOnce, Chats, AnnouncedWasCommitted
<1>2. QED
  BY <1>1, StoredHolds, PTL

(* A session's messages are shown in the order in which it sent them. *)
THEOREM SessionsInOrder == Spec => []OwnOrderKept
<1>1. StoredInv => OwnOrderKept
  BY DEF StoredInv, ChatsInOrder, Chats, OwnOrderKept
<1>2. QED
  BY <1>1, StoredHolds, PTL

(* Every message under way or shown has been counted. *)
THEOREM AllCounted == Spec => []EveryMessageCounted
<1>1. CountInv => EveryMessageCounted
  BY DEF CountInv, Chats, Busy, Working, EveryMessageCounted
<1>2. QED
  BY <1>1, StoredHolds, PTL

-----------------------------------------------------------------------------
(* What a client hears: LoginOk first, then the broadcasts in order, none  *)
(* twice, none of its own, and none missing but what lag took.  FeedInv is *)
(* one client's share of the invariant, and does not mind the other tasks, *)
(* which only make the log longer.                                         *)

(* A task that has said nothing to its peer, *)
Fresh == {"idle", "login", "refuse", "check", "inUse", "select", "insert", "welcome"}

(* that has said LoginOk, *)
Greeted == {"join", "register", "subscribe"}

(* that has a receiver and no entry of it in hand, *)
Reading == {"loop", "save", "store", "announce", "complain", "complainLeave", "storeFailed"}

(* and every one that has a receiver. *)
Following == Reading \cup {"forward", "bye", "unregister"}

ErrorReply   == [kind |-> "Error", pos |-> 0]
LoginOkReply == [kind |-> "LoginOk", pos |-> 0]
TextReply(p) == [kind |-> "Text", pos |-> p]

(* The log only grows. *)
LogExtends ==
    /\ Len(log') \in Nat /\ Len(log) <= Len(log')
    /\ \A p \in 1..Len(log) : log'[p] = log[p]

(* Nothing happens to a's socket, cursor or history. *)
Untouched(a) ==
    /\ pc'[a] = pc[a] /\ inbox'[a] = inbox[a] /\ next'[a] = next[a]
    /\ since'[a] = since[a] /\ missed'[a] = missed[a]

SameCursor(a) == next'[a] = next[a] /\ since'[a] = since[a] /\ missed'[a] = missed[a]

(* Moving on, with at most an error to the peer. *)
Proceeds(a) ==
    /\ SameCursor(a)
    /\ inbox'[a] \in {inbox[a], Append(inbox[a], ErrorReply)}
    /\ \/ pc[a] \in Fresh /\ pc'[a] \in Fresh /\ inbox'[a] = inbox[a]
       \/ pc[a] \in Fresh \cup {"rejected"} /\ pc'[a] \in {"rejected", "exit"}
       \/ pc[a] \in Greeted /\ pc'[a] \in Greeted
       \/ pc[a] \in Reading /\ pc'[a] \in Reading \cup {"bye"}
       \/ pc[a] \in {"forward", "bye"} /\ pc'[a] \in {"bye", "unregister"}

Greets(a) ==
    /\ pc[a] \in Fresh /\ pc'[a] \in Greeted
    /\ inbox'[a] = Append(inbox[a], LoginOkReply)
    /\ SameCursor(a)

Follows(a) ==
    /\ pc[a] \in Greeted /\ pc'[a] = "loop"
    /\ next'[a] = Len(log) + 1 /\ since'[a] = Len(log) + 1
    /\ inbox'[a] = inbox[a] /\ missed'[a] = missed[a]

Takes(a) ==
    /\ pc[a] = "loop" /\ next[a] <= Len(log)
    /\ next'[a] = next[a] + 1
    /\ IF log[next[a]].from = a THEN pc'[a] = "loop" ELSE pc'[a] = "forward"
    /\ inbox'[a] = inbox[a] /\ since'[a] = since[a] /\ missed'[a] = missed[a]

Skips(a) ==
    /\ pc[a] = "loop" /\ pc'[a] = "loop"
    /\ next'[a] \in Nat /\ next[a] <= next'[a] /\ next'[a] <= Len(log) + 1
    /\ missed'[a] = missed[a] \cup next[a]..(next'[a] - 1)
    /\ inbox'[a] = inbox[a] /\ since'[a] = since[a]

Forwards(a) ==
    /\ pc[a] = "forward" /\ pc'[a] = "loop"
    /\ inbox'[a] = Append(inbox[a], TextReply(next[a] - 1))
    /\ SameCursor(a)

Unfollows(a) ==
    /\ pc[a] \in Following /\ pc'[a] = "exit" /\ next'[a] = 0
    /\ inbox'[a] = inbox[a] /\ since'[a] = since[a]

Closes(a) ==
    /\ pc[a] = "exit" /\ pc'[a] = "idle"
    /\ inbox'[a] = <<>> /\ next'[a] = next[a]

Hears(a) ==
    /\ LogExtends
    /\ \A b \in Addr : b # a => Untouched(b)
    /\ \/ Proceeds(a) \/ Greets(a) \/ Follows(a) \/ Takes(a)
       \/ Skips(a) \/ Forwards(a) \/ Unfollows(a) \/ Closes(a)

(* What the lemmas below need of the types. *)
Heard ==
    /\ pc \in [Addr -> Step]
    /\ inbox \in [Addr -> Seq(Reply)]
    /\ next \in [Addr -> Nat]
    /\ since \in [Addr -> Nat]
    /\ missed \in [Addr -> SUBSET Nat]
    /\ log \in Seq(Entry)

(* The type invariant gives it. *)
LEMMA HeardHolds == TypeInv => Heard
BY DEF TypeInv, ServerInv, ChatTypeOK, ChannelTypeOK, Heard

(* A send extends the log, and so does leaving it alone. *)
LEMMA SendExtends ==
    ASSUME log \in Seq(Entry), UNCHANGED log \/ \E e : log' = Append(log, e)
    PROVE  LogExtends
<1>1. CASE UNCHANGED log
  BY <1>1 DEF LogExtends
<1>2. ASSUME NEW e, log' = Append(log, e) PROVE LogExtends
  BY <1>2 DEF LogExtends
<1>3. QED
  BY <1>1, <1>2

-----------------------------------------------------------------------------
(* The steps of a login, *)
LEMMA LoginHears ==
    ASSUME Heard, NEW a \in Addr, LoginStep(a)
    PROVE  Hears(a)
<1>. USE SendExtends DEF Heard, Hears, Proceeds, SameCursor, Untouched, Fresh, Greeted, At, Goto,
                         TryWriteError, Write, ErrorReply, historyVars, channelVars
<1>1. CASE Accept(a)
  BY <1>1 DEF Accept
<1>2. ASSUME NEW n \in Username, ReceiveLogin(a, n) PROVE Hears(a)
  BY <1>2 DEF ReceiveLogin
<1>3. CASE ReceiveBadLogin(a)
  BY <1>3 DEF ReceiveBadLogin
<1>4. CASE ReceiveNoLogin(a)
  BY <1>4 DEF ReceiveNoLogin
<1>5. CASE Refuse(a)
  BY <1>5 DEF Refuse
<1>6. CASE CheckFree(a)
  BY <1>6 DEF CheckFree
<1>7. CASE CheckTaken(a)
  BY <1>7 DEF CheckTaken
<1>8. CASE RefuseInUse(a)
  BY <1>8 DEF RefuseInUse
<1>9. CASE SelectUser(a)
  BY <1>9 DEF SelectUser
<1>10. CASE InsertUser(a)
  BY <1>10 DEF InsertUser
<1>11. CASE InsertUserTwice(a)
  BY <1>11 DEF InsertUserTwice
<1>12. CASE InsertUserFails(a)
  BY <1>12 DEF InsertUserFails
<1>13. CASE Welcome(a)
  BY <1>13 DEF Welcome, Greets, LoginOkReply
<1>14. CASE AnnounceJoin(a)
  BY <1>14 DEF AnnounceJoin, Send
<1>15. CASE FinalError(a)
  BY <1>15 DEF FinalError
<1>16. CASE Register(a)
  BY <1>16 DEF Register
<1>17. CASE SubscribeToFeed(a)
  BY <1>17 DEF SubscribeToFeed, Subscribe, SubscribeAt, Follows
<1>18. QED
  BY <1>1, <1>2, <1>3, <1>4, <1>5, <1>6, <1>7, <1>8, <1>9, <1>10, <1>11,
     <1>12, <1>13, <1>14, <1>15, <1>16, <1>17 DEF LoginStep

(* of the loop, *)
LEMMA LoopHears ==
    ASSUME Heard, NEW a \in Addr, LoopStep(a)
    PROVE  Hears(a)
<1>. USE SendExtends DEF Heard, Hears, Proceeds, SameCursor, Untouched, Reading, At, Goto,
                         TryWriteError, Write, ErrorReply, historyVars, channelVars
<1>1. CASE ReceiveText(a)
  BY <1>1 DEF ReceiveText, ReceiveAt
<1>2. CASE ReceiveBinary(a)
  BY <1>2 DEF ReceiveBinary, ReceiveAt
<1>3. CASE ReceiveOther(a)
  BY <1>3 DEF ReceiveOther, ReceiveAt
<1>4. CASE ReceiveMalformed(a)
  BY <1>4 DEF ReceiveMalformed, ReceiveAt
<1>5. CASE ReceiveBroken(a)
  BY <1>5 DEF ReceiveBroken, ReceiveAt
<1>6. CASE ReceiveClosed(a)
  BY <1>6 DEF ReceiveClosed, ReceiveAt
<1>7. CASE Complain(a)
  BY <1>7 DEF Complain
<1>8. CASE ComplainLeave(a)
  BY <1>8 DEF ComplainLeave
<1>9. CASE SaveBinary(a)
  BY <1>9 DEF SaveBinary
<1>10. CASE StoreMessage(a)
  BY <1>10 DEF StoreMessage
<1>11. CASE StoreOrphan(a)
  BY <1>11 DEF StoreOrphan
<1>12. CASE StoreFails(a)
  BY <1>12 DEF StoreFails
<1>13. CASE ReportStoreFailed(a)
  BY <1>13 DEF ReportStoreFailed
<1>14. CASE Announce(a)
  BY <1>14 DEF Announce, Send
<1>15. CASE RecvBroadcast(a)
  BY <1>15 DEF RecvBroadcast, TakeEntry, HasEntry, Takes
<1>16. CASE RecvLagged(a)
  <2>1. Oldest \in Nat /\ Oldest <= Len(log) + 1
    BY BroadcastAssumption DEF Oldest
  <2>2. next[a] < Oldest
    BY <1>16 DEF RecvLagged, SkipOverwritten, Lagging
  <2>3. Skips(a)
    BY <1>16, <2>1, <2>2 DEF RecvLagged, SkipOverwritten, taskVars, Skips
  <2>4. QED
    BY <1>16, <2>3 DEF RecvLagged, SkipOverwritten, taskVars
<1>17. CASE Forward(a)
  BY <1>17 DEF Forward, Forwards, TextReply
<1>18. QED
  BY <1>1, <1>2, <1>3, <1>4, <1>5, <1>6, <1>7, <1>8, <1>9, <1>10, <1>11,
     <1>12, <1>13, <1>14, <1>15, <1>16, <1>17 DEF LoopStep

(* and of the cleanup, and so every step of a task. *)
LEMMA TaskHears ==
    ASSUME Heard, NEW a \in Addr, TaskStep(a)
    PROVE  Hears(a)
<1>. USE SendExtends DEF Heard, Hears, Proceeds, SameCursor, Untouched, At, Goto, historyVars,
                         channelVars
<1>1. CASE AnnounceLeft(a)
  BY <1>1 DEF AnnounceLeft, Send
<1>2. CASE Unregister(a)
  BY <1>2 DEF Unregister, Unsubscribe, Unfollows, Following
<1>3. CASE Exit(a)
  BY <1>3 DEF Exit, Closes
<1>4. QED
  BY <1>1, <1>2, <1>3, LoginHears, LoopHears DEF TaskStep, CleanupStep

-----------------------------------------------------------------------------
(* The first answer decides: LoginOk stands at the head or nowhere. *)
GreetInv(a) ==
    /\ pc[a] \in Fresh => inbox[a] = <<>>
    /\ pc[a] = "rejected" => \A i \in 1..Len(inbox[a]) : inbox[a][i].kind = "Error"
    /\ pc[a] \in Greeted \cup Following => inbox[a] # <<>> /\ inbox[a][1].kind = "LoginOk"
    /\ \A i \in 1..Len(inbox[a]) :
          /\ inbox[a][i].kind = "LoginOk" => i = 1
          /\ inbox[a][i].kind = "Text" => inbox[a][1].kind = "LoginOk"

(* The cursor lies between where a subscribed and the end of the log. *)
CursorInv(a) ==
    IF pc[a] \in Following
    THEN 1 <= since[a] /\ since[a] <= next[a] /\ next[a] <= Len(log) + 1
    ELSE next[a] = 0

(* Everything written so far is older than the cursor, and older than the  *)
(* entry in hand if there is one.                                          *)
OlderInv(a) ==
    /\ pc[a] \notin Following \cup {"exit"} =>
          \A i \in 1..Len(inbox[a]) : inbox[a][i].kind # "Text" /\ inbox[a][i].pos = 0
    /\ pc[a] \in Following => \A i \in 1..Len(inbox[a]) : inbox[a][i].pos < next[a]
    /\ pc[a] = "forward" =>
          /\ since[a] < next[a]
          /\ log[next[a] - 1].from # a
          /\ \A i \in 1..Len(inbox[a]) : inbox[a][i].pos < next[a] - 1

OrderInv(a) ==
    \A i \in 1..Len(inbox[a]) : inbox[a][i].kind = "Text" =>
        /\ inbox[a][i].pos \in 1..Len(log)
        /\ since[a] <= inbox[a][i].pos
        /\ log[inbox[a][i].pos].from # a
        /\ \A j \in 1..(i - 1) : inbox[a][j].pos < inbox[a][i].pos

LossInv(a) ==
    pc[a] \in Following => \A p \in since[a]..(next[a] - 1) :
        \/ log[p].from = a
        \/ p \in Delivered(a)
        \/ p \in missed[a]
        \/ p = next[a] - 1 /\ pc[a] \in {"forward", "bye", "unregister"}

FeedInv(a) == GreetInv(a) /\ CursorInv(a) /\ OlderInv(a) /\ OrderInv(a) /\ LossInv(a)

-----------------------------------------------------------------------------
(* One more reply leaves those before it where they are. *)
LEMMA OneMore ==
    ASSUME Heard, NEW a \in Addr, NEW r \in Reply, inbox'[a] = Append(inbox[a], r)
    PROVE  /\ Len(inbox[a]) \in Nat
           /\ Len(inbox'[a]) = Len(inbox[a]) + 1
           /\ inbox'[a][Len(inbox[a]) + 1] = r
           /\ \A i \in 1..Len(inbox[a]) : inbox'[a][i] = inbox[a][i]
BY DEF Heard

(* What was delivered stays delivered. *)
LEMMA DeliveredGrows ==
    ASSUME Heard, NEW a \in Addr, NEW r \in Reply, inbox'[a] = Append(inbox[a], r)
    PROVE  Delivered(a) \subseteq Delivered(a)' /\ (r.kind = "Text" => r.pos \in Delivered(a)')
<1>1. /\ Len(inbox[a]) \in Nat
      /\ Len(inbox'[a]) = Len(inbox[a]) + 1
      /\ inbox'[a][Len(inbox[a]) + 1] = r
      /\ \A i \in 1..Len(inbox[a]) : inbox'[a][i] = inbox[a][i]
  BY OneMore
<1>2. QED
  BY <1>1 DEF Delivered

(* A longer log keeps the entries there were, *)
LEMMA EntriesStay ==
    ASSUME Heard, LogExtends, NEW p \in 1..Len(log)
    PROVE  p \in 1..Len(log') /\ log'[p] = log[p]
BY DEF Heard, LogExtends

(* and so the order of what was written. *)
LEMMA OrderStays ==
    ASSUME Heard, LogExtends, NEW a \in Addr, OrderInv(a),
           inbox'[a] = inbox[a], since'[a] = since[a]
    PROVE  OrderInv(a)'
<1>1. ASSUME NEW i \in 1..Len(inbox[a]), inbox[a][i].kind = "Text"
      PROVE  /\ inbox[a][i].pos \in 1..Len(log')
             /\ since[a] <= inbox[a][i].pos
             /\ log'[inbox[a][i].pos].from # a
             /\ \A j \in 1..(i - 1) : inbox[a][j].pos < inbox[a][i].pos
  <2>1. /\ inbox[a][i].pos \in 1..Len(log)
        /\ since[a] <= inbox[a][i].pos
        /\ log[inbox[a][i].pos].from # a
        /\ \A j \in 1..(i - 1) : inbox[a][j].pos < inbox[a][i].pos
    BY <1>1 DEF OrderInv
  <2>2. inbox[a][i].pos \in 1..Len(log') /\ log'[inbox[a][i].pos] = log[inbox[a][i].pos]
    BY <2>1, EntriesStay
  <2>3. QED
    BY <2>1, <2>2
<1>2. QED
  BY <1>1 DEF OrderInv

(* The positions between a's subscription and its cursor hold entries. *)
LEMMA PassedStay ==
    ASSUME Heard, LogExtends, NEW a \in Addr, CursorInv(a), pc[a] \in Following,
           NEW p \in since[a]..(next[a] - 1)
    PROVE  log'[p] = log[p]
<1>1. /\ since[a] \in Nat /\ next[a] \in Nat /\ Len(log) \in Nat
      /\ 1 <= since[a] /\ since[a] <= next[a] /\ next[a] <= Len(log) + 1
  BY DEF Heard, CursorInv
<1>2. p \in 1..Len(log)
  BY <1>1
<1>3. QED
  BY <1>2, EntriesStay

(* Other tasks' steps only make the log longer. *)
LEMMA Bystander ==
    ASSUME Heard, NEW a \in Addr, FeedInv(a), LogExtends, Untouched(a)
    PROVE  FeedInv(a)'
<1>. USE DEF FeedInv, Untouched
<1>1. GreetInv(a)'
  BY DEF GreetInv
<1>2. CursorInv(a)'
  BY DEF CursorInv, LogExtends, Heard
<1>3. OlderInv(a)'
  <2>1. ASSUME pc[a] = "forward" PROVE log'[next[a] - 1] = log[next[a] - 1]
    <3>1. pc[a] \in Following
      BY <2>1 DEF Following
    <3>2. /\ since[a] \in Nat /\ next[a] \in Nat
          /\ 1 <= since[a] /\ since[a] < next[a]
      BY <2>1, <3>1 DEF OlderInv, CursorInv, Heard
    <3>3. next[a] - 1 \in since[a]..(next[a] - 1)
      BY <3>2
    <3>4. QED
      BY <3>1, <3>3, PassedStay
  <2>2. QED
    BY <2>1 DEF OlderInv
<1>4. OrderInv(a)'
  BY OrderStays
<1>5. LossInv(a)'
  <2>1. Delivered(a)' = Delivered(a)
    BY DEF Delivered
  <2>2. QED
    BY <2>1, PassedStay DEF LossInv
<1>6. QED
  BY <1>1, <1>2, <1>3, <1>4, <1>5

(* A task that says no more than an error keeps its own share. *)
LEMMA ProceedKeeps ==
    ASSUME Heard, NEW a \in Addr, FeedInv(a), LogExtends, Proceeds(a)
    PROVE  FeedInv(a)'
<1>1. /\ inbox[a] \in Seq(Reply) /\ Len(inbox[a]) \in Nat
      /\ Len(inbox'[a]) \in {Len(inbox[a]), Len(inbox[a]) + 1}
      /\ \A i \in 1..Len(inbox[a]) : inbox'[a][i] = inbox[a][i]
      /\ \A i \in 1..Len(inbox'[a]) : i \in 1..Len(inbox[a]) \/ inbox'[a][i] = ErrorReply
  <2>1. ErrorReply \in Reply
    BY DEF ErrorReply, Reply
  <2>2. CASE inbox'[a] = inbox[a]
    BY <2>2 DEF Heard
  <2>3. CASE inbox'[a] = Append(inbox[a], ErrorReply)
    <3>1. /\ Len(inbox[a]) \in Nat
          /\ Len(inbox'[a]) = Len(inbox[a]) + 1
          /\ inbox'[a][Len(inbox[a]) + 1] = ErrorReply
          /\ \A i \in 1..Len(inbox[a]) : inbox'[a][i] = inbox[a][i]
      BY <2>1, <2>3, OneMore
    <3>2. \A i \in 1..Len(inbox'[a]) : i \in 1..Len(inbox[a]) \/ i = Len(inbox[a]) + 1
      BY <3>1
    <3>3. QED
      BY <3>1, <3>2 DEF Heard
  <2>4. QED
    BY <2>2, <2>3 DEF Proceeds
<1>2. ErrorReply.kind = "Error" /\ ErrorReply.pos = 0
  BY DEF ErrorReply
<1>3. SameCursor(a)
  BY DEF Proceeds
<1>4. GreetInv(a)'
  <2>1. pc'[a] \in Fresh => inbox'[a] = <<>>
    BY DEF FeedInv, GreetInv, Proceeds, Fresh, Greeted, Reading
  <2>2. pc'[a] = "rejected" => \A i \in 1..Len(inbox[a]) : inbox[a][i].kind = "Error"
    BY DEF FeedInv, GreetInv, Proceeds, Fresh, Greeted, Reading
  <2>3. pc'[a] \in Greeted \cup Following => pc[a] \in Greeted \cup Following
    BY DEF Proceeds, Fresh, Greeted, Following, Reading
  <2>4. pc[a] \in Greeted \cup Following =>
            /\ 1 \in 1..Len(inbox[a]) /\ inbox[a][1].kind = "LoginOk"
            /\ inbox'[a] # <<>> /\ inbox'[a][1].kind = "LoginOk"
    BY <1>1 DEF FeedInv, GreetInv
  <2>5. \A i \in 1..Len(inbox'[a]) : inbox'[a][i].kind = "LoginOk" => i = 1
    BY <1>1, <1>2 DEF FeedInv, GreetInv
  <2>6. \A i \in 1..Len(inbox'[a]) : inbox'[a][i].kind = "Text" => inbox'[a][1].kind = "LoginOk"
    <3>1. ASSUME NEW i \in 1..Len(inbox'[a]), inbox'[a][i].kind = "Text"
          PROVE  inbox'[a][1].kind = "LoginOk"
      <4>1. i \in 1..Len(inbox[a]) /\ inbox[a][i].kind = "Text" /\ 1 \in 1..Len(inbox[a])
        BY <1>1, <1>2, <3>1
      <4>2. QED
        BY <1>1, <4>1 DEF FeedInv, GreetInv
    <3>2. QED
      BY <3>1
  <2>7. QED
    BY <1>1, <1>2, <2>1, <2>2, <2>3, <2>4, <2>5, <2>6 DEF GreetInv
<1>5. CursorInv(a)'
  BY <1>3 DEF FeedInv, CursorInv, SameCursor, Proceeds, Fresh, Greeted, Following, Reading,
              LogExtends, Heard
<1>6. OlderInv(a)'
  <2>1. /\ pc'[a] \notin Following \cup {"exit"} => pc[a] \notin Following \cup {"exit"}
        /\ pc'[a] \in Following => pc[a] \in Following
        /\ pc'[a] # "forward"
    BY DEF Proceeds, Fresh, Greeted, Following, Reading
  <2>2. pc[a] \in Following => 0 < next[a] /\ next'[a] = next[a]
    BY <1>3 DEF FeedInv, CursorInv, SameCursor, Heard
  <2>3. QED
    BY <1>1, <1>2, <2>1, <2>2 DEF FeedInv, OlderInv
<1>7. OrderInv(a)'
  <2>1. ASSUME NEW i \in 1..Len(inbox'[a]), inbox'[a][i].kind = "Text"
        PROVE  /\ inbox'[a][i].pos \in 1..Len(log')
               /\ since'[a] <= inbox'[a][i].pos
               /\ log'[inbox'[a][i].pos].from # a
               /\ \A j \in 1..(i - 1) : inbox'[a][j].pos < inbox'[a][i].pos
    <3>1. i \in 1..Len(inbox[a]) /\ inbox'[a][i] = inbox[a][i]
      BY <1>1, <1>2, <2>1
    <3>2. \A j \in 1..(i - 1) : inbox'[a][j] = inbox[a][j]
      BY <1>1, <3>1
    <3>3. /\ inbox[a][i].pos \in 1..Len(log)
          /\ since[a] <= inbox[a][i].pos
          /\ log[inbox[a][i].pos].from # a
          /\ \A j \in 1..(i - 1) : inbox[a][j].pos < inbox[a][i].pos
      BY <2>1, <3>1 DEF FeedInv, OrderInv
    <3>4. QED
      BY <1>3, <3>1, <3>2, <3>3, EntriesStay DEF SameCursor
  <2>2. QED
    BY <2>1 DEF OrderInv
<1>8. LossInv(a)'
  <2>1. Delivered(a) \subseteq Delivered(a)'
    BY <1>1 DEF Delivered
  <2>2. pc'[a] \in Following => /\ pc[a] \in Following
                                /\ pc[a] \in {"forward", "bye", "unregister"} =>
                                      pc'[a] \in {"forward", "bye", "unregister"}
    BY DEF Proceeds, Fresh, Greeted, Following, Reading
  <2>3. \A p \in since[a]..(next[a] - 1) : pc[a] \in Following => log'[p] = log[p]
    BY PassedStay DEF FeedInv
  <2>4. QED
    BY <1>3, <2>1, <2>2, <2>3 DEF FeedInv, LossInv, SameCursor
<1>9. QED
  BY <1>4, <1>5, <1>6, <1>7, <1>8 DEF FeedInv

(* LoginOk is the first thing a client hears. *)
LEMMA GreetKeeps ==
    ASSUME Heard, NEW a \in Addr, FeedInv(a), LogExtends, Greets(a)
    PROVE  FeedInv(a)'
<1>1. inbox'[a] = <<LoginOkReply>>
  <2>1. inbox[a] = <<>> /\ inbox'[a] = Append(inbox[a], LoginOkReply)
    BY DEF FeedInv, GreetInv, Greets
  <2>2. QED
    BY <2>1
<1>2. Len(inbox'[a]) = 1 /\ inbox'[a][1].kind = "LoginOk" /\ inbox'[a][1].pos = 0
  BY <1>1 DEF LoginOkReply
<1>3. inbox'[a] # <<>>
  BY <1>1
<1>4. pc[a] \notin Following /\ pc'[a] \notin Following \cup Fresh \cup {"rejected", "forward"}
  BY DEF Greets, Fresh, Greeted, Following, Reading
<1>5. GreetInv(a)'
  BY <1>2, <1>3, <1>4 DEF GreetInv
<1>6. CursorInv(a)' /\ LossInv(a)'
  BY <1>4 DEF FeedInv, CursorInv, LossInv, Greets, SameCursor
<1>7. OlderInv(a)' /\ OrderInv(a)'
  BY <1>2, <1>4 DEF OlderInv, OrderInv
<1>8. QED
  BY <1>5, <1>6, <1>7 DEF FeedInv

(* A receiver starts behind everything there is. *)
LEMMA FollowKeeps ==
    ASSUME Heard, NEW a \in Addr, FeedInv(a), LogExtends, Follows(a)
    PROVE  FeedInv(a)'
<1>1. pc[a] \notin Following \cup {"exit"} /\ pc'[a] \in Following /\ pc'[a] # "forward"
  BY DEF Follows, Greeted, Following, Reading
<1>2. Len(inbox'[a]) = Len(inbox[a]) /\ Len(log) \in Nat
  BY DEF Follows, Heard
<1>3. GreetInv(a)'
  BY <1>1 DEF FeedInv, GreetInv, Follows, Fresh, Following, Reading
<1>4. CursorInv(a)'
  BY <1>1, <1>2 DEF CursorInv, Follows, LogExtends
<1>5. OlderInv(a)' /\ OrderInv(a)'
  BY <1>1, <1>2 DEF FeedInv, OlderInv, OrderInv, Follows
<1>6. LossInv(a)'
  BY <1>2 DEF LossInv, Follows
<1>7. QED
  BY <1>3, <1>4, <1>5, <1>6 DEF FeedInv

(* An entry in hand is newer than all that was written. *)
LEMMA TakeKeeps ==
    ASSUME Heard, NEW a \in Addr, FeedInv(a), LogExtends, Takes(a)
    PROVE  FeedInv(a)'
<1>1. pc[a] \in Following /\ pc'[a] \in Following /\ pc'[a] \in {"loop", "forward"}
  BY DEF Takes, Following, Reading
<1>2. /\ next[a] \in Nat /\ since[a] \in Nat /\ Len(log) \in Nat
      /\ 1 <= since[a] /\ since[a] <= next[a] /\ next[a] <= Len(log)
      /\ next'[a] = next[a] + 1
      /\ inbox'[a] = inbox[a] /\ since'[a] = since[a] /\ missed'[a] = missed[a]
      /\ \A i \in 1..Len(inbox[a]) : inbox[a][i].pos \in Nat /\ inbox[a][i].pos < next[a]
  <2>1. \A i \in 1..Len(inbox[a]) : inbox[a][i] \in Reply
    BY DEF Heard
  <2>2. \A i \in 1..Len(inbox[a]) : inbox[a][i].pos \in Nat
    BY <2>1 DEF Reply
  <2>3. next[a] \in Nat /\ since[a] \in Nat /\ Len(log) \in Nat
    BY DEF Heard
  <2>4. QED
    BY <1>1, <2>2, <2>3 DEF Takes, FeedInv, CursorInv, OlderInv
<1>3. GreetInv(a)'
  BY <1>1, <1>2 DEF FeedInv, GreetInv, Fresh
<1>4. CursorInv(a)'
  BY <1>1, <1>2 DEF CursorInv, LogExtends
<1>5. OlderInv(a)'
  <2>1. \A i \in 1..Len(inbox'[a]) : inbox'[a][i].pos < next'[a]
    BY <1>2
  <2>2. next'[a] - 1 = next[a] /\ since'[a] < next'[a]
    BY <1>2
  <2>3. pc'[a] = "forward" => log[next[a]].from # a
    BY DEF Takes
  <2>4. log'[next[a]] = log[next[a]]
    BY <1>2 DEF LogExtends
  <2>5. QED
    BY <1>1, <1>2, <2>1, <2>2, <2>3, <2>4 DEF OlderInv
<1>6. OrderInv(a)'
  BY <1>2, OrderStays DEF FeedInv
<1>7. LossInv(a)'
  <2>1. Delivered(a)' = Delivered(a)
    BY <1>2 DEF Delivered
  <2>2. ASSUME NEW p \in since[a]..next[a]
        PROVE  \/ log'[p].from = a
               \/ p \in Delivered(a)
               \/ p \in missed[a]
               \/ p = next[a] /\ pc'[a] = "forward"
    <3>1. log'[p] = log[p]
      BY <1>2 DEF LogExtends
    <3>2. CASE p = next[a]
      BY <3>1, <3>2 DEF Takes
    <3>3. CASE p # next[a]
      <4>1. p \in since[a]..(next[a] - 1) /\ pc[a] = "loop"
        BY <1>2, <3>3 DEF Takes
      <4>2. QED
        BY <1>1, <3>1, <4>1 DEF FeedInv, LossInv
    <3>4. QED
      BY <3>2, <3>3
  <2>3. QED
    BY <1>2, <2>1, <2>2 DEF LossInv
<1>8. QED
  BY <1>3, <1>4, <1>5, <1>6, <1>7 DEF FeedInv

(* What lag takes is accounted for. *)
LEMMA SkipKeeps ==
    ASSUME Heard, NEW a \in Addr, FeedInv(a), LogExtends, Skips(a)
    PROVE  FeedInv(a)'
<1>1. pc[a] = "loop" /\ pc'[a] = "loop" /\ "loop" \in Following
  BY DEF Skips, Following, Reading
<1>2. /\ next[a] \in Nat /\ since[a] \in Nat /\ Len(log) \in Nat /\ next'[a] \in Nat
      /\ 1 <= since[a] /\ since[a] <= next[a] /\ next[a] <= next'[a] /\ next'[a] <= Len(log) + 1
      /\ inbox'[a] = inbox[a] /\ since'[a] = since[a]
      /\ missed'[a] = missed[a] \cup next[a]..(next'[a] - 1)
      /\ \A i \in 1..Len(inbox[a]) : inbox[a][i].pos \in Nat /\ inbox[a][i].pos < next[a]
  <2>1. \A i \in 1..Len(inbox[a]) : inbox[a][i] \in Reply
    BY DEF Heard
  <2>2. QED
    BY <1>1, <2>1 DEF Skips, FeedInv, CursorInv, OlderInv, Heard, Reply
<1>3. GreetInv(a)'
  BY <1>1, <1>2 DEF FeedInv, GreetInv
<1>4. CursorInv(a)'
  BY <1>1, <1>2 DEF CursorInv, LogExtends
<1>5. OlderInv(a)'
  BY <1>1, <1>2 DEF OlderInv
<1>6. OrderInv(a)'
  BY <1>2, OrderStays DEF FeedInv
<1>7. LossInv(a)'
  <2>1. Delivered(a)' = Delivered(a)
    BY <1>2 DEF Delivered
  <2>2. ASSUME NEW p \in since[a]..(next'[a] - 1)
        PROVE  log'[p].from = a \/ p \in Delivered(a) \/ p \in missed'[a]
    <3>1. CASE p < next[a]
      <4>1. p \in since[a]..(next[a] - 1) /\ p \in 1..Len(log)
        BY <1>2, <3>1
      <4>2. log'[p] = log[p]
        BY <4>1 DEF LogExtends
      <4>3. QED
        BY <1>1, <1>2, <4>1, <4>2 DEF FeedInv, LossInv
    <3>2. CASE ~(p < next[a])
      <4>1. p \in next[a]..(next'[a] - 1)
        BY <1>2, <3>2
      <4>2. QED
        BY <1>2, <4>1
    <3>3. QED
      BY <3>1, <3>2
  <2>3. QED
    BY <1>2, <2>1, <2>2 DEF LossInv
<1>8. QED
  BY <1>3, <1>4, <1>5, <1>6, <1>7 DEF FeedInv

(* Writing the entry in hand. *)
LEMMA ForwardKeeps ==
    ASSUME Heard, NEW a \in Addr, FeedInv(a), LogExtends, Forwards(a)
    PROVE  FeedInv(a)'
<1>. DEFINE n == Len(inbox[a])
            r == TextReply(next[a] - 1)
<1>1. pc[a] = "forward" /\ pc'[a] = "loop" /\ {"forward", "loop"} \subseteq Following
  BY DEF Forwards, Following, Reading
<1>2. /\ next[a] \in Nat /\ since[a] \in Nat /\ Len(log) \in Nat
      /\ 1 <= since[a] /\ since[a] < next[a] /\ next[a] <= Len(log) + 1
      /\ next'[a] = next[a] /\ since'[a] = since[a] /\ missed'[a] = missed[a]
      /\ log[next[a] - 1].from # a
      /\ \A i \in 1..n : inbox[a][i].pos \in Nat /\ inbox[a][i].pos < next[a] - 1
  <2>1. \A i \in 1..n : inbox[a][i] \in Reply
    BY DEF Heard
  <2>2. QED
    BY <1>1, <2>1 DEF Forwards, SameCursor, FeedInv, CursorInv, OlderInv, Heard, Reply
<1>3. r \in Reply /\ r.kind = "Text" /\ r.pos = next[a] - 1 /\ inbox'[a] = Append(inbox[a], r)
  BY <1>2 DEF TextReply, Reply, Forwards
<1>. HIDE DEF r
<1>4. /\ n \in Nat /\ Len(inbox'[a]) = n + 1 /\ inbox'[a][n + 1] = r
      /\ \A i \in 1..n : inbox'[a][i] = inbox[a][i]
  BY <1>3, OneMore
<1>5. GreetInv(a)'
  <2>1. inbox[a] # <<>> /\ inbox[a][1].kind = "LoginOk"
    BY <1>1 DEF FeedInv, GreetInv
  <2>2. 1 \in 1..n /\ inbox'[a] # <<>> /\ inbox'[a][1].kind = "LoginOk"
    <3>1. n # 0
      BY <2>1 DEF Heard
    <3>2. QED
      BY <1>4, <2>1, <3>1
  <2>3. \A i \in 1..Len(inbox'[a]) : inbox'[a][i].kind = "LoginOk" => i = 1
    BY <1>3, <1>4 DEF FeedInv, GreetInv
  <2>4. QED
    BY <1>1, <2>2, <2>3 DEF GreetInv, Fresh
<1>6. CursorInv(a)'
  BY <1>1, <1>2 DEF CursorInv, LogExtends
<1>7. OlderInv(a)'
  <2>1. \A i \in 1..Len(inbox'[a]) : i \in 1..n \/ inbox'[a][i] = r
    BY <1>4
  <2>2. ASSUME NEW i \in 1..Len(inbox'[a]) PROVE inbox'[a][i].pos < next'[a]
    <3>1. CASE i \in 1..n
      <4>1. inbox'[a][i] = inbox[a][i]
        BY <1>4, <3>1
      <4>2. inbox[a][i].pos \in Nat /\ inbox[a][i].pos < next[a] - 1 /\ next[a] \in Nat
        BY <1>2, <3>1
      <4>3. inbox[a][i].pos < next[a] /\ next'[a] = next[a]
        BY <1>2, <4>2
      <4>4. QED
        BY <4>1, <4>3
    <3>2. CASE inbox'[a][i] = r
      BY <1>2, <1>3, <3>2
    <3>3. QED
      BY <2>1, <3>1, <3>2
  <2>3. QED
    BY <1>1, <2>2 DEF OlderInv
<1>8. OrderInv(a)'
  <2>1. ASSUME NEW i \in 1..n, inbox'[a][i].kind = "Text"
        PROVE  /\ inbox'[a][i].pos \in 1..Len(log')
               /\ since'[a] <= inbox'[a][i].pos
               /\ log'[inbox'[a][i].pos].from # a
               /\ \A j \in 1..(i - 1) : inbox'[a][j].pos < inbox'[a][i].pos
    <3>1. \A j \in 1..(i - 1) : inbox'[a][j] = inbox[a][j]
      BY <1>4
    <3>2. inbox'[a][i] = inbox[a][i]
      BY <1>4
    <3>3. /\ inbox[a][i].pos \in 1..Len(log)
          /\ since[a] <= inbox[a][i].pos
          /\ log[inbox[a][i].pos].from # a
          /\ \A j \in 1..(i - 1) : inbox[a][j].pos < inbox[a][i].pos
      BY <2>1, <3>2 DEF FeedInv, OrderInv
    <3>4. QED
      BY <1>2, <3>1, <3>2, <3>3, EntriesStay
  <2>2. /\ r.pos \in 1..Len(log')
        /\ since'[a] <= r.pos
        /\ log'[r.pos].from # a
        /\ \A j \in 1..n : inbox'[a][j].pos < r.pos
    <3>1. r.pos \in 1..Len(log) /\ log[r.pos].from # a
      BY <1>2, <1>3
    <3>2. r.pos \in 1..Len(log') /\ log'[r.pos] = log[r.pos]
      BY <3>1, EntriesStay
    <3>3. \A j \in 1..n : inbox'[a][j].pos < r.pos
      BY <1>2, <1>3, <1>4
    <3>4. since'[a] <= r.pos
      BY <1>2, <1>3
    <3>5. QED
      BY <3>1, <3>2, <3>3, <3>4
  <2>3. \A i \in 1..Len(inbox'[a]) : i \in 1..n \/ i = n + 1
    BY <1>4
  <2>4. \A j \in 1..((n + 1) - 1) : j \in 1..n
    BY <1>4
  <2>5. ASSUME NEW i \in 1..Len(inbox'[a]), i = n + 1
        PROVE  /\ inbox'[a][i] = r
               /\ \A j \in 1..(i - 1) : inbox'[a][j].pos < r.pos
    BY <1>4, <2>2, <2>4, <2>5
  <2>6. QED
    BY <2>1, <2>2, <2>3, <2>5 DEF OrderInv
<1>9. LossInv(a)'
  <2>1. Delivered(a) \subseteq Delivered(a)' /\ next[a] - 1 \in Delivered(a)'
    BY <1>3, DeliveredGrows
  <2>2. ASSUME NEW p \in since[a]..(next[a] - 1), p # next[a] - 1
        PROVE  log'[p].from = a \/ p \in Delivered(a) \/ p \in missed[a]
    <3>1. log'[p] = log[p]
      BY <1>2 DEF LogExtends
    <3>2. QED
      BY <1>1, <2>2, <3>1 DEF FeedInv, LossInv
  <2>3. QED
    BY <1>2, <2>1, <2>2 DEF LossInv
<1>10. QED
  BY <1>5, <1>6, <1>7, <1>8, <1>9 DEF FeedInv

(* Leaving, and closing the socket. *)
LEMMA EndKeeps ==
    ASSUME Heard, NEW a \in Addr, FeedInv(a), LogExtends, Unfollows(a) \/ Closes(a)
    PROVE  FeedInv(a)'
<1>1. CASE Unfollows(a)
  <2>1. /\ inbox'[a] = inbox[a] /\ since'[a] = since[a] /\ next'[a] = 0
        /\ pc'[a] \notin Fresh \cup Greeted \cup Following \cup {"rejected", "forward"}
        /\ pc'[a] = "exit"
    BY <1>1 DEF Unfollows, Fresh, Greeted, Following, Reading
  <2>2. GreetInv(a)' /\ CursorInv(a)' /\ OlderInv(a)' /\ LossInv(a)'
    BY <2>1 DEF FeedInv, GreetInv, CursorInv, OlderInv, LossInv
  <2>3. OrderInv(a)'
    BY <2>1, OrderStays DEF FeedInv
  <2>4. QED
    BY <2>2, <2>3 DEF FeedInv
<1>2. CASE Closes(a)
  <2>1. /\ inbox'[a] = <<>> /\ next'[a] = 0
        /\ pc'[a] \notin Greeted \cup Following \cup {"rejected", "forward"}
    BY <1>2 DEF FeedInv, CursorInv, Closes, Greeted, Following, Reading
  <2>2. QED
    BY <2>1 DEF FeedInv, GreetInv, CursorInv, OlderInv, OrderInv, LossInv
<1>3. QED
  BY <1>1, <1>2

-----------------------------------------------------------------------------
FeedsInv == \A a \in Addr : FeedInv(a)

(* A step of a task keeps its own share and everybody else's. *)
LEMMA HearKeeps ==
    ASSUME Heard, FeedsInv, NEW a \in Addr, Hears(a)
    PROVE  FeedsInv'
<1>1. FeedInv(a)'
  BY ProceedKeeps, GreetKeeps, FollowKeeps, TakeKeeps, SkipKeeps, ForwardKeeps, EndKeeps
     DEF FeedsInv, Hears
<1>2. \A b \in Addr : b # a => FeedInv(b)'
  BY Bystander DEF FeedsInv, Hears
<1>3. QED
  BY <1>1, <1>2 DEF FeedsInv

(* The admin only makes the log longer. *)
LEMMA AdminHears ==
    ASSUME Heard, FeedsInv, AdminAction
    PROVE  FeedsInv'
<1>1. UNCHANGED <<pc, inbox, since, missed>>
  BY DEF AdminAction, chatVars, taskVars, historyVars
<1>2. UNCHANGED next /\ (UNCHANGED log \/ Send(AdminAddr, "removed", 0))
  <2>1. ASSUME NEW r \in Request, DeletionStep(r)
        PROVE  UNCHANGED next /\ (UNCHANGED log \/ Send(AdminAddr, "removed", 0))
    BY <2>1 DEF DeletionStep, StartDelete, DeleteMessages, DeleteUserRow, Cascade, Commit, Abort,
                Notify, Send, channelVars
  <2>2. ASSUME NEW m \in messages, DeleteMessage(m) PROVE UNCHANGED <<next, log>>
    BY <2>2 DEF DeleteMessage, channelVars
  <2>3. QED
    BY <2>1, <2>2 DEF AdminAction, AdminStep
<1>3. LogExtends
  BY <1>2, SendExtends DEF Send, Heard
<1>4. QED
  BY <1>1, <1>2, <1>3, Bystander DEF FeedsInv, Untouched

(* Nobody has heard anything of a new process. *)
LEMMA InitFeeds ==
    ASSUME pc = NoTasks, inbox = [a \in Addr |-> <<>>], next = [a \in Addr |-> 0]
    PROVE  FeedsInv
BY DEF FeedsInv, FeedInv, GreetInv, CursorInv, OlderInv, OrderInv, LossInv, NoTasks, Fresh,
       Greeted, Following, Reading

(* FeedsInv is inductive. *)
LEMMA NextFeeds == TypeInv /\ FeedsInv /\ [Next]_vars => FeedsInv'
<1>. SUFFICES ASSUME TypeInv, FeedsInv, [Next]_vars PROVE FeedsInv'
  OBVIOUS
<1>1. Heard
  BY HeardHolds
<1>2. ASSUME NEW a \in Addr, ChatStep(a) PROVE FeedsInv'
  BY <1>1, <1>2, TaskHears, HearKeeps DEF ChatStep
<1>3. CASE AdminAction
  BY <1>1, <1>3, AdminHears
<1>4. CASE Crash
  <2>1. /\ pc' = NoTasks
        /\ inbox' = [a \in Addr |-> <<>>] /\ next' = [a \in Addr |-> 0]
    BY <1>4 DEF Crash, ServerRestart, NewChannel
  <2>2. QED
    BY <2>1 DEF FeedsInv, FeedInv, GreetInv, CursorInv, OlderInv, OrderInv, LossInv, NoTasks,
                Fresh, Greeted, Following, Reading
<1>5. CASE UNCHANGED vars
  <2>1. LogExtends /\ \A a \in Addr : Untouched(a)
    BY <1>1, <1>5, SendExtends
       DEF vars, chatVars, taskVars, historyVars, channelVars, Untouched, Heard
  <2>2. QED
    BY <1>1, <2>1, Bystander DEF FeedsInv
<1>6. QED
  BY <1>2, <1>3, <1>4, <1>5 DEF Next, Finished

(* It holds throughout. *)
THEOREM FeedsHold == Spec => [](TypeInv /\ FeedsInv)
<1>1. Init => TypeInv /\ FeedsInv
  BY InitTyped, InitFeeds DEF Init, ChatInit, ChannelInit
<1>2. TypeInv /\ FeedsInv /\ [Next]_vars => (TypeInv /\ FeedsInv)'
  BY NextTyped, NextFeeds
<1>3. QED
  BY <1>1, <1>2, PTL DEF Spec

(* LoginOk comes first or not at all, and no broadcast without it. *)
THEOREM RepliesInOrder == Spec => []LoginReplyFirst
<1>1. FeedsInv => LoginReplyFirst
  BY DEF FeedsInv, FeedInv, GreetInv, LoginReplyFirst
<1>2. QED
  BY <1>1, FeedsHold, PTL

(* Broadcasts arrive in the order they were sent, once, from the           *)
(* subscription on, and never back at their sender.                        *)
THEOREM FeedsInOrder == Spec => []FeedInOrder
<1>1. TypeInv /\ FeedsInv => FeedInOrder
  <2>1. ASSUME Heard, FeedsInv, NEW a \in Addr, NEW i \in 1..Len(inbox[a]),
               inbox[a][i].kind = "Text"
        PROVE  /\ inbox[a][i].pos \in since[a]..Len(log)
               /\ log[inbox[a][i].pos].from # a
               /\ \A j \in 1..(i - 1) : inbox[a][j].pos < inbox[a][i].pos
    BY <2>1 DEF FeedsInv, FeedInv, OrderInv, Heard
  <2>2. QED
    BY <2>1, HeardHolds DEF FeedInOrder
<1>2. QED
  BY <1>1, FeedsHold, PTL

(* What a subscribed client has not heard by its cursor was its own, was   *)
(* overwritten, or is in the hands of a task that forwards it or leaves.   *)
THEOREM OnlyLagLoses == Spec => []NothingLostButByLag
<1>1. FeedsInv => NothingLostButByLag
  BY DEF FeedsInv, FeedInv, CursorInv, LossInv, Subscribed, NothingLostButByLag
<1>2. QED
  BY <1>1, FeedsHold, PTL
==============================================================================
