--------------------------- MODULE PresenceProofs ---------------------------
(***************************************************************************)
(* Who is there: the gauge, the clients map and the join and left notices  *)
(* agree in every reachable state.  Of a task's steps only seven matter to *)
(* them; Moves says which, the first lemmas that every step of a task is   *)
(* one of those or keeps to its side of them, and the invariant goes by    *)
(* cases over Moves.                                                       *)
(***************************************************************************)
EXTENDS CrabChatProofs, FiniteSetTheorems

(* Where a task is before it announces itself and after it has left, *)
Outside == {"login", "refuse", "check", "inUse", "select", "insert", "welcome", "join",
            "rejected", "exit"}

(* while it is announced and in the clients map, *)
Inside == {"subscribe", "loop", "save", "store", "announce", "forward", "complain",
           "complainLeave", "storeFailed", "bye"}

(* and while it is in the map. *)
Listed == Inside \cup {"unregister"}

Goes(a, s, t) == pc[a] = s /\ pc'[a] = t

(* A step of a leaves the other tasks alone. *)
Alone(a) ==
    \A b \in Addr : b # a =>
        pc'[b] = pc[b] /\ info'[b] = info[b] /\ clients'[b] = clients[b]

Quiet(a) ==
    /\ UNCHANGED <<log, clients, activeConnections>>
    /\ \/ pc[a] \in Outside /\ pc'[a] \in Outside
       \/ pc[a] \in Inside /\ pc'[a] \in Inside /\ info'[a] = info[a]

Says(a, kind) ==
    /\ \E row \in Nat : log' = Append(log, [from |-> a, kind |-> kind, row |-> row])
    /\ UNCHANGED <<clients, activeConnections>>
    /\ info'[a] = info[a]

Moves(a) ==
    /\ Alone(a)
    /\ \/ Quiet(a)
       \/ /\ Goes(a, "idle", "login")
          /\ activeConnections' = activeConnections + 1
          /\ UNCHANGED <<log, clients>>
       \/ Goes(a, "join", "register") /\ Says(a, "join")
       \/ /\ Goes(a, "register", "subscribe")
          /\ clients'[a] = info[a] /\ info'[a] = info[a]
          /\ UNCHANGED <<log, activeConnections>>
       \/ Goes(a, "announce", "loop") /\ Says(a, "chat")
       \/ Goes(a, "bye", "unregister") /\ Says(a, "left")
       \/ /\ Goes(a, "unregister", "exit")
          /\ clients'[a] = NoInfo
          /\ UNCHANGED <<log, activeConnections>>
       \/ /\ Goes(a, "exit", "idle")
          /\ activeConnections' = activeConnections - 1
          /\ UNCHANGED <<log, clients>>

(* What the lemmas below need of the types. *)
Shaped ==
    /\ TableTyped
    /\ pc \in [Addr -> Step]
    /\ clients \in [Addr -> ClientInfo]
    /\ held \in [Addr -> Nat]
    /\ log \in Seq(Entry)
    /\ activeConnections \in Int

(* The type invariant gives it. *)
LEMMA ShapeHolds == TypeInv => Shaped
BY TablesTyped DEF TypeInv, ServerInv, ChatTypeOK, ChannelTypeOK, Shaped

-----------------------------------------------------------------------------
(* The steps of a login, *)
LEMMA LoginMoves ==
    ASSUME Shaped, NEW a \in Addr, LoginStep(a)
    PROVE  Moves(a)
<1>. USE DEF Shaped, TableTyped, Moves, Alone, Quiet, Outside, Inside, Goes, At, Goto
<1>1. CASE Accept(a)
  BY <1>1 DEF Accept, registryVars, channelVars
<1>2. ASSUME NEW n \in Username, ReceiveLogin(a, n) PROVE Moves(a)
  BY <1>2 DEF ReceiveLogin, registryVars, metricVars, channelVars
<1>3. CASE ReceiveBadLogin(a)
  BY <1>3 DEF ReceiveBadLogin, registryVars, metricVars, channelVars
<1>4. CASE ReceiveNoLogin(a)
  BY <1>4 DEF ReceiveNoLogin, registryVars, metricVars, channelVars
<1>5. CASE Refuse(a)
  BY <1>5 DEF Refuse, registryVars, metricVars, channelVars
<1>6. CASE CheckFree(a)
  BY <1>6 DEF CheckFree, registryVars, metricVars, channelVars
<1>7. CASE CheckTaken(a)
  BY <1>7 DEF CheckTaken, metricVars, channelVars
<1>8. CASE RefuseInUse(a)
  BY <1>8 DEF RefuseInUse, metricVars, channelVars
<1>9. CASE SelectUser(a)
  BY <1>9 DEF SelectUser, registryVars, metricVars, channelVars
<1>10. CASE InsertUser(a)
  BY <1>10 DEF InsertUser, registryVars, metricVars, channelVars
<1>11. CASE InsertUserTwice(a)
  BY <1>11 DEF InsertUserTwice, registryVars, metricVars, channelVars
<1>12. CASE InsertUserFails(a)
  BY <1>12 DEF InsertUserFails, registryVars, metricVars, channelVars
<1>13. CASE Welcome(a)
  BY <1>13 DEF Welcome, registryVars, metricVars, channelVars
<1>14. CASE AnnounceJoin(a)
  BY <1>14 DEF AnnounceJoin, registryVars, metricVars, Send, Says, Entry
<1>15. CASE FinalError(a)
  BY <1>15 DEF FinalError, registryVars, metricVars, channelVars
<1>16. CASE Register(a)
  BY <1>16 DEF Register, metricVars, channelVars
<1>17. CASE SubscribeToFeed(a)
  BY <1>17 DEF SubscribeToFeed, registryVars, metricVars, Subscribe
<1>18. QED
  BY <1>1, <1>2, <1>3, <1>4, <1>5, <1>6, <1>7, <1>8, <1>9, <1>10, <1>11,
     <1>12, <1>13, <1>14, <1>15, <1>16, <1>17 DEF LoginStep

(* of the loop, *)
LEMMA LoopMoves ==
    ASSUME Shaped, NEW a \in Addr, LoopStep(a)
    PROVE  Moves(a)
<1>. USE DEF Shaped, TableTyped, Moves, Alone, Quiet, Outside, Inside, Goes, At, Goto
<1>1. CASE ReceiveText(a)
  BY <1>1 DEF ReceiveText, ReceiveAt, CountReceive, registryVars, channelVars
<1>2. CASE ReceiveBinary(a)
  BY <1>2 DEF ReceiveBinary, ReceiveAt, CountReceive, registryVars, channelVars
<1>3. CASE ReceiveOther(a)
  BY <1>3 DEF ReceiveOther, ReceiveAt, CountReceive, registryVars, channelVars
<1>4. CASE ReceiveMalformed(a)
  BY <1>4 DEF ReceiveMalformed, ReceiveAt, CountReceive, registryVars, channelVars
<1>5. CASE ReceiveBroken(a)
  BY <1>5 DEF ReceiveBroken, ReceiveAt, CountReceive, registryVars, channelVars
<1>6. CASE ReceiveClosed(a)
  BY <1>6 DEF ReceiveClosed, ReceiveAt, CountReceive, registryVars, channelVars
<1>7. CASE Complain(a)
  BY <1>7 DEF Complain, registryVars, metricVars, channelVars
<1>8. CASE ComplainLeave(a)
  BY <1>8 DEF ComplainLeave, registryVars, metricVars, channelVars
<1>9. CASE SaveBinary(a)
  BY <1>9 DEF SaveBinary, registryVars, metricVars, channelVars
<1>10. CASE StoreMessage(a)
  BY <1>10 DEF StoreMessage, registryVars, metricVars, channelVars
<1>11. CASE StoreOrphan(a)
  BY <1>11 DEF StoreOrphan, registryVars, metricVars, channelVars
<1>12. CASE StoreFails(a)
  BY <1>12 DEF StoreFails, registryVars, metricVars, channelVars
<1>13. CASE ReportStoreFailed(a)
  BY <1>13 DEF ReportStoreFailed, registryVars, metricVars, channelVars
<1>14. CASE Announce(a)
  BY <1>14 DEF Announce, registryVars, metricVars, Send, Says, Entry
<1>15. CASE RecvBroadcast(a)
  BY <1>15 DEF RecvBroadcast, registryVars, metricVars, TakeEntry
<1>16. CASE RecvLagged(a)
  BY <1>16 DEF RecvLagged, taskVars, registryVars, metricVars, SkipOverwritten
<1>17. CASE Forward(a)
  BY <1>17 DEF Forward, registryVars, metricVars, channelVars
<1>18. QED
  BY <1>1, <1>2, <1>3, <1>4, <1>5, <1>6, <1>7, <1>8, <1>9, <1>10, <1>11,
     <1>12, <1>13, <1>14, <1>15, <1>16, <1>17 DEF LoopStep

(* and of the cleanup. *)
LEMMA CleanupMoves ==
    ASSUME Shaped, NEW a \in Addr, CleanupStep(a)
    PROVE  Moves(a)
<1>. USE DEF Shaped, TableTyped, Moves, Alone, Quiet, Outside, Inside, Goes, At, Goto
<1>1. CASE AnnounceLeft(a)
  BY <1>1 DEF AnnounceLeft, registryVars, metricVars, Send, Says, Entry
<1>2. CASE Unregister(a)
  BY <1>2 DEF Unregister, metricVars, Unsubscribe
<1>3. CASE Exit(a)
  BY <1>3 DEF Exit, registryVars, channelVars
<1>4. QED
  BY <1>1, <1>2, <1>3 DEF CleanupStep

(* Every step of a task moves it as Moves says. *)
LEMMA TaskMoves == ASSUME Shaped, NEW a \in Addr, TaskStep(a) PROVE Moves(a)
BY LoginMoves, LoopMoves, CleanupMoves DEF TaskStep

-----------------------------------------------------------------------------
(* The running handlers, and the gauge that counts them. *)
Running  == {a \in Addr : pc[a] # "idle"}
GaugeInv == IsFiniteSet(Running) /\ activeConnections = Cardinality(Running)

(* The map holds what the task works under, for as long as it is there. *)
RegistryAgrees ==
    \A a \in Addr : Registered(a) => clients[a] = info[a] /\ pc[a] \in Listed

AllRegistered == \A a \in Addr : pc[a] \in Listed => Registered(a)

NoticesAgree == \A a \in Addr : Present(a) <=> pc[a] \in Inside \cup {"register"}

(* Only the admin says that a user was removed. *)
Removals == \A i \in 1..Len(log) : log[i].kind = "removed" => log[i].from = AdminAddr

(* PresenceBracketsChat entry by entry: the last one of the same address   *)
(* before i is j.                                                          *)
LastBefore(i, j) ==
    /\ log[j].from = log[i].from
    /\ \A l \in 1..(i - 1) : log[l].from = log[i].from => l <= j

Brackets ==
    \A i \in 1..Len(log) : log[i].from \in Addr =>
        /\ \A j \in 1..(i - 1) : LastBefore(i, j) =>
              IF log[i].kind = "join" THEN log[j].kind = "left"
              ELSE log[j].kind \in {"join", "chat"}
        /\ log[i].kind # "join" => \E j \in 1..(i - 1) : LastBefore(i, j)

MapInv    == RegistryAgrees /\ AllRegistered
NoticeInv == NoticesAgree /\ Removals /\ Brackets

-----------------------------------------------------------------------------
(* What one more entry makes of Present, *)
LEMMA AppendPresent ==
    ASSUME log \in Seq(Entry), NEW e \in Entry, log' = Append(log, e), NEW a \in Addr
    PROVE  Present(a)' <=> IF e.from = a THEN e.kind # "left" ELSE Present(a)
<1>1. /\ Len(log') = Len(log) + 1 /\ Len(log) \in Nat
      /\ log'[Len(log) + 1] = e
      /\ \A i \in 1..Len(log) : log'[i] = log[i]
  OBVIOUS
<1>2. CASE e.from = a
  BY <1>1, <1>2 DEF Present
<1>3. CASE e.from # a
  <2>1. ASSUME Present(a) PROVE Present(a)'
    <3>1. PICK i \in 1..Len(log) :
              /\ log[i].from = a /\ log[i].kind # "left"
              /\ \A j \in (i + 1)..Len(log) : log[j].from # a
      BY <2>1 DEF Present
    <3>2. \A j \in (i + 1)..Len(log') : log'[j].from # a
      BY <1>1, <1>3, <3>1
    <3>3. QED
      BY <1>1, <3>1, <3>2 DEF Present
  <2>2. ASSUME Present(a)' PROVE Present(a)
    <3>1. PICK i \in 1..Len(log') :
              /\ log'[i].from = a /\ log'[i].kind # "left"
              /\ \A j \in (i + 1)..Len(log') : log'[j].from # a
      BY <2>2 DEF Present
    <3>2. i \in 1..Len(log)
      BY <1>1, <1>3, <3>1
    <3>3. QED
      BY <1>1, <3>1, <3>2 DEF Present
  <2>3. QED
    BY <1>3, <2>1, <2>2
<1>4. QED
  BY <1>2, <1>3

(* and of Brackets: a join must come from an address that is not present,  *)
(* anything else from one that is.                                         *)
LEMMA AppendBrackets ==
    ASSUME log \in Seq(Entry), NEW e \in Entry, log' = Append(log, e),
           Brackets, Removals,
           e.from \in Addr => (e.kind = "join" <=> ~Present(e.from)),
           e.kind = "removed" => e.from = AdminAddr
    PROVE  Brackets' /\ Removals'
<1>1. /\ Len(log') = Len(log) + 1 /\ Len(log) \in Nat
      /\ log'[Len(log) + 1] = e
      /\ \A i \in 1..Len(log) : log'[i] = log[i]
  OBVIOUS
<1>2. Removals'
  BY <1>1 DEF Removals
<1>3. ASSUME NEW i \in 1..Len(log'), log'[i].from \in Addr
      PROVE  /\ \A j \in 1..(i - 1) : LastBefore(i, j)' =>
                   IF log'[i].kind = "join" THEN log'[j].kind = "left"
                   ELSE log'[j].kind \in {"join", "chat"}
             /\ log'[i].kind # "join" => \E j \in 1..(i - 1) : LastBefore(i, j)'
  <2>1. CASE i \in 1..Len(log)
    <3>1. \A j \in 1..(i - 1) : j \in 1..Len(log) /\ log'[j] = log[j]
      BY <1>1, <2>1
    <3>2. \A j \in 1..(i - 1) : LastBefore(i, j)' <=> LastBefore(i, j)
      BY <1>1, <2>1, <3>1 DEF LastBefore
    <3>3. log'[i] = log[i]
      BY <1>1, <2>1
    <3>4. QED
      BY <1>3, <2>1, <3>1, <3>2, <3>3 DEF Brackets
  <2>2. CASE i = Len(log) + 1
    <3>1. log'[i] = e /\ e.from \in Addr /\ i - 1 = Len(log)
      BY <1>1, <1>3, <2>2
    <3>2. \A j \in 1..Len(log) :
              LastBefore(i, j)' <=> /\ log[j].from = e.from
                                    /\ \A l \in 1..Len(log) : log[l].from = e.from => l <= j
      BY <1>1, <3>1 DEF LastBefore
    <3>3. CASE e.kind = "join"
      <4>1. ASSUME NEW j \in 1..Len(log), LastBefore(i, j)' PROVE log[j].kind = "left"
        <5>1. ~Present(e.from)
          BY <3>1, <3>3
        <5>2. /\ log[j].from = e.from
              /\ \A l \in 1..Len(log) : log[l].from = e.from => l <= j
          BY <3>2, <4>1
        <5>3. \A l \in (j + 1)..Len(log) : l \in 1..Len(log) /\ ~(l <= j)
          BY <1>1
        <5>4. \A l \in (j + 1)..Len(log) : log[l].from # e.from
          BY <5>2, <5>3
        <5>5. QED
          BY <5>1, <5>2, <5>4 DEF Present
      <4>2. QED
        BY <1>1, <3>1, <3>3, <4>1
    <3>4. CASE e.kind # "join"
      <4>1. PICK k \in 1..Len(log) :
                /\ log[k].from = e.from /\ log[k].kind # "left"
                /\ \A j \in (k + 1)..Len(log) : log[j].from # e.from
        <5>1. Present(e.from)
          BY <3>1, <3>4
        <5>2. QED
          BY <5>1 DEF Present
      <4>2. LastBefore(i, k)'
        BY <1>1, <3>2, <4>1
      <4>3. log[k].kind \in {"join", "chat"}
        <5>1. log[k] \in Entry
          BY <4>1
        <5>2. log[k].kind # "removed"
          BY <3>1, <4>1, BroadcastAssumption DEF Removals
        <5>3. QED
          BY <4>1, <5>1, <5>2 DEF Entry
      <4>4. \A j \in 1..Len(log) : LastBefore(i, j)' => j = k
        BY <1>1, <3>2, <4>1
      <4>5. QED
        BY <1>1, <3>1, <3>4, <4>2, <4>3, <4>4
    <3>5. QED
      BY <3>3, <3>4
  <2>3. QED
    BY <1>1, <2>1, <2>2
<1>4. Brackets'
  BY <1>3 DEF Brackets
<1>5. QED
  BY <1>2, <1>4

(* Without a new entry nothing changes. *)
LEMMA SameLog ==
    ASSUME Brackets, Removals, UNCHANGED log
    PROVE  Brackets' /\ Removals' /\ \A a \in Addr : Present(a)' <=> Present(a)
BY DEF Brackets, LastBefore, Removals, Present

-----------------------------------------------------------------------------
(* One task's move keeps the gauge, *)
LEMMA MoveCounts ==
    ASSUME Shaped, GaugeInv, NEW a \in Addr, Moves(a)
    PROVE  GaugeInv'
<1>. USE DEF GaugeInv, Running
<1>1. \A b \in Addr : b # a => pc'[b] = pc[b]
  BY DEF Moves, Alone
<1>2. CASE Goes(a, "idle", "login") /\ activeConnections' = activeConnections + 1
  <2>1. a \notin Running /\ Running' = Running \cup {a}
    BY <1>1, <1>2 DEF Goes
  <2>2. QED
    BY <1>2, <2>1, FS_AddElement
<1>3. CASE Goes(a, "exit", "idle") /\ activeConnections' = activeConnections - 1
  <2>1. a \in Running /\ Running' = Running \ {a}
    BY <1>1, <1>3 DEF Goes
  <2>2. QED
    BY <1>3, <2>1, FS_RemoveElement
<1>4. CASE pc[a] # "idle" /\ pc'[a] # "idle" /\ UNCHANGED activeConnections
  <2>1. Running' = Running
    BY <1>1, <1>4
  <2>2. QED
    BY <1>4, <2>1
<1>5. QED
  BY <1>2, <1>3, <1>4 DEF Moves, Quiet, Outside, Inside, Goes, Says

(* the clients map, *)
LEMMA MoveRegisters ==
    ASSUME Shaped, NamedTasks, MapInv, NEW a \in Addr, Moves(a)
    PROVE  MapInv'
<1>. USE DEF MapInv, RegistryAgrees, AllRegistered, Registered
<1>1. \A b \in Addr : b # a => pc'[b] = pc[b] /\ info'[b] = info[b] /\ clients'[b] = clients[b]
  BY DEF Moves, Alone
<1>2. /\ Registered(a)' => clients'[a] = info'[a] /\ pc'[a] \in Listed
      /\ pc'[a] \in Listed => Registered(a)'
  <2>1. CASE Goes(a, "register", "subscribe") /\ clients'[a] = info[a] /\ info'[a] = info[a]
    <3>1. info[a] # NoInfo
      BY <2>1, ChatServerAssumption DEF NamedTasks, Goes, Unnamed, NoInfo
    <3>2. QED
      BY <2>1, <3>1 DEF Goes, Listed, Inside
  <2>2. CASE Quiet(a)
    BY <2>2 DEF Quiet, Outside, Inside, Listed
  <2>3. QED
    BY <2>1, <2>2 DEF Moves, Goes, Says, Listed, Inside
<1>3. QED
  BY <1>1, <1>2

(* and the notices. *)
LEMMA MoveNotifies ==
    ASSUME Shaped, NoticeInv, NEW a \in Addr, Moves(a)
    PROVE  NoticeInv'
<1>. USE DEF NoticeInv, NoticesAgree, Shaped
<1>1. \A b \in Addr : b # a => pc'[b] = pc[b]
  BY DEF Moves, Alone
<1>2. CASE UNCHANGED log /\ (pc'[a] \in Inside \cup {"register"} <=> pc[a] \in Inside \cup {"register"})
  BY <1>1, <1>2, SameLog
<1>3. ASSUME NEW kind \in {"join", "chat", "left"}, Says(a, kind),
             kind = "join" <=> pc[a] \notin Inside \cup {"register"},
             kind # "left" <=> pc'[a] \in Inside \cup {"register"}
      PROVE  NoticeInv'
  <2>1. PICK e \in Entry : e.from = a /\ e.kind = kind /\ log' = Append(log, e)
    BY <1>3 DEF Says, Entry
  <2>2. Brackets' /\ Removals'
    BY <1>3, <2>1, AppendBrackets
  <2>3. \A b \in Addr : Present(b)' <=> IF b = a THEN kind # "left" ELSE Present(b)
    BY <2>1, AppendPresent
  <2>4. QED
    BY <1>1, <1>3, <2>2, <2>3
<1>4. CASE Goes(a, "join", "register") /\ Says(a, "join")
  BY <1>3, <1>4 DEF Goes, Inside
<1>5. CASE Goes(a, "announce", "loop") /\ Says(a, "chat")
  BY <1>3, <1>5 DEF Goes, Inside
<1>6. CASE Goes(a, "bye", "unregister") /\ Says(a, "left")
  BY <1>3, <1>6 DEF Goes, Inside
<1>7. QED
  BY <1>2, <1>4, <1>5, <1>6 DEF Moves, Quiet, Goes, Outside, Inside

-----------------------------------------------------------------------------
PresenceInv == GaugeInv /\ MapInv /\ NoticeInv

(* The admin's only part in it is to say that a user was removed. *)
LEMMA AdminNotifies ==
    ASSUME Shaped, PresenceInv, AdminAction
    PROVE  PresenceInv'
<1>1. UNCHANGED <<pc, info, clients, activeConnections>>
  BY DEF AdminAction, chatVars, taskVars, registryVars, metricVars
<1>2. GaugeInv' /\ MapInv'
  BY <1>1 DEF PresenceInv, GaugeInv, Running, MapInv, RegistryAgrees, AllRegistered, Registered
<1>3. CASE UNCHANGED log
  BY <1>1, <1>2, <1>3, SameLog DEF PresenceInv, NoticeInv, NoticesAgree
<1>4. CASE Send(AdminAddr, "removed", 0)
  <2>1. PICK e \in Entry : e.from = AdminAddr /\ e.kind = "removed" /\ log' = Append(log, e)
    BY <1>4 DEF Send, Entry
  <2>2. Brackets' /\ Removals'
    BY <2>1, AppendBrackets, BroadcastAssumption DEF Shaped, PresenceInv, NoticeInv
  <2>3. \A b \in Addr : Present(b)' <=> Present(b)
    BY <2>1, AppendPresent, BroadcastAssumption DEF Shaped
  <2>4. QED
    BY <1>1, <1>2, <2>2, <2>3 DEF PresenceInv, NoticeInv, NoticesAgree
<1>5. ASSUME NEW r \in Request, DeletionStep(r)
      PROVE  UNCHANGED log \/ Send(AdminAddr, "removed", 0)
  BY <1>5 DEF DeletionStep, StartDelete, DeleteMessages, DeleteUserRow, Cascade, Commit, Abort,
              Notify, channelVars
<1>6. ASSUME NEW m \in messages, DeleteMessage(m) PROVE UNCHANGED log
  BY <1>6 DEF DeleteMessage, channelVars
<1>7. QED
  BY <1>3, <1>4, <1>5, <1>6 DEF AdminAction, AdminStep

(* PresenceInv holds to begin with *)
LEMMA InitPresence == Init => PresenceInv
<1>. SUFFICES ASSUME Init PROVE PresenceInv
  OBVIOUS
<1>1. pc = NoTasks /\ clients = NoClients /\ activeConnections = 0 /\ log = <<>>
  BY DEF Init, ChatInit, ChannelInit
<1>2. Running = {}
  BY <1>1 DEF Running, NoTasks
<1>3. QED
  BY <1>1, <1>2, FS_EmptySet
     DEF PresenceInv, GaugeInv, MapInv, RegistryAgrees, AllRegistered, Registered, NoTasks,
         NoClients, NoticeInv, NoticesAgree, Present, Removals, Brackets, Listed, Inside

(* and is inductive. *)
LEMMA NextPresence == TypeInv /\ PresenceInv /\ [Next]_vars => PresenceInv'
<1>. SUFFICES ASSUME TypeInv, PresenceInv, [Next]_vars PROVE PresenceInv'
  OBVIOUS
<1>1. Shaped /\ NamedTasks
  BY ShapeHolds DEF TypeInv, ServerInv
<1>2. ASSUME NEW a \in Addr, ChatStep(a) PROVE PresenceInv'
  BY <1>1, <1>2, TaskMoves, MoveCounts, MoveRegisters, MoveNotifies DEF ChatStep, PresenceInv
<1>3. CASE AdminAction
  BY <1>1, <1>3, AdminNotifies
<1>4. CASE Crash
  <2>1. pc' = NoTasks /\ clients' = NoClients /\ activeConnections' = 0 /\ log' = <<>>
    BY <1>4 DEF Crash, ServerRestart, NewChannel
  <2>2. Running' = {}
    BY <2>1 DEF Running, NoTasks
  <2>3. QED
    BY <2>1, <2>2, FS_EmptySet
       DEF PresenceInv, GaugeInv, MapInv, RegistryAgrees, AllRegistered, Registered, NoTasks,
           NoClients, NoticeInv, NoticesAgree, Present, Removals, Brackets, Listed, Inside
<1>5. CASE UNCHANGED vars
  <2>1. UNCHANGED <<pc, info, clients, activeConnections, log>>
    BY <1>5 DEF vars, chatVars, taskVars, registryVars, metricVars, channelVars
  <2>2. QED
    BY <2>1, SameLog DEF PresenceInv, GaugeInv, Running, MapInv, RegistryAgrees, AllRegistered,
                         Registered, NoticeInv, NoticesAgree
<1>6. QED
  BY <1>2, <1>3, <1>4, <1>5 DEF Next, Finished

-----------------------------------------------------------------------------
(* The invariant holds throughout. *)
THEOREM PresenceHolds == Spec => [](TypeInv /\ PresenceInv)
<1>1. Init => TypeInv /\ PresenceInv
  BY InitTyped, InitPresence
<1>2. TypeInv /\ PresenceInv /\ [Next]_vars => (TypeInv /\ PresenceInv)'
  BY NextTyped, NextPresence
<1>3. QED
  BY <1>1, <1>2, PTL DEF Spec

(* The gauge counts the running handlers, on every way one can end. *)
THEOREM GaugeHolds == Spec => []GaugeCountsHandlers
<1>1. PresenceInv => GaugeCountsHandlers
  BY DEF PresenceInv, GaugeInv, Running, GaugeCountsHandlers
<1>2. QED
  BY <1>1, PresenceHolds, PTL

(* Whoever is announced as present is in the clients map and nobody else,  *)
(* but for a task on its way between the two.                              *)
THEOREM RegistryHolds == Spec => []PresenceMatchesRegistry
<1>1. PresenceInv => PresenceMatchesRegistry
  BY DEF PresenceInv, MapInv, RegistryAgrees, AllRegistered, NoticeInv, NoticesAgree, Listed,
         PresenceMatchesRegistry
<1>2. QED
  BY <1>1, PresenceHolds, PTL

(* Join, chat and left notices of one address come in that order. *)
THEOREM NoticesHold == Spec => []PresenceBracketsChat
<1>1. Brackets => PresenceBracketsChat
  BY DEF Brackets, LastBefore, PresenceBracketsChat
<1>2. PresenceInv => PresenceBracketsChat
  BY <1>1 DEF PresenceInv, NoticeInv
<1>3. QED
  BY <1>2, PresenceHolds, PTL
=============================================================================
