--------------------------- MODULE CrabChatTypes ----------------------------
(***************************************************************************)
(* TypeOK is an invariant of CrabChat.  The first lemmas say what the      *)
(* operators the actions share preserve; the proof then goes action by     *)
(* action, one lemma for each phase of a task and one for the admin.       *)
(***************************************************************************)
EXTENDS CrabChat, TLAPS

(* The types alone are not inductive: a row is only ever written under a   *)
(* well-formed name because a task past its login has one.                 *)
ServerInv ==
    /\ ChatTypeOK
    /\ ChannelTypeOK
    /\ DatabaseTypeOK
    /\ NamedTasks
    /\ EntryInHand

(* A task only ever moves to a step there is. *)
LEMMA PcTyped ==
    ASSUME pc \in [Addr -> Step], NEW a \in Addr, NEW s \in Step, Goto(a, s)
    PROVE  pc' \in [Addr -> Step]
BY DEF Goto

(* A write appends a reply to the peer's inbox. *)
LEMMA WriteTyped ==
    ASSUME inbox \in [Addr -> Seq(Reply)], NEW a \in Addr,
           NEW kind \in {"LoginOk", "Error", "Text"}, NEW pos \in Nat, Write(a, kind, pos)
    PROVE  inbox' \in [Addr -> Seq(Reply)]
BY DEF Write, Reply

(* So does a write whose failure is ignored, if it succeeds. *)
LEMMA TryWriteTyped ==
    ASSUME inbox \in [Addr -> Seq(Reply)], NEW a \in Addr, TryWriteError(a)
    PROVE  inbox' \in [Addr -> Seq(Reply)]
BY WriteTyped DEF TryWriteError

(* A send appends an entry to the channel's log. *)
LEMMA SendTyped ==
    ASSUME ChannelTypeOK, NEW from \in Addr \cup {AdminAddr},
           NEW kind \in {"join", "chat", "left", "removed"}, NEW row \in Nat,
           Send(from, kind, row)
    PROVE  ChannelTypeOK'
BY DEF Send, ChannelTypeOK, Entry

(* Where a new receiver starts is a position. *)
LEMMA SubscribeAtTyped == ChannelTypeOK => SubscribeAt \in Nat
BY DEF ChannelTypeOK, SubscribeAt

(* The channel's window begins at a position. *)
LEMMA OldestTyped == ChannelTypeOK => Oldest \in Nat
BY BroadcastAssumption DEF ChannelTypeOK, Oldest

(* Whatever moves a cursor moves it to a position, or takes it away. *)
LEMMA CursorTyped ==
    ASSUME ChannelTypeOK, NEW a \in Addr,
           Subscribe(a) \/ Unsubscribe(a) \/ TakeEntry(a) \/ SkipOverwritten(a)
    PROVE  ChannelTypeOK'
BY SubscribeAtTyped, OldestTyped
   DEF ChannelTypeOK, Subscribe, Unsubscribe, TakeEntry, SkipOverwritten

(* A new users row keeps the tables well-formed, *)
LEMMA UserRowTyped ==
    ASSUME DatabaseTypeOK, NEW n \in Username, InsertUserRow(n)
    PROVE  DatabaseTypeOK'
BY DEF DatabaseTypeOK, InsertUserRow, NextUserId, User

(* so does a new messages row, *)
LEMMA MessageRowTyped ==
    ASSUME DatabaseTypeOK, NEW n \in Username, NEW id \in Nat, InsertMessageRow(id, n)
    PROVE  DatabaseTypeOK'
<1>. DEFINE row == [id |-> messageSeq + 1, user_id |-> id, author |-> n]
<1>1. row \in Message
  BY DEF DatabaseTypeOK, Message
<1>2. messages' = messages \cup {row} /\ messageSeq' = messageSeq + 1
  BY DEF InsertMessageRow
<1>3. messages' \in SUBSET Message
  BY <1>1, <1>2 DEF DatabaseTypeOK
<1>. QED
  BY <1>2, <1>3 DEF DatabaseTypeOK, InsertMessageRow

(* and so do the insertions that only use up an id. *)
LEMMA ConflictTyped ==
    ASSUME DatabaseTypeOK, InsertUserConflict
    PROVE  DatabaseTypeOK'
BY DEF DatabaseTypeOK, InsertUserConflict

(* a refused message, like a refused user, stores nothing. *)
LEMMA OrphanTyped ==
    ASSUME DatabaseTypeOK, InsertMessageOrphan
    PROVE  DatabaseTypeOK'
BY DEF DatabaseTypeOK, InsertMessageOrphan

(* Logging in sets the user id of one task and leaves every name alone. *)
LEMMA SetUserId ==
    ASSUME info \in [Addr -> ClientInfo], NEW a \in Addr, NEW id \in Nat,
           info' = [info EXCEPT ![a].user_id = id]
    PROVE  /\ info' \in [Addr -> ClientInfo]
           /\ info'[a] = [username |-> info[a].username, user_id |-> id]
           /\ \A b \in Addr \ {a} : info'[b] = info[b]
<1>1. info[a] \in ClientInfo
  OBVIOUS
<1>2. [info[a] EXCEPT !.user_id = id] = [username |-> info[a].username, user_id |-> id]
  BY <1>1 DEF ClientInfo
<1>3. info' = [info EXCEPT ![a] = [username |-> info[a].username, user_id |-> id]]
  BY <1>2
<1>4. [username |-> info[a].username, user_id |-> id] \in ClientInfo
  BY <1>1 DEF ClientInfo
<1>5. info'[a] = [username |-> info[a].username, user_id |-> id]
  BY <1>3
<1>6. \A b \in Addr \ {a} : info'[b] = info[b]
  BY <1>3
<1>7. info' \in [Addr -> ClientInfo]
  BY <1>3, <1>4
<1>. QED
  BY <1>5, <1>6, <1>7

(* So every name is as it was. *)
LEMMA NameKept ==
    ASSUME info \in [Addr -> ClientInfo], NEW a \in Addr, NEW id \in Nat,
           info' = [info EXCEPT ![a].user_id = id]
    PROVE  /\ info' \in [Addr -> ClientInfo]
           /\ \A b \in Addr : info'[b].username = info[b].username
<1>1. /\ info' \in [Addr -> ClientInfo]
      /\ info'[a] = [username |-> info[a].username, user_id |-> id]
      /\ \A b \in Addr \ {a} : info'[b] = info[b]
  BY SetUserId
<1>2. info'[a].username = info[a].username
  BY <1>1
<1>. QED
  BY <1>1, <1>2

-----------------------------------------------------------------------------
USE DEF ServerInv, ChatTypeOK, ChannelTypeOK, DatabaseTypeOK, NamedTasks, EntryInHand,
        Unnamed, taskVars, registryVars, metricVars, historyVars, channelVars, dbVars

(* The steps of the login, from Accept to the subscription, keep the types, *)
LEMMA LoginTyped ==
    ASSUME ServerInv, NEW a \in Addr, LoginStep(a)
    PROVE  ServerInv'
<1>1. ASSUME NEW n \in Username, ReceiveLogin(a, n) PROVE ServerInv'
  <2>1. pc' \in [Addr -> Step]
    BY <1>1, PcTyped DEF ReceiveLogin, Step
  <2>2. info' \in [Addr -> ClientInfo]
    BY <1>1 DEF ReceiveLogin, ClientInfo
  <2>3. NamedTasks' /\ EntryInHand'
    BY <1>1, <2>1 DEF ReceiveLogin, At, Goto, Subscribed
  <2>4. QED
    BY <1>1, <2>1, <2>2, <2>3 DEF ReceiveLogin
<1>2. CASE Accept(a)
  <2>1. pc' \in [Addr -> Step]
    BY <1>2, PcTyped DEF Accept, Step
  <2>2. NamedTasks'
    BY <1>2, <2>1 DEF Accept, At, Goto
  <2>3. EntryInHand'
    BY <1>2, <2>1 DEF Accept, At, Goto, Subscribed
  <2>4. accepted' \in Nat /\ activeConnections' \in Int
    BY <1>2 DEF Accept
  <2>5. QED
    BY <1>2, <2>1, <2>2, <2>3, <2>4 DEF Accept
<1>3. CASE ReceiveBadLogin(a)
  <2>1. pc' \in [Addr -> Step]
    BY <1>3, PcTyped DEF ReceiveBadLogin, Step
  <2>2. NamedTasks'
    BY <1>3, <2>1 DEF ReceiveBadLogin, At, Goto
  <2>3. EntryInHand'
    BY <1>3, <2>1 DEF ReceiveBadLogin, At, Goto, Subscribed
  <2>4. QED
    BY <1>3, <2>1, <2>2, <2>3 DEF ReceiveBadLogin
<1>4. CASE ReceiveNoLogin(a)
  <2>1. pc' \in [Addr -> Step]
    BY <1>4, PcTyped DEF ReceiveNoLogin, Step
  <2>2. NamedTasks'
    BY <1>4, <2>1 DEF ReceiveNoLogin, At, Goto
  <2>3. EntryInHand'
    BY <1>4, <2>1 DEF ReceiveNoLogin, At, Goto, Subscribed
  <2>4. QED
    BY <1>4, <2>1, <2>2, <2>3 DEF ReceiveNoLogin
<1>5. CASE Refuse(a)
  <2>1. pc' \in [Addr -> Step]
    BY <1>5, PcTyped DEF Refuse, Step
  <2>2. inbox' \in [Addr -> Seq(Reply)]
    BY <1>5, TryWriteTyped DEF Refuse
  <2>3. NamedTasks'
    BY <1>5, <2>1 DEF Refuse, At, Goto
  <2>4. EntryInHand'
    BY <1>5, <2>1 DEF Refuse, At, Goto, Subscribed
  <2>5. QED
    BY <1>5, <2>1, <2>2, <2>3, <2>4 DEF Refuse
<1>6. CASE CheckFree(a)
  <2>1. pc' \in [Addr -> Step]
    BY <1>6, PcTyped DEF CheckFree, Step
  <2>2. NamedTasks'
    BY <1>6, <2>1 DEF CheckFree, At, Goto
  <2>3. EntryInHand'
    BY <1>6, <2>1 DEF CheckFree, At, Goto, Subscribed
  <2>4. QED
    BY <1>6, <2>1, <2>2, <2>3 DEF CheckFree
<1>7. CASE CheckTaken(a)
  <2>1. pc' \in [Addr -> Step]
    BY <1>7, PcTyped DEF CheckTaken, Step
  <2>2. NamedTasks'
    BY <1>7, <2>1 DEF CheckTaken, At, Goto
  <2>3. EntryInHand'
    BY <1>7, <2>1 DEF CheckTaken, At, Goto, Subscribed
  <2>4. QED
    BY <1>7, <2>1, <2>2, <2>3 DEF CheckTaken
<1>8. CASE RefuseInUse(a)
  <2>1. pc' \in [Addr -> Step]
    BY <1>8, PcTyped DEF RefuseInUse, Step
  <2>2. inbox' \in [Addr -> Seq(Reply)]
    BY <1>8, TryWriteTyped DEF RefuseInUse
  <2>3. NamedTasks'
    BY <1>8, <2>1 DEF RefuseInUse, At, Goto
  <2>4. EntryInHand'
    BY <1>8, <2>1 DEF RefuseInUse, At, Goto, Subscribed
  <2>5. QED
    BY <1>8, <2>1, <2>2, <2>3, <2>4 DEF RefuseInUse
<1>9. CASE SelectUser(a)
  <2>1. pc' \in [Addr -> Step]
    BY <1>9, PcTyped DEF SelectUser, Step
  <2>2. \/ UNCHANGED info
        \/ \E id \in Nat : info' = [info EXCEPT ![a].user_id = id]
    BY <1>9 DEF SelectUser, UserNamed, User
  <2>3. /\ info' \in [Addr -> ClientInfo]
        /\ \A b \in Addr : info'[b].username = info[b].username
    <3>1. CASE UNCHANGED info
      BY <3>1
    <3>2. ASSUME NEW id \in Nat, info' = [info EXCEPT ![a].user_id = id]
          PROVE  /\ info' \in [Addr -> ClientInfo]
                 /\ \A b \in Addr : info'[b].username = info[b].username
      BY <3>2, NameKept
    <3>3. QED
      BY <2>2, <3>1, <3>2
  <2>4. NamedTasks'
    BY <1>9, <2>1, <2>3 DEF SelectUser, At, Goto
  <2>5. EntryInHand'
    BY <1>9, <2>1 DEF SelectUser, At, Goto, Subscribed
  <2>6. QED
    BY <1>9, <2>1, <2>3, <2>4, <2>5 DEF SelectUser
<1>10. CASE InsertUser(a)
  <2>1. pc' \in [Addr -> Step]
    BY <1>10, PcTyped DEF InsertUser, Step
  <2>2. DatabaseTypeOK'
    BY <1>10, UserRowTyped DEF InsertUser, At, ClientInfo
  <2>3. NextUserId \in Nat
    BY DEF NextUserId
  <2>4. UNCHANGED info \/ info' = [info EXCEPT ![a].user_id = NextUserId]
    BY <1>10 DEF InsertUser
  <2>5. /\ info' \in [Addr -> ClientInfo]
        /\ \A b \in Addr : info'[b].username = info[b].username
    <3>1. CASE UNCHANGED info
      BY <3>1
    <3>2. CASE info' = [info EXCEPT ![a].user_id = NextUserId]
      BY <2>3, <3>2, NameKept
    <3>3. QED
      BY <2>4, <3>1, <3>2
  <2>6. NamedTasks'
    BY <1>10, <2>1, <2>5 DEF InsertUser, At, Goto
  <2>7. EntryInHand'
    BY <1>10, <2>1 DEF InsertUser, At, Goto, Subscribed
  <2>8. QED
    BY <1>10, <2>1, <2>2, <2>5, <2>6, <2>7 DEF InsertUser
<1>11. CASE InsertUserTwice(a)
  <2>1. pc' \in [Addr -> Step]
    BY <1>11, PcTyped DEF InsertUserTwice, Step
  <2>2. DatabaseTypeOK'
    BY <1>11, ConflictTyped DEF InsertUserTwice
  <2>3. NamedTasks'
    BY <1>11, <2>1 DEF InsertUserTwice, At, Goto
  <2>4. EntryInHand'
    BY <1>11, <2>1 DEF InsertUserTwice, At, Goto, Subscribed
  <2>5. QED
    BY <1>11, <2>1, <2>2, <2>3, <2>4 DEF InsertUserTwice
<1>12. CASE InsertUserFails(a)
  <2>1. pc' \in [Addr -> Step]
    BY <1>12, PcTyped DEF InsertUserFails, Step
  <2>2. NamedTasks'
    BY <1>12, <2>1 DEF InsertUserFails, At, Goto
  <2>3. EntryInHand'
    BY <1>12, <2>1 DEF InsertUserFails, At, Goto, Subscribed
  <2>4. QED
    BY <1>12, <2>1, <2>2, <2>3 DEF InsertUserFails
<1>13. CASE Welcome(a)
  <2>1. pc' \in [Addr -> Step]
    BY <1>13, PcTyped DEF Welcome, Step
  <2>2. inbox' \in [Addr -> Seq(Reply)]
    BY <1>13, WriteTyped DEF Welcome
  <2>3. NamedTasks'
    BY <1>13, <2>1 DEF Welcome, At, Goto
  <2>4. EntryInHand'
    BY <1>13, <2>1 DEF Welcome, At, Goto, Subscribed
  <2>5. QED
    BY <1>13, <2>1, <2>2, <2>3, <2>4 DEF Welcome
<1>14. CASE AnnounceJoin(a)
  <2>1. pc' \in [Addr -> Step]
    BY <1>14, PcTyped DEF AnnounceJoin, Step
  <2>2. ChannelTypeOK'
    BY <1>14, SendTyped DEF AnnounceJoin
  <2>3. NamedTasks'
    BY <1>14, <2>1 DEF AnnounceJoin, At, Goto
  <2>4. EntryInHand'
    BY <1>14, <2>1 DEF AnnounceJoin, At, Goto, Subscribed, Send
  <2>5. QED
    BY <1>14, <2>1, <2>2, <2>3, <2>4 DEF AnnounceJoin
<1>15. CASE FinalError(a)
  <2>1. pc' \in [Addr -> Step]
    BY <1>15, PcTyped DEF FinalError, Step
  <2>2. inbox' \in [Addr -> Seq(Reply)]
    BY <1>15, TryWriteTyped DEF FinalError
  <2>3. NamedTasks'
    BY <1>15, <2>1 DEF FinalError, At, Goto
  <2>4. EntryInHand'
    BY <1>15, <2>1 DEF FinalError, At, Goto, Subscribed
  <2>5. QED
    BY <1>15, <2>1, <2>2, <2>3, <2>4 DEF FinalError
<1>16. CASE Register(a)
  <2>1. pc' \in [Addr -> Step]
    BY <1>16, PcTyped DEF Register, Step
  <2>2. NamedTasks'
    BY <1>16, <2>1 DEF Register, At, Goto
  <2>3. EntryInHand'
    BY <1>16, <2>1 DEF Register, At, Goto, Subscribed
  <2>4. clients' \in [Addr -> ClientInfo]
    BY <1>16 DEF Register, NoInfo, ClientInfo
  <2>5. QED
    BY <1>16, <2>1, <2>2, <2>3, <2>4 DEF Register
<1>17. CASE SubscribeToFeed(a)
  <2>1. pc' \in [Addr -> Step]
    BY <1>17, PcTyped DEF SubscribeToFeed, Step
  <2>2. ChannelTypeOK'
    BY <1>17, CursorTyped DEF SubscribeToFeed
  <2>3. NamedTasks'
    BY <1>17, <2>1 DEF SubscribeToFeed, At, Goto
  <2>4. EntryInHand'
    BY <1>17, <2>1, SubscribeAtTyped DEF SubscribeToFeed, At, Goto, Subscribed, Subscribe
  <2>5. QED
    BY <1>17, <2>1, <2>2, <2>3, <2>4, SubscribeAtTyped DEF SubscribeToFeed
<1>18. QED
  BY <1>1, <1>2, <1>3, <1>4, <1>5, <1>6, <1>7, <1>8, <1>9, <1>10,
     <1>11, <1>12, <1>13, <1>14, <1>15, <1>16, <1>17 DEF LoginStep

(* and so do those of the select loop *)
LEMMA LoopTyped ==
    ASSUME ServerInv, NEW a \in Addr, LoopStep(a)
    PROVE  ServerInv'
<1>1. CASE ReceiveText(a)
  <2>1. pc' \in [Addr -> Step]
    BY <1>1, PcTyped DEF ReceiveText, ReceiveAt, Step
  <2>2. NamedTasks'
    BY <1>1, <2>1 DEF ReceiveText, ReceiveAt, At, Goto
  <2>3. EntryInHand'
    BY <1>1, <2>1 DEF ReceiveText, ReceiveAt, At, Goto, Subscribed
  <2>4. messagesSent' \in Nat
    BY <1>1 DEF ReceiveText, ReceiveAt, CountReceive
  <2>5. QED
    BY <1>1, <2>1, <2>2, <2>3, <2>4 DEF ReceiveText, ReceiveAt, CountReceive
<1>2. CASE ReceiveBinary(a)
  <2>1. pc' \in [Addr -> Step]
    BY <1>2, PcTyped DEF ReceiveBinary, ReceiveAt, Step
  <2>2. NamedTasks'
    BY <1>2, <2>1 DEF ReceiveBinary, ReceiveAt, At, Goto
  <2>3. EntryInHand'
    BY <1>2, <2>1 DEF ReceiveBinary, ReceiveAt, At, Goto, Subscribed
  <2>4. messagesSent' \in Nat
    BY <1>2 DEF ReceiveBinary, ReceiveAt, CountReceive
  <2>5. QED
    BY <1>2, <2>1, <2>2, <2>3, <2>4 DEF ReceiveBinary, ReceiveAt, CountReceive
<1>3. CASE ReceiveOther(a)
  <2>1. pc' \in [Addr -> Step]
    BY <1>3, PcTyped DEF ReceiveOther, ReceiveAt, Step
  <2>2. NamedTasks'
    BY <1>3, <2>1 DEF ReceiveOther, ReceiveAt, At, Goto
  <2>3. EntryInHand'
    BY <1>3, <2>1 DEF ReceiveOther, ReceiveAt, At, Goto, Subscribed
  <2>4. messagesSent' \in Nat
    BY <1>3 DEF ReceiveOther, ReceiveAt, CountReceive
  <2>5. QED
    BY <1>3, <2>1, <2>2, <2>3, <2>4 DEF ReceiveOther, ReceiveAt, CountReceive
<1>4. CASE ReceiveMalformed(a)
  <2>1. pc' \in [Addr -> Step]
    BY <1>4, PcTyped DEF ReceiveMalformed, ReceiveAt, Step
  <2>2. NamedTasks'
    BY <1>4, <2>1 DEF ReceiveMalformed, ReceiveAt, At, Goto
  <2>3. EntryInHand'
    BY <1>4, <2>1 DEF ReceiveMalformed, ReceiveAt, At, Goto, Subscribed
  <2>4. messagesSent' \in Nat
    BY <1>4 DEF ReceiveMalformed, ReceiveAt, CountReceive
  <2>5. QED
    BY <1>4, <2>1, <2>2, <2>3, <2>4 DEF ReceiveMalformed, ReceiveAt, CountReceive
<1>5. CASE ReceiveBroken(a)
  <2>1. pc' \in [Addr -> Step]
    BY <1>5, PcTyped DEF ReceiveBroken, ReceiveAt, Step
  <2>2. NamedTasks'
    BY <1>5, <2>1 DEF ReceiveBroken, ReceiveAt, At, Goto
  <2>3. EntryInHand'
    BY <1>5, <2>1 DEF ReceiveBroken, ReceiveAt, At, Goto, Subscribed
  <2>4. messagesSent' \in Nat
    BY <1>5 DEF ReceiveBroken, ReceiveAt, CountReceive
  <2>5. QED
    BY <1>5, <2>1, <2>2, <2>3, <2>4 DEF ReceiveBroken, ReceiveAt, CountReceive
<1>6. CASE ReceiveClosed(a)
  <2>1. pc' \in [Addr -> Step]
    BY <1>6, PcTyped DEF ReceiveClosed, ReceiveAt, Step
  <2>2. NamedTasks'
    BY <1>6, <2>1 DEF ReceiveClosed, ReceiveAt, At, Goto
  <2>3. EntryInHand'
    BY <1>6, <2>1 DEF ReceiveClosed, ReceiveAt, At, Goto, Subscribed
  <2>4. messagesSent' \in Nat
    BY <1>6 DEF ReceiveClosed, ReceiveAt, CountReceive
  <2>5. QED
    BY <1>6, <2>1, <2>2, <2>3, <2>4 DEF ReceiveClosed, ReceiveAt, CountReceive
<1>7. CASE Complain(a)
  <2>1. pc' \in [Addr -> Step]
    BY <1>7, PcTyped DEF Complain, Step
  <2>2. inbox' \in [Addr -> Seq(Reply)]
    BY <1>7, WriteTyped DEF Complain
  <2>3. NamedTasks'
    BY <1>7, <2>1 DEF Complain, At, Goto
  <2>4. EntryInHand'
    BY <1>7, <2>1 DEF Complain, At, Goto, Subscribed
  <2>5. QED
    BY <1>7, <2>1, <2>2, <2>3, <2>4 DEF Complain
<1>8. CASE ComplainLeave(a)
  <2>1. pc' \in [Addr -> Step]
    BY <1>8, PcTyped DEF ComplainLeave, Step
  <2>2. inbox' \in [Addr -> Seq(Reply)]
    BY <1>8, TryWriteTyped DEF ComplainLeave
  <2>3. NamedTasks'
    BY <1>8, <2>1 DEF ComplainLeave, At, Goto
  <2>4. EntryInHand'
    BY <1>8, <2>1 DEF ComplainLeave, At, Goto, Subscribed
  <2>5. QED
    BY <1>8, <2>1, <2>2, <2>3, <2>4 DEF ComplainLeave
<1>9. CASE SaveBinary(a)
  <2>1. pc' \in [Addr -> Step]
    BY <1>9, PcTyped DEF SaveBinary, Step
  <2>2. NamedTasks'
    BY <1>9, <2>1 DEF SaveBinary, At, Goto
  <2>3. EntryInHand'
    BY <1>9, <2>1 DEF SaveBinary, At, Goto, Subscribed
  <2>4. QED
    BY <1>9, <2>1, <2>2, <2>3 DEF SaveBinary
<1>10. CASE StoreMessage(a)
  <2>1. pc' \in [Addr -> Step]
    BY <1>10, PcTyped DEF StoreMessage, Step
  <2>2. DatabaseTypeOK'
    BY <1>10, MessageRowTyped DEF StoreMessage, At, ClientInfo
  <2>3. NamedTasks'
    BY <1>10, <2>1 DEF StoreMessage, At, Goto
  <2>4. EntryInHand'
    BY <1>10, <2>1 DEF StoreMessage, At, Goto, Subscribed
  <2>5. held' \in [Addr -> Nat]
    <3>1. UNCHANGED held \/ held' = [held EXCEPT ![a] = messageSeq + 1]
      BY <1>10 DEF StoreMessage
    <3>2. QED
      BY <3>1
  <2>6. QED
    BY <1>10, <2>1, <2>2, <2>3, <2>4, <2>5 DEF StoreMessage
<1>11. CASE StoreOrphan(a)
  <2>1. pc' \in [Addr -> Step]
    BY <1>11, PcTyped DEF StoreOrphan, Step
  <2>2. DatabaseTypeOK'
    BY <1>11, OrphanTyped DEF StoreOrphan
  <2>3. NamedTasks'
    BY <1>11, <2>1 DEF StoreOrphan, At, Goto
  <2>4. EntryInHand'
    BY <1>11, <2>1 DEF StoreOrphan, At, Goto, Subscribed
  <2>5. QED
    BY <1>11, <2>1, <2>2, <2>3, <2>4 DEF StoreOrphan
<1>12. CASE StoreFails(a)
  <2>1. pc' \in [Addr -> Step]
    BY <1>12, PcTyped DEF StoreFails, Step
  <2>2. NamedTasks'
    BY <1>12, <2>1 DEF StoreFails, At, Goto
  <2>3. EntryInHand'
    BY <1>12, <2>1 DEF StoreFails, At, Goto, Subscribed
  <2>4. QED
    BY <1>12, <2>1, <2>2, <2>3 DEF StoreFails
<1>13. CASE ReportStoreFailed(a)
  <2>1. pc' \in [Addr -> Step]
    BY <1>13, PcTyped DEF ReportStoreFailed, Step
  <2>2. inbox' \in [Addr -> Seq(Reply)]
    BY <1>13, TryWriteTyped DEF ReportStoreFailed
  <2>3. NamedTasks'
    BY <1>13, <2>1 DEF ReportStoreFailed, At, Goto
  <2>4. EntryInHand'
    BY <1>13, <2>1 DEF ReportStoreFailed, At, Goto, Subscribed
  <2>5. QED
    BY <1>13, <2>1, <2>2, <2>3, <2>4 DEF ReportStoreFailed
<1>14. CASE Announce(a)
  <2>1. pc' \in [Addr -> Step]
    BY <1>14, PcTyped DEF Announce, Step
  <2>2. ChannelTypeOK'
    BY <1>14, SendTyped DEF Announce
  <2>3. NamedTasks'
    BY <1>14, <2>1 DEF Announce, At, Goto
  <2>4. EntryInHand'
    BY <1>14, <2>1 DEF Announce, At, Goto, Subscribed, Send
  <2>5. QED
    BY <1>14, <2>1, <2>2, <2>3, <2>4 DEF Announce
<1>15. CASE RecvBroadcast(a)
  <2>1. pc' \in [Addr -> Step]
    BY <1>15, PcTyped DEF RecvBroadcast, Step
  <2>2. ChannelTypeOK'
    BY <1>15, CursorTyped DEF RecvBroadcast
  <2>3. NamedTasks'
    BY <1>15, <2>1 DEF RecvBroadcast, At, Goto
  <2>4. EntryInHand'
    <3>1. /\ next[a] # 0
          /\ next' = [next EXCEPT ![a] = @ + 1]
      BY <1>15 DEF RecvBroadcast, TakeEntry, HasEntry, Subscribed
    <3>2. \A b \in Addr : next[b] # 0 => next'[b] # 0
      BY <3>1
    <3>3. UNCHANGED pc \/ Goto(a, "forward")
      BY <1>15 DEF RecvBroadcast
    <3>4. QED
      BY <3>1, <3>2, <3>3 DEF Goto, Subscribed
  <2>5. QED
    BY <1>15, <2>1, <2>2, <2>3, <2>4 DEF RecvBroadcast
<1>16. CASE RecvLagged(a)
  <2>1. ChannelTypeOK'
    BY <1>16, CursorTyped DEF RecvLagged
  <2>2. NamedTasks'
    BY <1>16 DEF RecvLagged, At, Goto
  <2>3. EntryInHand'
    BY <1>16, OldestTyped DEF RecvLagged, At, Goto, Subscribed, SkipOverwritten
  <2>4. missed' \in [Addr -> SUBSET Nat]
    <3>1. next[a]..(Oldest - 1) \subseteq Nat
      BY OldestTyped
    <3>2. missed' = [missed EXCEPT ![a] = @ \cup next[a]..(Oldest - 1)]
      BY <1>16 DEF RecvLagged
    <3>3. QED
      BY <3>1, <3>2
  <2>5. QED
    BY <1>16, <2>1, <2>2, <2>3, <2>4 DEF RecvLagged
<1>17. CASE Forward(a)
  <2>1. pc' \in [Addr -> Step]
    BY <1>17, PcTyped DEF Forward, Step
  <2>2. inbox' \in [Addr -> Seq(Reply)]
    <3>1. next[a] - 1 \in Nat
      BY <1>17 DEF Forward, At, Subscribed
    <3>2. UNCHANGED inbox \/ Write(a, "Text", next[a] - 1)
      BY <1>17 DEF Forward
    <3>3. QED
      BY <3>1, <3>2, WriteTyped
  <2>3. NamedTasks'
    BY <1>17, <2>1 DEF Forward, At, Goto
  <2>4. EntryInHand'
    BY <1>17, <2>1 DEF Forward, At, Goto, Subscribed
  <2>5. QED
    BY <1>17, <2>1, <2>2, <2>3, <2>4 DEF Forward
<1>18. QED
  BY <1>1, <1>2, <1>3, <1>4, <1>5, <1>6, <1>7, <1>8, <1>9, <1>10,
     <1>11, <1>12, <1>13, <1>14, <1>15, <1>16, <1>17 DEF LoopStep

(* and those of the cleanup. *)
LEMMA CleanupTyped ==
    ASSUME ServerInv, NEW a \in Addr, CleanupStep(a)
    PROVE  ServerInv'
<1>1. CASE AnnounceLeft(a)
  <2>1. pc' \in [Addr -> Step]
    BY <1>1, PcTyped DEF AnnounceLeft, Step
  <2>2. ChannelTypeOK'
    BY <1>1, SendTyped DEF AnnounceLeft
  <2>3. NamedTasks'
    BY <1>1, <2>1 DEF AnnounceLeft, At, Goto
  <2>4. EntryInHand'
    BY <1>1, <2>1 DEF AnnounceLeft, At, Goto, Subscribed, Send
  <2>5. QED
    BY <1>1, <2>1, <2>2, <2>3, <2>4 DEF AnnounceLeft
<1>2. CASE Unregister(a)
  <2>1. pc' \in [Addr -> Step]
    BY <1>2, PcTyped DEF Unregister, Step
  <2>2. ChannelTypeOK'
    BY <1>2, CursorTyped DEF Unregister
  <2>3. NamedTasks'
    BY <1>2, <2>1 DEF Unregister, At, Goto
  <2>4. EntryInHand'
    BY <1>2, <2>1 DEF Unregister, At, Goto, Subscribed, Unsubscribe
  <2>5. clients' \in [Addr -> ClientInfo]
    BY <1>2 DEF Unregister, NoInfo, ClientInfo
  <2>6. QED
    BY <1>2, <2>1, <2>2, <2>3, <2>4, <2>5 DEF Unregister
<1>3. CASE Exit(a)
  <2>1. pc' \in [Addr -> Step]
    BY <1>3, PcTyped DEF Exit, Step
  <2>2. inbox' \in [Addr -> Seq(Reply)]
    BY <1>3 DEF Exit
  <2>3. NamedTasks'
    BY <1>3, <2>1 DEF Exit, At, Goto
  <2>4. EntryInHand'
    BY <1>3, <2>1 DEF Exit, At, Goto, Subscribed
  <2>5. info' \in [Addr -> ClientInfo]
    BY <1>3 DEF Exit, NoInfo, ClientInfo
  <2>6. activeConnections' \in Int
    BY <1>3 DEF Exit
  <2>7. QED
    BY <1>3, <2>1, <2>2, <2>3, <2>4, <2>5, <2>6 DEF Exit
<1>4. QED
  BY <1>1, <1>2, <1>3 DEF CleanupStep

(* A step of the admin keeps the types of what it shares with the tasks *)
(* and of its own requests.                                             *)
LEMMA AdminTyped ==
    ASSUME ServerInv, AdminTypeOK, AdminAction
    PROVE  ServerInv' /\ AdminTypeOK'
<1>. USE DEF AdminTypeOK, RequestStep, AdminAt
<1>1. ASSUME ChannelTypeOK', DatabaseTypeOK', UNCHANGED <<chatVars, next>>
      PROVE  ServerInv'
  BY <1>1 DEF chatVars, Subscribed
<1>2. UNCHANGED chatVars
  BY DEF AdminAction
<1>3. \A r \in Request : IdsOf(MessagesOf(target[r])) \subseteq Nat
  BY DEF IdsOf, MessagesOf, Message
<1>4. ASSUME NEW r \in Request, NEW id \in 1..userSeq, StartDelete(r, id)
      PROVE  ServerInv' /\ AdminTypeOK'
  <2>1. ChannelTypeOK' /\ UNCHANGED next
    BY <1>4 DEF StartDelete
  <2>2. DatabaseTypeOK'
    BY <1>4 DEF StartDelete
  <2>3. AdminTypeOK'
    BY <1>4 DEF StartDelete
  <2>4. QED
    BY <1>1, <1>2, <2>1, <2>2, <2>3
<1>5. ASSUME NEW r \in Request, DeleteMessages(r) PROVE ServerInv' /\ AdminTypeOK'
  BY <1>1, <1>2, <1>3, <1>5 DEF DeleteMessages, Doom
<1>6. ASSUME NEW r \in Request, DeleteUserRow(r) PROVE ServerInv' /\ AdminTypeOK'
  <2>1. ChannelTypeOK' /\ UNCHANGED next
    BY <1>6 DEF DeleteUserRow
  <2>2. DatabaseTypeOK'
    <3>1. rowLocks' = rowLocks \/ rowLocks' = rowLocks \cup {target[r]}
      BY <1>6 DEF DeleteUserRow
    <3>2. UNCHANGED <<users, userSeq, messages, messageSeq, committed>>
      BY <1>6 DEF DeleteUserRow
    <3>3. QED
      BY <3>1, <3>2
  <2>3. AdminTypeOK'
    BY <1>6 DEF DeleteUserRow
  <2>4. QED
    BY <1>1, <1>2, <2>1, <2>2, <2>3
<1>7. ASSUME NEW r \in Request, Cascade(r) PROVE ServerInv' /\ AdminTypeOK'
  BY <1>1, <1>2, <1>3, <1>7 DEF Cascade, Doom
<1>8. ASSUME NEW r \in Request, Commit(r) PROVE ServerInv' /\ AdminTypeOK'
  <2>1. ChannelTypeOK' /\ UNCHANGED next
    BY <1>8 DEF Commit
  <2>2. DatabaseTypeOK'
    BY <1>8 DEF Commit
  <2>3. AdminTypeOK'
    <3>1. ASSUME NEW s \in {"notify", "idle"}, CloseTransaction(r, s), UNCHANGED deletes
          PROVE  AdminTypeOK'
      BY <3>1 DEF CloseTransaction
    <3>2. QED
      BY <1>8, <3>1 DEF Commit
  <2>4. QED
    BY <1>1, <1>2, <2>1, <2>2, <2>3
<1>9. ASSUME NEW r \in Request, Abort(r) PROVE ServerInv' /\ AdminTypeOK'
  BY <1>1, <1>2, <1>9 DEF Abort, CloseTransaction
<1>10. ASSUME NEW r \in Request, Notify(r) PROVE ServerInv' /\ AdminTypeOK'
  <2>1. ChannelTypeOK'
    BY <1>10, SendTyped DEF Notify
  <2>2. QED
    BY <1>1, <1>2, <1>10, <2>1 DEF Notify, Send
<1>11. ASSUME NEW m \in messages, DeleteMessage(m) PROVE ServerInv' /\ AdminTypeOK'
  <2>1. ChannelTypeOK' /\ UNCHANGED next
    BY <1>11 DEF DeleteMessage
  <2>2. DatabaseTypeOK'
    BY <1>11 DEF DeleteMessage
  <2>3. AdminTypeOK'
    BY <1>11 DEF DeleteMessage
  <2>4. QED
    BY <1>1, <1>2, <2>1, <2>2, <2>3
<1>12. QED
  BY <1>4, <1>5, <1>6, <1>7, <1>8, <1>9, <1>10, <1>11 DEF AdminAction, AdminStep, DeletionStep

(* A new process starts with well-typed variables. *)
LEMMA CrashTyped ==
    ASSUME ServerInv, AdminTypeOK, Crash
    PROVE  ServerInv' /\ AdminTypeOK'
BY DEF Crash, ServerRestart, NewChannel, RollBackAll, NoTasks, NoClients, NoInfo,
       ClientInfo, Step, Free, AdminTypeOK, RequestStep, Subscribed

-----------------------------------------------------------------------------
TypeInv == ServerInv /\ AdminTypeOK /\ crashes \in Nat

(* A server that has just started is well-typed. *)
LEMMA InitTyped == Init => TypeInv
BY DEF Init, TypeInv, ChatInit, ChannelInit, DatabaseInit, AdminInit, NoTasks, NoClients,
       NoInfo, ClientInfo, Step, Free, AdminTypeOK, RequestStep, Subscribed

(* The types are inductive with NamedTasks and EntryInHand. *)
LEMMA NextTyped == TypeInv /\ [Next]_vars => TypeInv'
<1>. SUFFICES ASSUME TypeInv, [Next]_vars PROVE TypeInv'
  OBVIOUS
<1>. USE DEF TypeInv
<1>1. ASSUME NEW a \in Addr, ChatStep(a) PROVE TypeInv'
  <2>1. ServerInv'
    BY <1>1, LoginTyped, LoopTyped, CleanupTyped DEF ChatStep, TaskStep
  <2>2. QED
    BY <1>1, <2>1 DEF ChatStep, AdminTypeOK, adminVars
<1>2. CASE AdminAction
  BY <1>2, AdminTyped DEF AdminAction
<1>3. CASE Crash
  <2>1. ServerInv' /\ AdminTypeOK'
    BY <1>3, CrashTyped
  <2>2. crashes' \in Nat
    BY <1>3 DEF Crash
  <2>3. QED
    BY <2>1, <2>2
<1>4. CASE UNCHANGED vars
  BY <1>4 DEF vars, chatVars, adminVars, AdminTypeOK, Subscribed
<1>5. QED
  BY <1>1, <1>2, <1>3, <1>4 DEF Next, Finished

(* In every reachable state of the server every variable has its type, and *)
(* a task past its login works under a well-formed username.               *)
THEOREM TypeCorrect == Spec => []TypeInv
BY InitTyped, NextTyped, PTL DEF Spec

(* The type invariant the runs check. *)
THEOREM TypesHold == Spec => []TypeOK
<1>1. TypeInv => TypeOK
  BY DEF TypeInv, TypeOK
<1>2. QED
  BY <1>1, TypeCorrect, PTL
=============================================================================
