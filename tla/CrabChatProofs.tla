--------------------------- MODULE CrabChatProofs ---------------------------
(***************************************************************************)
(* The tables' promises hold in every reachable state: HistoryInv is       *)
(* inductive together with the types, and CrabChat implements ChatHistory. *)
(***************************************************************************)
EXTENDS CrabChatTypes

(* All that TableInv talks about. *)
tableVars == <<users, userSeq, messages, messageSeq, rowLocks, info, request, target, doomed>>

(* What of the types the proofs below use. *)
TableTyped ==
    /\ users \subseteq User
    /\ messages \subseteq Message
    /\ userSeq \in Nat
    /\ messageSeq \in Nat
    /\ info \in [Addr -> ClientInfo]
    /\ target \in [Request -> Nat]
    /\ request \in [Request -> RequestStep]
    /\ doomed \in [Request -> SUBSET Nat]

(* The type invariant gives them. *)
LEMMA TablesTyped == TypeInv => TableTyped
BY DEF TypeInv, ServerInv, ChatTypeOK, DatabaseTypeOK, AdminTypeOK, TableTyped

(* Steps that touch none of it keep it. *)
LEMMA Frame == TableInv /\ UNCHANGED tableVars => TableInv'
BY DEF TableInv, tableVars, IdsIssued, KeysUnique, StaleIdNeverReassigned,
       MessagesHaveTheirAuthor, DoomedAreTargets, CommitIsComplete, TargetHeld,
       Deleting, UserWithId

-----------------------------------------------------------------------------
(* The steps of a task.                                                     *)

(* A task may take on any id issued so far that is not somebody else's. *)
LEMMA NewInfo ==
    ASSUME TableTyped, TableInv, NEW a \in Addr, NEW i \in ClientInfo,
           i.user_id \in 0..userSeq,
           \A u \in users : u.id = i.user_id => u.username = i.username,
           info' = [info EXCEPT ![a] = i],
           UNCHANGED <<users, userSeq, messages, messageSeq, rowLocks, request, target, doomed>>
    PROVE  TableInv'
<1>1. IdsIssued'
  BY DEF TableTyped, TableInv, IdsIssued
<1>2. StaleIdNeverReassigned'
  BY DEF TableTyped, TableInv, StaleIdNeverReassigned
<1>3. KeysUnique' /\ MessagesHaveTheirAuthor'
  BY DEF TableInv, KeysUnique, MessagesHaveTheirAuthor
<1>4. DoomedAreTargets' /\ CommitIsComplete' /\ TargetHeld'
  BY DEF TableInv, DoomedAreTargets, CommitIsComplete, TargetHeld, Deleting, UserWithId
<1>5. QED
  BY <1>1, <1>2, <1>3, <1>4 DEF TableInv

(* A fresh id names nobody's stale session and no running deletion. *)
LEMMA NewUser ==
    ASSUME TableTyped, TableInv, NEW a \in Addr, NEW n \in Username,
           info[a].username = n,
           UserNamed(n) = {}, InsertUserRow(n),
           \/ UNCHANGED info
           \/ info' = [info EXCEPT ![a] = [username |-> n, user_id |-> userSeq + 1]],
           UNCHANGED <<request, target, doomed>>
    PROVE  TableInv'
<1>. DEFINE row == [id |-> userSeq + 1, username |-> n]
<1>1. /\ users' = users \cup {row}
      /\ userSeq' = userSeq + 1
      /\ UNCHANGED <<messages, messageSeq, committed, rowLocks>>
  BY DEF InsertUserRow, NextUserId
<1>2. \A u \in users : u.id \in 1..userSeq /\ u.id # userSeq + 1 /\ u.username # n
  BY DEF TableTyped, TableInv, IdsIssued, User, UserNamed
<1>3. \A b \in Addr :
         \/ info'[b] = info[b]
         \/ b = a /\ info'[b] = [username |-> n, user_id |-> userSeq + 1]
  BY DEF TableTyped
<1>4. IdsIssued'
  <2>1. \A u \in users' : u.id \in 1..userSeq'
    BY <1>1, <1>2 DEF TableTyped
  <2>2. \A b \in Addr : info'[b].user_id \in 0..userSeq'
    BY <1>1, <1>3 DEF TableTyped, TableInv, IdsIssued
  <2>3. \A r \in Request : target[r] \in 0..userSeq'
    BY <1>1 DEF TableTyped, TableInv, IdsIssued
  <2>4. QED
    BY <1>1, <2>1, <2>2, <2>3 DEF TableInv, IdsIssued
<1>5. KeysUnique'
  BY <1>1, <1>2 DEF TableInv, KeysUnique
<1>6. StaleIdNeverReassigned'
  <2>. SUFFICES ASSUME NEW b \in Addr, NEW u \in users', u.id = info'[b].user_id
                PROVE  u.username = info'[b].username
    BY DEF StaleIdNeverReassigned
  <2>1. CASE info'[b] = info[b]
    <3>1. info[b].user_id \in 0..userSeq
      BY DEF TableInv, IdsIssued
    <3>2. u \in users
      BY <1>1, <2>1, <3>1 DEF TableTyped
    <3>3. QED
      BY <2>1, <3>2 DEF TableInv, StaleIdNeverReassigned
  <2>2. CASE info'[b] = [username |-> n, user_id |-> userSeq + 1]
    BY <1>1, <1>2, <2>2
  <2>3. QED
    BY <1>3, <2>1, <2>2
<1>7. MessagesHaveTheirAuthor'
  BY <1>1 DEF TableInv, MessagesHaveTheirAuthor
<1>8. DoomedAreTargets' /\ CommitIsComplete'
  BY <1>1 DEF TableInv, DoomedAreTargets, CommitIsComplete
<1>9. TargetHeld'
  <2>1. \A r \in Request : target[r] # userSeq + 1
    BY DEF TableTyped, TableInv, IdsIssued
  <2>2. \A r \in Request : UserWithId(target[r])' = UserWithId(target[r])
    BY <1>1, <2>1 DEF UserWithId
  <2>3. QED
    BY <1>1, <2>2 DEF TableInv, TargetHeld, Deleting
<1>10. QED
  BY <1>4, <1>5, <1>6, <1>7, <1>8, <1>9 DEF TableInv

(* A message is inserted under the name of the user whose id it carries,   *)
(* and never for a user some transaction is about to remove.               *)
LEMMA NewMessage ==
    ASSUME TableTyped, TableInv, NEW a \in Addr, info[a].username \in Username,
           ~AuthorLocked(a), UserWithId(info[a].user_id) # {},
           InsertMessageRow(info[a].user_id, info[a].username),
           UNCHANGED <<info, request, target, doomed>>
    PROVE  TableInv'
<1>. DEFINE row == [id |-> messageSeq + 1, user_id |-> info[a].user_id,
                    author |-> info[a].username]
<1>1. /\ messages' = messages \cup {row}
      /\ messageSeq' = messageSeq + 1
      /\ UNCHANGED <<users, userSeq, rowLocks>>
  BY DEF InsertMessageRow
<1>2. \A m \in messages : m.id \in 1..messageSeq /\ m.id # messageSeq + 1
  BY DEF TableTyped, TableInv, IdsIssued
<1>3. PICK u \in users : u.id = info[a].user_id
  BY DEF UserWithId
<1>4. u.username = info[a].username
  BY <1>3 DEF TableInv, StaleIdNeverReassigned
<1>5. \A r \in Request : row.id \notin doomed[r]
  BY DEF TableTyped, TableInv, IdsIssued
<1>6. \A r \in Request : Deleting(r) => target[r] # info[a].user_id
  BY DEF TableInv, TargetHeld, AuthorLocked
<1>7. IdsIssued'
  BY <1>1, <1>2 DEF TableTyped, TableInv, IdsIssued
<1>8. KeysUnique'
  BY <1>1, <1>2 DEF TableInv, KeysUnique
<1>9. StaleIdNeverReassigned' /\ TargetHeld'
  BY <1>1 DEF TableInv, StaleIdNeverReassigned, TargetHeld, Deleting, UserWithId
<1>10. MessagesHaveTheirAuthor'
  BY <1>1, <1>3, <1>4 DEF TableInv, MessagesHaveTheirAuthor
<1>11. DoomedAreTargets'
  BY <1>1, <1>5 DEF TableTyped, TableInv, DoomedAreTargets, IdsIssued
<1>12. CommitIsComplete'
  BY <1>1, <1>6 DEF TableInv, CommitIsComplete, Deleting
<1>13. QED
  BY <1>7, <1>8, <1>9, <1>10, <1>11, <1>12 DEF TableInv

(* Neither does an id used up in vain matter. *)
LEMMA NoRow ==
    ASSUME TableTyped, TableInv, InsertUserConflict \/ InsertMessageOrphan,
           UNCHANGED <<info, request, target, doomed>>
    PROVE  TableInv'
<1>1. /\ userSeq' \in Nat /\ userSeq' >= userSeq
      /\ messageSeq' \in Nat /\ messageSeq' >= messageSeq
      /\ UNCHANGED <<users, messages, rowLocks>>
  BY DEF TableTyped, InsertUserConflict, InsertMessageOrphan
<1>2. IdsIssued'
  BY <1>1 DEF TableTyped, TableInv, IdsIssued
<1>3. KeysUnique' /\ StaleIdNeverReassigned' /\ MessagesHaveTheirAuthor'
  BY <1>1 DEF TableInv, KeysUnique, StaleIdNeverReassigned, MessagesHaveTheirAuthor
<1>4. DoomedAreTargets' /\ CommitIsComplete' /\ TargetHeld'
  BY <1>1 DEF TableInv, DoomedAreTargets, CommitIsComplete, TargetHeld, Deleting, UserWithId
<1>5. QED
  BY <1>2, <1>3, <1>4 DEF TableInv

(* Of the login, looking a user up and inserting it matter to the tables. *)
LEMMA LoginKeeps ==
    ASSUME TypeInv, TableInv, NEW a \in Addr, LoginStep(a), UNCHANGED adminVars
    PROVE  TableInv'
<1>. USE TablesTyped
<1>1. ASSUME NEW n \in Username, ReceiveLogin(a, n) PROVE TableInv'
  <2>. DEFINE i == [username |-> n, user_id |-> 0]
  <2>1. i \in ClientInfo /\ i.user_id \in 0..userSeq /\ \A u \in users : u.id # i.user_id
    BY DEF ClientInfo, TableTyped, TableInv, IdsIssued
  <2>2. QED
    BY <1>1, <2>1, NewInfo DEF ReceiveLogin, dbVars, adminVars
<1>2. CASE Accept(a)
  BY <1>2, Frame DEF Accept, tableVars, taskVars, dbVars, adminVars
<1>3. CASE ReceiveBadLogin(a)
  BY <1>3, Frame DEF ReceiveBadLogin, tableVars, taskVars, dbVars, adminVars
<1>4. CASE ReceiveNoLogin(a)
  BY <1>4, Frame DEF ReceiveNoLogin, tableVars, taskVars, dbVars, adminVars
<1>5. CASE Refuse(a)
  BY <1>5, Frame DEF Refuse, tableVars, taskVars, dbVars, adminVars
<1>6. CASE CheckFree(a)
  BY <1>6, Frame DEF CheckFree, tableVars, taskVars, dbVars, adminVars
<1>7. CASE CheckTaken(a)
  BY <1>7, Frame DEF CheckTaken, tableVars, taskVars, dbVars, adminVars
<1>8. CASE RefuseInUse(a)
  BY <1>8, Frame DEF RefuseInUse, tableVars, taskVars, dbVars, adminVars
<1>9. CASE SelectUser(a)
  <2>1. CASE UNCHANGED info
    BY <1>9, <2>1, Frame DEF SelectUser, tableVars, dbVars, adminVars
  <2>2. ASSUME NEW u \in UserNamed(info[a].username),
               info' = [info EXCEPT ![a].user_id = u.id]
        PROVE  TableInv'
    <3>. DEFINE i == [username |-> info[a].username, user_id |-> u.id]
    <3>1. u \in users /\ u.username = info[a].username /\ u.id \in 1..userSeq
      BY DEF UserNamed, TableInv, IdsIssued
    <3>2. i \in ClientInfo /\ i.user_id \in 0..userSeq
      BY <3>1 DEF TableTyped, ClientInfo
    <3>3. \A v \in users : v.id = i.user_id => v.username = i.username
      BY <3>1 DEF TableInv, KeysUnique
    <3>4. info' = [info EXCEPT ![a] = i]
      <4>1. [info[a] EXCEPT !.user_id = u.id] = i
        BY DEF TableTyped, ClientInfo
      <4>2. QED
        BY <2>2, <4>1
    <3>5. UNCHANGED <<users, userSeq, messages, messageSeq, rowLocks, request, target, doomed>>
      BY <1>9 DEF SelectUser, dbVars, adminVars
    <3>6. QED
      BY <3>2, <3>3, <3>4, <3>5, NewInfo
  <2>3. QED
    BY <1>9, <2>1, <2>2 DEF SelectUser
<1>10. CASE InsertUser(a)
  <2>1. info[a].username \in Username
    BY <1>10 DEF InsertUser, At, TypeInv, ServerInv, NamedTasks, Unnamed
  <2>2. \/ UNCHANGED info
        \/ info' = [info EXCEPT ![a].user_id = NextUserId]
    BY <1>10 DEF InsertUser
  <2>3. \/ UNCHANGED info
        \/ info' = [info EXCEPT ![a] =
                       [username |-> info[a].username, user_id |-> userSeq + 1]]
    BY <2>2 DEF NextUserId, TableTyped, ClientInfo
  <2>4. /\ UserNamed(info[a].username) = {}
        /\ InsertUserRow(info[a].username)
        /\ UNCHANGED <<request, target, doomed>>
    BY <1>10 DEF InsertUser, adminVars
  <2>5. QED
    BY <2>1, <2>3, <2>4, NewUser
<1>11. CASE InsertUserTwice(a)
  BY <1>11, NoRow DEF InsertUserTwice, adminVars
<1>12. CASE InsertUserFails(a)
  BY <1>12, Frame DEF InsertUserFails, tableVars, taskVars, dbVars, adminVars
<1>13. CASE Welcome(a)
  BY <1>13, Frame DEF Welcome, tableVars, taskVars, dbVars, adminVars
<1>14. CASE AnnounceJoin(a)
  BY <1>14, Frame DEF AnnounceJoin, tableVars, taskVars, dbVars, adminVars
<1>15. CASE FinalError(a)
  BY <1>15, Frame DEF FinalError, tableVars, taskVars, dbVars, adminVars
<1>16. CASE Register(a)
  BY <1>16, Frame DEF Register, tableVars, taskVars, dbVars, adminVars
<1>17. CASE SubscribeToFeed(a)
  BY <1>17, Frame DEF SubscribeToFeed, tableVars, taskVars, dbVars, adminVars
<1>18. QED
  BY <1>1, <1>2, <1>3, <1>4, <1>5, <1>6, <1>7, <1>8, <1>9, <1>10,
     <1>11, <1>12, <1>13, <1>14, <1>15, <1>16, <1>17 DEF LoginStep

(* Of the loop, storing a message does. *)
LEMMA LoopKeeps ==
    ASSUME TypeInv, TableInv, NEW a \in Addr, LoopStep(a), UNCHANGED adminVars
    PROVE  TableInv'
<1>. USE TablesTyped
<1>1. CASE ReceiveText(a)
  BY <1>1, Frame DEF ReceiveText, ReceiveAt, tableVars, taskVars, dbVars, adminVars
<1>2. CASE ReceiveBinary(a)
  BY <1>2, Frame DEF ReceiveBinary, ReceiveAt, tableVars, taskVars, dbVars, adminVars
<1>3. CASE ReceiveOther(a)
  BY <1>3, Frame DEF ReceiveOther, ReceiveAt, tableVars, taskVars, dbVars, adminVars
<1>4. CASE ReceiveMalformed(a)
  BY <1>4, Frame DEF ReceiveMalformed, ReceiveAt, tableVars, taskVars, dbVars, adminVars
<1>5. CASE ReceiveBroken(a)
  BY <1>5, Frame DEF ReceiveBroken, ReceiveAt, tableVars, taskVars, dbVars, adminVars
<1>6. CASE ReceiveClosed(a)
  BY <1>6, Frame DEF ReceiveClosed, ReceiveAt, tableVars, taskVars, dbVars, adminVars
<1>7. CASE Complain(a)
  BY <1>7, Frame DEF Complain, tableVars, taskVars, dbVars, adminVars
<1>8. CASE ComplainLeave(a)
  BY <1>8, Frame DEF ComplainLeave, tableVars, taskVars, dbVars, adminVars
<1>9. CASE SaveBinary(a)
  BY <1>9, Frame DEF SaveBinary, tableVars, taskVars, dbVars, adminVars
<1>10. CASE StoreMessage(a)
  <2>1. info[a].username \in Username
    BY <1>10 DEF StoreMessage, At, TypeInv, ServerInv, NamedTasks, Unnamed
  <2>2. QED
    BY <1>10, <2>1, NewMessage DEF StoreMessage, adminVars
<1>11. CASE StoreOrphan(a)
  BY <1>11, NoRow DEF StoreOrphan, taskVars, adminVars
<1>12. CASE StoreFails(a)
  BY <1>12, Frame DEF StoreFails, tableVars, taskVars, dbVars, adminVars
<1>13. CASE ReportStoreFailed(a)
  BY <1>13, Frame DEF ReportStoreFailed, tableVars, taskVars, dbVars, adminVars
<1>14. CASE Announce(a)
  BY <1>14, Frame DEF Announce, tableVars, taskVars, dbVars, adminVars
<1>15. CASE RecvBroadcast(a)
  BY <1>15, Frame DEF RecvBroadcast, tableVars, taskVars, dbVars, adminVars
<1>16. CASE RecvLagged(a)
  BY <1>16, Frame DEF RecvLagged, tableVars, taskVars, dbVars, adminVars
<1>17. CASE Forward(a)
  BY <1>17, Frame DEF Forward, tableVars, taskVars, dbVars, adminVars
<1>18. QED
  BY <1>1, <1>2, <1>3, <1>4, <1>5, <1>6, <1>7, <1>8, <1>9, <1>10,
     <1>11, <1>12, <1>13, <1>14, <1>15, <1>16, <1>17 DEF LoopStep

(* The end of a session only forgets its id. *)
LEMMA CleanupKeeps ==
    ASSUME TypeInv, TableInv, NEW a \in Addr, CleanupStep(a), UNCHANGED adminVars
    PROVE  TableInv'
<1>. USE TablesTyped
<1>1. CASE AnnounceLeft(a)
  BY <1>1, Frame DEF AnnounceLeft, tableVars, taskVars, dbVars, adminVars
<1>2. CASE Unregister(a)
  BY <1>2, Frame DEF Unregister, tableVars, taskVars, dbVars, adminVars
<1>3. CASE Exit(a)
  <2>1. /\ NoInfo \in ClientInfo
        /\ NoInfo.user_id \in 0..userSeq
        /\ \A u \in users : u.id # NoInfo.user_id
    BY DEF NoInfo, ClientInfo, TableTyped, TableInv, IdsIssued
  <2>2. QED
    BY <1>3, <2>1, NewInfo DEF Exit, dbVars, adminVars
<1>4. QED
  BY <1>1, <1>2, <1>3 DEF CleanupStep

-----------------------------------------------------------------------------
(* The steps of a deletion.                                                 *)

(* What happens to the tables' rows while a transaction is only open. *)
LEMMA RowsKept ==
    ASSUME TableInv, UNCHANGED <<users, userSeq, messages, messageSeq, info>>
    PROVE  KeysUnique' /\ StaleIdNeverReassigned' /\ MessagesHaveTheirAuthor'
BY DEF TableInv, KeysUnique, StaleIdNeverReassigned, MessagesHaveTheirAuthor

(* A deletion may be started for any id ever issued. *)
LEMMA StartKeeps ==
    ASSUME TableTyped, TableInv, NEW r \in Request, NEW id \in 1..userSeq,
           StartDelete(r, id), UNCHANGED info
    PROVE  TableInv'
<1>1. /\ request[r] = "idle"
      /\ request' = [request EXCEPT ![r] = "messages"]
      /\ target' = [target EXCEPT ![r] = id]
      /\ UNCHANGED <<doomed, users, userSeq, messages, messageSeq, rowLocks>>
  BY DEF StartDelete, AdminAt, dbVars
<1>2. IdsIssued'
  BY <1>1 DEF TableTyped, TableInv, IdsIssued
<1>3. doomed[r] = {}
  BY <1>1 DEF TableInv, DoomedAreTargets
<1>4. DoomedAreTargets'
  BY <1>1, <1>3 DEF TableTyped, TableInv, DoomedAreTargets
<1>5. CommitIsComplete' /\ TargetHeld'
  BY <1>1 DEF TableTyped, TableInv, CommitIsComplete, TargetHeld, Deleting, UserWithId
<1>6. QED
  BY <1>1, <1>2, <1>4, <1>5, RowsKept DEF TableInv

(* Both DELETE statements on messages mark rows of the target only, and    *)
(* the cascade marks all there are; a session that could add one waits.    *)
LEMMA DoomKeeps ==
    ASSUME TableTyped, TableInv, NEW r \in Request, Doom(r),
           \/ request[r] = "messages" /\ request' = [request EXCEPT ![r] = "user"]
           \/ request[r] = "cascade" /\ request' = [request EXCEPT ![r] = "commit"],
           UNCHANGED <<target, users, userSeq, messages, messageSeq, rowLocks, info>>
    PROVE  TableInv'
<1>. DEFINE ids == IdsOf(MessagesOf(target[r]))
<1>1. doomed' = [doomed EXCEPT ![r] = @ \cup ids]
  BY DEF Doom
<1>2. ids \subseteq 1..messageSeq
  BY DEF IdsOf, MessagesOf, TableInv, IdsIssued
<1>3. \A m \in messages : m.id \in ids <=> m.user_id = target[r]
  BY DEF IdsOf, MessagesOf, TableInv, KeysUnique
<1>4. IdsIssued'
  BY <1>1, <1>2 DEF TableTyped, TableInv, IdsIssued
<1>5. DoomedAreTargets'
  BY <1>1, <1>3 DEF TableTyped, TableInv, DoomedAreTargets
<1>6. CommitIsComplete'
  BY <1>1, <1>3 DEF TableTyped, TableInv, CommitIsComplete
<1>7. \A q \in Request : Deleting(q)' <=> Deleting(q)
  BY DEF TableTyped, Deleting
<1>8. TargetHeld'
  BY <1>7 DEF TableInv, TargetHeld, UserWithId
<1>9. QED
  BY <1>4, <1>5, <1>6, <1>8, RowsKept DEF TableInv

(* A transaction that goes on to the cascade is the only one on its row,   *)
(* and one that finds no row has no message left to delete.                *)
LEMMA UserRowKeeps ==
    ASSUME TableTyped, TableInv, NEW r \in Request, DeleteUserRow(r), UNCHANGED info
    PROVE  TableInv'
<1>1. /\ request[r] = "user"
      /\ target[r] \notin rowLocks
      /\ UNCHANGED <<target, doomed, users, userSeq, messages, messageSeq>>
      /\ \/ /\ rowLocks' = rowLocks \cup {target[r]}
            /\ request' = [request EXCEPT ![r] = "cascade"]
         \/ /\ UserWithId(target[r]) = {}
            /\ request' = [request EXCEPT ![r] = "commit"]
            /\ UNCHANGED rowLocks
  BY DEF DeleteUserRow, AdminAt
<1>2. IdsIssued' /\ DoomedAreTargets'
  BY <1>1 DEF TableTyped, TableInv, IdsIssued, DoomedAreTargets
<1>3. CommitIsComplete'
  <2>1. UserWithId(target[r]) = {} => \A m \in messages : m.user_id # target[r]
    BY DEF TableInv, MessagesHaveTheirAuthor, UserWithId
  <2>2. QED
    BY <1>1, <2>1 DEF TableTyped, TableInv, CommitIsComplete
<1>4. TargetHeld'
  <2>1. \A q \in Request : Deleting(q) /\ target[q] = target[r] => UserWithId(target[q]) = {}
    BY <1>1 DEF TableInv, TargetHeld
  <2>2. \A q \in Request \ {r} : Deleting(q)' <=> Deleting(q)
    BY <1>1 DEF TableTyped, Deleting
  <2>3. rowLocks \subseteq rowLocks'
    BY <1>1
  <2>4. Deleting(r)' => UserWithId(target[r]) = {} \/ target[r] \in rowLocks'
    BY <1>1 DEF TableTyped
  <2>5. QED
    BY <1>1, <2>1, <2>2, <2>3, <2>4 DEF TableInv, TargetHeld, UserWithId
<1>5. QED
  BY <1>1, <1>2, <1>3, <1>4, RowsKept DEF TableInv

(* Closing a transaction, whichever way, may only let go of its own row. *)
LEMMA CloseKeepsOthers ==
    ASSUME TableTyped, TableInv, NEW r \in Request, NEW s \in {"idle", "notify"},
           CloseTransaction(r, s), rowLocks' = rowLocks \ LockedBy(r),
           users' \subseteq users, messages' \subseteq messages,
           UNCHANGED <<userSeq, messageSeq, info>>
    PROVE  /\ IdsIssued' /\ KeysUnique' /\ StaleIdNeverReassigned'
           /\ DoomedAreTargets' /\ CommitIsComplete' /\ TargetHeld'
<1>1. /\ request' = [request EXCEPT ![r] = s]
      /\ doomed' = [doomed EXCEPT ![r] = {}]
      /\ target'[r] \in {0, target[r]}
      /\ \A q \in Request \ {r} : target'[q] = target[q]
  BY DEF CloseTransaction, TableTyped
<1>2. IdsIssued'
  BY <1>1 DEF TableTyped, TableInv, IdsIssued
<1>3. KeysUnique' /\ StaleIdNeverReassigned'
  BY DEF TableInv, KeysUnique, StaleIdNeverReassigned
<1>4. DoomedAreTargets' /\ CommitIsComplete'
  BY <1>1 DEF TableTyped, TableInv, DoomedAreTargets, CommitIsComplete
<1>5. TargetHeld'
  <2>1. ~Deleting(r)' /\ \A q \in Request \ {r} : Deleting(q)' <=> Deleting(q)
    BY <1>1 DEF TableTyped, Deleting
  <2>2. \A id : UserWithId(id) = {} => UserWithId(id)' = {}
    BY DEF UserWithId
  <2>3. ASSUME NEW q \in Request \ {r}, Deleting(q)', UserWithId(target[q]) # {}
        PROVE  /\ target[q] \in rowLocks'
               /\ \A p \in Request : Deleting(p)' /\ target'[p] = target[q] => p = q
    <3>1. /\ Deleting(q)
          /\ target[q] \in rowLocks
          /\ \A p \in Request : Deleting(p) /\ target[p] = target[q] => p = q
      BY <2>1, <2>3 DEF TableInv, TargetHeld
    <3>2. target[q] \notin LockedBy(r)
      BY <3>1 DEF LockedBy, Deleting
    <3>3. QED
      BY <1>1, <2>1, <3>1, <3>2
  <2>4. QED
    BY <1>1, <2>1, <2>2, <2>3 DEF TargetHeld
<1>6. QED
  BY <1>2, <1>3, <1>4, <1>5

(* What a commit takes away: the target and every message of it. *)
LEMMA CommitRemoves ==
    ASSUME TableInv, NEW r \in Request, Commit(r)
    PROVE  /\ users' = {u \in users : u.id # target[r]}
           /\ messages' = {m \in messages : m.user_id # target[r]}
<1>1. /\ request[r] = "commit"
      /\ users' = users \ UserWithId(target[r])
      /\ messages' = {m \in messages : m.id \notin doomed[r]}
  BY DEF Commit, AdminAt
<1>2. \A m \in messages : m.id \in doomed[r] <=> m.user_id = target[r]
  BY <1>1 DEF TableInv, DoomedAreTargets, CommitIsComplete
<1>3. QED
  BY <1>1, <1>2 DEF UserWithId

(* A commit leaves tables in which nothing of the target remains. *)
LEMMA CommitKeeps ==
    ASSUME TableTyped, TableInv, NEW r \in Request, Commit(r), UNCHANGED info
    PROVE  TableInv'
<1>1. \E s \in {"idle", "notify"} : CloseTransaction(r, s)
  BY DEF Commit
<1>2. users' \subseteq users /\ messages' \subseteq messages
  BY CommitRemoves
<1>3. rowLocks' = rowLocks \ LockedBy(r) /\ UNCHANGED <<userSeq, messageSeq>>
  BY DEF Commit
<1>4. MessagesHaveTheirAuthor'
  BY CommitRemoves DEF TableInv, MessagesHaveTheirAuthor
<1>5. QED
  BY <1>1, <1>2, <1>3, <1>4, CloseKeepsOthers DEF TableInv

(* An aborted transaction lets go of its row and its marks. *)
LEMMA AbortKeeps ==
    ASSUME TableTyped, TableInv, NEW r \in Request, Abort(r), UNCHANGED info
    PROVE  TableInv'
<1>1. /\ CloseTransaction(r, "idle")
      /\ rowLocks' = rowLocks \ LockedBy(r)
      /\ UNCHANGED <<users, userSeq, messages, messageSeq>>
  BY DEF Abort
<1>2. QED
  BY <1>1, CloseKeepsOthers, RowsKept DEF TableInv

(* The notice ends a request that holds nothing any more. *)
LEMMA NotifyKeeps ==
    ASSUME TableTyped, TableInv, NEW r \in Request, Notify(r), UNCHANGED info
    PROVE  TableInv'
<1>1. /\ request[r] = "notify"
      /\ request' = [request EXCEPT ![r] = "idle"]
      /\ target' = [target EXCEPT ![r] = 0]
      /\ UNCHANGED <<doomed, users, userSeq, messages, messageSeq, rowLocks>>
  BY DEF Notify, AdminAt, dbVars
<1>2. IdsIssued'
  BY <1>1 DEF TableTyped, TableInv, IdsIssued
<1>3. DoomedAreTargets' /\ CommitIsComplete' /\ TargetHeld'
  BY <1>1 DEF TableTyped, TableInv, DoomedAreTargets, CommitIsComplete, TargetHeld,
              Deleting, UserWithId
<1>4. QED
  BY <1>1, <1>2, <1>3, RowsKept DEF TableInv

(* Deleting one message leaves the others as they were. *)
LEMMA DeleteMessageKeeps ==
    ASSUME TableTyped, TableInv, NEW m \in messages, DeleteMessage(m), UNCHANGED info
    PROVE  TableInv'
<1>1. /\ messages' = messages \ {m}
      /\ UNCHANGED <<request, target, doomed, users, userSeq, messageSeq, rowLocks>>
  BY DEF DeleteMessage
<1>2. IdsIssued' /\ KeysUnique' /\ StaleIdNeverReassigned' /\ MessagesHaveTheirAuthor'
  BY <1>1 DEF TableInv, IdsIssued, KeysUnique, StaleIdNeverReassigned, MessagesHaveTheirAuthor
<1>3. DoomedAreTargets' /\ CommitIsComplete' /\ TargetHeld'
  BY <1>1 DEF TableInv, DoomedAreTargets, CommitIsComplete, TargetHeld, Deleting, UserWithId
<1>4. QED
  BY <1>2, <1>3 DEF TableInv

(* All the admin's steps together. *)
LEMMA AdminKeeps ==
    ASSUME TypeInv, TableInv, AdminAction
    PROVE  TableInv'
<1>1. TableTyped /\ UNCHANGED info
  BY TablesTyped DEF AdminAction, chatVars, taskVars
<1>2. ASSUME NEW r \in Request, DeleteMessages(r) \/ Cascade(r) PROVE TableInv'
  BY <1>1, <1>2, DoomKeeps DEF DeleteMessages, Cascade, AdminAt, dbVars
<1>3. QED
  BY <1>1, <1>2, StartKeeps, UserRowKeeps, CommitKeeps, AbortKeeps, NotifyKeeps,
     DeleteMessageKeeps DEF AdminAction, AdminStep, DeletionStep

(* A crash rolls the open transactions back and ends every session. *)
LEMMA CrashKeeps ==
    ASSUME TypeInv, TableInv, Crash
    PROVE  TableInv'
<1>1. /\ request' = [r \in Request |-> "idle"]
      /\ target' = [r \in Request |-> 0]
      /\ doomed' = [r \in Request |-> {}]
      /\ info' = [a \in Addr |-> NoInfo]
      /\ UNCHANGED <<users, userSeq, messages, messageSeq>>
  BY DEF Crash, ServerRestart, RollBackAll, NoClients
<1>2. IdsIssued' /\ StaleIdNeverReassigned'
  BY <1>1, TablesTyped DEF TableTyped, TableInv, IdsIssued, StaleIdNeverReassigned, NoInfo
<1>3. KeysUnique' /\ MessagesHaveTheirAuthor'
  BY <1>1 DEF TableInv, KeysUnique, MessagesHaveTheirAuthor
<1>4. DoomedAreTargets' /\ CommitIsComplete' /\ TargetHeld'
  BY <1>1 DEF DoomedAreTargets, CommitIsComplete, TargetHeld, Deleting
<1>5. QED
  BY <1>2, <1>3, <1>4 DEF TableInv

-----------------------------------------------------------------------------
(* The invariant and what follows from it.                                  *)

(* Empty tables satisfy it. *)
LEMMA InitTable == Init => TableInv
BY DEF Init, ChatInit, DatabaseInit, AdminInit, NoClients, NoInfo, TableInv, IdsIssued,
       KeysUnique, StaleIdNeverReassigned, MessagesHaveTheirAuthor, DoomedAreTargets,
       CommitIsComplete, TargetHeld, Deleting

(* TableInv is inductive, given the types. *)
LEMMA NextTable == TypeInv /\ TableInv /\ [Next]_vars => TableInv'
<1>. SUFFICES ASSUME TypeInv, TableInv, [Next]_vars PROVE TableInv'
  OBVIOUS
<1>1. ASSUME NEW a \in Addr, ChatStep(a) PROVE TableInv'
  BY <1>1, LoginKeeps, LoopKeeps, CleanupKeeps DEF ChatStep, TaskStep
<1>2. CASE UNCHANGED vars
  BY <1>2, Frame DEF vars, tableVars, chatVars, taskVars, dbVars, adminVars
<1>3. QED
  BY <1>1, <1>2, AdminKeeps, CrashKeeps DEF Next, Finished

(* HistoryInv holds in every reachable state. *)
THEOREM HistoryInvariant == Spec => []HistoryInv
<1>1. Init => TypeInv /\ TableInv
  BY InitTyped, InitTable
<1>2. TypeInv /\ TableInv /\ [Next]_vars => (TypeInv /\ TableInv)'
  BY NextTyped, NextTable
<1>3. TypeInv /\ TableInv => HistoryInv
  BY DEF TypeInv, ServerInv, HistoryInv
<1>4. QED
  BY <1>1, <1>2, <1>3, PTL DEF Spec

(* The id a session cached at login never comes to name somebody else. *)
THEOREM NoReassignment == Spec => []StaleIdNeverReassigned
<1>1. HistoryInv => StaleIdNeverReassigned
  BY DEF HistoryInv, TableInv
<1>2. QED
  BY <1>1, HistoryInvariant, PTL

(* Every stored message belongs to the existing user who wrote it. *)
THEOREM Attribution == Spec => []MessagesHaveTheirAuthor
<1>1. HistoryInv => MessagesHaveTheirAuthor
  BY DEF HistoryInv, TableInv
<1>2. QED
  BY <1>1, HistoryInvariant, PTL

-----------------------------------------------------------------------------
(* Every step is a step of ChatHistory or leaves its variables alone.       *)

HistoryStep == [History!Next]_(History!historyVars)

(* A login step is a Join, a SkipId or nothing to ChatHistory, *)
LEMMA LoginSimulated ==
    ASSUME TypeInv, TableInv, NEW a \in Addr, LoginStep(a)
    PROVE  HistoryStep
<1>. USE DEF HistoryStep, History!historyVars
<1>1. ASSUME NEW n \in Username, ReceiveLogin(a, n) PROVE HistoryStep
  BY <1>1 DEF ReceiveLogin, dbVars
<1>2. CASE Accept(a)
  BY <1>2 DEF Accept, dbVars
<1>3. CASE ReceiveBadLogin(a)
  BY <1>3 DEF ReceiveBadLogin, dbVars
<1>4. CASE ReceiveNoLogin(a)
  BY <1>4 DEF ReceiveNoLogin, dbVars
<1>5. CASE Refuse(a)
  BY <1>5 DEF Refuse, dbVars
<1>6. CASE CheckFree(a)
  BY <1>6 DEF CheckFree, dbVars
<1>7. CASE CheckTaken(a)
  BY <1>7 DEF CheckTaken, dbVars
<1>8. CASE RefuseInUse(a)
  BY <1>8 DEF RefuseInUse, dbVars
<1>9. CASE SelectUser(a)
  BY <1>9 DEF SelectUser, dbVars
<1>10. CASE InsertUser(a)
  <2>1. info[a].username \in Username
    BY <1>10 DEF InsertUser, At, TypeInv, ServerInv, NamedTasks, Unnamed
  <2>2. History!Join(info[a].username)
    BY <1>10, <2>1 DEF InsertUser, InsertUserRow, NextUserId, UserNamed, History!Join
  <2>3. QED
    BY <2>1, <2>2 DEF History!Next
<1>11. CASE InsertUserTwice(a)
  BY <1>11 DEF InsertUserTwice, InsertUserConflict, History!Next, History!SkipId
<1>12. CASE InsertUserFails(a)
  BY <1>12 DEF InsertUserFails, dbVars
<1>13. CASE Welcome(a)
  BY <1>13 DEF Welcome, dbVars
<1>14. CASE AnnounceJoin(a)
  BY <1>14 DEF AnnounceJoin, dbVars
<1>15. CASE FinalError(a)
  BY <1>15 DEF FinalError, dbVars
<1>16. CASE Register(a)
  BY <1>16 DEF Register, dbVars
<1>17. CASE SubscribeToFeed(a)
  BY <1>17 DEF SubscribeToFeed, dbVars
<1>18. QED
  BY <1>1, <1>2, <1>3, <1>4, <1>5, <1>6, <1>7, <1>8, <1>9, <1>10,
     <1>11, <1>12, <1>13, <1>14, <1>15, <1>16, <1>17 DEF LoginStep

(* a step of the loop a Post, a SkipId or nothing, *)
LEMMA LoopSimulated ==
    ASSUME TypeInv, TableInv, NEW a \in Addr, LoopStep(a)
    PROVE  HistoryStep
<1>. USE DEF HistoryStep, History!historyVars
<1>1. CASE ReceiveText(a)
  BY <1>1 DEF ReceiveText, ReceiveAt, dbVars
<1>2. CASE ReceiveBinary(a)
  BY <1>2 DEF ReceiveBinary, ReceiveAt, dbVars
<1>3. CASE ReceiveOther(a)
  BY <1>3 DEF ReceiveOther, ReceiveAt, dbVars
<1>4. CASE ReceiveMalformed(a)
  BY <1>4 DEF ReceiveMalformed, ReceiveAt, dbVars
<1>5. CASE ReceiveBroken(a)
  BY <1>5 DEF ReceiveBroken, ReceiveAt, dbVars
<1>6. CASE ReceiveClosed(a)
  BY <1>6 DEF ReceiveClosed, ReceiveAt, dbVars
<1>7. CASE Complain(a)
  BY <1>7 DEF Complain, dbVars
<1>8. CASE ComplainLeave(a)
  BY <1>8 DEF ComplainLeave, dbVars
<1>9. CASE SaveBinary(a)
  BY <1>9 DEF SaveBinary, dbVars
<1>10. CASE StoreMessage(a)
  <2>1. PICK u \in users : u.id = info[a].user_id
    BY <1>10 DEF StoreMessage, UserWithId
  <2>2. u.username = info[a].username
    BY <2>1 DEF TableInv, StaleIdNeverReassigned
  <2>3. History!Post(u)
    BY <1>10, <2>1, <2>2 DEF StoreMessage, InsertMessageRow, History!Post
  <2>4. QED
    BY <2>3 DEF History!Next
<1>11. CASE StoreOrphan(a)
  BY <1>11 DEF StoreOrphan, InsertMessageOrphan, History!Next, History!SkipId
<1>12. CASE StoreFails(a)
  BY <1>12 DEF StoreFails, dbVars
<1>13. CASE ReportStoreFailed(a)
  BY <1>13 DEF ReportStoreFailed, dbVars
<1>14. CASE Announce(a)
  BY <1>14 DEF Announce, dbVars
<1>15. CASE RecvBroadcast(a)
  BY <1>15 DEF RecvBroadcast, dbVars
<1>16. CASE RecvLagged(a)
  BY <1>16 DEF RecvLagged, dbVars
<1>17. CASE Forward(a)
  BY <1>17 DEF Forward, dbVars
<1>18. QED
  BY <1>1, <1>2, <1>3, <1>4, <1>5, <1>6, <1>7, <1>8, <1>9, <1>10,
     <1>11, <1>12, <1>13, <1>14, <1>15, <1>16, <1>17 DEF LoopStep

(* the cleanup nothing, *)
LEMMA CleanupSimulated ==
    ASSUME TypeInv, TableInv, NEW a \in Addr, CleanupStep(a)
    PROVE  HistoryStep
<1>. USE DEF HistoryStep, History!historyVars
<1>1. CASE AnnounceLeft(a)
  BY <1>1 DEF AnnounceLeft, dbVars
<1>2. CASE Unregister(a)
  BY <1>2 DEF Unregister, dbVars
<1>3. CASE Exit(a)
  BY <1>3 DEF Exit, dbVars
<1>4. QED
  BY <1>1, <1>2, <1>3 DEF CleanupStep

(* A deletion shows in one step, the commit, and shows nothing at all when *)
(* it found no user: then there is no message of it either.                *)
LEMMA CommitSimulated ==
    ASSUME TableInv, NEW r \in Request, Commit(r)
    PROVE  HistoryStep
<1>1. UNCHANGED <<userSeq, messageSeq>>
  BY DEF Commit
<1>2. CASE UserWithId(target[r]) = {}
  <2>1. \A m \in messages : m.user_id # target[r]
    BY <1>2 DEF TableInv, MessagesHaveTheirAuthor, UserWithId
  <2>2. UNCHANGED <<users, messages>>
    BY <1>2, <2>1, CommitRemoves DEF UserWithId
  <2>3. QED
    BY <1>1, <2>2 DEF HistoryStep, History!historyVars
<1>3. ASSUME NEW u \in UserWithId(target[r]) PROVE HistoryStep
  <2>1. u \in users /\ u.id = target[r] /\ \A v \in users : v.id = u.id => v = u
    BY DEF UserWithId, TableInv, KeysUnique
  <2>2. users' = users \ {u} /\ messages' = {m \in messages : m.user_id # u.id}
    BY <2>1, CommitRemoves
  <2>3. History!RemoveUser(u)
    BY <1>1, <2>2 DEF History!RemoveUser
  <2>4. QED
    BY <2>1, <2>3 DEF HistoryStep, History!Next
<1>4. QED
  BY <1>2, <1>3

(* an admin step a RemoveUser, a RemoveMessage or nothing. *)
LEMMA AdminSimulated ==
    ASSUME TableInv, AdminAction
    PROVE  HistoryStep
<1>. USE DEF HistoryStep, History!historyVars
<1>1. ASSUME NEW r \in Request,
             \/ \E id \in 1..userSeq : StartDelete(r, id)
             \/ DeleteMessages(r) \/ DeleteUserRow(r) \/ Cascade(r)
             \/ Abort(r) \/ Notify(r)
      PROVE  HistoryStep
  BY <1>1 DEF StartDelete, DeleteMessages, DeleteUserRow, Cascade, Abort, Notify, dbVars
<1>2. ASSUME NEW m \in messages, DeleteMessage(m) PROVE HistoryStep
  BY <1>2 DEF DeleteMessage, History!Next, History!RemoveMessage
<1>3. QED
  BY <1>1, <1>2, CommitSimulated DEF AdminAction, AdminStep, DeletionStep

(* CrabChat implements ChatHistory: deletions are atomic, names are unique *)
(* and nobody posts as somebody else, across crashes and lost replies.     *)
THEOREM Refinement == Spec => ImplementsHistory
<1>1. Init => History!Init
  BY DEF Init, DatabaseInit, History!Init
<1>2. TypeInv /\ TableInv /\ [Next]_vars => HistoryStep
  <2>. SUFFICES ASSUME TypeInv, TableInv, [Next]_vars PROVE HistoryStep
    OBVIOUS
  <2>1. ASSUME NEW a \in Addr, ChatStep(a) PROVE HistoryStep
    BY <2>1, LoginSimulated, LoopSimulated, CleanupSimulated DEF ChatStep, TaskStep
  <2>2. CASE Crash
    BY <2>2 DEF Crash, RollBackAll, HistoryStep, History!historyVars
  <2>3. CASE UNCHANGED vars
    BY <2>3 DEF vars, dbVars, HistoryStep, History!historyVars
  <2>4. QED
    BY <2>1, <2>2, <2>3, AdminSimulated DEF Next, Finished
<1>3. HistoryInv => TableInv
  BY DEF HistoryInv
<1>4. QED
  BY <1>1, <1>2, <1>3, TypeCorrect, HistoryInvariant, PTL
     DEF Spec, ImplementsHistory, History!Spec, HistoryStep
=============================================================================
