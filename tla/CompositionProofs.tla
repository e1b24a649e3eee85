-------------------------- MODULE CompositionProofs --------------------------
(****************************************************************************)
(* The server with what runs beside it: the admin pages that keep rows in   *)
(* hand (UsersPage) and the pool of database connections (ConnectionPool).  *)
(* Each adds steps to the server and none to what clients see of it, and    *)
(* each has an invariant of its own.                                        *)
(****************************************************************************)
EXTENDS UsersPage, ConnectionPool, PresenceProofs

(* OnlineIsConnected holds of the users page in every reachable state,    *)
(* however old its rows are.  The proof goes by what a step may do to the *)
(* ids a row can be compared with (IdStep) and by the agreement of the    *)
(* clients map with the tasks (MapInv of PresenceProofs).                 *)

(* What a row in hand is compared with later: it names the user it named. *)
RowsStillTrue ==
    \A u \in listed :
        /\ u.id \in 1..userSeq
        /\ \A v \in users : v.id = u.id => v = u
        /\ \A a \in Addr : info[a].user_id = u.id => info[a].username = u.username

PagesInv == TypeInv /\ TableInv /\ PresenceInv /\ RowsStillTrue

(* A step gives out new ids only, and a task takes on the id of the user   *)
(* with its name, a new id, or none.                                       *)
IdStep ==
    /\ userSeq \in Nat /\ userSeq' \in Nat /\ userSeq <= userSeq'
    /\ \A v \in users' : v \in users \/ v.id > userSeq
    /\ \A a \in Addr :
        \/ info'[a] = info[a]
        \/ info'[a].user_id = 0
        \/ info'[a].user_id > userSeq
        \/ \E v \in users : v.id = info'[a].user_id /\ v.username = info'[a].username

(* Steps that leave the users and the tasks' infos alone. *)
LEMMA NoIdMoves ==
    ASSUME Shaped, userSeq' \in {userSeq, userSeq + 1}, UNCHANGED <<users, info>>
    PROVE  IdStep
BY DEF Shaped, TableTyped, IdStep

-----------------------------------------------------------------------------
(* Steps of a login move ids as IdStep says, *)
LEMMA LoginMovesIds ==
    ASSUME Shaped, NEW a \in Addr, LoginStep(a)
    PROVE  IdStep
<1>. USE DEF Shaped, TableTyped
<1>1. ASSUME NEW n \in Username, ReceiveLogin(a, n) PROVE IdStep
  BY <1>1 DEF ReceiveLogin, dbVars, IdStep
<1>2. CASE SelectUser(a)
  <2>1. CASE UNCHANGED info
    BY <1>2, <2>1, NoIdMoves DEF SelectUser, dbVars
  <2>2. ASSUME NEW u \in UserNamed(info[a].username),
               info' = [info EXCEPT ![a].user_id = u.id]
        PROVE  IdStep
    <3>1. info'[a].user_id = u.id /\ info'[a].username = u.username /\ u \in users
      BY <2>2 DEF UserNamed, ClientInfo
    <3>2. \A b \in Addr : b # a => info'[b] = info[b]
      BY <2>2
    <3>3. UNCHANGED <<users, userSeq>>
      BY <1>2 DEF SelectUser, dbVars
    <3>4. \A b \in Addr : b = a \/ info'[b] = info[b]
      BY <3>2
    <3>5. \E v \in users : v.id = info'[a].user_id /\ v.username = info'[a].username
      BY <3>1
    <3>6. QED
      BY <3>3, <3>4, <3>5 DEF IdStep
  <2>3. QED
    BY <1>2, <2>1, <2>2 DEF SelectUser
<1>3. CASE InsertUser(a)
  <2>1. /\ users' = users \cup {[id |-> userSeq + 1, username |-> info[a].username]}
        /\ userSeq' = userSeq + 1
    BY <1>3 DEF InsertUser, InsertUserRow, NextUserId
  <2>2. \A b \in Addr : info'[b] = info[b] \/ info'[b].user_id = userSeq + 1
    BY <1>3 DEF InsertUser, NextUserId, ClientInfo
  <2>3. QED
    BY <2>1, <2>2 DEF IdStep
<1>4. CASE Register(a)
  BY <1>4, NoIdMoves DEF Register, dbVars
<1>5. CASE Accept(a)
  BY <1>5, NoIdMoves DEF Accept, dbVars
<1>6. CASE ReceiveBadLogin(a)
  BY <1>6, NoIdMoves DEF ReceiveBadLogin, dbVars
<1>7. CASE ReceiveNoLogin(a)
  BY <1>7, NoIdMoves DEF ReceiveNoLogin, dbVars
<1>8. CASE Refuse(a)
  BY <1>8, NoIdMoves DEF Refuse, dbVars
<1>9. CASE CheckFree(a)
  BY <1>9, NoIdMoves DEF CheckFree, dbVars
<1>10. CASE CheckTaken(a)
  BY <1>10, NoIdMoves DEF CheckTaken, dbVars
<1>11. CASE RefuseInUse(a)
  BY <1>11, NoIdMoves DEF RefuseInUse, dbVars
<1>12. CASE InsertUserTwice(a)
  BY <1>12, NoIdMoves DEF InsertUserTwice, InsertUserConflict
<1>13. CASE InsertUserFails(a)
  BY <1>13, NoIdMoves DEF InsertUserFails, dbVars
<1>14. CASE Welcome(a)
  BY <1>14, NoIdMoves DEF Welcome, dbVars
<1>15. CASE AnnounceJoin(a)
  BY <1>15, NoIdMoves DEF AnnounceJoin, dbVars
<1>16. CASE FinalError(a)
  BY <1>16, NoIdMoves DEF FinalError, dbVars
<1>17. CASE SubscribeToFeed(a)
  BY <1>17, NoIdMoves DEF SubscribeToFeed, dbVars
<1>18. QED
  BY <1>1, <1>2, <1>3, <1>4, <1>5, <1>6, <1>7, <1>8, <1>9,
     <1>10, <1>11, <1>12, <1>13, <1>14, <1>15, <1>16, <1>17 DEF LoginStep

(* so do the steps of the loop and of the cleanup, *)
LEMMA LoopMovesIds ==
    ASSUME Shaped, NEW a \in Addr, LoopStep(a)
    PROVE  IdStep
<1>1. CASE ReceiveText(a)
  BY <1>1, NoIdMoves DEF ReceiveText, ReceiveAt, dbVars
<1>2. CASE ReceiveBinary(a)
  BY <1>2, NoIdMoves DEF ReceiveBinary, ReceiveAt, dbVars
<1>3. CASE ReceiveOther(a)
  BY <1>3, NoIdMoves DEF ReceiveOther, ReceiveAt, dbVars
<1>4. CASE ReceiveMalformed(a)
  BY <1>4, NoIdMoves DEF ReceiveMalformed, ReceiveAt, dbVars
<1>5. CASE ReceiveBroken(a)
  BY <1>5, NoIdMoves DEF ReceiveBroken, ReceiveAt, dbVars
<1>6. CASE ReceiveClosed(a)
  BY <1>6, NoIdMoves DEF ReceiveClosed, ReceiveAt, dbVars
<1>7. CASE Complain(a)
  BY <1>7, NoIdMoves DEF Complain, dbVars
<1>8. CASE ComplainLeave(a)
  BY <1>8, NoIdMoves DEF ComplainLeave, dbVars
<1>9. CASE SaveBinary(a)
  BY <1>9, NoIdMoves DEF SaveBinary, dbVars
<1>10. CASE StoreMessage(a)
  BY <1>10, NoIdMoves DEF StoreMessage, InsertMessageRow
<1>11. CASE StoreOrphan(a)
  BY <1>11, NoIdMoves DEF StoreOrphan, InsertMessageOrphan
<1>12. CASE StoreFails(a)
  BY <1>12, NoIdMoves DEF StoreFails, dbVars
<1>13. CASE ReportStoreFailed(a)
  BY <1>13, NoIdMoves DEF ReportStoreFailed, dbVars
<1>14. CASE Announce(a)
  BY <1>14, NoIdMoves DEF Announce, dbVars
<1>15. CASE RecvBroadcast(a)
  BY <1>15, NoIdMoves DEF RecvBroadcast, dbVars
<1>16. CASE RecvLagged(a)
  BY <1>16, NoIdMoves DEF RecvLagged, taskVars, dbVars
<1>17. CASE Forward(a)
  BY <1>17, NoIdMoves DEF Forward, dbVars
<1>18. QED
  BY <1>1, <1>2, <1>3, <1>4, <1>5, <1>6, <1>7, <1>8, <1>9,
     <1>10, <1>11, <1>12, <1>13, <1>14, <1>15, <1>16, <1>17 DEF LoopStep

(* a task that ends taking on no id at all. *)
LEMMA CleanupMovesIds ==
    ASSUME Shaped, NEW a \in Addr, CleanupStep(a)
    PROVE  IdStep
<1>1. CASE AnnounceLeft(a)
  BY <1>1, NoIdMoves DEF AnnounceLeft, dbVars
<1>2. CASE Unregister(a)
  BY <1>2, NoIdMoves DEF Unregister, dbVars
<1>3. CASE Exit(a)
  BY <1>3 DEF Exit, dbVars, NoInfo, Shaped, TableTyped, IdStep
<1>4. QED
  BY <1>1, <1>2, <1>3 DEF CleanupStep

(* The admin only takes users away. *)
LEMMA AdminMovesIds ==
    ASSUME Shaped, AdminAction
    PROVE  IdStep
<1>. USE DEF Shaped, TableTyped, IdStep
<1>1. UNCHANGED info
  BY DEF AdminAction, chatVars, taskVars
<1>2. ASSUME NEW r \in Request, DeletionStep(r) PROVE userSeq' = userSeq /\ users' \subseteq users
  BY <1>2 DEF DeletionStep, StartDelete, DeleteMessages, DeleteUserRow, Cascade, Commit,
              Abort, Notify, dbVars
<1>3. ASSUME NEW m \in messages, DeleteMessage(m) PROVE UNCHANGED <<users, userSeq>>
  BY <1>3 DEF DeleteMessage
<1>4. QED
  BY <1>1, <1>2, <1>3 DEF AdminAction, AdminStep

(* Every step of the server moves ids as IdStep says. *)
LEMMA StepMovesIds == Shaped /\ [Next]_vars => IdStep
<1>. SUFFICES ASSUME Shaped, [Next]_vars PROVE IdStep
  OBVIOUS
<1>1. ASSUME NEW a \in Addr, ChatStep(a) PROVE IdStep
  BY <1>1, LoginMovesIds, LoopMovesIds, CleanupMovesIds DEF ChatStep, TaskStep
<1>2. CASE Crash
  BY <1>2 DEF Crash, ServerRestart, RollBackAll, NoClients, NoInfo, Shaped, TableTyped, IdStep
<1>3. CASE UNCHANGED vars
  BY <1>3, NoIdMoves DEF vars, chatVars, taskVars, dbVars
<1>4. QED
  BY <1>1, <1>2, <1>3, AdminMovesIds DEF Next, Finished

(* Then rows in hand stay true, *)
LEMMA RowsStayTrue ==
    ASSUME Shaped, TableInv, RowsStillTrue, IdStep, UNCHANGED listed
    PROVE  RowsStillTrue'
<1>. SUFFICES ASSUME NEW u \in listed
              PROVE  /\ u.id \in 1..userSeq'
                     /\ \A v \in users' : v.id = u.id => v = u
                     /\ \A a \in Addr : info'[a].user_id = u.id => info'[a].username = u.username
  BY DEF RowsStillTrue
<1>1. /\ u.id \in 1..userSeq
      /\ \A v \in users : v.id = u.id => v = u
      /\ \A a \in Addr : info[a].user_id = u.id => info[a].username = u.username
  BY DEF RowsStillTrue
<1>2. u.id \in 1..userSeq' /\ u.id # 0 /\ ~(u.id > userSeq)
  BY <1>1 DEF IdStep
<1>3. \A v \in users' : v.id = u.id => v = u
  BY <1>1, <1>2 DEF IdStep
<1>4. \A a \in Addr : info'[a].user_id = u.id => info'[a].username = u.username
  BY <1>1, <1>2 DEF IdStep
<1>5. QED
  BY <1>2, <1>3, <1>4

(* as rows just read are. *)
LEMMA RowsReadTrue ==
    ASSUME Shaped, TableInv, listed' = users, UNCHANGED vars
    PROVE  RowsStillTrue'
<1>1. UNCHANGED <<users, userSeq, info>>
  BY DEF vars, chatVars, taskVars, dbVars
<1>2. QED
  BY <1>1 DEF RowsStillTrue, TableInv, IdsIssued, KeysUnique, StaleIdNeverReassigned

-----------------------------------------------------------------------------
(* The page takes no part in what the server does. *)
LEMMA PageStepsAside == [PagesNext]_allVars => [Next]_vars
BY DEF PagesNext, Next, allVars

(* The server beside its users page is the server. *)
THEOREM PagesImplement == PagesSpec => Spec
<1>1. PagesInit => Init
  BY DEF PagesInit
<1>2. QED
  BY <1>1, PageStepsAside, PTL DEF PagesSpec, Spec

(* No entries and no rows to begin with. *)
LEMMA InitPages == PagesInit => PagesInv
BY InitTyped, InitTable, InitPresence DEF PagesInit, PageInit, PagesInv, RowsStillTrue

(* PagesInv is inductive. *)
LEMMA NextPages == PagesInv /\ [PagesNext]_allVars => PagesInv'
<1>. SUFFICES ASSUME PagesInv, [PagesNext]_allVars PROVE PagesInv'
  OBVIOUS
<1>1. TypeInv' /\ TableInv' /\ PresenceInv'
  BY PageStepsAside, NextTyped, NextTable, NextPresence DEF PagesInv
<1>2. IdStep /\ Shaped
  BY PageStepsAside, ShapeHolds, StepMovesIds DEF PagesInv
<1>3. RowsStillTrue'
  <2>1. CASE UNCHANGED listed
    BY <1>2, <2>1, RowsStayTrue DEF PagesInv
  <2>2. CASE ClosePage
    BY <2>2 DEF ClosePage, RowsStillTrue
  <2>3. CASE QueryUsers /\ UNCHANGED vars
    BY <1>2, <2>3, RowsReadTrue DEF QueryUsers, PagesInv
  <2>4. QED
    BY <2>1, <2>2, <2>3 DEF PagesNext, PageStep, ShowUsers, pageVars, allVars
<1>4. QED
  BY <1>1, <1>3 DEF PagesInv

(* Whoever the page shows online is connected under the name shown. *)
THEOREM OnlineHolds == PagesSpec => []OnlineIsConnected
<1>1. PagesInv => OnlineIsConnected
  BY DEF PagesInv, PresenceInv, MapInv, RegistryAgrees, RowsStillTrue, OnlineIsConnected, Online
<1>2. QED
  BY <1>1, InitPages, NextPages, PTL DEF PagesSpec

-----------------------------------------------------------------------------
(* The server on its connection pool is the server: a connection that did *)
(* not come in time is one of the failures CrabChat already has.  And the *)
(* pool is never overdrawn, nor does anybody keep a connection who has no *)
(* statement to run.                                                      *)

(* A timeout is a failed query, INSERT or store; *)
LEMMA TimeoutIsFailure ==
    ASSUME NEW a \in Addr, TaskTimesOut(a)
    PROVE  ChatStep(a)
<1>1. pc[a] \in Querying
  BY PoolAssumption DEF TaskTimesOut, Callers
<1>2. CASE At(a, "select")
  <2>1. SelectUser(a)
    BY <1>2 DEF TaskTimesOut, SelectUser, At
  <2>2. QED
    BY <2>1 DEF TaskTimesOut, ChatStep, TaskStep, LoginStep
<1>3. CASE At(a, "insert")
  <2>1. InsertUserFails(a)
    BY <1>3 DEF TaskTimesOut, InsertUserFails, At
  <2>2. QED
    BY <2>1 DEF TaskTimesOut, ChatStep, TaskStep, LoginStep
<1>4. CASE At(a, "store")
  <2>1. StoreFails(a)
    BY <1>4 DEF TaskTimesOut, StoreFails, At
  <2>2. QED
    BY <2>1 DEF TaskTimesOut, ChatStep, TaskStep, LoopStep
<1>5. QED
  BY <1>1, <1>2, <1>3, <1>4 DEF Querying, At

(* waiting for a connection and getting one change nothing else. *)
LEMMA PoolStepsAside == [PoolNext]_poolVars => [Next]_vars
<1>. SUFFICES ASSUME [PoolNext]_poolVars PROVE [Next]_vars
  OBVIOUS
<1>1. ASSUME NEW a \in Addr, TaskOnPool(a, TaskStep(a)) PROVE Next
  BY <1>1 DEF TaskOnPool, ChatStep, Next
<1>2. ASSUME NEW a \in Addr, TaskTimesOut(a) PROVE Next
  BY <1>2, TimeoutIsFailure DEF Next
<1>3. ASSUME NEW r \in Request, RequestOnPool(r, DeletionStep(r)) PROVE Next
  BY <1>3 DEF RequestOnPool, AdminAction, AdminStep, Next
<1>4. ASSUME NEW r \in Request, RequestTimesOut(r) PROVE Next
  BY <1>4 DEF RequestTimesOut, DeletionStep, AdminAction, AdminStep, Next
<1>5. ASSUME NEW m \in messages, DeleteMessageOnPool(m) PROVE Next
  BY <1>5 DEF DeleteMessageOnPool, AdminAction, AdminStep, Next
<1>6. QED
  BY <1>1, <1>2, <1>3, <1>4, <1>5 DEF PoolNext, Acquire, Next, poolVars

(* All that is proved of the server holds of it on its pool. *)
THEOREM PoolImplements == PoolSpec => Spec
<1>1. PoolInit => Init
  BY DEF PoolInit
<1>2. QED
  BY <1>1, PoolStepsAside, PTL DEF PoolSpec, Spec

-----------------------------------------------------------------------------
PoolInv == PoolTypeOK /\ IsFiniteSet(holders)

(* Giving a connection back. *)
LEMMA GiveBack ==
    ASSUME PoolInv, NEW p, holders' \in {holders, holders \ {p}}, holders' \subseteq Callers'
    PROVE  PoolInv'
<1>1. IsFiniteSet(holders') /\ Cardinality(holders') <= Cardinality(holders)
  BY FS_Subset DEF PoolInv
<1>2. Cardinality(holders) \in Nat /\ Cardinality(holders') \in Nat
  BY <1>1, FS_CardinalityType DEF PoolInv
<1>3. QED
  BY <1>1, <1>2, PoolAssumption DEF PoolInv, PoolTypeOK

(* A step of one process keeps the others among the callers, *)
LEMMA TaskKeepsCallers ==
    ASSUME NEW a \in Addr, \A b \in Addr : b # a => pc'[b] = pc[b], UNCHANGED request
    PROVE  Callers \ {a} \subseteq Callers'
BY DEF Callers

(* and so does a request's step, which keeps its own place as long as it has *)
(* statements to run.                                                      *)
LEMMA RequestKeepsCallers ==
    ASSUME TypeInv, NEW r \in Request, DeletionStep(r), UNCHANGED pc
    PROVE  /\ Callers \ {r} \subseteq Callers'
           /\ request'[r] \in InTransaction => r \in Callers'
<1>1. \A q \in Request : q # r => request'[q] = request[q]
  BY DEF TypeInv, AdminTypeOK, DeletionStep, StartDelete, DeleteMessages, DeleteUserRow, Cascade,
         Commit, Abort, CloseTransaction, Notify
<1>2. QED
  BY <1>1 DEF Callers

(* PoolInv is inductive. *)
LEMMA NextPool == TypeInv /\ PoolInv /\ [PoolNext]_poolVars => PoolInv'
<1>. SUFFICES ASSUME TypeInv, PoolInv, [PoolNext]_poolVars PROVE PoolInv'
  OBVIOUS
<1>1. holders \subseteq Callers /\ Shaped
  BY ShapeHolds DEF PoolInv, PoolTypeOK
<1>2. ASSUME NEW p \in Addr \cup Request, Acquire(p) PROVE PoolInv'
  <2>1. Callers' = Callers
    BY <1>2 DEF Acquire, Callers, vars, chatVars, taskVars, adminVars
  <2>2. /\ IsFiniteSet(holders')
        /\ Cardinality(holders') = Cardinality(holders) + 1
        /\ Cardinality(holders) \in Nat
    BY <1>2, FS_AddElement, FS_CardinalityType DEF Acquire, PoolInv
  <2>3. QED
    BY <1>1, <1>2, <2>1, <2>2, PoolAssumption DEF Acquire, PoolInv, PoolTypeOK
<1>3. ASSUME NEW a \in Addr, TaskOnPool(a, TaskStep(a)) PROVE PoolInv'
  <2>1. \A b \in Addr : b # a => pc'[b] = pc[b]
    BY <1>1, <1>3, TaskMoves DEF TaskOnPool, Moves, Alone
  <2>2. Callers \ {a} \subseteq Callers'
    BY <1>3, <2>1, TaskKeepsCallers DEF TaskOnPool, adminVars
  <2>3. holders' = holders \ {a}
    BY <1>3 DEF TaskOnPool
  <2>4. QED
    BY <1>1, <2>2, <2>3, GiveBack
<1>4. ASSUME NEW a \in Addr, TaskTimesOut(a) PROVE PoolInv'
  <2>1. Callers \ {a} \subseteq Callers'
    BY <1>1, <1>4, TaskKeepsCallers DEF TaskTimesOut, adminVars, Goto, Shaped
  <2>2. holders' = holders /\ a \notin holders
    BY <1>4 DEF TaskTimesOut
  <2>3. QED
    BY <1>1, <2>1, <2>2, GiveBack
<1>5. ASSUME NEW r \in Request, RequestOnPool(r, DeletionStep(r)) PROVE PoolInv'
  <2>1. /\ Callers \ {r} \subseteq Callers'
        /\ request'[r] \in InTransaction => r \in Callers'
    BY <1>5, RequestKeepsCallers DEF RequestOnPool, chatVars, taskVars
  <2>2. holders' = IF request'[r] \in InTransaction THEN holders ELSE holders \ {r}
    BY <1>5 DEF RequestOnPool, Release
  <2>3. QED
    BY <1>1, <2>1, <2>2, GiveBack
<1>6. ASSUME NEW r \in Request, RequestTimesOut(r) PROVE PoolInv'
  <2>1. Callers \ {r} \subseteq Callers'
    BY <1>6, RequestKeepsCallers DEF RequestTimesOut, DeletionStep, chatVars, taskVars
  <2>2. holders' = holders /\ r \notin holders
    BY <1>6 DEF RequestTimesOut
  <2>3. QED
    BY <1>1, <2>1, <2>2, GiveBack
<1>7. CASE UNCHANGED <<pc, request, holders>>
  <2>1. Callers' = Callers
    BY <1>7 DEF Callers
  <2>2. QED
    BY <1>1, <1>7, <2>1, GiveBack
<1>8. ASSUME NEW m \in messages, DeleteMessageOnPool(m) PROVE UNCHANGED <<pc, request, holders>>
  BY <1>8 DEF DeleteMessageOnPool, DeleteMessage, chatVars, taskVars
<1>9. QED
  BY <1>2, <1>3, <1>4, <1>5, <1>6, <1>7, <1>8
     DEF PoolNext, Finished, poolVars, vars, chatVars, taskVars, adminVars

(* Never more connections than there are, and none with nobody using it. *)
THEOREM PoolHolds == PoolSpec => []PoolTypeOK
<1>1. PoolInit => TypeInv /\ PoolInv
  BY InitTyped, FS_EmptySet, PoolAssumption DEF PoolInit, PoolInv, PoolTypeOK
<1>2. TypeInv /\ PoolInv /\ [PoolNext]_poolVars => (TypeInv /\ PoolInv)'
  BY NextPool, PoolStepsAside, NextTyped
<1>3. QED
  BY <1>1, <1>2, PTL DEF PoolSpec, PoolInv
==============================================================================
