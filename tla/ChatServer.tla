----------------------------- MODULE ChatServer -----------------------------
(***************************************************************************)
(* The chat side of the server (server/src/lib.rs): the accept loop, one   *)
(* handle_client task per connection, the clients map behind its mutex,    *)
(* the broadcast channel and the two Prometheus metrics.                   *)
(*                                                                         *)
(* A task is modelled by the await points of handle_client and             *)
(* authenticate_client: pc[a] names the step the task for address a takes  *)
(* next, and steps of different tasks interleave freely, as they do on     *)
(* tokio's multi-threaded runtime.  What a peer sends, whether a write     *)
(* reaches it and whether the database answers are nondeterministic.       *)
(***************************************************************************)
EXTENDS Integers, Sequences, Broadcast, Database

CONSTANTS NoName,      \* the username of no client
          MaxAccepts,  \* bound: connections accepted over the whole run
          MaxReceives  \* bound: the counter value after which peers only leave

ASSUME ChatServerAssumption ==
    /\ NoName \notin Username
    /\ MaxAccepts \in Nat
    /\ MaxReceives \in Nat

VARIABLES pc,       \* pc[a]: the next step of the task serving a
          info,     \* info[a]: the task's own ClientInfo
          held,     \* held[a]: id of the stored message still to be announced
          clients,  \* the shared map of active clients
          lock,     \* who holds the mutex around clients
          activeConnections,  \* gauge crabchat_active_connections
          messagesSent,       \* counter crabchat_messages_total
          accepted,           \* bound: connections accepted so far
          inbox,    \* history: what was written to a's socket, in order
          since,    \* history: the log position a subscribed at
          missed    \* history: the log positions a lost to lagging

taskVars     == <<pc, info, held>>
registryVars == <<clients, lock>>
metricVars   == <<activeConnections, messagesSent, accepted>>
historyVars  == <<inbox, since, missed>>
chatVars     == <<taskVars, registryVars, metricVars, historyVars>>

Free   == AdminAddr   \* no task holds the mutex; never a client's address
NoInfo == [username |-> NoName, user_id |-> 0]

ClientInfo == [username : Username \cup {NoName}, user_id : Nat]
Reply      == [kind : {"LoginOk", "Error", "Text"}, pos : Nat]
Step == {"idle", "login", "refuse", "check", "inUse", "select", "insert",
         "welcome", "join", "register", "subscribe", "loop", "save", "store",
         "announce", "forward", "complain", "complainLeave", "storeFailed",
         "bye", "unregister", "rejected", "exit"}

ChatTypeOK ==
    /\ pc \in [Addr -> Step]
    /\ info \in [Addr -> ClientInfo]
    /\ held \in [Addr -> Nat]
    /\ clients \in [Addr -> ClientInfo]
    /\ lock \in Addr \cup {Free}
    /\ activeConnections \in Int
    /\ messagesSent \in Nat
    /\ accepted \in Nat
    /\ inbox \in [Addr -> Seq(Reply)]
    /\ since \in [Addr -> Nat]
    /\ missed \in [Addr -> SUBSET Nat]

(* What a server process starts with: no task, no client, no count. *)
NoTasks   == [a \in Addr |-> "idle"]
NoClients == [a \in Addr |-> NoInfo]

ChatInit ==
    /\ pc = NoTasks
    /\ info = NoClients
    /\ held = [a \in Addr |-> 0]
    /\ clients = NoClients
    /\ lock = Free
    /\ activeConnections = 0
    /\ messagesSent = 0
    /\ accepted = 0
    /\ inbox = [a \in Addr |-> <<>>]
    /\ since = [a \in Addr |-> 0]
    /\ missed = [a \in Addr |-> {}]

(* listen_and_accept in a new process. *)
ServerRestart ==
    /\ pc' = NoTasks
    /\ info' = NoClients
    /\ held' = [a \in Addr |-> 0]
    /\ clients' = NoClients
    /\ lock' = Free
    /\ activeConnections' = 0
    /\ messagesSent' = 0
    /\ inbox' = [a \in Addr |-> <<>>]
    /\ since' = [a \in Addr |-> 0]
    /\ missed' = [a \in Addr |-> {}]
    /\ UNCHANGED accepted

Registered(a) == clients[a] # NoInfo

-----------------------------------------------------------------------------
(* What several steps share.                                                *)

At(a, s)   == pc[a] = s
Goto(a, s) == pc' = [pc EXCEPT ![a] = s]

(* MessageType::send to a's socket: delivered, or the write fails. *)
Write(a, kind, pos) ==
    inbox' = [inbox EXCEPT ![a] = Append(@, [kind |-> kind, pos |-> pos])]

(* `let _ = ....send(writer).await`: the outcome of the write is ignored. *)
TryWriteError(a) ==
    \/ Write(a, "Error", 0)
    \/ UNCHANGED inbox

(* increment_message_metrics, which runs on every outcome of receive. *)
CountReceive ==
    /\ messagesSent' = messagesSent + 1
    /\ UNCHANGED <<activeConnections, accepted>>

-----------------------------------------------------------------------------
(* The accept loop of listen_and_accept and the end of the spawned task.    *)

Accept(a) ==
    /\ At(a, "idle")
    /\ accepted < MaxAccepts
    /\ accepted' = accepted + 1
    /\ activeConnections' = activeConnections + 1
    /\ Goto(a, "login")
    /\ UNCHANGED <<messagesSent, info, held, registryVars, historyVars, channelVars, dbVars>>

MutantExitKeepsGauge(a) ==
    /\ At(a, "exit")
    /\ Goto(a, "idle")
    /\ activeConnections' =
         IF info[a].user_id = 0 THEN activeConnections ELSE activeConnections - 1
    /\ info' = [info EXCEPT ![a] = NoInfo]
    /\ inbox' = [inbox EXCEPT ![a] = <<>>]
    /\ since' = [since EXCEPT ![a] = 0]
    /\ missed' = [missed EXCEPT ![a] = {}]
    /\ UNCHANGED <<messagesSent, accepted, held, registryVars, channelVars, dbVars>>

(* handle_client has returned: the socket is closed and the gauge drops. *)
Exit(a) ==
    /\ At(a, "exit")
    /\ Goto(a, "idle")
    /\ activeConnections' = activeConnections - 1
    /\ info' = [info EXCEPT ![a] = NoInfo]
    /\ inbox' = [inbox EXCEPT ![a] = <<>>]
    /\ since' = [since EXCEPT ![a] = 0]
    /\ missed' = [missed EXCEPT ![a] = {}]
    /\ UNCHANGED <<messagesSent, accepted, held, registryVars, channelVars, dbVars>>

-----------------------------------------------------------------------------
(* authenticate_client.                                                     *)

ReceiveLogin(a, n) ==
    /\ At(a, "login")
    /\ info' = [info EXCEPT ![a] = [username |-> n, user_id |-> 0]]
    /\ Goto(a, "check")
    /\ UNCHANGED <<held, registryVars, metricVars, historyVars, channelVars, dbVars>>

MutantReceiveBadLogin(a) ==
    /\ At(a, "login")
    /\ info' = [info EXCEPT ![a] = [username |-> NoName, user_id |-> 0]]
    /\ Goto(a, "check")
    /\ UNCHANGED <<held, registryVars, metricVars, historyVars, channelVars, dbVars>>

(* A blank or overlong username, or a message that is not Login. *)
ReceiveBadLogin(a) ==
    /\ At(a, "login")
    /\ Goto(a, "refuse")
    /\ UNCHANGED <<info, held, registryVars, metricVars, historyVars, channelVars, dbVars>>

(* receive fails: `?` returns to handle_client with nothing said yet. *)
ReceiveNoLogin(a) ==
    /\ At(a, "login")
    /\ Goto(a, "rejected")
    /\ UNCHANGED <<info, held, registryVars, metricVars, historyVars, channelVars, dbVars>>

(* The reason is written to the peer, then Err returned. *)
Refuse(a) ==
    /\ At(a, "refuse")
    /\ TryWriteError(a)
    /\ Goto(a, "rejected")
    /\ UNCHANGED <<info, held, registryVars, metricVars, since, missed, channelVars, dbVars>>

(* `clients_lock.values().any(|c| c.username == username)` *)
UsernameTaken(n) == \E b \in Addr : Registered(b) /\ clients[b].username = n

(* The name is free: the mutex is released before anything is registered. *)
CheckFree(a) ==
    /\ At(a, "check")
    /\ lock = Free
    /\ ~UsernameTaken(info[a].username)
    /\ Goto(a, "select")
    /\ UNCHANGED <<info, held, registryVars, metricVars, historyVars, channelVars, dbVars>>

(* The name is taken: the mutex stays held while the reply is written. *)
CheckTaken(a) ==
    /\ At(a, "check")
    /\ lock = Free
    /\ UsernameTaken(info[a].username)
    /\ lock' = a
    /\ Goto(a, "inUse")
    /\ UNCHANGED <<info, held, clients, metricVars, historyVars, channelVars, dbVars>>

MutantRefuseInUse(a) ==
    /\ At(a, "inUse")
    /\ TryWriteError(a)
    /\ Goto(a, "rejected")
    /\ UNCHANGED <<info, held, registryVars, metricVars, since, missed, channelVars, dbVars>>

RefuseInUse(a) ==
    /\ At(a, "inUse")
    /\ TryWriteError(a)
    /\ lock' = Free
    /\ Goto(a, "rejected")
    /\ UNCHANGED <<info, held, clients, metricVars, since, missed, channelVars, dbVars>>

-----------------------------------------------------------------------------
(* get_or_insert_user, and what authenticate_client does with its outcome.  *)

(* The SELECT also sees a row whose deletion is not committed yet. *)
SelectUser(a) ==
    /\ At(a, "select")
    /\ \/ \E u \in UserNamed(info[a].username) :
              /\ info' = [info EXCEPT ![a].user_id = u.id]
              /\ Goto(a, "welcome")
       \/ /\ UserNamed(info[a].username) = {}
          /\ Goto(a, "insert")
          /\ UNCHANGED info
       \/ /\ Goto(a, "refuse")      \* the query fails
          /\ UNCHANGED info
    /\ UNCHANGED <<held, registryVars, metricVars, historyVars, channelVars, dbVars>>

(* Without UNIQUE on users.username. *)
MutantInsertUser(a) ==
    /\ At(a, "insert")
    /\ ~NameLocked(info[a].username)
    /\ InsertUserRow(info[a].username)
    /\ info' = [info EXCEPT ![a].user_id = NextUserId]
    /\ Goto(a, "welcome")
    /\ UNCHANGED <<held, registryVars, metricVars, historyVars, channelVars>>

InsertUser(a) ==
    /\ At(a, "insert")
    /\ ~NameLocked(info[a].username)
    /\ UserNamed(info[a].username) = {}
    /\ InsertUserRow(info[a].username)
    /\ \/ /\ info' = [info EXCEPT ![a].user_id = NextUserId]
          /\ Goto(a, "welcome")
       \/ /\ Goto(a, "refuse")      \* inserted, but the reply is lost
          /\ UNCHANGED info
    /\ UNCHANGED <<held, registryVars, metricVars, historyVars, channelVars>>

(* Another login inserted the name after our SELECT: UNIQUE rejects ours. *)
InsertUserTwice(a) ==
    /\ At(a, "insert")
    /\ ~NameLocked(info[a].username)
    /\ UserNamed(info[a].username) # {}
    /\ InsertUserConflict
    /\ Goto(a, "refuse")
    /\ UNCHANGED <<info, held, registryVars, metricVars, historyVars, channelVars>>

InsertUserFails(a) ==
    /\ At(a, "insert")
    /\ Goto(a, "refuse")
    /\ UNCHANGED <<info, held, registryVars, metricVars, historyVars, channelVars, dbVars>>

MutantWelcome(a) ==
    /\ At(a, "welcome")
    /\ \/ Goto(a, "join") /\ UNCHANGED inbox
       \/ Goto(a, "rejected") /\ UNCHANGED inbox
    /\ UNCHANGED <<info, held, registryVars, metricVars, since, missed, channelVars, dbVars>>

Welcome(a) ==
    /\ At(a, "welcome")
    /\ \/ Goto(a, "join") /\ Write(a, "LoginOk", 0)
       \/ Goto(a, "rejected") /\ UNCHANGED inbox
    /\ UNCHANGED <<info, held, registryVars, metricVars, since, missed, channelVars, dbVars>>

AnnounceJoin(a) ==
    /\ At(a, "join")
    /\ Send(a, "join", 0)
    /\ Goto(a, "register")
    /\ UNCHANGED <<info, held, registryVars, metricVars, historyVars, dbVars>>

(* The Error handle_client adds for every Err of authenticate_client. *)
FinalError(a) ==
    /\ At(a, "rejected")
    /\ TryWriteError(a)
    /\ Goto(a, "exit")
    /\ UNCHANGED <<info, held, registryVars, metricVars, since, missed, channelVars, dbVars>>

-----------------------------------------------------------------------------
(* handle_client after a login: `clients.lock().await.insert`, `subscribe`. *)

(* The guard bound to a variable, and so alive until the handler returns. *)
MutantRegister(a) ==
    /\ At(a, "register")
    /\ lock = Free
    /\ lock' = a
    /\ clients' = [clients EXCEPT ![a] = info[a]]
    /\ Goto(a, "subscribe")
    /\ UNCHANGED <<info, held, metricVars, historyVars, channelVars, dbVars>>

Register(a) ==
    /\ At(a, "register")
    /\ lock = Free
    /\ clients' = [clients EXCEPT ![a] = info[a]]
    /\ Goto(a, "subscribe")
    /\ UNCHANGED <<info, held, lock, metricVars, historyVars, channelVars, dbVars>>

SubscribeToFeed(a) ==
    /\ At(a, "subscribe")
    /\ Subscribe(a)
    /\ since' = [since EXCEPT ![a] = SubscribeAt]
    /\ Goto(a, "loop")
    /\ UNCHANGED <<info, held, registryVars, metricVars, inbox, missed, dbVars>>

-----------------------------------------------------------------------------
(* The first branch of the select loop: an outcome of MessageType::receive. *)

ReceiveAt(a, s) ==
    /\ At(a, "loop")
    /\ CountReceive
    /\ Goto(a, s)
    /\ UNCHANGED <<info, held, registryVars, historyVars, channelVars, dbVars>>

MayReceive == messagesSent < MaxReceives

(* Counting in the branch for texts only. *)
MutantReceiveBinary(a) ==
    /\ MayReceive
    /\ At(a, "loop")
    /\ Goto(a, "save")
    /\ UNCHANGED <<info, held, registryVars, metricVars, historyVars, channelVars, dbVars>>

ReceiveText(a)   == MayReceive /\ ReceiveAt(a, "store")
ReceiveBinary(a) == MayReceive /\ ReceiveAt(a, "save")     \* File, Image
ReceiveOther(a)  == MayReceive /\ ReceiveAt(a, "loop")     \* warned about only

(* SerializationError, MessageTooLarge, EmptyMessage: report and go on. *)
ReceiveMalformed(a) == MayReceive /\ ReceiveAt(a, "complain")

(* Any other error but ConnectionClosed: report and leave. *)
ReceiveBroken(a) == ReceiveAt(a, "complainLeave")
ReceiveClosed(a) == ReceiveAt(a, "bye")

Complain(a) ==
    /\ At(a, "complain")
    /\ \/ Goto(a, "loop") /\ Write(a, "Error", 0)
       \/ Goto(a, "bye") /\ UNCHANGED inbox
    /\ UNCHANGED <<info, held, registryVars, metricVars, since, missed, channelVars, dbVars>>

ComplainLeave(a) ==
    /\ At(a, "complainLeave")
    /\ TryWriteError(a)
    /\ Goto(a, "bye")
    /\ UNCHANGED <<info, held, registryVars, metricVars, since, missed, channelVars, dbVars>>

(* save_binary_content for a File or an Image. *)
SaveBinary(a) ==
    /\ At(a, "save")
    /\ Goto(a, "store") \/ Goto(a, "storeFailed")
    /\ UNCHANGED <<info, held, registryVars, metricVars, historyVars, channelVars, dbVars>>

AuthorLocked(a) == info[a].user_id \in rowLocks

(* store_message: the foreign key check waits for a deletion in progress. *)
StoreMessage(a) ==
    /\ At(a, "store")
    /\ ~AuthorLocked(a)
    /\ UserWithId(info[a].user_id) # {}
    /\ InsertMessageRow(info[a].user_id, info[a].username)
    /\ \/ /\ held' = [held EXCEPT ![a] = messageSeq + 1]
          /\ Goto(a, "announce")
       \/ /\ Goto(a, "storeFailed")  \* stored, but the reply is lost
          /\ UNCHANGED held
    /\ UNCHANGED <<info, registryVars, metricVars, historyVars, channelVars>>

(* The admin deleted the user while it was logged in: no such author. *)
StoreOrphan(a) ==
    /\ At(a, "store")
    /\ ~AuthorLocked(a)
    /\ UserWithId(info[a].user_id) = {}
    /\ InsertMessageOrphan
    /\ Goto(a, "storeFailed")
    /\ UNCHANGED <<info, held, registryVars, metricVars, historyVars, channelVars>>

MutantStoreFails(a) ==
    /\ At(a, "store")
    /\ held' = [held EXCEPT ![a] = messageSeq]
    /\ Goto(a, "announce")
    /\ UNCHANGED <<info, registryVars, metricVars, historyVars, channelVars, dbVars>>

StoreFails(a) ==
    /\ At(a, "store")
    /\ Goto(a, "storeFailed")
    /\ UNCHANGED <<info, held, registryVars, metricVars, historyVars, channelVars, dbVars>>

ReportStoreFailed(a) ==
    /\ At(a, "storeFailed")
    /\ TryWriteError(a)
    /\ Goto(a, "loop")
    /\ UNCHANGED <<info, held, registryVars, metricVars, since, missed, channelVars, dbVars>>

Announce(a) ==
    /\ At(a, "announce")
    /\ Send(a, "chat", held[a])
    /\ held' = [held EXCEPT ![a] = 0]
    /\ Goto(a, "loop")
    /\ UNCHANGED <<info, registryVars, metricVars, historyVars, dbVars>>

-----------------------------------------------------------------------------
(* The second branch of the select loop: an outcome of broadcast_rx.recv.   *)

MutantRecvBroadcast(a) ==
    /\ At(a, "loop")
    /\ TakeEntry(a)
    /\ Goto(a, "forward")
    /\ UNCHANGED <<info, held, registryVars, metricVars, historyVars, dbVars>>

(* `addr != sender_addr`: a client is not sent what it said itself. *)
RecvBroadcast(a) ==
    /\ At(a, "loop")
    /\ TakeEntry(a)
    /\ IF log[next[a]].from = a THEN UNCHANGED pc ELSE Goto(a, "forward")
    /\ UNCHANGED <<info, held, registryVars, metricVars, historyVars, dbVars>>

RecvLagged(a) ==
    /\ At(a, "loop")
    /\ SkipOverwritten(a)
    /\ missed' = [missed EXCEPT ![a] = @ \cup next[a]..(Oldest - 1)]
    /\ UNCHANGED <<taskVars, registryVars, metricVars, inbox, since, dbVars>>

MutantForward(a) ==
    /\ At(a, "forward")
    /\ \/ Goto(a, "loop") /\ Write(a, "Text", next[a] - 1)
       \/ Goto(a, "loop") /\ UNCHANGED inbox
    /\ UNCHANGED <<info, held, registryVars, metricVars, since, missed, channelVars, dbVars>>

(* The entry in hand is the one the cursor has just passed. *)
Forward(a) ==
    /\ At(a, "forward")
    /\ \/ Goto(a, "loop") /\ Write(a, "Text", next[a] - 1)
       \/ Goto(a, "bye") /\ UNCHANGED inbox
    /\ UNCHANGED <<info, held, registryVars, metricVars, since, missed, channelVars, dbVars>>

-----------------------------------------------------------------------------
(* The cleanup after the loop. *)

MutantAnnounceLeft(a) ==
    /\ At(a, "bye")
    /\ Goto(a, "unregister")
    /\ UNCHANGED <<info, held, registryVars, metricVars, historyVars, channelVars, dbVars>>

AnnounceLeft(a) ==
    /\ At(a, "bye")
    /\ Send(a, "left", 0)
    /\ Goto(a, "unregister")
    /\ UNCHANGED <<info, held, registryVars, metricVars, historyVars, dbVars>>

MutantUnregister(a) ==
    /\ At(a, "unregister")
    /\ lock = Free
    /\ Unsubscribe(a)
    /\ Goto(a, "exit")
    /\ UNCHANGED <<info, held, registryVars, metricVars, historyVars, dbVars>>

(* The receiver is dropped as handle_client returns, with no await between. *)
Unregister(a) ==
    /\ At(a, "unregister")
    /\ lock = Free
    /\ clients' = [clients EXCEPT ![a] = NoInfo]
    /\ Unsubscribe(a)
    /\ Goto(a, "exit")
    /\ UNCHANGED <<info, held, lock, metricVars, historyVars, dbVars>>

-----------------------------------------------------------------------------
LoginStep(a) ==
    \/ Accept(a)
    \/ \E n \in Username : ReceiveLogin(a, n)
    \/ ReceiveBadLogin(a)
    \/ ReceiveNoLogin(a)
    \/ Refuse(a)
    \/ CheckFree(a)
    \/ CheckTaken(a)
    \/ RefuseInUse(a)
    \/ SelectUser(a)
    \/ InsertUser(a)
    \/ InsertUserTwice(a)
    \/ InsertUserFails(a)
    \/ Welcome(a)
    \/ AnnounceJoin(a)
    \/ FinalError(a)
    \/ Register(a)
    \/ SubscribeToFeed(a)

LoopStep(a) ==
    \/ ReceiveText(a)
    \/ ReceiveBinary(a)
    \/ ReceiveOther(a)
    \/ ReceiveMalformed(a)
    \/ ReceiveBroken(a)
    \/ ReceiveClosed(a)
    \/ Complain(a)
    \/ ComplainLeave(a)
    \/ SaveBinary(a)
    \/ StoreMessage(a)
    \/ StoreOrphan(a)
    \/ StoreFails(a)
    \/ ReportStoreFailed(a)
    \/ Announce(a)
    \/ RecvBroadcast(a)
    \/ RecvLagged(a)
    \/ Forward(a)

CleanupStep(a) ==
    \/ AnnounceLeft(a)
    \/ Unregister(a)
    \/ Exit(a)

TaskStep(a) == LoginStep(a) \/ LoopStep(a) \/ CleanupStep(a)
=============================================================================
