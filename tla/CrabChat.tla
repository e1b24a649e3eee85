------------------------------ MODULE CrabChat ------------------------------
(***************************************************************************)
(* The whole server: the chat side and the admin side over one broadcast   *)
(* channel and one database, and the process being killed and started      *)
(* again at any point, which keeps nothing but the committed tables.       *)
(***************************************************************************)
EXTENDS FiniteSets, ChatServer, Admin

CONSTANTS MaxCrashes,  \* bound: times the process is killed
          Stalled      \* peers that stop reading once they are logged in

ASSUME CrabChatAssumption ==
    /\ MaxCrashes \in Nat
    /\ Stalled \subseteq Addr

VARIABLE crashes  \* bound: times the process was killed so far

vars == <<chatVars, channelVars, dbVars, adminVars, crashes>>

TypeOK ==
    /\ ChatTypeOK
    /\ ChannelTypeOK
    /\ DatabaseTypeOK
    /\ AdminTypeOK
    /\ crashes \in Nat

Init ==
    /\ ChatInit
    /\ ChannelInit
    /\ DatabaseInit
    /\ AdminInit
    /\ crashes = 0

-----------------------------------------------------------------------------
ChatStep(a) == TaskStep(a) /\ UNCHANGED <<adminVars, crashes>>

AdminAction == AdminStep /\ UNCHANGED <<chatVars, crashes>>

(* Sockets close, transactions roll back; listen_and_accept starts over. *)
Crash ==
    /\ crashes < MaxCrashes
    /\ crashes' = crashes + 1
    /\ ServerRestart
    /\ NewChannel
    /\ RollBackAll

(* Every connection the bound allows has come and gone. *)
Finished ==
    /\ accepted = MaxAccepts
    /\ \A a \in Addr : pc[a] = "idle"
    /\ \A r \in Request : request[r] = "idle"
    /\ UNCHANGED vars

Next ==
    \/ \E a \in Addr : ChatStep(a)
    \/ AdminAction
    \/ Crash
    \/ Finished

Spec == Init /\ [][Next]_vars

-----------------------------------------------------------------------------
(* Fairness.  The runtime keeps polling a task that can go on, tokio's     *)
(* Mutex and PostgreSQL's row locks are first come, first served, a        *)
(* statement that waits for nobody ends, and PostgreSQL aborts one of two  *)
(* deadlocked transactions.  Nothing is assumed of what peers send or of   *)
(* the failures; a peer in Stalled never empties its receive window, so a  *)
(* write to it may wait for ever.                                          *)

(* Steps of a task that wait for nobody; a new socket's buffer is empty,   *)
(* so the replies of the login phase are among them.                       *)
OwnStep(a) ==
    \/ Refuse(a)
    \/ RefuseInUse(a)
    \/ SelectUser(a)
    \/ Welcome(a)
    \/ AnnounceJoin(a)
    \/ FinalError(a)
    \/ SubscribeToFeed(a)
    \/ SaveBinary(a)
    \/ Announce(a)
    \/ AnnounceLeft(a)
    \/ Exit(a)

(* Steps that wait for the clients mutex. *)
MutexStep(a) == CheckFree(a) \/ CheckTaken(a) \/ Register(a) \/ Unregister(a)

(* Statements that may wait for a row lock. *)
QueryStep(a) ==
    InsertUser(a) \/ InsertUserTwice(a) \/ StoreMessage(a) \/ StoreOrphan(a)

(* Writes of the loop, which wait for the peer to read. *)
WriteStep(a) ==
    Complain(a) \/ ComplainLeave(a) \/ ReportStoreFailed(a) \/ Forward(a)

(* The steps of a deletion, each of which may wait for another's rows. *)
RequestStepOf(r) ==
    DeleteMessages(r) \/ DeleteUserRow(r) \/ Cascade(r) \/ Commit(r) \/ Notify(r)

(* select! polls its branches in random order: neither starves the other. *)
FeedStep(a) == RecvBroadcast(a) \/ RecvLagged(a)

Fairness ==
    /\ \A a \in Addr :
        /\ WF_vars(OwnStep(a) /\ UNCHANGED <<adminVars, crashes>>)
        /\ SF_vars(MutexStep(a) /\ UNCHANGED <<adminVars, crashes>>)
        /\ SF_vars(QueryStep(a) /\ UNCHANGED <<adminVars, crashes>>)
        /\ SF_vars(FeedStep(a) /\ UNCHANGED <<adminVars, crashes>>)
    /\ \A a \in Addr \ Stalled :
        WF_vars(WriteStep(a) /\ UNCHANGED <<adminVars, crashes>>)
    /\ \A r \in Request :
        SF_vars(RequestStepOf(r) /\ UNCHANGED <<chatVars, crashes>>)
    /\ WF_vars(\E r \in Request :
        Deadlocked(r) /\ Abort(r) /\ UNCHANGED <<chatVars, crashes>>)

FairSpec == Spec /\ Fairness

-----------------------------------------------------------------------------
(* Safety.                                                                  *)

(* A task keeps the user id it logged in with for as long as it runs, and  *)
(* the admin may delete that user meanwhile (lib.rs:309 uses the cached    *)
(* client_info.user_id): the id never comes to name somebody else.         *)
StaleIdNeverReassigned ==
    \A a \in Addr : \A u \in users :
        u.id = info[a].user_id => u.username = info[a].username

(* Every stored message belongs to an existing user, the one whose session *)
(* wrote it, whatever deletions, logins and crashes ran at the same time   *)
(* (store_message against delete_user_by_id).                              *)
MessagesHaveTheirAuthor ==
    \A m \in messages : \E u \in users :
        u.id = m.user_id /\ u.username = m.author

(* What clients are shown as a chat message was stored first, and one      *)
(* stored message is shown at most once (the else branch of lib.rs:309).   *)
AnnouncedWasCommitted ==
    \A i \in 1..Len(log) : log[i].kind = "chat" =>
        /\ log[i].row \in committed
        /\ \A j \in 1..Len(log) :
               log[j].kind = "chat" /\ log[j].row = log[i].row => j = i

(* The messages of one connection are announced in the order they were     *)
(* stored, which is the order in which it sent them, also when a store in  *)
(* between failed or its reply was lost (lib.rs:309-318).                  *)
OwnOrderKept ==
    \A i, j \in 1..Len(log) :
        log[i].kind = "chat" /\ log[j].kind = "chat" /\ log[i].from = log[j].from /\ i < j
            => log[i].row < log[j].row

(* Every message a session is working on or has announced was counted on   *)
(* its way in, whatever its kind; the counter also counts what failed to   *)
(* be a message (lib.rs:280).                                              *)
EveryMessageCounted ==
    Cardinality({i \in 1..Len(log) : log[i].kind = "chat"}) +
    Cardinality({a \in Addr : pc[a] \in {"save", "store", "announce"}}) <= messagesSent

Delivered(a) == {inbox[a][i].pos : i \in {j \in 1..Len(inbox[a]) : inbox[a][j].kind = "Text"}}

(* A client gets broadcasts in the order they were sent, none twice, none  *)
(* from before it subscribed and none of its own (lib.rs:365-389).         *)
FeedInOrder ==
    \A a \in Addr : \A i \in 1..Len(inbox[a]) : inbox[a][i].kind = "Text" =>
        /\ inbox[a][i].pos \in since[a]..Len(log)
        /\ log[inbox[a][i].pos].from # a
        /\ \A j \in 1..(i - 1) : inbox[a][j].pos < inbox[a][i].pos

(* A subscribed client misses a broadcast only when the channel overwrote  *)
(* it (RecvError::Lagged) or when it is on its way out.                    *)
NothingLostButByLag ==
    \A a \in Addr : Subscribed(a) =>
        \A p \in since[a]..(next[a] - 1) :
            \/ log[p].from = a
            \/ p \in Delivered(a)
            \/ p \in missed[a]
            \/ p = next[a] - 1 /\ pc[a] \in {"forward", "bye", "unregister"}

(* The entries of one address read "join", then chat, then "left", and so  *)
(* on: nobody speaks before joining or after leaving, whoever else sends   *)
(* in between.                                                             *)
PresenceBracketsChat ==
    \A i \in 1..Len(log) : log[i].from \in Addr =>
        LET earlier == {j \in 1..(i - 1) : log[j].from = log[i].from}
            before  == {log[j].kind : j \in
                           {k \in earlier : \A l \in earlier : l <= k}}
        IN  IF log[i].kind = "join"
            THEN before \subseteq {"left"}
            ELSE before # {} /\ before \subseteq {"join", "chat"}

(* The last thing address a announced is not that it left. *)
Present(a) ==
    \E i \in 1..Len(log) :
        /\ log[i].from = a /\ log[i].kind # "left"
        /\ \A j \in (i + 1)..Len(log) : log[j].from # a

(* The clients map, which decides who may log in and whom the admin sees   *)
(* online, holds exactly the addresses announced as present, but for a     *)
(* task between its announcement and its access to the map.                *)
PresenceMatchesRegistry ==
    \A a \in Addr :
        pc[a] \notin {"register", "unregister"} => (Present(a) <=> Registered(a))

(* The gauge counts the running handlers, on every way a handler can end   *)
(* (lib.rs:591 and 605).                                                   *)
GaugeCountsHandlers ==
    activeConnections = Cardinality({a \in Addr : pc[a] # "idle"})

(* A client that logs in hears LoginOk before anything else, exactly once, *)
(* and one that does not is never sent a broadcast: the client blocks on   *)
(* that first answer.  (One that opens with a Text is answered with an     *)
(* Error, lib.rs:491-502, and not with its Text, which is what             *)
(* client_server_tests/tests/integration_test.rs:48-60 expects.)           *)
LoginReplyFirst ==
    \A a \in Addr : \A i \in 1..Len(inbox[a]) :
        /\ inbox[a][i].kind = "LoginOk" => i = 1
        /\ inbox[a][i].kind = "Text" => inbox[a][1].kind = "LoginOk"

(* The tables change only as ChatHistory lets them: a deletion takes the   *)
(* user and all its messages away in one step, whatever sessions insert    *)
(* between the statements of the transaction and wherever it is cut off    *)
(* (delete_user_by_id), and a session never posts under another's name.    *)
History == INSTANCE ChatHistory WITH lastUser <- userSeq, lastMessage <- messageSeq

ImplementsHistory == History!Spec

(* The parts of the inductive invariant behind the three above.             *)

(* A task past its login message works for a well-formed username. *)
Unnamed    == {"idle", "login", "refuse", "rejected", "exit"}
NamedTasks == \A a \in Addr : pc[a] \notin Unnamed => info[a].username \in Username

(* A task that forwards has just moved its cursor past the entry. *)
EntryInHand == \A a \in Addr : pc[a] = "forward" => Subscribed(a)

(* Every id in use was issued by its sequence. *)
IdsIssued ==
    /\ \A u \in users : u.id \in 1..userSeq
    /\ \A m \in messages : m.id \in 1..messageSeq
    /\ \A a \in Addr : info[a].user_id \in 0..userSeq
    /\ \A r \in Request : target[r] \in 0..userSeq /\ doomed[r] \subseteq 1..messageSeq

(* id and username are keys of users, id of messages. *)
KeysUnique ==
    /\ \A u, v \in users : u.id = v.id \/ u.username = v.username => u = v
    /\ \A m, n \in messages : m.id = n.id => m = n

(* A transaction deletes its target's messages only, *)
DoomedAreTargets ==
    \A r \in Request :
        /\ request[r] \in {"idle", "notify"} => doomed[r] = {}
        /\ \A m \in messages : m.id \in doomed[r] => m.user_id = target[r]

(* all of them by the time it commits, *)
CommitIsComplete ==
    \A r \in Request : request[r] = "commit" =>
        \A m \in messages : m.user_id = target[r] => m.id \in doomed[r]

(* and holds the users row, if there is one, alone. *)
Deleting(r) == request[r] \in {"cascade", "commit"}

TargetHeld ==
    \A r \in Request : Deleting(r) =>
        \/ UserWithId(target[r]) = {}
        \/ /\ target[r] \in rowLocks
           /\ \A q \in Request : Deleting(q) /\ target[q] = target[r] => q = r

TableInv ==
    /\ IdsIssued
    /\ KeysUnique
    /\ StaleIdNeverReassigned
    /\ MessagesHaveTheirAuthor
    /\ DoomedAreTargets
    /\ CommitIsComplete
    /\ TargetHeld

(* What makes the tables' promises inductive, and the types with them.      *)
HistoryInv == NamedTasks /\ EntryInHand /\ TableInv

-----------------------------------------------------------------------------
(* What the documentation says and the code does not do.                    *)

(* "ensures it is unique among connected clients" (lib.rs:408): no two     *)
(* registered clients have one username.                                   *)
UniqueUsernames ==
    \A a, b \in Addr :
        Registered(a) /\ Registered(b) /\ clients[a].username = clients[b].username => a = b

(* "A broadcast channel for sending messages to all connected clients"     *)
(* (lib.rs:117): whatever is sent while a client is registered reaches     *)
(* that client's receiver.                                                 *)
BroadcastReachesAllConnected ==
    [][log' # log /\ Len(log') = Len(log) + 1 =>
        \A a \in Addr : Registered(a) /\ Registered(a)' => Subscribed(a)']_vars

-----------------------------------------------------------------------------
(* Progress.                                                                *)

LogBound == 2 * MaxAccepts + MaxReceives + MaxDeletes

(* A login attempt that reached the server is decided: the task enters its *)
(* loop or ends, and is never left waiting for the clients mutex, which    *)
(* another login may hold while it writes a refusal (lib.rs:446-456).      *)
LoginAnswered == \A a \in Addr : pc[a] = "check" ~> pc[a] \in {"loop", "idle"}

(* A task that leaves its loop frees its name and drops the gauge.         *)
CleanupCompletes == \A a \in Addr : pc[a] = "bye" ~> pc[a] = "idle"

(* A message the server took in is stored and announced or reported as     *)
(* failed, also while deletions hold its author's row (lib.rs:309).        *)
StoreCompletes == \A a \in Addr : pc[a] = "store" ~> pc[a] = "loop"

(* A deletion the admin asked for ends, also when several requests delete  *)
(* one user at once and PostgreSQL has to break their deadlock.            *)
DeletionsEnd == \A r \in Request : request[r] = "messages" ~> request[r] = "idle"

(* A connected client that keeps reading gets past every entry of the      *)
(* channel, even when another peer has stopped reading: a stalled peer     *)
(* holds up its own task only.                                             *)
FeedDrains ==
    \A a \in Addr \ Stalled : \A p \in 1..LogBound :
        (Subscribed(a) /\ next[a] <= p /\ p <= Len(log)) ~> (~Subscribed(a) \/ next[a] > p)
=============================================================================
