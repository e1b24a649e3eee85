------------------------------ MODULE Database ------------------------------
(***************************************************************************)
(* The two PostgreSQL tables of server/migrations and the statements the   *)
(* server runs on them, each with PostgreSQL's READ COMMITTED meaning:     *)
(* UNIQUE on users.username, the foreign key from messages.user_id with    *)
(* ON DELETE CASCADE, BIGSERIAL ids that are never handed out twice (a     *)
(* statement that fails on a constraint consumes one as well), and the     *)
(* lock on a users row whose DELETE has not been committed.                *)
(*                                                                         *)
(* The contents of a message are left out; `author` is a history field:    *)
(* the username of the session that wrote the row.                         *)
(***************************************************************************)
EXTENDS Naturals

CONSTANT Username   \* well-formed usernames (1..50 bytes, not blank)

VARIABLES users,      \* the rows of users
          userSeq,    \* users_id_seq: the last id handed out
          messages,   \* the rows of messages
          messageSeq, \* messages_id_seq
          committed,  \* history: ids of every message row ever committed
          rowLocks    \* ids of users rows deleted by an open transaction

dbVars == <<users, userSeq, messages, messageSeq, committed, rowLocks>>

User    == [id : Nat, username : Username]
Message == [id : Nat, user_id : Nat, author : Username]

DatabaseTypeOK ==
    /\ users \in SUBSET User
    /\ userSeq \in Nat
    /\ messages \in SUBSET Message
    /\ messageSeq \in Nat
    /\ committed \in SUBSET Nat
    /\ rowLocks \in SUBSET Nat

DatabaseInit ==
    /\ users = {}
    /\ userSeq = 0
    /\ messages = {}
    /\ messageSeq = 0
    /\ committed = {}
    /\ rowLocks = {}

-----------------------------------------------------------------------------
(* Mutants: the schema changes whose effect the properties must notice.     *)

MutantReusedUserId ==
    CHOOSE i \in 1..(userSeq + 1) : \A u \in users : u.id # i

-----------------------------------------------------------------------------
(* users.id BIGSERIAL *)
NextUserId == userSeq + 1

UserNamed(n)   == {u \in users : u.username = n}
UserWithId(id) == {u \in users : u.id = id}
MessagesOf(id) == {m \in messages : m.user_id = id}

(* INSERT waits for a transaction that is deleting the row with its name. *)
NameLocked(n) == \E u \in UserNamed(n) : u.id \in rowLocks

InsertUserRow(n) ==
    /\ users' = users \cup {[id |-> NextUserId, username |-> n]}
    /\ userSeq' = userSeq + 1
    /\ UNCHANGED <<messages, messageSeq, committed, rowLocks>>

InsertUserConflict ==
    /\ userSeq' = userSeq + 1
    /\ UNCHANGED <<users, messages, messageSeq, committed, rowLocks>>

InsertMessageRow(id, author) ==
    /\ messageSeq' = messageSeq + 1
    /\ messages' = messages \cup
         {[id |-> messageSeq + 1, user_id |-> id, author |-> author]}
    /\ committed' = committed \cup {messageSeq + 1}
    /\ UNCHANGED <<users, userSeq, rowLocks>>

InsertMessageOrphan ==
    /\ messageSeq' = messageSeq + 1
    /\ UNCHANGED <<users, userSeq, messages, committed, rowLocks>>
=============================================================================
