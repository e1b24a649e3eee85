------------------------------- MODULE Admin --------------------------------
(***************************************************************************)
(* The admin interface's writes (server/src/admin.rs): deleting a user     *)
(* with all its messages in one transaction, and deleting one message.     *)
(* Each HTTP request is a process; several may run at once, and they share *)
(* the database and the broadcast channel with the chat server.            *)
(*                                                                         *)
(* A transaction's deletions are kept aside until it commits: `doomed` is  *)
(* the set of message rows it has deleted, rowLocks the users rows.  The   *)
(* DELETE on users runs the ON DELETE CASCADE of the schema as a second    *)
(* step, with a snapshot of its own.                                       *)
(***************************************************************************)
EXTENDS Naturals, Sequences, Broadcast, Database

CONSTANTS Request,    \* admin requests being served at once
          MaxDeletes  \* bound: deletions requested over the whole run

ASSUME AdminAssumption == MaxDeletes \in Nat

VARIABLES request,  \* request[r]: the next step of r's delete_user
          target,   \* target[r]: the user id r deletes
          doomed,   \* doomed[r]: ids of the message rows r's transaction deleted
          deletes   \* bound: deletions requested so far

adminVars == <<request, target, doomed, deletes>>

RequestStep == {"idle", "messages", "user", "cascade", "commit", "notify"}

AdminTypeOK ==
    /\ request \in [Request -> RequestStep]
    /\ target \in [Request -> Nat]
    /\ doomed \in [Request -> SUBSET Nat]
    /\ deletes \in Nat

AdminInit ==
    /\ request = [r \in Request |-> "idle"]
    /\ target = [r \in Request |-> 0]
    /\ doomed = [r \in Request |-> {}]
    /\ deletes = 0

(* A dropped connection rolls its transaction back. *)
RollBackAll ==
    /\ request' = [r \in Request |-> "idle"]
    /\ target' = [r \in Request |-> 0]
    /\ doomed' = [r \in Request |-> {}]
    /\ rowLocks' = {}
    /\ UNCHANGED <<deletes, users, userSeq, messages, messageSeq, committed>>

AdminAt(r, s) == request[r] = s

-----------------------------------------------------------------------------
(* delete_user_by_id *)

IdsOf(ms) == {m.id : m \in ms}

(* Rows deleted by another open transaction make a DELETE wait for it. *)
DoomedByOthers(r) == UNION {doomed[q] : q \in Request \ {r}}

(* begin: the path names any id the admin has seen on the users page. *)
StartDelete(r, id) ==
    /\ AdminAt(r, "idle")
    /\ deletes < MaxDeletes
    /\ deletes' = deletes + 1
    /\ request' = [request EXCEPT ![r] = "messages"]
    /\ target' = [target EXCEPT ![r] = id]
    /\ UNCHANGED <<doomed, channelVars, dbVars>>

(* Mark every message of the target as deleted by r's transaction. *)
Doom(r) ==
    /\ IdsOf(MessagesOf(target[r])) \cap DoomedByOthers(r) = {}
    /\ doomed' = [doomed EXCEPT ![r] = @ \cup IdsOf(MessagesOf(target[r]))]

MutantDeleteMessages(r) ==
    /\ AdminAt(r, "messages")
    /\ Doom(r)
    /\ messages' = messages \ MessagesOf(target[r])
    /\ request' = [request EXCEPT ![r] = "user"]
    /\ UNCHANGED <<target, deletes, channelVars>>
    /\ UNCHANGED <<users, userSeq, messageSeq, committed, rowLocks>>

DeleteMessages(r) ==
    /\ AdminAt(r, "messages")
    /\ Doom(r)
    /\ request' = [request EXCEPT ![r] = "user"]
    /\ UNCHANGED <<target, deletes, channelVars, dbVars>>

(* Deletes the row if there is one; waits for another deletion of it. *)
DeleteUserRow(r) ==
    /\ AdminAt(r, "user")
    /\ target[r] \notin rowLocks
    /\ IF UserWithId(target[r]) # {}
       THEN /\ rowLocks' = rowLocks \cup {target[r]}
            /\ request' = [request EXCEPT ![r] = "cascade"]
       ELSE /\ request' = [request EXCEPT ![r] = "commit"]
            /\ UNCHANGED rowLocks
    /\ UNCHANGED <<target, doomed, deletes, channelVars>>
    /\ UNCHANGED <<users, userSeq, messages, messageSeq, committed>>

MutantCascade(r) ==
    /\ AdminAt(r, "cascade")
    /\ request' = [request EXCEPT ![r] = "commit"]
    /\ UNCHANGED <<target, doomed, deletes, channelVars, dbVars>>

(* ON DELETE CASCADE: also what was inserted since DeleteMessages. *)
Cascade(r) ==
    /\ AdminAt(r, "cascade")
    /\ Doom(r)
    /\ request' = [request EXCEPT ![r] = "commit"]
    /\ UNCHANGED <<target, deletes, channelVars, dbVars>>

(* The users row r's transaction has locked, if it got that far. *)
LockedBy(r) == IF request[r] \in {"cascade", "commit"} THEN {target[r]} ELSE {}

CloseTransaction(r, s) ==
    /\ doomed' = [doomed EXCEPT ![r] = {}]
    /\ request' = [request EXCEPT ![r] = s]
    /\ target' = [target EXCEPT ![r] = IF s = "idle" THEN 0 ELSE @]

(* An open transaction goes back to the pool with its connection. *)
MutantAbort(r) ==
    /\ request[r] \in {"messages", "user", "cascade", "commit"}
    /\ CloseTransaction(r, "idle")
    /\ UNCHANGED <<deletes, dbVars, channelVars>>

(* COMMIT; when its reply is lost the handler reports a failure instead. *)
Commit(r) ==
    /\ AdminAt(r, "commit")
    /\ users' = users \ UserWithId(target[r])
    /\ messages' = {m \in messages : m.id \notin doomed[r]}
    /\ rowLocks' = rowLocks \ LockedBy(r)
    /\ CloseTransaction(r, "notify") \/ CloseTransaction(r, "idle")
    /\ UNCHANGED <<deletes, userSeq, messageSeq, committed, channelVars>>

(* A statement fails (deadlocks included): `?` drops the transaction. *)
Abort(r) ==
    /\ request[r] \in {"messages", "user", "cascade", "commit"}
    /\ rowLocks' = rowLocks \ LockedBy(r)
    /\ CloseTransaction(r, "idle")
    /\ UNCHANGED <<deletes, users, userSeq, messages, messageSeq, committed, channelVars>>

(* delete_user: tell every client. *)
Notify(r) ==
    /\ AdminAt(r, "notify")
    /\ Send(AdminAddr, "removed", 0)
    /\ request' = [request EXCEPT ![r] = "idle"]
    /\ target' = [target EXCEPT ![r] = 0]
    /\ UNCHANGED <<doomed, deletes, dbVars>>

(* Two transactions each waiting for rows the other has deleted: one about *)
(* to delete the users row, one cascading from it.                         *)
Deadlocked(r) == \E q \in Request \ {r} :
    \E w, h \in {r, q} :
        /\ w # h
        /\ AdminAt(w, "user") /\ target[w] \in LockedBy(h)
        /\ AdminAt(h, "cascade") /\ IdsOf(MessagesOf(target[h])) \cap doomed[w] # {}

-----------------------------------------------------------------------------
(* delete_message_by_id: one autocommitted statement. *)
DeleteMessage(m) ==
    /\ m \in messages
    /\ \A r \in Request : m.id \notin doomed[r]
    /\ deletes < MaxDeletes
    /\ deletes' = deletes + 1
    /\ messages' = messages \ {m}
    /\ UNCHANGED <<request, target, doomed, channelVars, users, userSeq, messageSeq, committed, rowLocks>>

DeletionStep(r) ==
    \/ \E id \in 1..userSeq : StartDelete(r, id)
    \/ DeleteMessages(r)
    \/ DeleteUserRow(r)
    \/ Cascade(r)
    \/ Commit(r)
    \/ Abort(r)
    \/ Notify(r)

AdminStep ==
    \/ \E r \in Request : DeletionStep(r)
    \/ \E m \in messages : DeleteMessage(m)
=============================================================================
