---------------------------- MODULE ChatHistory -----------------------------
(***************************************************************************)
(* What the server promises about its two tables, with no connection,      *)
(* transaction, lock or crash in sight: users join under a name nobody     *)
(* has and an id nobody ever had, post under their own name, and are       *)
(* removed together with everything they posted, all at once.              *)
(* CrabChat is shown to implement this.                                    *)
(***************************************************************************)
EXTENDS Naturals

CONSTANT Username

VARIABLES users, messages,      \* the rows, as any query can see them
          lastUser, lastMessage \* the highest ids issued so far

historyVars == <<users, messages, lastUser, lastMessage>>

Init ==
    /\ users = {}
    /\ messages = {}
    /\ lastUser = 0
    /\ lastMessage = 0

Join(n) ==
    /\ \A u \in users : u.username # n
    /\ lastUser' = lastUser + 1
    /\ users' = users \cup {[id |-> lastUser + 1, username |-> n]}
    /\ UNCHANGED <<messages, lastMessage>>

Post(u) ==
    /\ lastMessage' = lastMessage + 1
    /\ messages' = messages \cup
         {[id |-> lastMessage + 1, user_id |-> u.id, author |-> u.username]}
    /\ UNCHANGED <<users, lastUser>>

RemoveUser(u) ==
    /\ users' = users \ {u}
    /\ messages' = {m \in messages : m.user_id # u.id}
    /\ UNCHANGED <<lastUser, lastMessage>>

RemoveMessage(m) ==
    /\ messages' = messages \ {m}
    /\ UNCHANGED <<users, lastUser, lastMessage>>

(* A refused insertion uses up an id. *)
SkipId ==
    /\ \/ lastUser' = lastUser + 1 /\ UNCHANGED lastMessage
       \/ lastMessage' = lastMessage + 1 /\ UNCHANGED lastUser
    /\ UNCHANGED <<users, messages>>

Next ==
    \/ \E n \in Username : Join(n)
    \/ \E u \in users : Post(u) \/ RemoveUser(u)
    \/ \E m \in messages : RemoveMessage(m)
    \/ SkipId

Spec == Init /\ [][Next]_historyVars
=============================================================================
