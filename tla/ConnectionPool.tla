--------------------------- MODULE ConnectionPool ---------------------------
(***************************************************************************)
(* The sqlx pool every statement takes a connection from                   *)
(* (listen_and_accept, server/src/lib.rs:525): sessions and deletions      *)
(* share PoolSize connections.  A single statement gives its connection    *)
(* back when it ends, also when it waited for a row lock in between;       *)
(* delete_user_by_id keeps the one its transaction began on until that     *)
(* transaction is closed.  The pool hands connections out first come,      *)
(* first served, and gives up after a timeout, which the caller sees as a  *)
(* failed statement.  The pages' queries lock nothing and wait for nobody, *)
(* and are left out.  So is a crash, which ends every connection together  *)
(* with the process.                                                       *)
(***************************************************************************)
EXTENDS CrabChat

CONSTANT PoolSize  \* max_connections

ASSUME PoolAssumption ==
    /\ PoolSize \in Nat \ {0}
    /\ Addr \cap Request = {}

VARIABLE holders  \* who has a connection

poolVars == <<vars, holders>>

Querying      == {"select", "insert", "store"}
InTransaction == {"messages", "user", "cascade", "commit"}

(* Who runs, or is about to run, a statement. *)
Callers ==
    {a \in Addr : pc[a] \in Querying} \cup
    {r \in Request : request[r] \in InTransaction}

PoolTypeOK == holders \subseteq Callers /\ Cardinality(holders) <= PoolSize

Acquire(p) ==
    /\ p \in Callers \ holders
    /\ Cardinality(holders) < PoolSize
    /\ holders' = holders \cup {p}
    /\ UNCHANGED vars

(* Deleting the users row on a connection of its own, not the transaction's. *)
MutantRelease(r) ==
    holders' = IF request'[r] \in {"cascade"} THEN holders ELSE holders \ {r}

(* Keeping it also while the clients are told. *)
MutantLeak(r) ==
    holders' = IF request'[r] \in InTransaction \cup {"notify"} THEN holders ELSE holders \ {r}

(* The transaction's connection goes back when it is committed or dropped. *)
Release(r) ==
    holders' = IF request'[r] \in InTransaction THEN holders ELSE holders \ {r}

(* A step of a task: its statement, if it is one, on a connection. *)
TaskOnPool(a, A) ==
    /\ A
    /\ UNCHANGED <<adminVars, crashes>>
    /\ pc[a] \in Querying => a \in holders
    /\ holders' = holders \ {a}

RequestOnPool(r, A) ==
    /\ A
    /\ UNCHANGED <<chatVars, crashes>>
    /\ request[r] \in InTransaction => r \in holders
    /\ Release(r)

(* PoolTimedOut: the statement, or the transaction's begin, fails. *)
TaskTimesOut(a) ==
    /\ a \in Callers \ holders
    /\ Goto(a, IF At(a, "store") THEN "storeFailed" ELSE "refuse")
    /\ UNCHANGED <<info, held, registryVars, metricVars, historyVars, channelVars>>
    /\ UNCHANGED <<dbVars, adminVars, crashes, holders>>

RequestTimesOut(r) ==
    /\ r \in Callers \ holders
    /\ Abort(r)
    /\ UNCHANGED <<chatVars, crashes, holders>>

(* delete_message_by_id: one statement on whatever connection is free. *)
DeleteMessageOnPool(m) ==
    /\ DeleteMessage(m)
    /\ Cardinality(holders) < PoolSize
    /\ UNCHANGED <<chatVars, crashes, holders>>

-----------------------------------------------------------------------------
PoolInit == Init /\ holders = {}

PoolNext ==
    \/ \E p \in Addr \cup Request : Acquire(p)
    \/ \E a \in Addr : TaskOnPool(a, TaskStep(a)) \/ TaskTimesOut(a)
    \/ \E r \in Request : RequestOnPool(r, DeletionStep(r)) \/ RequestTimesOut(r)
    \/ \E m \in messages : DeleteMessageOnPool(m)
    \/ Finished /\ UNCHANGED holders

PoolSpec == PoolInit /\ [][PoolNext]_poolVars

(* As in CrabChat, on a connection each; nothing is assumed of timeouts.    *)
PoolFairness ==
    /\ \A p \in Addr \cup Request : SF_poolVars(Acquire(p))
    /\ \A a \in Addr :
        /\ WF_poolVars(TaskOnPool(a, OwnStep(a)))
        /\ SF_poolVars(TaskOnPool(a, MutexStep(a)))
        /\ SF_poolVars(TaskOnPool(a, QueryStep(a)))
        /\ SF_poolVars(TaskOnPool(a, FeedStep(a)))
    /\ \A a \in Addr \ Stalled : WF_poolVars(TaskOnPool(a, WriteStep(a)))
    /\ \A r \in Request : SF_poolVars(RequestOnPool(r, RequestStepOf(r)))
    /\ WF_poolVars(\E r \in Request : Deadlocked(r) /\ RequestOnPool(r, Abort(r)))

PoolFairSpec == PoolSpec /\ PoolFairness

-----------------------------------------------------------------------------
(* Whoever waits for a connection gets one, however many of those who have *)
(* one wait for rows that a deletion has locked (lib.rs:525): the deletion *)
(* itself already has all it needs to go on.                               *)
EveryCallerServed ==
    \A p \in Addr \cup Request :
        p \in Callers \ holders ~> p \in holders \/ p \notin Callers
=============================================================================
