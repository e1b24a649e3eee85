------------------------------ MODULE Broadcast ------------------------------
(***************************************************************************)
(* The tokio broadcast channel the server hands every message through      *)
(* (server/src/lib.rs: `sender`, `subscribe`, `send`, `recv`).  The        *)
(* channel is a library: it is modelled from how the server uses it.       *)
(*                                                                         *)
(* The channel keeps the last Capacity entries of a log that only grows.   *)
(* A receiver is a cursor into that log: it starts at the end when it      *)
(* subscribes, and a cursor that falls off the retained window is moved to *)
(* the oldest retained entry (RecvError::Lagged).  tokio rounds the 100    *)
(* asked for in lib.rs:545 up to 128 slots; Capacity is that number.       *)
(***************************************************************************)
EXTENDS Naturals, Sequences

CONSTANTS Addr,       \* socket addresses clients connect from
          AdminAddr,  \* 0.0.0.0:0, the sender of the admin's notices
          Capacity    \* entries the channel retains

ASSUME BroadcastAssumption ==
    /\ AdminAddr \notin Addr
    /\ Capacity \in Nat \ {0}

VARIABLES log,   \* every entry sent since the server started
          next   \* next[a]: the log position a reads next; 0 without a receiver

channelVars == <<log, next>>

(* "row" is the id of the stored message a chat entry announces, else 0.    *)
Entry == [from : Addr \cup {AdminAddr},
          kind : {"join", "chat", "left", "removed"},
          row  : Nat]

ChannelTypeOK ==
    /\ log \in Seq(Entry)
    /\ next \in [Addr -> Nat]

ChannelInit ==
    /\ log = <<>>
    /\ next = [a \in Addr |-> 0]

(* A new process has a new, empty channel. *)
NewChannel ==
    /\ log' = <<>>
    /\ next' = [a \in Addr |-> 0]

Subscribed(a) == next[a] # 0

(* The oldest position still retained. *)
Oldest == IF Len(log) > Capacity THEN Len(log) - Capacity + 1 ELSE 1

HasEntry(a) == Subscribed(a) /\ next[a] <= Len(log)
Lagging(a)  == next[a] < Oldest

(* A channel that makes the sender wait for the slowest receiver. *)
MutantSend(from, kind, row) ==
    /\ \A a \in Addr : Subscribed(a) => Len(log) + 1 < next[a] + Capacity
    /\ log' = Append(log, [from |-> from, kind |-> kind, row |-> row])
    /\ UNCHANGED next

(***************************************************************************)
(* send: with no receiver the channel refuses the entry and the server     *)
(* only logs that, which no later subscriber can tell from keeping it.     *)
(***************************************************************************)
Send(from, kind, row) ==
    /\ log' = Append(log, [from |-> from, kind |-> kind, row |-> row])
    /\ UNCHANGED next

(* A new receiver sees only what is sent after it subscribed. *)
SubscribeAt == Len(log) + 1

Subscribe(a) ==
    /\ next' = [next EXCEPT ![a] = SubscribeAt]
    /\ UNCHANGED log

Unsubscribe(a) ==
    /\ next' = [next EXCEPT ![a] = 0]
    /\ UNCHANGED log

(* recv: the entry under the cursor. *)
TakeEntry(a) ==
    /\ HasEntry(a)
    /\ ~Lagging(a)
    /\ next' = [next EXCEPT ![a] = @ + 1]
    /\ UNCHANGED log

(* recv returning RecvError::Lagged: the cursor jumps to the window. *)
SkipOverwritten(a) ==
    /\ HasEntry(a)
    /\ Lagging(a)
    /\ next' = [next EXCEPT ![a] = Oldest]
    /\ UNCHANGED log
=============================================================================
