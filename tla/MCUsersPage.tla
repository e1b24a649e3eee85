---------------------------- MODULE MCUsersPage -----------------------------
(* Small instances of UsersPage for TLC, with the symmetry and the view of *)
(* MCCrabChat; listed is read by the page's actions and stays in the view. *)
EXTENDS UsersPage, TLC

Symmetry == Permutations(Addr) \cup Permutations(Username) \cup Permutations(Request)

WithoutHistory ==
    <<taskVars, registryVars, metricVars, channelVars, adminVars, crashes,
      users, userSeq, messages, messageSeq, rowLocks, pageVars>>

(* What receivers have still to read, by its sender: all that actions read *)
(* of the channel, for the run whose properties are not about the feed.    *)
Unread == [a \in Addr |->
    IF Subscribed(a) THEN [i \in 1..(Len(log) + 1 - next[a]) |-> log[next[a] + i - 1].from]
                     ELSE "none"]

WithoutFeed ==
    <<taskVars, registryVars, metricVars, Unread, adminVars, crashes,
      users, userSeq, messages, messageSeq, rowLocks, pageVars>>
=============================================================================
