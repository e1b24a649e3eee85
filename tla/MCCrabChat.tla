----------------------------- MODULE MCCrabChat -----------------------------
(* Small instances of CrabChat for TLC.  Addresses, usernames and admin    *)
(* requests are interchangeable: no action compares them but for equality. *)
EXTENDS CrabChat, TLC

Symmetry == Permutations(Addr) \cup Permutations(Username) \cup Permutations(Request)

(* The second message is stored before the third connection comes.         *)
FewStores == messageSeq' > messageSeq => accepted + messageSeq' <= MaxAccepts + 1

(* The chat side with what three connections leave within TLC's reach: a   *)
(* crash when there is at most one of them to come, and few stores.        *)
(* Deletions, and a crash at any point, are in MCUsersPage.                *)
FeedNext ==
    \/ \E a \in Addr : ChatStep(a) /\ FewStores
    \/ accepted >= 2 /\ Crash
    \/ Finished

FeedSpec == Init /\ [][FeedNext]_vars
=============================================================================
