--------------------------- MODULE MCMessagesPage ---------------------------
(* Small instances of MessagesPage for TLC.  Characters of one and two     *)
(* bytes; a display limit of 3 bytes, of which 2 are kept.                 *)
EXTENDS MessagesPage, TLC

(* Names are cut inside a character, texts between two. *)
Names  == {<<1, 2, 1>>}
Texts == {<<1, 1, 1, 1>>}
AllTexts == {<<1, 1>>, <<2, 1>>, <<1, 1, 2>>, <<1, 2, 1>>}

(* No parameters; one user's; a type with a limit; and "All Types", which  *)
(* the form sends as an empty string and the query takes at its word.      *)
AskedFor ==
    {[user_id |-> u, message_type |-> Absent, limit |-> Absent] : u \in Session \cup {Absent}}
    \cup {[user_id |-> Absent, message_type |-> t, limit |-> 1] : t \in {"Image", ""}}

Symmetry == Permutations(Session)
=============================================================================
