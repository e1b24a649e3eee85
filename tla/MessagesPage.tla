---------------------------- MODULE MessagesPage ----------------------------
(***************************************************************************)
(* The messages page of the admin interface (list_messages, get_messages   *)
(* and delete_message in server/src/admin.rs) over the rows that sessions  *)
(* store.  The page is a snapshot: rows come and go while an admin looks   *)
(* at it, and the Delete button beside a message sends the id shown there. *)
(*                                                                         *)
(* A text is the sequence of its characters, a character the number of     *)
(* bytes UTF-8 gives it.  DisplayLimit stands for the 100 bytes a content  *)
(* may have on the page and CutAt for the 97 that are kept of a longer one.*)
(***************************************************************************)
EXTENDS FileStore, FiniteSets, SequencesExt

CONSTANTS Absent,        \* a parameter the request does not give
          Filters,       \* the MessageFilters asked for
          DefaultLimit,  \* the limit that stands for an absent one
          DisplayLimit, CutAt

ASSUME PageAssumption ==
    /\ \A f \in Filters : f.limit \in Nat \cup {Absent}
    /\ DefaultLimit \in Nat
    /\ CutAt \in Nat /\ DisplayLimit \in Nat
    /\ Text \cup Name \subseteq Seq(Nat)

VARIABLES page,    \* "none", "shown" or "panicked": what the admin's browser got
          shown    \* the rows on it

pageVars == <<page, shown>>
vars     == <<storeVars, pageVars>>

TypeOK ==
    /\ StoreTypeOK
    /\ page \in {"none", "shown", "panicked"}
    /\ shown \subseteq [id : 1..rowSeq, number : 1..MaxSends]

Init ==
    /\ StoreInit
    /\ page = "none"
    /\ shown = {}

-----------------------------------------------------------------------------
(* get_messages: the WHERE, ORDER BY and LIMIT of its query. *)

Matching(f) ==
    {r \in rows : /\ f.user_id \in {Absent, r.from}
                 /\ f.message_type \in {Absent, r.kind}}

LimitOf(f) == IF f.limit = Absent THEN DefaultLimit ELSE f.limit

(* Any choice among equally old rows: sent_at is all they are ordered by. *)
Newest(rs, n) ==
    {top \in SUBSET rs :
        /\ Cardinality(top) = IF n < Cardinality(rs) THEN n ELSE Cardinality(rs)
        /\ \A r \in top, h \in rs \ top : h.sent_at <= r.sent_at}

-----------------------------------------------------------------------------
(* list_messages: what it makes of a content. *)

Bytes(t) == FoldLeft(+, 0, t)

(* The name given to an image is short and all ASCII. *)
TextOf(r) == IF r.content.dir = "images" THEN <<1>> ELSE r.content.name

TooLong(r) == Bytes(TextOf(r)) > DisplayLimit

(* `&msg.content[..97]` panics unless a character ends there. *)
Cuttable(r) == \E t \in Prefixes(TextOf(r)) : Bytes(t) = CutAt

Renders(rs) == \A r \in rs : TooLong(r) => Cuttable(r)

(* The whole request: a query and the rendering of what it returned. *)
ListMessages(f) ==
    /\ \E rs \in Newest(Matching(f), LimitOf(f)) :
        IF Renders(rs)
        THEN /\ page' = "shown"
             /\ shown' = {[id |-> r.id, number |-> r.number] : r \in rs}
        ELSE /\ page' = "panicked"
             /\ shown' = {}
    /\ UNCHANGED storeVars

(* The button beside a row on the page, however old the page is; the       *)
(* redirect to the messages page follows as a request of its own.          *)
DeleteMessage ==
    /\ \E l \in shown : DeleteRow(l.id)
    /\ UNCHANGED pageVars

Next ==
    \/ \E s \in Session : SessionStep(s) /\ UNCHANGED pageVars
    \/ Tick /\ UNCHANGED pageVars
    \/ \E f \in Filters : ListMessages(f)
    \/ DeleteMessage
    \/ Crash /\ UNCHANGED pageVars

Spec == Init /\ [][Next]_vars

-----------------------------------------------------------------------------
(* The Delete button of a page that was served a while ago deletes the     *)
(* message it was shown beside or nothing, whatever was stored and deleted *)
(* since (admin.rs:266 and 498).                                           *)
ButtonsHitTheirRow ==
    \A l \in shown, r \in rows : l.id = r.id => l.number = r.number

(* "Safely truncate content if it's too long for display" (admin.rs:246): *)
(* a content that is too long is no obstacle to the page.                  *)
TruncatesSafely == page # "panicked"
=============================================================================
