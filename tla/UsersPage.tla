----------------------------- MODULE UsersPage ------------------------------
(***************************************************************************)
(* The users page of the admin interface (list_users in                    *)
(* server/src/admin.rs) beside the running server.  The handler joins two  *)
(* reads made at different times: the rows of one query, and then the      *)
(* clients map, for which it waits behind the logins that hold its mutex.  *)
(* Requests for the page do not affect one another, so one at a time shows *)
(* whatever any of them may show.  Message counts and dates are left out.  *)
(***************************************************************************)
EXTENDS CrabChat

VARIABLES page,   \* what the request for the page waits for, if there is one
          listed  \* the rows the request's query returned

pageVars == <<page, listed>>
allVars  == <<vars, pageVars>>

PageTypeOK ==
    /\ page \in {"idle", "clients"}
    /\ listed \in SUBSET User

PageInit ==
    /\ page = "idle"
    /\ listed = {}

ClosePage == page' = "idle" /\ listed' = {}

(* get_users_with_message_count: one statement, so one snapshot.  When it   *)
(* fails the handler answers with the error, and nothing has changed.      *)
QueryUsers ==
    /\ page = "idle"
    /\ page' = "clients"
    /\ listed' = users

(* `clients.values().any(|c| c.user_id == user.id)` *)
Online(u) == \E a \in Addr : Registered(a) /\ clients[a].user_id = u.id

(* Every row is joined with the map under one guard, and the page sent. *)
ShowUsers ==
    /\ page = "clients"
    /\ lock = Free
    /\ ClosePage

PageStep == QueryUsers \/ ShowUsers

-----------------------------------------------------------------------------
PagesInit == Init /\ PageInit

PagesNext ==
    \/ \E a \in Addr : ChatStep(a) /\ UNCHANGED pageVars
    \/ AdminAction /\ UNCHANGED pageVars
    \/ Crash /\ ClosePage
    \/ Finished /\ UNCHANGED pageVars
    \/ PageStep /\ UNCHANGED vars

PagesSpec == PagesInit /\ [][PagesNext]_allVars

(* Nobody has to ask for the page; the mutex is first come, first served.  *)
PageFairness == SF_allVars(ShowUsers /\ UNCHANGED vars)

PagesFairSpec == PagesSpec /\ Fairness /\ PageFairness

-----------------------------------------------------------------------------
(* Whoever the page shows online is connected under the name in that row,  *)
(* although the row is older than the map it is joined with and the user   *)
(* may have been deleted, and have come back, in between (admin.rs:133).   *)
OnlineIsConnected ==
    page = "clients" => \A u \in listed : Online(u) =>
        \E a \in Addr : Registered(a) /\ clients[a].username = u.username

(* A request for the page is answered, though a login that finds its name  *)
(* taken keeps the map locked while it writes the refusal (admin.rs:129).  *)
PageServed == page = "clients" ~> page = "idle"
=============================================================================
