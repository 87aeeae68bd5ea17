------------------------------ MODULE MCSession -----------------------------
(***************************************************************************)
(* Model values for the run of Session.                                    *)
(***************************************************************************)
EXTENDS Session

CONSTANTS b1, b2, e1, e2, p1, p2

MCBrowsers == {b1, b2}
MCEmails == {e1, e2}
MCPasswords == {p1, p2}

\* Emails and passwords are only compared for equality: whoever submits first
\* may as well use e1 and p1.
FirstIsE1 ==
    submitted = 1 => \A b \in Browsers :
        form[b] # NoForm => form[b].email = e1 /\ form[b].password = p1

\* What a browser shows depends on the others through the accounts only, so one
\* of the two looks at its orders; the other one loads pages and follows no links.
OneReadsOrders == view[b2].at # "orders"

\* The router goes where it did not go before, though nothing was answered and
\* nobody logged out.
FollowsLink(b) ==
    page' = page /\ view'[b].at = view[b].at /\ view'[b].going \notin {None, view[b].going}

\* A link to the page that is shown changes nothing where the router is at rest.
OneFollowsLinks ==
    /\ ~FollowsLink(b2)
    /\ FollowsLink(b1) => view[b1].going # None \/ view'[b1].going # view[b1].at

\* The browser that looks at its orders stops loading; what the other one does
\* is a part of that.
LoadingEnds == LoadingEndsOf(b1)
=============================================================================
