------------------------------- MODULE Session ------------------------------
(***************************************************************************)
(* Accounts and sessions: register and login of user-svc, the tokens of    *)
(* pkg/auth, authMiddleware and me of the gateway, and AuthContext in the  *)
(* browsers of several people, who may want the same email.                *)
(* src/services/user/internal/handler/handler.go,                          *)
(* src/frontend/src/contexts/AuthContext.tsx.  The page of the orders, to  *)
(* which the session matters most, is here too:                            *)
(* src/frontend/src/app/orders/page.tsx.                                   *)
(*                                                                         *)
(* Passwords stand for their hashes; a token is the number under which it  *)
(* was issued; a list of orders is the user whose orders it has.  Each     *)
(* browser has one tab and awaits one submission at a time; a submission   *)
(* that a reload abandons is over, with what it did to the accounts until  *)
(* then.  Where the router is under way to, a link may still be followed:  *)
(* the navigation that was pending is then discarded.                      *)
(***************************************************************************)
EXTENDS Naturals, Sequences, FiniteSets

CONSTANTS
    Browsers,
    Emails, Passwords,
    None,           \* null
    MaxCalls,       \* bound: submissions of a form
    MaxFaults       \* bound: failing calls and lost answers

ASSUME SessionBounds == MaxCalls \in Nat /\ MaxFaults \in Nat

VARIABLES
    users,       \* the rows of users
    issued,      \* tokens: whose each is, and what was typed to get it
    expired,     \* tokens past their exp
    page,        \* AuthContext and localStorage of each browser
    view,        \* the page that each browser shows, and where the router goes
    form,        \* the submission that each browser awaits
    me,          \* the getMe that each browser awaits
    overtaken,   \* history: the token of a getMe that a login has overtaken
    submitted, faults

accountVars == <<users, issued, expired>>
sessionVars == <<users, issued, expired, page, view, form, me, overtaken, submitted, faults>>

Tokens == 1..MaxCalls
NoForm == [kind |-> "none", email |-> None, password |-> None, at |-> "idle", token |-> None, user |-> None]
Pages  == {"form", "orders", "other"}     \* login or register; My orders; the rest
NoMe   == [at |-> "idle", token |-> None, user |-> None]

ASSUME NoneAssumption == None \notin Nat \cup Pages

Fault == faults < MaxFaults /\ faults' = faults + 1

Row(email) == CHOOSE u \in users : u.email = email
Taken(email) == \E u \in users : u.email = email

-----------------------------------------------------------------------------
(***************************************************************************)
(* The browser.                                                            *)
(***************************************************************************)
\* Mutant: the effect returns without ending loading when nothing is stored.
MountedLoading(b) == [page[b] EXCEPT !.token = page[b].stored, !.user = None, !.loading = TRUE]

\* The state after mounting and its effect.
Mounted(b) == [page[b] EXCEPT !.token = page[b].stored, !.user = None,
                              !.loading = page[b].stored # None]

\* A page that has just been mounted; only the orders page has state of its own.
\* History: former are the tokens of the sessions that ended while it was shown.
Fresh(p) == [at |-> p, going |-> None, spinner |-> p = "orders", shown |-> None,
             lists |-> {}, former |-> {}]

\* Repository.ListByUser of order-svc, for the user that the gateway read in the token.
OrdersOf(token) == issued[token].user

\* Mutant: without a token the orders page stays where it is.
EffectStays(v, auth) ==
    IF v.at # "orders" \/ auth.loading \/ auth.token = None THEN v
    ELSE [v EXCEPT !.lists = @ \cup {[token |-> auth.token, at |-> "sent"]}]

\* The effect of the orders page for the token and the loading of AuthContext.
OrdersEffect(v, auth) ==
    IF v.at # "orders" \/ auth.loading THEN v
    ELSE IF auth.token = None THEN [v EXCEPT !.going = "form"]
    ELSE [v EXCEPT !.lists = @ \cup {[token |-> auth.token, at |-> "sent"]}]

\* The orders page keeps what it shows and awaits when the session ends under it.
Outlives(v, token) ==
    IF v.at = "orders" /\ token # None THEN [v EXCEPT !.former = @ \cup {token}] ELSE v

\* AuthContext becomes auth, and the effect runs again if it depends on a change.
Becomes(b, auth, v) ==
    /\ page' = [page EXCEPT ![b] = auth]
    /\ view' = [view EXCEPT ![b] =
                  IF auth.token # page[b].token
                  THEN OrdersEffect(Outlives(v, page[b].token), auth)
                  ELSE IF auth.loading # page[b].loading THEN OrdersEffect(v, auth) ELSE v]

\* A page is loaded: whatever was awaited is forgotten, getMe is called with
\* the token found in localStorage.
Load(b, p) ==
    /\ page' = [page EXCEPT ![b] = Mounted(b)]
    /\ view' = [view EXCEPT ![b] = OrdersEffect(Fresh(p), Mounted(b))]
    /\ me' = [me EXCEPT ![b] = IF page[b].stored = None THEN NoMe
                               ELSE [NoMe EXCEPT !.at = "sent", !.token = page[b].stored]]
    /\ form' = [form EXCEPT ![b] = NoForm]
    /\ overtaken' = [overtaken EXCEPT ![b] = None]
    /\ UNCHANGED <<accountVars, submitted, faults>>

\* The links of the header: My orders with a token, Log in without a user.  A
\* navigation that is pending is discarded, also by a link to the page shown.
Click(b, p) ==
    /\ p = "orders" => page[b].token # None
    /\ p = "form" => page[b].user = None
    /\ view' = [view EXCEPT ![b].going = p]
    /\ UNCHANGED <<accountVars, page, form, me, overtaken, submitted, faults>>

\* The router arrives: another page is mounted, and what the last awaited is
\* lost; the page that is shown already stays as it is.
Arrive(b) ==
    /\ view[b].going # None
    /\ view' = [view EXCEPT ![b] = IF @.going = @.at THEN [@ EXCEPT !.going = None]
                                   ELSE OrdersEffect(Fresh(@.going), page[b])]
    /\ UNCHANGED <<accountVars, page, form, me, overtaken, submitted, faults>>

\* handleSubmit of the login or the register page, disabled while one is awaited.
Submit(b, kind, email, password) ==
    /\ view[b].at = "form" /\ form[b] = NoForm /\ submitted < MaxCalls
    /\ form' = [form EXCEPT ![b] = [NoForm EXCEPT !.kind = kind, !.email = email,
                                                  !.password = password, !.at = "sent"]]
    /\ submitted' = submitted + 1
    /\ UNCHANGED <<accountVars, page, view, me, overtaken, faults>>

\* Mutant: the user of the last session stays.
TokenOnly(b) == [page[b] EXCEPT !.stored = form[b].token, !.token = form[b].token]

PersistAuth(b) == [page[b] EXCEPT !.stored = form[b].token, !.token = form[b].token,
                                  !.user = form[b].user]

LoggedOut(b) == [page[b] EXCEPT !.stored = None, !.token = None, !.user = None]

\* router.push("/restaurants"), or "/" after a logout.
PushOther(v) == [v EXCEPT !.going = "other"]

\* The submission resolves or rejects, though its page may be gone.
FormAnswered(b) ==
    /\ form[b].at \in {"ok", "error"}
    /\ IF form[b].at = "ok"
       THEN /\ Becomes(b, PersistAuth(b), PushOther(view[b]))
            /\ overtaken' = [overtaken EXCEPT ![b] = IF me[b] = NoMe THEN @ ELSE me[b].token]
       ELSE UNCHANGED <<page, view, overtaken>>
    /\ form' = [form EXCEPT ![b] = NoForm]
    /\ UNCHANGED <<accountVars, me, submitted, faults>>

\* getMe resolves: setUser; or rejects: logout; and finally.
MeAnswered(b) ==
    /\ me[b].at \in {"ok", "error"}
    /\ LET last == IF me[b].at = "ok" THEN [page[b] EXCEPT !.user = me[b].user]
                   ELSE LoggedOut(b)
       IN  Becomes(b, [last EXCEPT !.loading = FALSE], view[b])
    /\ me' = [me EXCEPT ![b] = NoMe]
    /\ UNCHANGED <<accountVars, form, overtaken, submitted, faults>>

\* The button of the header, there only with a user.
LogOut(b) ==
    /\ page[b].user # None
    /\ Becomes(b, LoggedOut(b), PushOther(view[b]))
    /\ UNCHANGED <<accountVars, form, me, overtaken, submitted, faults>>

\* listMyOrders resolves or rejects, and finally.
ListAnswered(b) ==
    \E call \in view[b].lists :
        /\ call.at \in {"ok", "error"}
        /\ view' = [view EXCEPT ![b].lists = @ \ {call}, ![b].spinner = FALSE,
                                ![b].shown = IF call.at = "ok" THEN OrdersOf(call.token) ELSE @]
        /\ UNCHANGED <<accountVars, page, form, me, overtaken, submitted, faults>>

-----------------------------------------------------------------------------
(***************************************************************************)
(* The servers.                                                            *)
(***************************************************************************)
\* Mutant: the handler goes on after it has written the error.
NotReturned(b) == form' = [form EXCEPT ![b].at = "found"]

\* An error status, and return.
Refused(b) == form' = [form EXCEPT ![b].at = "error"]

\* repo.CreateUser: email is UNIQUE, however many registrations are under way.
\* The row may be there although an error is returned.
InsertUser(b) ==
    /\ form[b].at = "sent" /\ form[b].kind = "register"
    /\ LET row == [id |-> Cardinality(users) + 1, email |-> form[b].email,
                   password |-> form[b].password]
       IN  \/ /\ Taken(row.email)
              /\ Refused(b) /\ UNCHANGED <<users, faults>>
           \/ /\ ~Taken(row.email)
              /\ users' = users \cup {row}
              /\ \/ /\ form' = [form EXCEPT ![b].at = "found", ![b].user = row.id]
                    /\ UNCHANGED faults
                 \/ Refused(b) /\ Fault
           \/ UNCHANGED users /\ Refused(b) /\ Fault
    /\ UNCHANGED <<issued, expired, page, view, me, overtaken, submitted>>

\* Mutant: whoever has an account may log in to any.
NoCompare(b) == Taken(form[b].email)

PasswordMatches(b) == Taken(form[b].email) /\ Row(form[b].email).password = form[b].password

\* repo.GetByEmail and CompareHashAndPassword.
CheckPassword(b) ==
    /\ form[b].at = "sent" /\ form[b].kind = "login"
    /\ \/ /\ PasswordMatches(b)
          /\ form' = [form EXCEPT ![b].at = "found", ![b].user = Row(form[b].email).id]
          /\ UNCHANGED faults
       \/ ~PasswordMatches(b) /\ Refused(b) /\ UNCHANGED faults
       \/ Refused(b) /\ Fault
    /\ UNCHANGED <<accountVars, page, view, me, overtaken, submitted>>

\* auth.GenerateToken and the answer, which may be lost.
GenerateToken(b) ==
    /\ form[b].at = "found"
    /\ issued' = Append(issued, [user |-> form[b].user, email |-> form[b].email,
                                 password |-> form[b].password])
    /\ \/ /\ form' = [form EXCEPT ![b].at = "ok", ![b].token = Len(issued) + 1]
          /\ UNCHANGED faults
       \/ Refused(b) /\ Fault
    /\ UNCHANGED <<users, expired, page, view, me, overtaken, submitted>>

\* The time to live of a token runs out.
Expire(t) ==
    /\ t \in DOMAIN issued \ expired
    /\ expired' = expired \cup {t}
    /\ UNCHANGED <<users, issued, page, view, form, me, overtaken, submitted, faults>>

\* authMiddleware, me and getUser.
AnswerMe(b) ==
    /\ me[b].at = "sent"
    /\ \/ /\ me[b].token \notin expired
          /\ me' = [me EXCEPT ![b].at = "ok", ![b].user = issued[me[b].token].user]
          /\ UNCHANGED faults
       \/ /\ me[b].token \in expired
          /\ me' = [me EXCEPT ![b].at = "error"]
          /\ UNCHANGED faults
       \/ me' = [me EXCEPT ![b].at = "error"] /\ Fault
    /\ UNCHANGED <<accountVars, page, view, form, overtaken, submitted>>

\* authMiddleware and myOrders of the gateway, listUserOrders of order-svc.
AnswerList(b) ==
    \E call \in view[b].lists :
        /\ call.at = "sent"
        /\ \/ call.token \notin expired /\ UNCHANGED faults
              /\ view' = [view EXCEPT ![b].lists = (@ \ {call}) \cup {[call EXCEPT !.at = "ok"]}]
           \/ (IF call.token \in expired THEN UNCHANGED faults ELSE Fault)
              /\ view' = [view EXCEPT ![b].lists = (@ \ {call}) \cup {[call EXCEPT !.at = "error"]}]
        /\ UNCHANGED <<accountVars, page, form, me, overtaken, submitted>>

-----------------------------------------------------------------------------
Init ==
    /\ users = {} /\ issued = <<>> /\ expired = {}
    /\ page = [b \in Browsers |-> [stored |-> None, token |-> None, user |-> None, loading |-> FALSE]]
    /\ view = [b \in Browsers |-> Fresh("form")]
    /\ form = [b \in Browsers |-> NoForm]
    /\ me = [b \in Browsers |-> NoMe]
    /\ overtaken = [b \in Browsers |-> None]
    /\ submitted = 0 /\ faults = 0

Serve(b) == InsertUser(b) \/ CheckPassword(b) \/ GenerateToken(b) \/ AnswerMe(b) \/ AnswerList(b)

Next ==
    \/ \E b \in Browsers :
          \/ LogOut(b) \/ Arrive(b) \/ Serve(b)
          \/ FormAnswered(b) \/ MeAnswered(b) \/ ListAnswered(b)
          \/ \E p \in Pages : Load(b, p) \/ Click(b, p)
          \/ \E kind \in {"register", "login"}, e \in Emails, p \in Passwords :
                Submit(b, kind, e, p)
    \/ \E t \in Tokens : Expire(t)

Spec == Init /\ [][Next]_sessionVars

\* getMe and listMyOrders are answered, their promises run, the router arrives.
FairSpec ==
    /\ Spec
    /\ \A b \in Browsers :
          /\ WF_sessionVars(AnswerMe(b)) /\ WF_sessionVars(MeAnswered(b))
          /\ WF_sessionVars(AnswerList(b)) /\ WF_sessionVars(ListAnswered(b))
          /\ WF_sessionVars(Arrive(b))

-----------------------------------------------------------------------------
\* Variables have their types; every token that is held was issued.
SessionTypeOK ==
    /\ users \subseteq [id : 1..MaxCalls, email : Emails, password : Passwords]
    /\ Len(issued) <= MaxCalls
    /\ \A t \in DOMAIN issued : issued[t].user \in 1..MaxCalls
    /\ expired \subseteq DOMAIN issued
    /\ \A b \in Browsers :
          /\ {page[b].stored, page[b].token, form[b].token, me[b].token, overtaken[b]}
                 \subseteq DOMAIN issued \cup {None}
          /\ page[b].user \in {u.id : u \in users} \cup {None}
          /\ page[b].loading \in BOOLEAN
          /\ view[b].at \in Pages /\ view[b].going \in Pages \cup {None}
          /\ view[b].lists \subseteq [token : DOMAIN issued, at : {"sent", "ok", "error"}]
          /\ view[b].shown \in {u.id : u \in users} \cup {None}
          /\ view[b].former \subseteq DOMAIN issued
    /\ submitted \in 0..MaxCalls /\ faults \in 0..MaxFaults

\* A token opens the account of the email and the password that were typed for
\* it, the only account of that email, whoever registered or logged in meanwhile.
TokenOpensOwnAccount ==
    \A t \in DOMAIN issued : \E u \in users :
        /\ {v \in users : v.email = issued[t].email} = {u}
        /\ u.id = issued[t].user /\ u.password = issued[t].password

IsUserOf(token, user) == token # None /\ issued[token].user = user

\* The token of a page is the one in localStorage, and the user it shows is the
\* token's.  There is one way to something else, the answer to a getMe that a
\* login has overtaken: from then on the page may show the user of the token it
\* had found when it was loaded, beside the token of the login or beside none;
\* not before that answer, and never another user.
SessionIsWhole ==
    \A b \in Browsers :
        /\ page[b].stored = page[b].token
        /\ page[b].user # None =>
              \/ IsUserOf(page[b].token, page[b].user)
              \/ me[b] = NoMe /\ IsUserOf(overtaken[b], page[b].user)

\* The orders page shows the orders of its session, or of one that ended while it
\* was mounted: nothing cancels a listMyOrders, and if a login comes while it is
\* under way and the link to the orders is followed before the router has left
\* for the restaurants, the older list may be answered last and stay.  A page
\* that is mounted anew has nothing of the sessions before, in whatever order
\* answers come and links are followed; and without a session the page is on its
\* way to another one.
NoStrangersOrders ==
    \A b \in Browsers :
        /\ view[b].shown # None =>
              \E t \in view[b].former \cup {page[b].token} : IsUserOf(t, view[b].shown)
        /\ view[b].at = "orders" /\ page[b].token = None => view[b].going \in {"form", "other"}

\* Neither AuthContext nor the orders page of a browser stays loading, though
\* tokens expire and calls fail.  Nobody who goes from page to page for ever is
\* promised anything.
LoadingEndsOf(b) ==
    <>[][\A p \in Pages : ~Load(b, p) /\ ~Click(b, p)]_sessionVars
        => <>[](~page[b].loading /\ ~view[b].spinner)
=============================================================================
