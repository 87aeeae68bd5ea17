---------------------------- MODULE SessionProofs ----------------------------
(***************************************************************************)
(* Theorems about Session, for any number of browsers, emails, passwords,  *)
(* submissions and failing calls: a token opens the account it was issued  *)
(* for, a page holds one session unless a login has overtaken getMe, and   *)
(* the orders it shows are of that session or of one that ended under it.  *)
(***************************************************************************)
EXTENDS Session, FiniteSetTheorems, TLAPS

Number   == Nat \cup {None}
Account     == [id : Nat, email : Emails, password : Passwords]
Token    == [user : Nat, email : Emails, password : Passwords]
Auth     == [stored : Number, token : Number, user : Number, loading : BOOLEAN]
ListCall == [token : Nat, at : {"sent", "ok", "error"}]
View     == [at : Pages, going : Pages \cup {None}, spinner : BOOLEAN, shown : Number,
             lists : SUBSET ListCall, former : SUBSET Nat]
Form     == [kind : {"none", "register", "login"}, email : Emails \cup {None},
             password : Passwords \cup {None}, at : {"idle", "sent", "found", "ok", "error"},
             token : Number, user : Number]
Me       == [at : {"idle", "sent", "ok", "error"}, token : Number, user : Number]

\* The shapes of the variables.
Shapes ==
    /\ users \subseteq Account /\ IsFiniteSet(users)
    /\ issued \in Seq(Token)
    /\ expired \subseteq DOMAIN issued
    /\ page \in [Browsers -> Auth]
    /\ view \in [Browsers -> View]
    /\ form \in [Browsers -> Form]
    /\ me \in [Browsers -> Me]
    /\ overtaken \in [Browsers -> Number]
    /\ submitted \in 0..MaxCalls /\ faults \in 0..MaxFaults

-----------------------------------------------------------------------------
(***************************************************************************)
(* The inductive invariant.  What a browser holds was true when it was     *)
(* answered and stays true, because accounts and tokens are only added.    *)
(***************************************************************************)
Ids == {u.id : u \in users}

\* u is the account of this email, password and id.
IsRow(u, id, email, password) == u.id = id /\ u.email = email /\ u.password = password

Accounts ==
    /\ \A u, v \in users : u.email = v.email => u = v
    /\ \A t \in DOMAIN issued : \E u \in users :
          IsRow(u, issued[t].user, issued[t].email, issued[t].password)

\* What the server has found for a submission is right.
FormOK(b) ==
    /\ form[b].at = "found" => \E u \in users :
          IsRow(u, form[b].user, form[b].email, form[b].password)
    /\ form[b].at = "sent" => form[b].email \in Emails /\ form[b].password \in Passwords
    /\ form[b].at = "ok" =>
          form[b].token \in DOMAIN issued /\ issued[form[b].token].user = form[b].user
    /\ form[b].token \in DOMAIN issued \cup {None}

\* getMe is called with a token that was issued, and answered with its user.
MeOK(b) ==
    /\ me[b].at # "idle" => me[b].token \in DOMAIN issued
    /\ me[b].at = "idle" => me[b] = NoMe
    /\ me[b].at = "ok" => me[b].user = issued[me[b].token].user

\* The user of a page is that of its token, or of the getMe that a login has
\* overtaken and that has been answered.  Until a login overtakes it, getMe is
\* for the token of the page, which has no user yet.
PageOK(b) ==
    /\ page[b].stored = page[b].token
    /\ page[b].token \in DOMAIN issued \cup {None}
    /\ page[b].user \in Ids \cup {None}
    /\ overtaken[b] \in DOMAIN issued \cup {None}
    /\ page[b].user # None =>
          \/ IsUserOf(page[b].token, page[b].user)
          \/ me[b] = NoMe /\ IsUserOf(overtaken[b], page[b].user)
    /\ me[b].at # "idle" =>
          \/ overtaken[b] = None /\ page[b].user = None /\ me[b].token = page[b].token
          \/ overtaken[b] # None /\ me[b].token = overtaken[b]

\* A page lists the orders of its token, and shows those or the orders of a token
\* that it had before.  Without a token the orders page is sent away; while it
\* does not know that it has none, nothing leads there.
ViewOK(b) ==
    /\ view[b].at # "orders" => view[b].lists = {} /\ view[b].shown = None
    /\ view[b].shown \in Ids \cup {None}
    /\ view[b].former \subseteq DOMAIN issued
    /\ \A call \in view[b].lists :
          call.token \in DOMAIN issued /\ call.token \in view[b].former \cup {page[b].token}
    /\ view[b].shown # None =>
          \E t \in view[b].former \cup {page[b].token} : IsUserOf(t, view[b].shown)
    /\ view[b].at = "orders" /\ page[b].token = None => view[b].going \in {"form", "other"}
    /\ page[b].loading /\ page[b].token = None => view[b].going # "orders"

BrowserOK(b) == FormOK(b) /\ MeOK(b) /\ PageOK(b) /\ ViewOK(b)

SessionInv == Shapes /\ Accounts /\ \A b \in Browsers : BrowserOK(b)

-----------------------------------------------------------------------------
(***************************************************************************)
(* Accounts and tokens are only added; a browser's step leaves the other   *)
(* browsers alone.                                                         *)
(***************************************************************************)
Grows ==
    /\ users \subseteq users'
    /\ \A t \in DOMAIN issued : t \in DOMAIN issued' /\ issued'[t] = issued[t]

Same(b) ==
    /\ page'[b] = page[b] /\ view'[b] = view[b] /\ form'[b] = form[b] /\ me'[b] = me[b]
    /\ overtaken'[b] = overtaken[b]

\* What a browser knows stays true while accounts and tokens are added.
LEMMA BrowserKept ==
    ASSUME Grows, NEW b \in Browsers, Same(b), BrowserOK(b)
    PROVE  BrowserOK(b)'
  <1>1. Ids \subseteq Ids'
    BY DEF Ids, Grows
  <1>2. FormOK(b)' /\ MeOK(b)'
    BY DEF Grows, Same, BrowserOK, FormOK, MeOK, NoMe
  <1>3. PageOK(b)'
    BY <1>1 DEF Grows, Same, BrowserOK, PageOK, IsUserOf
  <1>4. ViewOK(b)'
    BY <1>1 DEF Grows, Same, BrowserOK, PageOK, ViewOK, IsUserOf
  <1> QED
    BY <1>2, <1>3, <1>4 DEF BrowserOK

\* A step of one browser keeps the invariant if it does so of its own part.
LEMMA OneBrowserMoves ==
    ASSUME SessionInv, NEW b \in Browsers, Grows, Shapes', Accounts', BrowserOK(b)',
           \A c \in Browsers \ {b} : Same(c)
    PROVE  SessionInv'
  BY BrowserKept DEF SessionInv

\* Nothing is lost by what leaves the accounts alone.
LEMMA AccountsKept ==
    ASSUME Accounts, UNCHANGED <<users, issued>>
    PROVE  Accounts' /\ Grows
  BY DEF Accounts, Grows

\* The orders of a token are those of an account that exists.
LEMMA TokenHasAccount ==
    ASSUME Accounts, NEW t \in DOMAIN issued
    PROVE  issued[t].user \in Ids
  BY DEF Accounts, Ids, IsRow

\* The row of an email that is taken.
LEMMA RowOfEmail ==
    ASSUME NEW email, Taken(email)
    PROVE  Row(email) \in users /\ Row(email).email = email
  BY DEF Taken, Row

-----------------------------------------------------------------------------
(***************************************************************************)
(* The effect of the orders page.                                          *)
(***************************************************************************)
\* It lists the orders of the token it is given, or sends the page elsewhere.
LEMMA EffectType ==
    ASSUME NEW v \in View, NEW auth \in Auth
    PROVE  /\ OrdersEffect(v, auth) \in View
           /\ OrdersEffect(v, auth).at = v.at /\ OrdersEffect(v, auth).shown = v.shown
           /\ OrdersEffect(v, auth).former = v.former
           /\ OrdersEffect(v, auth).going \in {v.going, "form"}
           /\ v.at # "orders" => OrdersEffect(v, auth) = v
           /\ v.at = "orders" /\ ~auth.loading /\ auth.token = None =>
                 OrdersEffect(v, auth).going = "form"
           /\ \A call \in OrdersEffect(v, auth).lists :
                 call \in v.lists \/ (call.token = auth.token /\ auth.token # None)
  <1>1. CASE v.at # "orders" \/ auth.loading
    <2>1. OrdersEffect(v, auth) = v
      BY <1>1 DEF OrdersEffect
    <2> QED
      BY <1>1, <2>1 DEF View
  <1>2. CASE v.at = "orders" /\ ~auth.loading /\ auth.token = None
    <2>1. OrdersEffect(v, auth) = [v EXCEPT !.going = "form"]
      BY <1>2 DEF OrdersEffect
    <2> QED
      BY <1>2, <2>1, NoneAssumption DEF View, Pages
  <1>3. CASE v.at = "orders" /\ ~auth.loading /\ auth.token # None
    <2> DEFINE call == [token |-> auth.token, at |-> "sent"]
    <2>1. OrdersEffect(v, auth) = [v EXCEPT !.lists = @ \cup {call}]
      BY <1>3 DEF OrdersEffect
    <2>2. call \in ListCall /\ call.token = auth.token
      BY <1>3 DEF ListCall, Auth, Number
    <2>3. v.lists \cup {call} \in SUBSET ListCall
      BY <2>2 DEF View
    <2> QED
      BY <1>3, <2>1, <2>2, <2>3 DEF View
  <1> QED
    BY <1>1, <1>2, <1>3 DEF Auth

\* A page that has just been mounted shows nothing and awaits nothing.
LEMMA FreshType ==
    ASSUME NEW p \in Pages
    PROVE  /\ Fresh(p) \in View
           /\ Fresh(p).at = p /\ Fresh(p).going = None /\ Fresh(p).shown = None
           /\ Fresh(p).lists = {} /\ Fresh(p).former = {}
  BY DEF Fresh, View, Number

\* A page that stays keeps what it had, and the token that it loses.
LEMMA OutlivesType ==
    ASSUME NEW v \in View, NEW token \in Number
    PROVE  /\ Outlives(v, token) \in View
           /\ Outlives(v, token).at = v.at /\ Outlives(v, token).shown = v.shown
           /\ Outlives(v, token).going = v.going /\ Outlives(v, token).lists = v.lists
           /\ v.at # "orders" => Outlives(v, token) = v
           /\ v.former \subseteq Outlives(v, token).former
           /\ v.at = "orders" /\ token # None => token \in Outlives(v, token).former
           /\ \A t \in Outlives(v, token).former : t \in v.former \/ (t = token /\ token # None)
  <1>1. CASE v.at = "orders" /\ token # None
    <2>1. Outlives(v, token) = [v EXCEPT !.former = @ \cup {token}]
      BY <1>1 DEF Outlives
    <2>2. v.former \cup {token} \in SUBSET Nat
      BY <1>1 DEF View, Number
    <2> QED
      BY <1>1, <2>1, <2>2 DEF View
  <1>2. CASE ~(v.at = "orders" /\ token # None)
    <2>1. Outlives(v, token) = v
      BY <1>2 DEF Outlives
    <2> QED
      BY <1>2, <2>1
  <1> QED
    BY <1>1, <1>2

\* A page that is mounted with the session of its browser is right, if it is not
\* the orders page of a browser that does not know yet that it has no session.
LEMMA MountedViewOK ==
    ASSUME NEW p \in Pages, NEW auth \in Auth, auth.token \in DOMAIN issued \cup {None},
           NEW b, view'[b] = OrdersEffect(Fresh(p), auth), page'[b] = auth,
           p = "orders" /\ auth.token = None => ~auth.loading,
           UNCHANGED issued
    PROVE  view'[b] \in View /\ ViewOK(b)'
  <1>1. /\ view'[b] \in View
        /\ view'[b].at = p /\ view'[b].shown = None /\ view'[b].going \in {None, "form"}
        /\ view'[b].former = {}
        /\ p # "orders" => view'[b].lists = {}
        /\ p = "orders" /\ auth.token = None => view'[b].going = "form"
        /\ \A call \in view'[b].lists : call.token = auth.token /\ auth.token # None
    BY FreshType, EffectType
  <1>2. "form" # "orders" /\ None # "orders"
    BY NoneAssumption DEF Pages
  <1> QED
    BY <1>1, <1>2 DEF ViewOK

-----------------------------------------------------------------------------
(***************************************************************************)
(* The actions of a browser.                                               *)
(***************************************************************************)
\* A page is loaded: the session is what localStorage holds.
LEMMA LoadKeeps ==
    ASSUME SessionInv, NEW b \in Browsers, NEW p \in Pages, Load(b, p)
    PROVE  SessionInv'
  <1>0. Shapes /\ Accounts /\ BrowserOK(b) /\ UNCHANGED <<users, issued, expired, submitted, faults>>
    BY DEF SessionInv, Load, accountVars
  <1> DEFINE auth == Mounted(b)
  <1>1. /\ auth \in Auth /\ auth.token = page[b].stored /\ auth.stored = page[b].stored
        /\ auth.user = None /\ (auth.token = None => ~auth.loading)
    BY <1>0 DEF Mounted, Shapes, Auth, Number
  <1>2. page[b].stored \in DOMAIN issued \cup {None}
    BY <1>0 DEF BrowserOK, PageOK
  <1>3. DOMAIN issued \subseteq Nat
    BY <1>0 DEF Shapes
  <1>4. /\ page' = [page EXCEPT ![b] = auth] /\ page'[b] = auth
        /\ view' = [view EXCEPT ![b] = OrdersEffect(Fresh(p), auth)]
        /\ view'[b] = OrdersEffect(Fresh(p), auth)
        /\ form' = [form EXCEPT ![b] = NoForm] /\ form'[b] = NoForm
        /\ overtaken' = [overtaken EXCEPT ![b] = None] /\ overtaken'[b] = None
    BY <1>0 DEF Load, Shapes
  <1>5. ViewOK(b)' /\ view'[b] \in View
    BY <1>0, <1>1, <1>2, <1>4, MountedViewOK
  <1>6. /\ me'[b] \in Me /\ me' = [me EXCEPT ![b] = me'[b]]
        /\ me'[b].at \in {"idle", "sent"} /\ (me'[b].at = "idle" => me'[b] = NoMe)
        /\ me'[b].at = "sent" => me'[b].token = page[b].stored /\ page[b].stored # None
    <2>1. CASE page[b].stored = None
      BY <1>0, <2>1 DEF Load, Shapes, Me, NoMe, Number
    <2>2. CASE page[b].stored # None
      <3>1. me'[b] = [NoMe EXCEPT !.at = "sent", !.token = page[b].stored]
        BY <1>0, <2>2 DEF Load, Shapes
      <3> QED
        BY <1>0, <1>2, <1>3, <2>2, <3>1 DEF Load, Shapes, Me, NoMe, Number
    <2> QED
      BY <2>1, <2>2
  <1>7. NoForm \in Form /\ NoForm.at = "idle" /\ NoForm.token = None
    BY DEF NoForm, Form, Number
  <1>8. Shapes'
    BY <1>0, <1>1, <1>4, <1>5, <1>6, <1>7 DEF Shapes, Number
  <1>9. FormOK(b)' /\ MeOK(b)' /\ PageOK(b)'
    BY <1>0, <1>1, <1>2, <1>4, <1>6, <1>7 DEF FormOK, MeOK, PageOK
  <1>10. \A c \in Browsers \ {b} : Same(c)
    BY <1>0, <1>4, <1>6 DEF Shapes, Same
  <1> QED
    BY <1>0, <1>5, <1>8, <1>9, <1>10, AccountsKept, OneBrowserMoves DEF BrowserOK

\* A link is followed: nothing changes but where the router goes.
LEMMA ClickKeeps ==
    ASSUME SessionInv, NEW b \in Browsers, NEW p \in Pages, Click(b, p)
    PROVE  SessionInv'
  <1>0. /\ Shapes /\ Accounts /\ BrowserOK(b)
        /\ UNCHANGED <<users, issued, expired, page, form, me, overtaken, submitted, faults>>
    BY DEF SessionInv, Click, accountVars
  <1>1. /\ view' = [view EXCEPT ![b] = [view[b] EXCEPT !.going = p]]
        /\ view'[b] = [view[b] EXCEPT !.going = p]
        /\ p = "orders" => page[b].token # None
    BY <1>0, NoneAssumption DEF Click, Shapes
  <1>2. /\ view'[b] \in View /\ view'[b].going = p /\ view'[b].at = view[b].at
        /\ view'[b].lists = view[b].lists /\ view'[b].shown = view[b].shown
        /\ view'[b].former = view[b].former
    BY <1>0, <1>1 DEF Shapes, View
  <1>3. Shapes'
    BY <1>0, <1>1, <1>2 DEF Shapes
  <1>4. ViewOK(b)'
    BY <1>0, <1>1, <1>2 DEF BrowserOK, ViewOK, Ids, IsUserOf, Pages
  <1>5. BrowserOK(b)'
    BY <1>0, <1>4 DEF BrowserOK, FormOK, MeOK, PageOK, Ids, IsUserOf
  <1>6. \A c \in Browsers \ {b} : Same(c)
    BY <1>0, <1>1 DEF Shapes, Same
  <1> QED
    BY <1>0, <1>3, <1>5, <1>6, AccountsKept, OneBrowserMoves

\* The router arrives: a page that is mounted anew shows nothing.
LEMMA ArriveKeeps ==
    ASSUME SessionInv, NEW b \in Browsers, Arrive(b)
    PROVE  SessionInv'
  <1>0. /\ Shapes /\ Accounts /\ BrowserOK(b)
        /\ UNCHANGED <<users, issued, expired, page, form, me, overtaken, submitted, faults>>
    BY DEF SessionInv, Arrive, accountVars
  <1> DEFINE new == IF view[b].going = view[b].at THEN [view[b] EXCEPT !.going = None]
                    ELSE OrdersEffect(Fresh(view[b].going), page[b])
  <1>1. view' = [view EXCEPT ![b] = new] /\ view'[b] = new
    BY <1>0 DEF Arrive, Shapes
  <1>2. view'[b] \in View /\ ViewOK(b)'
    <2>1. CASE view[b].going = view[b].at
      <3>1. /\ view'[b] \in View /\ view'[b].at = view[b].at
            /\ view'[b].lists = view[b].lists /\ view'[b].shown = view[b].shown
            /\ view'[b].former = view[b].former /\ view'[b].going = None
        BY <1>0, <1>1, <2>1 DEF Shapes, View
      <3>2. None # "orders" /\ (view[b].at = "orders" => page[b].token # None)
        BY <1>0, <2>1, NoneAssumption DEF BrowserOK, ViewOK, Pages
      <3> QED
        BY <1>0, <3>1, <3>2 DEF BrowserOK, ViewOK, Ids, IsUserOf
    <2>2. CASE view[b].going # view[b].at
      <3>1. view[b].going \in Pages /\ page[b] \in Auth
        BY <1>0 DEF Arrive, Shapes, View
      <3>2. /\ page[b].token \in DOMAIN issued \cup {None}
            /\ view[b].going = "orders" /\ page[b].token = None => ~page[b].loading
        BY <1>0 DEF BrowserOK, PageOK, ViewOK
      <3>3. view'[b] = OrdersEffect(Fresh(view[b].going), page[b]) /\ page'[b] = page[b]
        BY <1>0, <1>1, <2>2
      <3> QED
        BY <1>0, <3>1, <3>2, <3>3, MountedViewOK
    <2> QED
      BY <2>1, <2>2
  <1>3. Shapes'
    BY <1>0, <1>1, <1>2 DEF Shapes
  <1>4. BrowserOK(b)'
    BY <1>0, <1>2 DEF BrowserOK, FormOK, MeOK, PageOK, Ids, IsUserOf
  <1>5. \A c \in Browsers \ {b} : Same(c)
    BY <1>0, <1>1 DEF Shapes, Same
  <1> QED
    BY <1>0, <1>3, <1>4, <1>5, AccountsKept, OneBrowserMoves

\* A form is submitted.
LEMMA SubmitKeeps ==
    ASSUME SessionInv, NEW b \in Browsers, NEW kind \in {"register", "login"},
           NEW email \in Emails, NEW password \in Passwords, Submit(b, kind, email, password)
    PROVE  SessionInv'
  <1>0. /\ Shapes /\ Accounts /\ BrowserOK(b)
        /\ UNCHANGED <<users, issued, expired, page, view, me, overtaken, faults>>
    BY DEF SessionInv, Submit, accountVars
  <1> DEFINE new == [NoForm EXCEPT !.kind = kind, !.email = email, !.password = password,
                                   !.at = "sent"]
  <1>1. /\ new \in Form /\ new.at = "sent" /\ new.email = email /\ new.password = password
        /\ new.token = None
    BY DEF NoForm, Form, Number
  <1>2. form' = [form EXCEPT ![b] = new] /\ form'[b] = new
    BY <1>0 DEF Submit, Shapes
  <1>3. submitted' \in 0..MaxCalls
    BY <1>0, SessionBounds DEF Submit, Shapes
  <1>4. Shapes'
    BY <1>0, <1>1, <1>2, <1>3 DEF Shapes
  <1>5. BrowserOK(b)'
    BY <1>0, <1>1, <1>2 DEF BrowserOK, FormOK, MeOK, PageOK, ViewOK, Ids, IsUserOf
  <1>6. \A c \in Browsers \ {b} : Same(c)
    BY <1>0, <1>2 DEF Shapes, Same
  <1> QED
    BY <1>0, <1>4, <1>5, <1>6, AccountsKept, OneBrowserMoves

\* A session that changes leaves the page as it is or runs its effect.
LEMMA BecomesType ==
    ASSUME Shapes, NEW b \in Browsers, NEW auth \in Auth, NEW v \in View, Becomes(b, auth, v)
    PROVE  /\ page' = [page EXCEPT ![b] = auth] /\ page'[b] = auth
           /\ page' \in [Browsers -> Auth]
           /\ view' \in [Browsers -> View]
           /\ \A c \in Browsers \ {b} : page'[c] = page[c] /\ view'[c] = view[c]
           /\ view'[b].at = v.at /\ view'[b].shown = v.shown
           /\ view'[b].going \in {v.going, "form"}
           /\ v.at # "orders" => view'[b] = v
           /\ v.at = "orders" /\ ~auth.loading /\ auth.token = None /\ page[b].token # None =>
                 view'[b].going = "form"
           /\ v.former \subseteq view'[b].former
           /\ \A t \in view'[b].former : t \in v.former \/ (t = page[b].token /\ t # None)
           /\ v.at = "orders" /\ page[b].token \notin {None, auth.token} =>
                 page[b].token \in view'[b].former
           /\ \A call \in view'[b].lists :
                 call \in v.lists \/ (call.token = auth.token /\ auth.token # None)
  <1> DEFINE out == Outlives(v, page[b].token)
             new == IF auth.token # page[b].token THEN OrdersEffect(out, auth)
                    ELSE IF auth.loading # page[b].loading THEN OrdersEffect(v, auth) ELSE v
  <1>1. page' = [page EXCEPT ![b] = auth] /\ page'[b] = auth
    BY DEF Becomes, Shapes
  <1>2. view' = [view EXCEPT ![b] = new] /\ view'[b] = new
    BY DEF Becomes, Shapes
  <1>3. page[b].token \in Number
    BY DEF Shapes, Auth
  <1>4. out \in View
    BY <1>3, OutlivesType
  <1>5. new \in View
    BY <1>4, EffectType
  <1>6. page' \in [Browsers -> Auth] /\ view' \in [Browsers -> View]
    BY <1>1, <1>2, <1>5 DEF Shapes
  <1>7. \A c \in Browsers \ {b} : page'[c] = page[c] /\ view'[c] = view[c]
    BY <1>1, <1>2 DEF Shapes
  <1>8. CASE auth.token # page[b].token
    <2>1. view'[b] = OrdersEffect(out, auth)
      BY <1>2, <1>8
    <2>2. /\ out.at = v.at /\ out.shown = v.shown /\ out.going = v.going /\ out.lists = v.lists
          /\ v.at # "orders" => out = v
          /\ v.former \subseteq out.former
          /\ v.at = "orders" /\ page[b].token # None => page[b].token \in out.former
          /\ \A t \in out.former : t \in v.former \/ (t = page[b].token /\ t # None)
      BY <1>3, OutlivesType
    <2> HIDE DEF new, out
    <2>3. /\ view'[b].at = out.at /\ view'[b].shown = out.shown /\ view'[b].former = out.former
          /\ view'[b].going \in {out.going, "form"}
          /\ out.at # "orders" => view'[b] = out
          /\ out.at = "orders" /\ ~auth.loading /\ auth.token = None => view'[b].going = "form"
          /\ \A call \in view'[b].lists :
                call \in out.lists \/ (call.token = auth.token /\ auth.token # None)
      BY <1>4, <2>1, EffectType
    <2> QED
      BY <1>1, <1>6, <1>7, <2>2, <2>3
  <1>9. CASE auth.token = page[b].token
    <2>1. view'[b] = OrdersEffect(v, auth) \/ view'[b] = v
      BY <1>2, <1>9
    <2> HIDE DEF new, out
    <2> QED
      BY <1>1, <1>6, <1>7, <1>9, <2>1, EffectType
  <1> QED
    BY <1>8, <1>9

\* A page may go on to any session, if it is sent away where there is none.
LEMMA BecomesKeepsView ==
    ASSUME Shapes, NEW b \in Browsers, NEW auth \in Auth, NEW v \in View, Becomes(b, auth, v),
           ViewOK(b), page[b].token \in DOMAIN issued \cup {None},
           auth.token \in DOMAIN issued \cup {None}, UNCHANGED <<users, issued>>,
           v.at = view[b].at, v.shown = view[b].shown, v.lists = view[b].lists,
           v.former = view[b].former,
           auth.token = None =>
              \/ v.going = "other"
              \/ ~auth.loading /\ (page[b].token # None \/ v.going = view[b].going)
    PROVE  ViewOK(b)'
  <1> DEFINE held  == view[b].former \cup {page[b].token}
             held1 == view'[b].former \cup {page'[b].token}
  <1>1. /\ page'[b] = auth /\ view'[b].at = view[b].at /\ view'[b].shown = view[b].shown
        /\ view'[b].going \in {v.going, "form"}
        /\ view[b].at # "orders" => view'[b] = v
        /\ view[b].at = "orders" /\ ~auth.loading /\ auth.token = None /\ page[b].token # None =>
              view'[b].going = "form"
        /\ view[b].former \subseteq view'[b].former
        /\ \A t \in view'[b].former : t \in view[b].former \/ (t = page[b].token /\ t # None)
        /\ view[b].at = "orders" /\ page[b].token \notin {None, auth.token} =>
              page[b].token \in view'[b].former
        /\ \A call \in view'[b].lists :
              call \in view[b].lists \/ (call.token = auth.token /\ auth.token # None)
    BY BecomesType
  <1>2. view[b].at = "orders" => \A t \in held : t = None \/ t \in held1
    BY <1>1
  <1>3. None \notin DOMAIN issued
    BY NoneAssumption DEF Shapes
  <1>4. view'[b].at # "orders" => view'[b].lists = {} /\ view'[b].shown = None
    BY <1>1 DEF ViewOK
  <1>5. view'[b].shown \in Ids' \cup {None} /\ view'[b].former \subseteq DOMAIN issued'
    BY <1>1 DEF ViewOK, Ids
  <1>6. ASSUME NEW call \in view'[b].lists
        PROVE  call.token \in DOMAIN issued' /\ call.token \in held1
    <2>1. view[b].at = "orders"
      BY <1>1, <1>4
    <2>2. CASE call \in view[b].lists
      BY <1>2, <1>3, <2>1, <2>2 DEF ViewOK
    <2>3. CASE call.token = auth.token /\ auth.token # None
      BY <1>1, <2>3
    <2> QED
      BY <1>1, <2>2, <2>3
  <1>7. ASSUME view'[b].shown # None
        PROVE  \E t \in held1 : IsUserOf(t, view[b].shown)'
    <2>1. view[b].at = "orders"
      BY <1>1, <1>4, <1>7
    <2>2. PICK t \in held : IsUserOf(t, view[b].shown)
      BY <1>1, <1>7 DEF ViewOK
    <2> QED
      BY <1>1, <1>2, <2>1, <2>2 DEF IsUserOf
  <1>8. view'[b].at = "orders" /\ page'[b].token = None => view'[b].going \in {"form", "other"}
    BY <1>1 DEF ViewOK
  <1>9. page'[b].loading /\ page'[b].token = None => view'[b].going # "orders"
    BY <1>1
  <1> QED
    BY <1>4, <1>5, <1>6, <1>7, <1>8, <1>9 DEF ViewOK, IsUserOf

\* A login takes the place of the session, and leads away.
LEMMA FormAnsweredKeeps ==
    ASSUME SessionInv, NEW b \in Browsers, FormAnswered(b)
    PROVE  SessionInv'
  <1>0. /\ Shapes /\ Accounts /\ BrowserOK(b)
        /\ UNCHANGED <<users, issued, expired, me, submitted, faults>>
        /\ form' = [form EXCEPT ![b] = NoForm] /\ form'[b] = NoForm
    BY DEF SessionInv, FormAnswered, accountVars, Shapes
  <1>1. NoForm \in Form /\ NoForm.at = "idle" /\ NoForm.token = None
    BY DEF NoForm, Form, Number
  <1>2. FormOK(b)' /\ MeOK(b)'
    BY <1>0, <1>1 DEF BrowserOK, FormOK, MeOK
  <1>3. CASE form[b].at = "ok"
    <2> DEFINE auth == PersistAuth(b)
    <2>1. /\ form[b].token \in DOMAIN issued /\ issued[form[b].token].user = form[b].user
          /\ form[b].token # None
      BY <1>0, <1>3, NoneAssumption DEF BrowserOK, FormOK, Shapes
    <2>2. form[b].user \in Ids
      BY <1>0, <2>1, TokenHasAccount
    <2>3. /\ auth \in Auth /\ auth.token = form[b].token /\ auth.stored = form[b].token
          /\ auth.user = form[b].user
      BY <1>0 DEF PersistAuth, Shapes, Auth, Form
    <2> HIDE DEF auth
    <2>4. /\ Becomes(b, auth, PushOther(view[b]))
          /\ overtaken' = [overtaken EXCEPT ![b] = IF me[b] = NoMe THEN @ ELSE me[b].token]
      BY <1>0, <1>3 DEF FormAnswered, auth
    <2>5. /\ PushOther(view[b]) \in View /\ PushOther(view[b]).at = view[b].at
          /\ PushOther(view[b]).shown = view[b].shown /\ PushOther(view[b]).lists = view[b].lists
          /\ PushOther(view[b]).former = view[b].former
      BY <1>0 DEF PushOther, Shapes, View, Pages
    <2>6. /\ overtaken'[b] = IF me[b] = NoMe THEN overtaken[b] ELSE me[b].token
          /\ overtaken' \in [Browsers -> Number]
          /\ overtaken'[b] \in DOMAIN issued \cup {None}
      <3>1. me[b] \in Me /\ me[b].token \in Number /\ overtaken \in [Browsers -> Number]
        BY <1>0 DEF Shapes, Me
      <3>2. overtaken'[b] = IF me[b] = NoMe THEN overtaken[b] ELSE me[b].token
        BY <2>4, <3>1
      <3>3. overtaken' \in [Browsers -> Number]
        BY <2>4, <3>1
      <3> QED
        BY <1>0, <3>2, <3>3 DEF BrowserOK, PageOK, MeOK
    <2>7. ViewOK(b)'
      BY <1>0, <2>1, <2>3, <2>4, <2>5, BecomesKeepsView DEF BrowserOK, PageOK
    <2>8. page'[b] = auth /\ Ids' = Ids
      BY <1>0, <2>3, <2>4, <2>5, BecomesType DEF Ids
    <2>9. PageOK(b)'
      <3>1. IsUserOf(page[b].token, page[b].user)'
        BY <1>0, <2>1, <2>3, <2>8 DEF IsUserOf
      <3>2. me[b].at # "idle" => overtaken'[b] = me[b].token /\ overtaken'[b] # None
        <4>1. None \notin DOMAIN issued
          BY <1>0, NoneAssumption DEF Shapes
        <4> QED
          BY <1>0, <2>6, <4>1 DEF BrowserOK, MeOK, NoMe
      <3> QED
        BY <1>0, <2>1, <2>2, <2>3, <2>6, <2>8, <3>1, <3>2 DEF PageOK
    <2>10. Shapes'
      BY <1>0, <1>1, <2>3, <2>4, <2>5, <2>6, BecomesType DEF Shapes
    <2>11. \A c \in Browsers \ {b} : Same(c)
      BY <1>0, <2>3, <2>4, <2>5, BecomesType DEF Shapes, Same
    <2> QED
      BY <1>0, <1>2, <2>7, <2>9, <2>10, <2>11, AccountsKept, OneBrowserMoves DEF BrowserOK
  <1>4. CASE form[b].at # "ok"
    <2>1. UNCHANGED <<page, view, overtaken>>
      BY <1>4 DEF FormAnswered
    <2>2. Shapes'
      BY <1>0, <1>1, <2>1 DEF Shapes
    <2>3. PageOK(b)' /\ ViewOK(b)'
      BY <1>0, <2>1 DEF BrowserOK, PageOK, ViewOK, Ids, IsUserOf
    <2>4. \A c \in Browsers \ {b} : Same(c)
      BY <1>0, <2>1 DEF Shapes, Same
    <2> QED
      BY <1>0, <1>2, <2>2, <2>3, <2>4, AccountsKept, OneBrowserMoves DEF BrowserOK
  <1> QED
    BY <1>3, <1>4

\* getMe is answered: the page has its user, or no session any more.
LEMMA MeAnsweredKeeps ==
    ASSUME SessionInv, NEW b \in Browsers, MeAnswered(b)
    PROVE  SessionInv'
  <1>0. /\ Shapes /\ Accounts /\ BrowserOK(b)
        /\ UNCHANGED <<users, issued, expired, form, overtaken, submitted, faults>>
        /\ me' = [me EXCEPT ![b] = NoMe] /\ me'[b] = NoMe
        /\ me[b].at \in {"ok", "error"}
    BY DEF SessionInv, MeAnswered, accountVars, Shapes
  <1> DEFINE last == IF me[b].at = "ok" THEN [page[b] EXCEPT !.user = me[b].user]
                     ELSE LoggedOut(b)
             auth == [last EXCEPT !.loading = FALSE]
  <1>1. Becomes(b, auth, view[b]) /\ view[b] \in View /\ page[b] \in Auth /\ me[b] \in Me
    BY <1>0 DEF MeAnswered, Shapes
  <1>2. /\ auth \in Auth /\ auth.loading = FALSE /\ auth.stored = auth.token
        /\ me[b].at = "ok" => auth.token = page[b].token /\ auth.user = me[b].user
        /\ me[b].at # "ok" => auth.token = None /\ auth.user = None
    BY <1>0, <1>1 DEF LoggedOut, Auth, Me, Number, BrowserOK, PageOK
  <1> HIDE DEF auth
  <1>3. page'[b] = auth
    BY <1>0, <1>1, <1>2, BecomesType
  <1>4. /\ page[b].token \in DOMAIN issued \cup {None}
        /\ auth.token \in DOMAIN issued \cup {None}
    BY <1>0, <1>2 DEF BrowserOK, PageOK
  <1>5. ViewOK(b)'
    BY <1>0, <1>1, <1>2, <1>4, BecomesKeepsView DEF BrowserOK
  <1>6. PageOK(b)'
    <2>1. /\ me[b].token \in DOMAIN issued /\ me[b].token # None
          /\ me[b].at = "ok" => me[b].user = issued[me[b].token].user
      <3>1. None \notin DOMAIN issued
        BY <1>0, NoneAssumption DEF Shapes
      <3> QED
        BY <1>0, <3>1 DEF BrowserOK, MeOK
    <2>2. me[b].at = "ok" => auth.user \in Ids
      BY <1>0, <1>2, <2>1, TokenHasAccount
    <2>3. me[b].at = "ok" =>
             IsUserOf(auth.token, auth.user) \/ IsUserOf(overtaken[b], auth.user)
      BY <1>0, <1>2, <2>1 DEF BrowserOK, PageOK, IsUserOf
    <2>4. Ids' = Ids /\ NoMe.at = "idle"
      BY <1>0 DEF Ids, NoMe
    <2>5. overtaken'[b] = overtaken[b] /\ overtaken[b] \in DOMAIN issued \cup {None}
      BY <1>0 DEF BrowserOK, PageOK
    <2> QED
      BY <1>0, <1>2, <1>3, <1>4, <2>2, <2>3, <2>4, <2>5 DEF PageOK, IsUserOf
  <1>7. FormOK(b)' /\ MeOK(b)' /\ NoMe \in Me
    BY <1>0 DEF BrowserOK, FormOK, MeOK, NoMe, Me, Number
  <1>8. Shapes'
    BY <1>0, <1>1, <1>2, <1>7, BecomesType DEF Shapes
  <1>9. \A c \in Browsers \ {b} : Same(c)
    BY <1>0, <1>1, <1>2, BecomesType DEF Shapes, Same
  <1> QED
    BY <1>0, <1>5, <1>6, <1>7, <1>8, <1>9, AccountsKept, OneBrowserMoves DEF BrowserOK

\* Somebody logs out, and is led away.
LEMMA LogOutKeeps ==
    ASSUME SessionInv, NEW b \in Browsers, LogOut(b)
    PROVE  SessionInv'
  <1>0. /\ Shapes /\ Accounts /\ BrowserOK(b) /\ page[b].user # None
        /\ UNCHANGED <<users, issued, expired, form, me, overtaken, submitted, faults>>
    BY DEF SessionInv, LogOut, accountVars
  <1> DEFINE auth == LoggedOut(b)
  <1>1. /\ auth \in Auth /\ auth.token = None /\ auth.stored = None /\ auth.user = None
        /\ Becomes(b, auth, PushOther(view[b]))
    BY <1>0 DEF LogOut, LoggedOut, Shapes, Auth, Number
  <1> HIDE DEF auth
  <1>2. /\ PushOther(view[b]) \in View /\ PushOther(view[b]).at = view[b].at
        /\ PushOther(view[b]).shown = view[b].shown /\ PushOther(view[b]).lists = view[b].lists
        /\ PushOther(view[b]).former = view[b].former /\ PushOther(view[b]).going = "other"
    BY <1>0 DEF PushOther, Shapes, View, Pages
  <1>3. ViewOK(b)'
    BY <1>0, <1>1, <1>2, BecomesKeepsView DEF BrowserOK, PageOK
  <1>4. page'[b] = auth
    BY <1>0, <1>1, <1>2, BecomesType
  <1>5. FormOK(b)' /\ MeOK(b)' /\ PageOK(b)'
    BY <1>0, <1>1, <1>4 DEF BrowserOK, FormOK, MeOK, PageOK, IsUserOf
  <1>6. Shapes'
    BY <1>0, <1>1, <1>2, BecomesType DEF Shapes
  <1>7. \A c \in Browsers \ {b} : Same(c)
    BY <1>0, <1>1, <1>2, BecomesType DEF Shapes, Same
  <1> QED
    BY <1>0, <1>3, <1>5, <1>6, <1>7, AccountsKept, OneBrowserMoves DEF BrowserOK

\* listMyOrders is answered: the orders that are shown are those of its token.
LEMMA ListAnsweredKeeps ==
    ASSUME SessionInv, NEW b \in Browsers, ListAnswered(b)
    PROVE  SessionInv'
  <1>0. /\ Shapes /\ Accounts /\ BrowserOK(b)
        /\ UNCHANGED <<users, issued, expired, page, form, me, overtaken, submitted, faults>>
    BY DEF SessionInv, ListAnswered, accountVars
  <1>1. PICK call \in view[b].lists :
           view' = [view EXCEPT ![b].lists = @ \ {call}, ![b].spinner = FALSE,
                                ![b].shown = IF call.at = "ok" THEN OrdersOf(call.token) ELSE @]
    BY DEF ListAnswered
  <1>2. call.token \in DOMAIN issued /\ view[b].at = "orders" /\ view[b] \in View
    BY <1>0, <1>1 DEF BrowserOK, ViewOK, Shapes
  <1>3. OrdersOf(call.token) \in Ids /\ OrdersOf(call.token) \in Nat
    <2>1. issued[call.token].user \in Ids
      BY <1>0, <1>2, TokenHasAccount
    <2>2. issued[call.token] \in Token
      BY <1>0, <1>2 DEF Shapes
    <2> QED
      BY <2>1, <2>2 DEF OrdersOf, Token
  <1>4. /\ view'[b] \in View /\ view'[b].at = view[b].at /\ view'[b].going = view[b].going
        /\ view'[b].lists \subseteq view[b].lists
        /\ view'[b].shown \in {view[b].shown, OrdersOf(call.token)}
        /\ view'[b].former = view[b].former
        /\ view' = [view EXCEPT ![b] = view'[b]]
    BY <1>0, <1>1, <1>2, <1>3 DEF Shapes, View, Number
  <1>5. /\ call.token \in view[b].former \cup {page[b].token}
        /\ IsUserOf(call.token, OrdersOf(call.token))
    BY <1>0, <1>1, <1>2, NoneAssumption DEF BrowserOK, ViewOK, Shapes, IsUserOf, OrdersOf
  <1>6. ViewOK(b)'
    BY <1>0, <1>2, <1>3, <1>4, <1>5 DEF BrowserOK, ViewOK, Ids, IsUserOf
  <1>7. FormOK(b)' /\ MeOK(b)' /\ PageOK(b)'
    BY <1>0 DEF BrowserOK, FormOK, MeOK, PageOK, Ids, IsUserOf
  <1>8. Shapes'
    BY <1>0, <1>4 DEF Shapes
  <1>9. \A c \in Browsers \ {b} : Same(c)
    BY <1>0, <1>4 DEF Shapes, Same
  <1> QED
    BY <1>0, <1>6, <1>7, <1>8, <1>9, AccountsKept, OneBrowserMoves DEF BrowserOK

-----------------------------------------------------------------------------
(***************************************************************************)
(* The actions of the servers.                                             *)
(***************************************************************************)
\* What the server does for a submission changes nothing else in the browser.
LEMMA FormMoves ==
    ASSUME SessionInv, NEW b \in Browsers, NEW f \in Form, form' = [form EXCEPT ![b] = f],
           Grows, Accounts', FormOK(b)',
           users' \subseteq Account, IsFiniteSet(users'), issued' \in Seq(Token),
           faults' \in 0..MaxFaults, UNCHANGED <<expired, page, view, me, overtaken, submitted>>
    PROVE  SessionInv'
  <1>1. Shapes /\ BrowserOK(b)
    BY DEF SessionInv
  <1>2. expired \subseteq DOMAIN issued'
    BY <1>1 DEF Shapes, Grows
  <1>3. Shapes'
    BY <1>1, <1>2 DEF Shapes
  <1>4. Ids \subseteq Ids'
    BY DEF Ids, Grows
  <1>5. MeOK(b)'
    BY <1>1 DEF BrowserOK, MeOK, Grows, NoMe
  <1>6. PageOK(b)'
    BY <1>1, <1>4 DEF BrowserOK, PageOK, Grows, IsUserOf
  <1>7. ViewOK(b)'
    BY <1>1, <1>4 DEF BrowserOK, PageOK, ViewOK, Grows, IsUserOf
  <1>8. \A c \in Browsers \ {b} : Same(c)
    BY <1>1 DEF Shapes, Same
  <1> QED
    BY <1>3, <1>5, <1>6, <1>7, <1>8, OneBrowserMoves DEF BrowserOK

\* A submission that is refused.
LEMMA RefusedType ==
    ASSUME Shapes, NEW b \in Browsers, Refused(b)
    PROVE  \E f \in Form : /\ form' = [form EXCEPT ![b] = f] /\ form'[b] = f
                           /\ f.at = "error" /\ f.token = form[b].token
  <1> DEFINE f == [form[b] EXCEPT !.at = "error"]
  <1>1. form' = [form EXCEPT ![b] = f] /\ form'[b] = f
    BY DEF Refused, Shapes
  <1>2. f \in Form /\ f.at = "error" /\ f.token = form[b].token
    BY DEF Shapes, Form
  <1> QED
    BY <1>1, <1>2

\* A submission for which an account is found.
LEMMA FoundType ==
    ASSUME Shapes, NEW b \in Browsers, NEW id \in Nat,
           form' = [form EXCEPT ![b].at = "found", ![b].user = id]
    PROVE  \E f \in Form : /\ form' = [form EXCEPT ![b] = f] /\ form'[b] = f
                           /\ f.at = "found" /\ f.token = form[b].token /\ f.user = id
                           /\ f.email = form[b].email /\ f.password = form[b].password
  <1> DEFINE f == [form[b] EXCEPT !.at = "found", !.user = id]
  <1>1. form' = [form EXCEPT ![b] = f] /\ form'[b] = f
    BY DEF Shapes
  <1>2. /\ f \in Form /\ f.at = "found" /\ f.token = form[b].token /\ f.user = id
        /\ f.email = form[b].email /\ f.password = form[b].password
    BY DEF Shapes, Form, Number
  <1> QED
    BY <1>1, <1>2

\* A failing call is counted.
LEMMA FaultsType ==
    ASSUME Shapes, Fault \/ UNCHANGED faults
    PROVE  faults' \in 0..MaxFaults
  BY SessionBounds DEF Shapes, Fault

\* An account is created, if its email is free, whether or not the answer says so.
LEMMA InsertUserKeeps ==
    ASSUME SessionInv, NEW b \in Browsers, InsertUser(b)
    PROVE  SessionInv'
  <1>0. /\ Shapes /\ Accounts /\ BrowserOK(b) /\ form[b].at = "sent"
        /\ UNCHANGED <<issued, expired, page, view, me, overtaken, submitted>>
    BY DEF SessionInv, InsertUser
  <1> DEFINE row == [id |-> Cardinality(users) + 1, email |-> form[b].email,
                     password |-> form[b].password]
  <1>1. row \in Account /\ row.id \in Nat
    BY <1>0, FS_CardinalityType DEF BrowserOK, FormOK, Shapes, Account
  <1>2. /\ \/ users' = users
           \/ users' = users \cup {row} /\ ~Taken(row.email)
        /\ \/ Refused(b)
           \/ /\ form' = [form EXCEPT ![b].at = "found", ![b].user = row.id]
              /\ users' = users \cup {row}
        /\ Fault \/ UNCHANGED faults
    BY DEF InsertUser
  <1> HIDE DEF row
  <1>3. users' \subseteq Account /\ IsFiniteSet(users') /\ faults' \in 0..MaxFaults
    BY <1>0, <1>1, <1>2, FS_AddElement, FaultsType DEF Shapes
  <1>4. Grows
    BY <1>0, <1>2 DEF Grows
  <1>5. Accounts'
    BY <1>0, <1>2 DEF Accounts, Taken, IsRow
  <1>6. CASE Refused(b)
    <2>1. PICK f \in Form : /\ form' = [form EXCEPT ![b] = f] /\ form'[b] = f
                            /\ f.at = "error" /\ f.token = form[b].token
      BY <1>0, <1>6, RefusedType
    <2>2. FormOK(b)'
      BY <1>0, <2>1 DEF BrowserOK, FormOK
    <2> QED
      BY <1>0, <1>3, <1>4, <1>5, <2>1, <2>2, FormMoves DEF Shapes
  <1>7. CASE ~Refused(b)
    <2>1. PICK f \in Form : /\ form' = [form EXCEPT ![b] = f] /\ form'[b] = f
                            /\ f.at = "found" /\ f.token = form[b].token /\ f.user = row.id
                            /\ f.email = form[b].email /\ f.password = form[b].password
      BY <1>0, <1>1, <1>2, <1>7, FoundType
    <2>2. IsRow(row, f.user, f.email, f.password) /\ row \in users'
      BY <1>2, <1>7, <2>1 DEF IsRow, row
    <2>3. FormOK(b)'
      BY <1>0, <2>1, <2>2 DEF BrowserOK, FormOK, IsRow
    <2> QED
      BY <1>0, <1>3, <1>4, <1>5, <2>1, <2>3, FormMoves DEF Shapes
  <1> QED
    BY <1>6, <1>7

\* An account is found by its email, if the password is the one it was created with.
LEMMA CheckPasswordKeeps ==
    ASSUME SessionInv, NEW b \in Browsers, CheckPassword(b)
    PROVE  SessionInv'
  <1>0. /\ Shapes /\ Accounts /\ BrowserOK(b) /\ form[b].at = "sent"
        /\ UNCHANGED <<users, issued, expired, page, view, me, overtaken, submitted>>
    BY DEF SessionInv, CheckPassword, accountVars
  <1>1. faults' \in 0..MaxFaults
    <2>1. Fault \/ UNCHANGED faults
      BY DEF CheckPassword
    <2> QED
      BY <1>0, <2>1, FaultsType
  <1>2. Accounts' /\ Grows /\ users' \subseteq Account /\ IsFiniteSet(users')
    BY <1>0, AccountsKept DEF Shapes
  <1>3. CASE Refused(b)
    <2>1. PICK f \in Form : /\ form' = [form EXCEPT ![b] = f] /\ form'[b] = f
                            /\ f.at = "error" /\ f.token = form[b].token
      BY <1>0, <1>3, RefusedType
    <2>2. FormOK(b)'
      BY <1>0, <2>1 DEF BrowserOK, FormOK
    <2> QED
      BY <1>0, <1>1, <1>2, <2>1, <2>2, FormMoves DEF Shapes
  <1>4. CASE ~Refused(b)
    <2> DEFINE row == Row(form[b].email)
    <2>1. /\ PasswordMatches(b)
          /\ form' = [form EXCEPT ![b].at = "found", ![b].user = row.id]
      BY <1>4 DEF CheckPassword
    <2>2. row \in users /\ row.email = form[b].email /\ row.password = form[b].password
      BY <2>1, RowOfEmail DEF PasswordMatches
    <2> HIDE DEF row
    <2>3. row.id \in Nat
      BY <1>0, <2>2 DEF Shapes, Account
    <2>4. PICK f \in Form : /\ form' = [form EXCEPT ![b] = f] /\ form'[b] = f
                            /\ f.at = "found" /\ f.token = form[b].token /\ f.user = row.id
                            /\ f.email = form[b].email /\ f.password = form[b].password
      BY <1>0, <2>1, <2>3, FoundType
    <2>5. FormOK(b)'
      BY <1>0, <2>2, <2>4 DEF BrowserOK, FormOK, IsRow
    <2> QED
      BY <1>0, <1>1, <1>2, <2>4, <2>5, FormMoves DEF Shapes
  <1> QED
    BY <1>3, <1>4

\* A token is issued for the account that was found, whether or not it arrives.
LEMMA GenerateTokenKeeps ==
    ASSUME SessionInv, NEW b \in Browsers, GenerateToken(b)
    PROVE  SessionInv'
  <1>0. /\ Shapes /\ Accounts /\ BrowserOK(b) /\ form[b].at = "found"
        /\ UNCHANGED <<users, expired, page, view, me, overtaken, submitted>>
    BY DEF SessionInv, GenerateToken
  <1> DEFINE token == [user |-> form[b].user, email |-> form[b].email,
                       password |-> form[b].password]
  <1>1. PICK u \in users : IsRow(u, form[b].user, form[b].email, form[b].password)
    BY <1>0 DEF BrowserOK, FormOK
  <1>2. token \in Token /\ IsRow(u, token.user, token.email, token.password)
    BY <1>0, <1>1 DEF IsRow, Shapes, Account, Token
  <1>3. issued' = Append(issued, token) /\ issued \in Seq(Token)
    BY <1>0 DEF GenerateToken, Shapes
  <1> HIDE DEF token
  <1>4. /\ issued' \in Seq(Token) /\ DOMAIN issued' = 1..(Len(issued) + 1)
        /\ DOMAIN issued = 1..Len(issued)
        /\ \A t \in DOMAIN issued : issued'[t] = issued[t]
        /\ issued'[Len(issued) + 1] = token /\ Len(issued) + 1 \in DOMAIN issued'
    BY <1>2, <1>3
  <1>5. Grows
    BY <1>0, <1>4 DEF Grows
  <1>6. Accounts'
    <2>1. \A t \in DOMAIN issued' : t \in DOMAIN issued \/ t = Len(issued) + 1
      BY <1>3, <1>4
    <2> QED
      BY <1>0, <1>2, <1>4, <2>1 DEF Accounts, IsRow
  <1>7. faults' \in 0..MaxFaults
    <2>1. Fault \/ UNCHANGED faults
      BY DEF GenerateToken
    <2> QED
      BY <1>0, <2>1, FaultsType
  <1>8. CASE Refused(b)
    <2>1. PICK f \in Form : /\ form' = [form EXCEPT ![b] = f] /\ form'[b] = f
                            /\ f.at = "error" /\ f.token = form[b].token
      BY <1>0, <1>8, RefusedType
    <2>2. FormOK(b)'
      BY <1>0, <1>4, <2>1 DEF BrowserOK, FormOK
    <2> QED
      BY <1>0, <1>4, <1>5, <1>6, <1>7, <2>1, <2>2, FormMoves DEF Shapes
  <1>9. CASE ~Refused(b)
    <2> DEFINE f == [form[b] EXCEPT !.at = "ok", !.token = Len(issued) + 1]
    <2>1. form' = [form EXCEPT ![b] = f] /\ form'[b] = f
      BY <1>0, <1>9 DEF GenerateToken, Shapes
    <2>2. Len(issued) + 1 \in Nat
      BY <1>3
    <2>3. f \in Form /\ f.at = "ok" /\ f.token = Len(issued) + 1 /\ f.user = form[b].user
      BY <1>0, <2>2 DEF Shapes, Form, Number
    <2> HIDE DEF f
    <2>4. FormOK(b)'
      BY <1>4, <2>1, <2>3 DEF FormOK, token
    <2> QED
      BY <1>0, <1>4, <1>5, <1>6, <1>7, <2>1, <2>3, <2>4, FormMoves DEF Shapes
  <1> QED
    BY <1>8, <1>9

\* A token expires: nothing that is held changes.
LEMMA ExpireKeeps ==
    ASSUME SessionInv, NEW t, Expire(t)
    PROVE  SessionInv'
  <1>1. /\ UNCHANGED <<users, issued, page, view, form, me, overtaken, submitted, faults>>
        /\ expired' = expired \cup {t} /\ t \in DOMAIN issued
    BY DEF Expire
  <1>2. Shapes'
    BY <1>1 DEF SessionInv, Shapes
  <1>3. \A b \in Browsers : Same(b)
    BY <1>1 DEF Same
  <1> QED
    BY <1>1, <1>2, <1>3, AccountsKept, BrowserKept DEF SessionInv

\* getMe is answered with the user of its token, or not.
LEMMA AnswerMeKeeps ==
    ASSUME SessionInv, NEW b \in Browsers, AnswerMe(b)
    PROVE  SessionInv'
  <1>0. /\ Shapes /\ Accounts /\ BrowserOK(b) /\ me[b].at = "sent" /\ me[b] \in Me
        /\ me[b].token \in DOMAIN issued
        /\ UNCHANGED <<users, issued, expired, page, view, form, overtaken, submitted>>
    BY DEF SessionInv, AnswerMe, accountVars, BrowserOK, MeOK, Shapes
  <1>1. faults' \in 0..MaxFaults
    <2>1. Fault \/ UNCHANGED faults
      BY DEF AnswerMe
    <2> QED
      BY <1>0, <2>1, FaultsType
  <1>2. issued[me[b].token].user \in Nat
    <2>1. issued[me[b].token] \in Token
      BY <1>0 DEF Shapes
    <2> QED
      BY <2>1 DEF Token
  <1>3. \E m \in Me : /\ me' = [me EXCEPT ![b] = m] /\ m.at \in {"ok", "error"}
                      /\ m.token = me[b].token
                      /\ m.at = "ok" => m.user = issued[me[b].token].user
    <2> DEFINE good == [me[b] EXCEPT !.at = "ok", !.user = issued[me[b].token].user]
               bad  == [me[b] EXCEPT !.at = "error"]
    <2>1. /\ good \in Me /\ good.at = "ok" /\ good.token = me[b].token
          /\ good.user = issued[me[b].token].user
      BY <1>0, <1>2 DEF Me, Number
    <2>2. bad \in Me /\ bad.at = "error" /\ bad.token = me[b].token
      BY <1>0 DEF Me
    <2>3. me' = [me EXCEPT ![b] = good] \/ me' = [me EXCEPT ![b] = bad]
      BY <1>0 DEF AnswerMe, Shapes
    <2> HIDE DEF good, bad
    <2> QED
      BY <2>1, <2>2, <2>3
  <1>4. PICK m \in Me : /\ me' = [me EXCEPT ![b] = m] /\ m.at \in {"ok", "error"}
                        /\ m.token = me[b].token
                        /\ m.at = "ok" => m.user = issued[me[b].token].user
    BY <1>3
  <1>5. Shapes' /\ me'[b] = m
    BY <1>0, <1>1, <1>4 DEF Shapes
  <1>6. BrowserOK(b)'
    <2>1. me[b] # NoMe /\ m.at # "idle"
      BY <1>0, <1>4 DEF NoMe
    <2>2. PageOK(b)'
      BY <1>0, <1>4, <1>5, <2>1 DEF BrowserOK, PageOK, Ids, IsUserOf
    <2> QED
      BY <1>0, <1>4, <1>5, <2>2 DEF BrowserOK, FormOK, MeOK, ViewOK, Ids, IsUserOf
  <1>7. \A c \in Browsers \ {b} : Same(c)
    BY <1>0, <1>4 DEF Shapes, Same
  <1> QED
    BY <1>0, <1>5, <1>6, <1>7, AccountsKept, OneBrowserMoves

\* listMyOrders is answered, or not, for the token it was called with.
LEMMA AnswerListKeeps ==
    ASSUME SessionInv, NEW b \in Browsers, AnswerList(b)
    PROVE  SessionInv'
  <1>0. /\ Shapes /\ Accounts /\ BrowserOK(b) /\ view[b] \in View
        /\ UNCHANGED <<users, issued, expired, page, form, me, overtaken, submitted>>
    BY DEF SessionInv, AnswerList, accountVars, Shapes
  <1>1. PICK call \in view[b].lists :
           /\ \/ view' = [view EXCEPT ![b].lists = (@ \ {call}) \cup {[call EXCEPT !.at = "ok"]}]
              \/ view' = [view EXCEPT ![b].lists = (@ \ {call}) \cup {[call EXCEPT !.at = "error"]}]
           /\ Fault \/ UNCHANGED faults
    BY DEF AnswerList
  <1>2. faults' \in 0..MaxFaults
    BY <1>0, <1>1, FaultsType
  <1>3. PICK new : /\ new \in {[call EXCEPT !.at = "ok"], [call EXCEPT !.at = "error"]}
                   /\ view' = [view EXCEPT ![b].lists = (@ \ {call}) \cup {new}]
    BY <1>1
  <1>4. call \in ListCall
    BY <1>0, <1>1 DEF View
  <1>5. new \in ListCall /\ new.token = call.token
    BY <1>3, <1>4 DEF ListCall
  <1> DEFINE v == [view[b] EXCEPT !.lists = (@ \ {call}) \cup {new}]
  <1>6. view' = [view EXCEPT ![b] = v] /\ view'[b] = v
    BY <1>0, <1>3 DEF Shapes
  <1>7. /\ v \in View /\ v.at = view[b].at /\ v.going = view[b].going
        /\ v.shown = view[b].shown /\ v.former = view[b].former
        /\ \A c \in v.lists : \E d \in view[b].lists : c.token = d.token
    <2>1. (view[b].lists \ {call}) \cup {new} \in SUBSET ListCall
      BY <1>0, <1>5 DEF View
    <2> QED
      BY <1>0, <1>1, <1>5, <2>1 DEF View
  <1> HIDE DEF v
  <1>8. Shapes'
    BY <1>0, <1>2, <1>6, <1>7 DEF Shapes
  <1>9. ViewOK(b)'
    BY <1>0, <1>1, <1>6, <1>7 DEF BrowserOK, ViewOK, Ids, IsUserOf
  <1>10. FormOK(b)' /\ MeOK(b)' /\ PageOK(b)'
    BY <1>0 DEF BrowserOK, FormOK, MeOK, PageOK, Ids, IsUserOf
  <1>11. \A c \in Browsers \ {b} : Same(c)
    BY <1>0, <1>6 DEF Shapes, Same
  <1> QED
    BY <1>0, <1>8, <1>9, <1>10, <1>11, AccountsKept, OneBrowserMoves DEF BrowserOK

-----------------------------------------------------------------------------
(***************************************************************************)
(* The invariant holds, and what it says of accounts, sessions and orders. *)
(***************************************************************************)
\* Before anybody has an account.
LEMMA InitSession == Init => SessionInv
  <1> SUFFICES ASSUME Init PROVE SessionInv
    OBVIOUS
  <1>1. /\ [stored |-> None, token |-> None, user |-> None, loading |-> FALSE] \in Auth
        /\ NoForm \in Form /\ NoForm.at = "idle" /\ NoForm.token = None
        /\ NoMe \in Me /\ NoMe.at = "idle"
    BY DEF Auth, Number, NoForm, Form, NoMe, Me
  <1>2. Fresh("form") \in View /\ Fresh("form").at = "form" /\ Fresh("form").shown = None
        /\ Fresh("form").lists = {} /\ Fresh("form").former = {}
    BY FreshType DEF Pages
  <1>3. Shapes
    BY <1>1, <1>2, SessionBounds, FS_EmptySet DEF Init, Shapes, Number
  <1>4. Accounts
    BY DEF Init, Accounts
  <1>5. ASSUME NEW b \in Browsers PROVE BrowserOK(b)
    BY <1>1, <1>2 DEF Init, BrowserOK, FormOK, MeOK, PageOK, ViewOK
  <1> QED
    BY <1>3, <1>4, <1>5 DEF SessionInv

\* Every step of the browsers and of the servers keeps it.
LEMMA NextSession == SessionInv /\ [Next]_sessionVars => SessionInv'
  <1> SUFFICES ASSUME SessionInv, [Next]_sessionVars PROVE SessionInv'
    OBVIOUS
  <1>1. CASE UNCHANGED sessionVars
    <2>1. UNCHANGED <<users, issued, expired, page, view, form, me, overtaken, submitted, faults>>
      BY <1>1 DEF sessionVars
    <2>2. Shapes' /\ \A b \in Browsers : Same(b)
      BY <2>1 DEF SessionInv, Shapes, Same
    <2> QED
      BY <2>1, <2>2, AccountsKept, BrowserKept DEF SessionInv
  <1>2. ASSUME NEW t \in Tokens, Expire(t) PROVE SessionInv'
    BY <1>2, ExpireKeeps
  <1>3. ASSUME NEW b \in Browsers, Serve(b) PROVE SessionInv'
    BY <1>3, InsertUserKeeps, CheckPasswordKeeps, GenerateTokenKeeps, AnswerMeKeeps,
       AnswerListKeeps DEF Serve
  <1>4. ASSUME NEW b \in Browsers,
               LogOut(b) \/ Arrive(b) \/ FormAnswered(b) \/ MeAnswered(b) \/ ListAnswered(b)
        PROVE  SessionInv'
    BY <1>4, LogOutKeeps, ArriveKeeps, FormAnsweredKeeps, MeAnsweredKeeps, ListAnsweredKeeps
  <1>5. ASSUME NEW b \in Browsers, NEW p \in Pages, Load(b, p) \/ Click(b, p) PROVE SessionInv'
    BY <1>5, LoadKeeps, ClickKeeps
  <1>6. ASSUME NEW b \in Browsers, NEW kind \in {"register", "login"}, NEW email \in Emails,
               NEW password \in Passwords, Submit(b, kind, email, password)
        PROVE  SessionInv'
    BY <1>6, SubmitKeeps
  <1> QED
    BY <1>1, <1>2, <1>3, <1>4, <1>5, <1>6 DEF Next

\* The inductive invariant of the session.
THEOREM SessionIsInvariant == Spec => []SessionInv
  BY InitSession, NextSession, PTL DEF Spec

\* A token opens the account of the email and the password that were typed for
\* it, whoever registers or logs in at the same time (user-svc's handler.go).
THEOREM TokensOpenOwnAccounts == Spec => []TokenOpensOwnAccount
  <1>1. SessionInv => TokenOpensOwnAccount
    <2> SUFFICES ASSUME Accounts, NEW t \in DOMAIN issued
                 PROVE  \E u \in users :
                          /\ {v \in users : v.email = issued[t].email} = {u}
                          /\ u.id = issued[t].user /\ u.password = issued[t].password
      BY DEF SessionInv, TokenOpensOwnAccount
    <2>1. PICK u \in users : IsRow(u, issued[t].user, issued[t].email, issued[t].password)
      BY DEF Accounts
    <2>2. {v \in users : v.email = issued[t].email} = {u}
      BY <2>1 DEF Accounts, IsRow
    <2> QED
      BY <2>1, <2>2 DEF IsRow
  <1> QED
    BY <1>1, SessionIsInvariant, PTL

\* The token of a page is its copy in localStorage, and its user is the token's.
\* Where a login overtakes a getMe whose answer comes after it, the user may be
\* that of the getMe instead, of that one only and only from its answer on
\* (AuthContext.tsx).
THEOREM SessionsAreWhole == Spec => []SessionIsWhole
  <1>1. SessionInv => SessionIsWhole
    BY DEF SessionInv, BrowserOK, PageOK, SessionIsWhole
  <1> QED
    BY <1>1, SessionIsInvariant, PTL

\* The orders that a page shows are those of its session or of one that ended
\* while the page was mounted, never of anybody before; without a session the
\* page is on its way elsewhere (orders/page.tsx).
THEOREM NoStrangersOrdersShown == Spec => []NoStrangersOrders
  <1>1. SessionInv => NoStrangersOrders
    BY DEF SessionInv, BrowserOK, ViewOK, NoStrangersOrders
  <1> QED
    BY <1>1, SessionIsInvariant, PTL

-----------------------------------------------------------------------------
(***************************************************************************)
(* How many accounts and tokens there are: each is paid for by one         *)
(* submission, also the ones that are under way.                           *)
(***************************************************************************)
Sent    == {b \in Browsers : form[b].at = "sent"}
Waiting == {b \in Browsers : form[b].at \in {"sent", "found"}}

Counted ==
    /\ \A u \in users : u.id \in 1..Cardinality(users)
    /\ IsFiniteSet(Sent) /\ IsFiniteSet(Waiting)
    /\ Cardinality(users) + Cardinality(Sent) <= submitted
    /\ Len(issued) + Cardinality(Waiting) <= submitted

\* One element more or less.
LEMMA OneMoreOrLess ==
    ASSUME NEW S, NEW x, IsFiniteSet(S)
    PROVE  /\ IsFiniteSet(S \cup {x}) /\ IsFiniteSet(S \ {x})
           /\ Cardinality(S) \in Nat
           /\ Cardinality(S \cup {x}) <= Cardinality(S) + 1
           /\ Cardinality(S \cup {x}) \in Nat
           /\ Cardinality(S \ {x}) <= Cardinality(S)
           /\ x \in S => Cardinality(S \ {x}) = Cardinality(S) - 1
           /\ Cardinality(S \ {x}) \in Nat
           /\ x \notin S => Cardinality(S \cup {x}) = Cardinality(S) + 1
  BY FS_AddElement, FS_RemoveElement, FS_CardinalityType

\* A part of a finite set is no larger.
LEMMA PartIsSmaller ==
    ASSUME NEW S, NEW T, IsFiniteSet(S), T \subseteq S
    PROVE  /\ IsFiniteSet(T) /\ Cardinality(T) <= Cardinality(S)
           /\ Cardinality(T) \in Nat /\ Cardinality(S) \in Nat
  BY FS_Subset, FS_CardinalityType

\* What a step that changes one submission does to the submissions under way.
LEMMA SubmissionsUnderWay ==
    ASSUME Shapes, NEW b \in Browsers, NEW f, form' = [form EXCEPT ![b] = f]
    PROVE  /\ Sent' = IF f.at = "sent" THEN Sent \cup {b} ELSE Sent \ {b}
           /\ Waiting' = IF f.at \in {"sent", "found"} THEN Waiting \cup {b} ELSE Waiting \ {b}
  <1>1. form'[b] = f /\ \A c \in Browsers \ {b} : form'[c] = form[c]
    BY DEF Shapes
  <1>2. Sent' = IF f.at = "sent" THEN Sent \cup {b} ELSE Sent \ {b}
    BY <1>1 DEF Sent
  <1>3. Waiting' = IF f.at \in {"sent", "found"} THEN Waiting \cup {b} ELSE Waiting \ {b}
    BY <1>1 DEF Waiting
  <1> QED
    BY <1>2, <1>3

\* A submission that is over, or goes on without a new account or token.
LEMMA NothingNewCounted ==
    ASSUME Shapes, Counted, NEW b \in Browsers, NEW f, form' = [form EXCEPT ![b] = f],
           f.at # "sent", f.at = "found" => form[b].at = "sent",
           UNCHANGED <<users, issued, submitted>>
    PROVE  Counted'
  <1>1. /\ Sent' = Sent \ {b}
        /\ Waiting' = Waiting \/ Waiting' = Waiting \ {b}
    <2>1. Waiting' = IF f.at \in {"sent", "found"} THEN Waiting \cup {b} ELSE Waiting \ {b}
      BY SubmissionsUnderWay
    <2>2. f.at = "found" => b \in Waiting
      BY DEF Waiting
    <2>3. Sent' = Sent \ {b}
      BY SubmissionsUnderWay
    <2> QED
      BY <2>1, <2>2, <2>3
  <1>2. /\ IsFiniteSet(Sent') /\ IsFiniteSet(Waiting')
        /\ Cardinality(Sent') <= Cardinality(Sent) /\ Cardinality(Sent') \in Nat
        /\ Cardinality(Waiting') <= Cardinality(Waiting) /\ Cardinality(Waiting') \in Nat
    <2>1. IsFiniteSet(Sent) /\ IsFiniteSet(Waiting)
      BY DEF Counted
    <2>2. Sent' \subseteq Sent /\ Waiting' \subseteq Waiting
      BY <1>1
    <2> QED
      BY <2>1, <2>2, PartIsSmaller
  <1>3. /\ Cardinality(users) \in Nat /\ Len(issued) \in Nat /\ submitted \in Nat
        /\ Cardinality(Sent) \in Nat /\ Cardinality(Waiting) \in Nat
    BY FS_CardinalityType DEF Shapes, Counted
  <1> QED
    BY <1>2, <1>3 DEF Counted

\* A submission begins.
LEMMA SubmitCounted ==
    ASSUME Shapes, Counted, NEW b \in Browsers, NEW kind, NEW email, NEW password,
           Submit(b, kind, email, password)
    PROVE  Counted'
  <1> DEFINE f == [NoForm EXCEPT !.kind = kind, !.email = email, !.password = password,
                                 !.at = "sent"]
  <1>1. /\ form' = [form EXCEPT ![b] = f] /\ f.at = "sent" /\ form[b].at = "idle"
        /\ submitted' = submitted + 1 /\ UNCHANGED <<users, issued>>
    BY DEF Submit, accountVars, NoForm
  <1> HIDE DEF f
  <1>2. Sent' = Sent \cup {b} /\ Waiting' = Waiting \cup {b}
    BY <1>1, SubmissionsUnderWay
  <1>3. /\ IsFiniteSet(Sent') /\ IsFiniteSet(Waiting')
        /\ Cardinality(Sent') <= Cardinality(Sent) + 1 /\ Cardinality(Sent') \in Nat
        /\ Cardinality(Waiting') <= Cardinality(Waiting) + 1 /\ Cardinality(Waiting') \in Nat
    BY <1>2, OneMoreOrLess DEF Counted
  <1>4. /\ Cardinality(users) \in Nat /\ Len(issued) \in Nat /\ submitted \in Nat
        /\ Cardinality(Sent) \in Nat /\ Cardinality(Waiting) \in Nat
    BY FS_CardinalityType DEF Shapes, Counted
  <1> QED
    BY <1>1, <1>3, <1>4 DEF Counted

\* An account is created for the submission that was sent.
LEMMA InsertUserCounted ==
    ASSUME SessionInv, Counted, NEW b \in Browsers, InsertUser(b)
    PROVE  Counted'
  <1>0. Shapes /\ form[b].at = "sent" /\ UNCHANGED <<issued, submitted>>
    BY DEF SessionInv, InsertUser
  <1> DEFINE row == [id |-> Cardinality(users) + 1, email |-> form[b].email,
                     password |-> form[b].password]
  <1>1. /\ users' = users \/ users' = users \cup {row}
        /\ Refused(b) \/ form' = [form EXCEPT ![b].at = "found", ![b].user = row.id]
    BY DEF InsertUser
  <1>2. row.id = Cardinality(users) + 1 /\ Cardinality(users) \in Nat
    BY <1>0, FS_CardinalityType DEF Shapes
  <1> HIDE DEF row
  <1>3. \E f \in Form : form' = [form EXCEPT ![b] = f] /\ f.at \in {"error", "found"}
    BY <1>0, <1>1, <1>2, RefusedType, FoundType
  <1>4. PICK f \in Form : form' = [form EXCEPT ![b] = f] /\ f.at \in {"error", "found"}
    BY <1>3
  <1>5. CASE users' = users
    BY <1>0, <1>4, <1>5, NothingNewCounted
  <1>6. CASE users' = users \cup {row}
    <2>1. row \notin users
      BY <1>2 DEF Counted
    <2>2. Cardinality(users') = Cardinality(users) + 1
      BY <1>0, <1>6, <2>1, OneMoreOrLess DEF Shapes
    <2>3. b \in Sent /\ b \in Waiting
      BY <1>0 DEF Sent, Waiting
    <2>4. Sent' = Sent \ {b} /\ (Waiting' = Waiting \/ Waiting' = Waiting \ {b})
      <3>1. Sent' = Sent \ {b}
        BY <1>0, <1>4, SubmissionsUnderWay
      <3>2. Waiting' = IF f.at \in {"sent", "found"} THEN Waiting \cup {b} ELSE Waiting \ {b}
        BY <1>0, <1>4, SubmissionsUnderWay
      <3> QED
        BY <2>3, <3>1, <3>2
    <2>5. /\ IsFiniteSet(Sent') /\ IsFiniteSet(Waiting')
          /\ Cardinality(Sent') = Cardinality(Sent) - 1 /\ Cardinality(Sent) \in Nat
          /\ Cardinality(Waiting') <= Cardinality(Waiting)
          /\ Cardinality(Waiting') \in Nat /\ Cardinality(Waiting) \in Nat
      <3>1. IsFiniteSet(Sent) /\ IsFiniteSet(Waiting) /\ Waiting' \subseteq Waiting
        BY <2>4 DEF Counted
      <3>2. IsFiniteSet(Sent') /\ Cardinality(Sent') = Cardinality(Sent) - 1
        BY <2>3, <2>4, <3>1, OneMoreOrLess
      <3> QED
        BY <3>1, <3>2, PartIsSmaller, OneMoreOrLess
    <2>6. Len(issued) \in Nat /\ submitted \in Nat
      BY <1>0 DEF Shapes
    <2>7. \A u \in users' : u.id \in 1..Cardinality(users')
      BY <1>2, <1>6, <2>2 DEF Counted
    <2> QED
      BY <1>0, <1>2, <2>2, <2>5, <2>6, <2>7 DEF Counted
  <1> QED
    BY <1>1, <1>5, <1>6

\* An account is found for the submission that was sent, or it is over.
LEMMA CheckPasswordCounted ==
    ASSUME SessionInv, Counted, NEW b \in Browsers, CheckPassword(b)
    PROVE  Counted'
  <1>0. Shapes /\ form[b].at = "sent" /\ UNCHANGED <<users, issued, submitted>>
    BY DEF SessionInv, CheckPassword, accountVars
  <1>1. CASE Refused(b)
    <2>1. \E f \in Form : form' = [form EXCEPT ![b] = f] /\ f.at = "error"
      BY <1>0, <1>1, RefusedType
    <2> QED
      BY <1>0, <2>1, NothingNewCounted
  <1>2. CASE ~Refused(b)
    <2> DEFINE row == Row(form[b].email)
    <2>1. /\ PasswordMatches(b)
          /\ form' = [form EXCEPT ![b].at = "found", ![b].user = row.id]
      BY <1>2 DEF CheckPassword
    <2>2. row \in users
      BY <2>1, RowOfEmail DEF PasswordMatches
    <2> HIDE DEF row
    <2>3. row.id \in Nat
      BY <1>0, <2>2 DEF Shapes, Account
    <2>4. PICK f \in Form : /\ form' = [form EXCEPT ![b] = f] /\ form'[b] = f
                            /\ f.at = "found" /\ f.token = form[b].token /\ f.user = row.id
                            /\ f.email = form[b].email /\ f.password = form[b].password
      BY <1>0, <2>1, <2>3, FoundType
    <2> QED
      BY <1>0, <2>4, NothingNewCounted
  <1> QED
    BY <1>1, <1>2

\* A token is issued for the submission that was under way.
LEMMA GenerateTokenCounted ==
    ASSUME SessionInv, Counted, NEW b \in Browsers, GenerateToken(b)
    PROVE  Counted'
  <1>0. /\ Shapes /\ form[b].at = "found" /\ UNCHANGED <<users, submitted>>
        /\ Len(issued') = Len(issued) + 1 /\ Len(issued) \in Nat
    BY DEF SessionInv, GenerateToken, Shapes
  <1>1. \E f : form' = [form EXCEPT ![b] = f] /\ f.at \in {"ok", "error"}
    <2>1. CASE Refused(b)
      BY <1>0, <2>1, RefusedType
    <2>2. CASE ~Refused(b)
      <3> DEFINE f == [form[b] EXCEPT !.at = "ok", !.token = Len(issued) + 1]
      <3>1. form' = [form EXCEPT ![b] = f] /\ f.at = "ok"
        BY <1>0, <2>2 DEF GenerateToken, Shapes, Form
      <3> QED
        BY <3>1
    <2> QED
      BY <2>1, <2>2
  <1>2. PICK f : form' = [form EXCEPT ![b] = f] /\ f.at \in {"ok", "error"}
    BY <1>1
  <1>3. Sent' = Sent \ {b} /\ Waiting' = Waiting \ {b} /\ b \in Waiting
    BY <1>0, <1>2, SubmissionsUnderWay DEF Waiting
  <1>4. /\ IsFiniteSet(Sent') /\ IsFiniteSet(Waiting')
        /\ Cardinality(Sent') <= Cardinality(Sent)
        /\ Cardinality(Sent') \in Nat /\ Cardinality(Sent) \in Nat
        /\ Cardinality(Waiting') = Cardinality(Waiting) - 1 /\ Cardinality(Waiting) \in Nat
    BY <1>3, OneMoreOrLess DEF Counted
  <1>5. Cardinality(users) \in Nat /\ submitted \in Nat
    BY <1>0, FS_CardinalityType DEF Shapes
  <1> QED
    BY <1>0, <1>4, <1>5 DEF Counted

\* What leaves the submissions and the accounts alone leaves the count alone.
LEMMA CountedKept ==
    ASSUME Counted, UNCHANGED <<users, issued, form, submitted>>
    PROVE  Counted'
  <1>1. Sent' = Sent /\ Waiting' = Waiting
    BY DEF Sent, Waiting
  <1> QED
    BY <1>1 DEF Counted

\* Accounts and tokens are never more than the submissions.
LEMMA NextCounted == SessionInv /\ Counted /\ [Next]_sessionVars => Counted'
  <1> SUFFICES ASSUME SessionInv, Counted, [Next]_sessionVars PROVE Counted'
    OBVIOUS
  <1>0. Shapes
    BY DEF SessionInv
  <1>1. CASE UNCHANGED sessionVars
    BY <1>1, CountedKept DEF sessionVars
  <1>2. ASSUME NEW t \in Tokens, Expire(t) PROVE Counted'
    BY <1>2, CountedKept DEF Expire
  <1>3. ASSUME NEW b \in Browsers,
               InsertUser(b) \/ CheckPassword(b) \/ GenerateToken(b)
        PROVE  Counted'
    BY <1>3, InsertUserCounted, CheckPasswordCounted, GenerateTokenCounted
  <1>4. ASSUME NEW b \in Browsers, AnswerMe(b) \/ LogOut(b) \/ Arrive(b) \/ MeAnswered(b)
        PROVE  Counted'
    BY <1>4, CountedKept DEF AnswerMe, LogOut, Arrive, MeAnswered, accountVars
  <1>5. ASSUME NEW b \in Browsers, AnswerList(b) \/ ListAnswered(b) PROVE Counted'
    BY <1>5, CountedKept DEF AnswerList, ListAnswered, accountVars
  <1>6. ASSUME NEW b \in Browsers, FormAnswered(b) PROVE Counted'
    <2>1. form' = [form EXCEPT ![b] = NoForm] /\ UNCHANGED <<users, issued, submitted>>
      BY <1>6 DEF FormAnswered, accountVars
    <2>2. NoForm.at = "idle"
      BY DEF NoForm
    <2> QED
      BY <1>0, <2>1, <2>2, NothingNewCounted
  <1>7. ASSUME NEW b \in Browsers, NEW p \in Pages, Load(b, p) PROVE Counted'
    <2>1. form' = [form EXCEPT ![b] = NoForm] /\ UNCHANGED <<users, issued, submitted>>
      BY <1>7 DEF Load, accountVars
    <2>2. NoForm.at = "idle"
      BY DEF NoForm
    <2> QED
      BY <1>0, <2>1, <2>2, NothingNewCounted
  <1>8. ASSUME NEW b \in Browsers, NEW p \in Pages, Click(b, p) PROVE Counted'
    BY <1>8, CountedKept DEF Click, accountVars
  <1>9. ASSUME NEW b \in Browsers, NEW kind \in {"register", "login"}, NEW email \in Emails,
               NEW password \in Passwords, Submit(b, kind, email, password)
        PROVE  Counted'
    BY <1>0, <1>9, SubmitCounted
  <1> QED
    BY <1>1, <1>2, <1>3, <1>4, <1>5, <1>6, <1>7, <1>8, <1>9 DEF Next, Serve

\* At the beginning there is nothing to count.
LEMMA InitCounted == Init => Counted
  <1> SUFFICES ASSUME Init PROVE Counted
    OBVIOUS
  <1>1. Sent = {} /\ Waiting = {}
    BY DEF Init, NoForm, Sent, Waiting
  <1>2. Cardinality(users) = 0 /\ Len(issued) = 0 /\ users = {} /\ submitted = 0
    BY FS_EmptySet DEF Init
  <1> QED
    BY <1>1, <1>2, FS_EmptySet DEF Counted

\* The types of the session's variables: ids and tokens never run out of their
\* bounds, and every token that is held was issued (AuthContext.tsx, handler.go).
THEOREM SessionTypesHold == Spec => []SessionTypeOK
  <1>1. Spec => []Counted
    BY SessionIsInvariant, InitCounted, NextCounted, PTL DEF Spec
  <1>2. SessionInv /\ Counted => SessionTypeOK
    <2> SUFFICES ASSUME SessionInv, Counted PROVE SessionTypeOK
      OBVIOUS
    <2>0. Shapes /\ Accounts
      BY DEF SessionInv
    <2>1. /\ Cardinality(users) \in Nat /\ Len(issued) \in Nat /\ submitted \in 0..MaxCalls
          /\ Cardinality(Sent) \in Nat /\ Cardinality(Waiting) \in Nat /\ MaxCalls \in Nat
      BY <2>0, FS_CardinalityType, SessionBounds DEF Shapes, Counted
    <2>2. Cardinality(users) <= MaxCalls /\ Len(issued) <= MaxCalls
      BY <2>1 DEF Counted
    <2>3. \A u \in users : u.id \in 1..MaxCalls
      BY <2>1, <2>2 DEF Counted
    <2>4. users \subseteq [id : 1..MaxCalls, email : Emails, password : Passwords]
      BY <2>0, <2>3 DEF Shapes, Account
    <2>5. \A t \in DOMAIN issued : issued[t].user \in 1..MaxCalls
      BY <2>0, <2>3 DEF Accounts, IsRow
    <2>6. ASSUME NEW b \in Browsers
          PROVE  /\ {page[b].stored, page[b].token, form[b].token, me[b].token, overtaken[b]}
                       \subseteq DOMAIN issued \cup {None}
                 /\ page[b].user \in {u.id : u \in users} \cup {None}
                 /\ page[b].loading \in BOOLEAN
                 /\ view[b].at \in Pages /\ view[b].going \in Pages \cup {None}
                 /\ view[b].lists \subseteq [token : DOMAIN issued, at : {"sent", "ok", "error"}]
                 /\ view[b].shown \in {u.id : u \in users} \cup {None}
                 /\ view[b].former \subseteq DOMAIN issued
      <3>1. FormOK(b) /\ MeOK(b) /\ PageOK(b) /\ ViewOK(b)
        BY DEF SessionInv, BrowserOK
      <3>2. me[b].token \in DOMAIN issued \cup {None}
        BY <3>1 DEF MeOK, NoMe
      <3>3. page[b] \in Auth /\ view[b] \in View
        BY <2>0 DEF Shapes
      <3>4. view[b].lists \subseteq [token : DOMAIN issued, at : {"sent", "ok", "error"}]
        BY <3>1, <3>3 DEF ViewOK, View, ListCall
      <3> QED
        BY <3>1, <3>2, <3>3, <3>4 DEF FormOK, PageOK, ViewOK, Ids, Auth, View
    <2> QED
      BY <2>0, <2>1, <2>2, <2>4, <2>5, <2>6 DEF SessionTypeOK, Shapes
  <1> QED
    BY <1>1, <1>2, SessionIsInvariant, PTL

=============================================================================
