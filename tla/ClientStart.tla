----------------------------- MODULE ClientStart -----------------------------
(***************************************************************************)
(* How the web client starts, signs in and out, and keeps the overview of  *)
(* the previous start on the device.  Browser tabs share localStorage (the *)
(* session token and one snapshot record); each tab has its own modules    *)
(* (cached token, generation of the start cache), its authentication state *)
(* (useAuth), the screen App chooses from it, and the Dashboard under it.  *)
(*                                                                         *)
(* One gesture of a user or of the world outside, one answer of the server *)
(* or one storage event is one step; a JavaScript task runs to its end     *)
(* before the next one, and React renders before the next task.            *)
(***************************************************************************)
EXTENDS Naturals, FiniteSets

CONSTANTS
    Tabs,           \* browser tabs over one localStorage
    Logins,         \* session tokens the server will ever issue
    Users,
    OwnerOf,        \* the user a session token was issued to
    TelegramHosts,  \* whether the tabs may run inside Telegram: SUBSET BOOLEAN
    None,
    MaxSteps        \* bound on the steps of users and world, by telegram

ASSUME ClientStartAssumption ==
    /\ OwnerOf \in [Logins -> Users]
    /\ None \notin Users \cup Logins \cup {"unread", "cache"}
    /\ {"unread", "cache"} \cap Logins = {} /\ {"refused", "noaccount", "down"} \cap Users = {}
    /\ TelegramHosts \subseteq BOOLEAN /\ TelegramHosts # {}
    /\ MaxSteps \in [BOOLEAN -> Nat]

VARIABLES
    telegram,   \* the tabs run inside Telegram (fixed for the life of a page)
    stored,     \* localStorage['budget_session_token']
    record,     \* localStorage['budget_start_cache'], or None
    tab,        \* per tab: the state of its modules and components
    events,     \* per tab: storage events sent by other tabs, not delivered
    issued, valid,  \* server: tokens given out, tokens not revoked or expired
    tgOwner,    \* server: what the Telegram login opens
    version,    \* server: per user, the number of operations recorded
    steps       \* steps taken by users and by the world outside, for the bound

vars == <<telegram, stored, record, tab, events, issued, valid, tgOwner, version, steps>>

Refused == "refused"        \* 401 or 403
NoAccount == "noaccount"    \* 404: the login is valid, no account behind it
Down == "down"              \* no network, or 5xx

------------------------------------------------------------------------------
(* The state of a tab. *)

NoDashboard == [on |-> FALSE]

\* A page that has just been loaded: modules and hooks in their first state.
FreshTab == [open |-> TRUE, cached |-> "unread", generation |-> 0, snapshot |-> None,
             user |-> None, userAs |-> None, loading |-> TRUE, error |-> FALSE,
             needsLogin |-> FALSE, needsAccount |-> FALSE, ticket |-> None,
             contextError |-> FALSE, attempt |-> None, dash |-> NoDashboard,
             contexts |-> {}, loads |-> {}, sent |-> 0]
ClosedTab == [FreshTab EXCEPT !.open = FALSE, !.loading = FALSE]

\* getSessionToken: the module reads localStorage once and keeps the value.
Token(w) == IF w.tab.cached = "unread" THEN w.stored ELSE w.tab.cached
Remembered(w) == [w EXCEPT !.tab.cached = Token(w)]
SignedIn(w) == Token(w) # None \/ telegram

\* cacheIdentity: the session wins over the Telegram login.
Identity(w) == IF Token(w) # None THEN "session" ELSE IF telegram THEN "tg" ELSE None

\* What App renders for the state of useAuth.
Screen(a) == CASE ~a.open -> "closed"
               [] a.open /\ a.loading -> "splash"
               [] a.open /\ ~a.loading /\ (a.needsLogin \/ a.needsAccount) -> "login"
               [] a.open /\ ~a.loading /\ ~(a.needsLogin \/ a.needsAccount) ->
                      IF a.error \/ a.user = None THEN "error" ELSE "app"

\* The server's view of a caller: by session token, otherwise by Telegram.
Caller(token) == IF token = None THEN tgOwner
                 ELSE IF token \in valid THEN OwnerOf[token] ELSE Refused

------------------------------------------------------------------------------
(* The functions of the client.  Each takes and returns a world: the tab   *)
(* that runs, the storage, and the storage events its writes cause.        *)

World(t) == [tab |-> tab[t], stored |-> stored, record |-> record, sends |-> 0]

Becomes(t, world) ==
    \E w \in {world} :
        /\ tab' = [tab EXCEPT ![t] = w.tab]
        /\ stored' = w.stored
        /\ record' = w.record
        /\ events' = [o \in Tabs |-> IF o # t /\ tab[o].open THEN events[o] + w.sends ELSE events[o]]

\* Removing the record is an event for the other tabs only if there was one.
clearStart(w) ==
    [w EXCEPT !.tab.generation = @ + 1, !.tab.snapshot = None, !.record = None,
              !.sends = IF w.record = None THEN @ ELSE @ + 1]

setSessionToken(w, token) ==
    LET c == clearStart(w) IN
    [c EXCEPT !.tab.cached = token, !.stored = token,
              !.sends = IF w.stored = token THEN @ ELSE @ + 1]

readStart(w, identity) ==
    LET r == w.record
        usable == /\ r # None
                  /\ r.identity = identity
                  /\ ~r.expired
    IN  [w EXCEPT !.tab.snapshot =
            IF usable THEN [user |-> r.user, data |-> r.data, broken |-> r.broken] ELSE None]

\* Mutant: a write does not ask whether the login has changed since.
writeStartAlways(w, t) ==
    LET a == w.tab IN
    IF a.dash.on /\ a.dash.fresh /\ a.dash.shown # None /\ a.ticket # None
    THEN [w EXCEPT !.record = [identity |-> a.ticket.identity, user |-> a.user,
                               data |-> a.dash.shown, expired |-> FALSE, broken |-> FALSE,
                               unheard |-> events[t] > 0, late |-> a.ticket.late]]
    ELSE w

\* A write carries the ticket taken before its request; a wipe in between
\* has moved the generation and the write is dropped.
writeStart(w, t) ==
    LET a == w.tab IN
    IF /\ a.dash.on /\ a.dash.fresh /\ a.dash.shown # None
       /\ a.ticket # None
       /\ a.ticket.generation = a.generation
    THEN [w EXCEPT !.record = [identity |-> a.ticket.identity, user |-> a.user,
                               data |-> a.dash.shown, expired |-> FALSE, broken |-> FALSE,
                               unheard |-> events[t] > 0, late |-> a.ticket.late]]
    ELSE w

\* A request leaves with the token of this moment; the server may handle it
\* at once or as late as its answer is delivered.
fetchContext(w, attempt) ==
    LET token == Token(w) IN
    [Remembered(w) EXCEPT
        !.tab.contextError = FALSE, !.tab.sent = @ + 1,
        !.tab.contexts = @ \cup {[id |-> w.tab.sent, as |-> token, caller |-> Caller(token),
                                  attempt |-> attempt]}]

\* Mutant: a request that is refused before it leaves does not end the load.
loadOverviewSilently(w) ==
    LET token == Token(w)
        caller == Caller(token)
    IN  [Remembered(w) EXCEPT !.tab.dash.failed = ~SignedIn(w), !.tab.dash.refreshing = TRUE,
            !.tab.sent = @ + 1,
            !.tab.loads = {[l EXCEPT !.latest = FALSE] : l \in @} \cup
                (IF SignedIn(w)
                 THEN {[id |-> w.tab.sent, as |-> token, caller |-> caller, latest |-> TRUE,
                        mounted |-> TRUE, from |-> IF caller \in Users THEN version[caller] ELSE 0]}
                 ELSE {})]

\* loadOverview: a new request makes every earlier one of this Dashboard late.
loadOverview(w) ==
    LET token == Token(w)
        caller == Caller(token)
    IN  IF ~SignedIn(w)     \* apiFetch throws before it sends anything
        THEN [Remembered(w) EXCEPT !.tab.dash.failed = TRUE, !.tab.dash.loading = FALSE,
                 !.tab.dash.refreshing = FALSE,
                 !.tab.loads = {[l EXCEPT !.latest = FALSE] : l \in @}]
        ELSE [Remembered(w) EXCEPT !.tab.dash.failed = FALSE, !.tab.dash.refreshing = TRUE,
                 !.tab.sent = @ + 1,
                 !.tab.loads = {[l EXCEPT !.latest = FALSE] : l \in @} \cup
                     {[id |-> w.tab.sent, as |-> token, caller |-> caller, latest |-> TRUE,
                       mounted |-> TRUE, from |-> IF caller \in Users THEN version[caller] ELSE 0]}]

\* A Dashboard that mounts takes the snapshot of the previous start, if it is
\* this user's, and asks for the overview.  A snapshot it cannot render ends
\* in ErrorBoundary, which wipes the cache.
Mount(w) ==
    LET snapshot == w.tab.snapshot
        cached == snapshot # None /\ snapshot.user = w.tab.user
        data == [user |-> snapshot.user, as |-> "cache", version |-> snapshot.data.version]
        dash == [on |-> TRUE, user |-> w.tab.user, crashed |-> FALSE, fresh |-> FALSE,
                 shown |-> IF cached THEN data ELSE None, loading |-> ~cached,
                 refreshing |-> FALSE, failed |-> FALSE, prices |-> FALSE]
    IN  IF cached /\ snapshot.broken
        THEN clearStart([w EXCEPT !.tab.dash = [dash EXCEPT !.crashed = TRUE, !.shown = None,
                                                !.loading = FALSE]])
        ELSE loadOverview([w EXCEPT !.tab.dash = dash])

\* An unmounted component still gets its late answers.
Unmount(w) ==
    [w EXCEPT !.tab.dash = NoDashboard, !.tab.loads = {[l EXCEPT !.mounted = FALSE] : l \in @}]

\* Mutants: the pages survive a change of screen; they are not keyed by the user.
RenderedBehindTheScreen(w) ==
    IF Screen(w.tab) = "app" /\ ~w.tab.dash.on THEN Mount(w) ELSE w

RenderedUnkeyed(w) ==
    CASE Screen(w.tab) # "app" -> IF w.tab.dash.on THEN Unmount(w) ELSE w
      [] Screen(w.tab) = "app" -> IF w.tab.dash.on
                                  THEN [w EXCEPT !.tab.dash.user = w.tab.user] ELSE Mount(w)

\* React after a change of state: the pages exist while App shows them and
\* are keyed by the user.
Rendered(w) ==
    LET dash == w.tab.dash IN
    CASE Screen(w.tab) # "app" /\ ~dash.on -> w
      [] Screen(w.tab) # "app" /\ dash.on -> Unmount(w)
      [] Screen(w.tab) = "app" /\ ~dash.on -> Mount(w)
      [] Screen(w.tab) = "app" /\ dash.on ->
             IF dash.user = w.tab.user THEN w ELSE Mount(Unmount(w))

\* useAuth.load: at the start of the page with the snapshot, after a change of
\* login without it.
load(w, fromCache) ==
    LET r == [Remembered(w) EXCEPT !.tab.ticket = None, !.tab.contextError = FALSE]
        identity == Identity(r)
        read == IF fromCache THEN readStart(r, identity) ELSE r
        start == IF fromCache THEN read.tab.snapshot ELSE None
        attempt == [ticket |-> [identity |-> identity, generation |-> r.tab.generation, late |-> FALSE],
                    cachedUser |-> IF start = None THEN None ELSE start.user]
        begun == [read EXCEPT !.tab.needsLogin = FALSE, !.tab.needsAccount = FALSE,
                              !.tab.error = FALSE, !.tab.attempt = attempt,
                              !.tab.loading = (start = None),
                              !.tab.user = IF start = None THEN @ ELSE start.user,
                              !.tab.userAs = IF start = None THEN @ ELSE "cache"]
    IN  Rendered(IF SignedIn(r)
                 THEN fetchContext(begun, attempt)
                 ELSE [r EXCEPT !.tab.needsLogin = TRUE, !.tab.needsAccount = FALSE,
                                !.tab.loading = FALSE])

------------------------------------------------------------------------------
JustStarted ==
    load([tab |-> FreshTab, stored |-> stored, record |-> record, sends |-> 0], TRUE).tab

\* What an earlier start of the session left on the device.
SavedStart(u) == [identity |-> "session", user |-> u, data |-> [user |-> u, as |-> None, version |-> 0],
                  expired |-> FALSE, broken |-> FALSE, unheard |-> FALSE, late |-> FALSE]

Init ==
    /\ telegram \in TelegramHosts
    /\ tgOwner \in Users \cup {NoAccount}
    /\ version = [u \in Users |-> 0]
    /\ steps = 0
    /\ stored \in Logins \cup {None}
    /\ issued = {stored} \ {None} /\ valid = issued
    /\ record \in {None} \cup {SavedStart(u) : u \in Users}
    /\ record # None => stored # None /\ record.user = OwnerOf[stored]
    /\ events = [t \in Tabs |-> 0]
    /\ \E running \in Tabs :
          tab = [t \in Tabs |-> IF t = running THEN JustStarted ELSE ClosedTab]

Step == steps < MaxSteps[telegram] /\ steps' = steps + 1

server == <<issued, valid, tgOwner, version>>
device == <<stored, record, tab, events>>

(* What users do. *)

\* A page is opened or reloaded: what an earlier page of the tab had in flight
\* is gone with it.
Open(t) ==
    /\ Step
    /\ LET w == load([World(t) EXCEPT !.tab = FreshTab], TRUE) IN
       /\ tab' = [tab EXCEPT ![t] = w.tab]
       /\ stored' = w.stored /\ record' = w.record
       /\ events' = [o \in Tabs |-> IF o = t THEN 0
                                    ELSE IF tab[o].open THEN events[o] + w.sends ELSE events[o]]
    /\ UNCHANGED <<telegram, server>>

Close(t) ==
    /\ Step
    /\ tab[t].open
    /\ tab' = [tab EXCEPT ![t] = ClosedTab]
    /\ events' = [events EXCEPT ![t] = 0]
    /\ UNCHANGED <<telegram, stored, record, server>>

\* LoginScreen: logIn or signUp stores the token it is given; inside Telegram
\* linkTelegram then opens the account to this Telegram too, unless it has
\* one.  onAuthenticated is useAuth.refresh.
LogIn(t, l) ==
    /\ Step
    /\ Screen(tab[t]) = "login"
    /\ l \notin issued
    /\ issued' = issued \cup {l}
    /\ valid' = valid \cup {l}
    /\ tgOwner' \in IF telegram /\ tgOwner = NoAccount THEN {tgOwner, OwnerOf[l]} ELSE {tgOwner}
    /\ Becomes(t, load(setSessionToken(World(t), l), FALSE))
    /\ UNCHANGED <<telegram, version>>

\* LoginScreen, mode 'choice': register opens an account for the Telegram login.
Register(t, u) ==
    /\ Step
    /\ Screen(tab[t]) = "login" /\ tab[t].needsAccount
    /\ telegram /\ tgOwner = NoAccount /\ Token(World(t)) = None
    /\ tgOwner' = u
    /\ Becomes(t, load(World(t), FALSE))
    /\ UNCHANGED <<telegram, issued, valid, version>>

\* SecuritySection.handleSignOut: logOut drops the token whatever the server
\* says, but onSignedOut is only reached when it answered.
SignOut(t, answered) ==
    /\ Step
    /\ Screen(tab[t]) = "app"
    /\ LET token == Token(World(t))
           gone == setSessionToken(World(t), None)
       IN  /\ valid' = IF answered THEN valid \ {token} ELSE valid
           /\ Becomes(t, IF answered /\ Caller(token) \in Users THEN load(gone, FALSE) ELSE gone)
    /\ UNCHANGED <<telegram, issued, tgOwner, version>>

\* Settings.handleDeleteAccount: the token outlives the account, so the
\* snapshot is wiped before the page reloads.
DeleteAccount(t) ==
    /\ Step
    /\ Screen(tab[t]) = "app"
    /\ LET u == Caller(Token(World(t)))
           w == clearStart(World(t))
       IN  /\ u \in Users
           /\ valid' = {l \in valid : OwnerOf[l] # u}
           /\ tgOwner' = IF tgOwner = u THEN NoAccount ELSE tgOwner
           /\ Becomes(t, [w EXCEPT !.tab = ClosedTab])
    /\ UNCHANGED <<telegram, issued, version>>

\* Pull-to-refresh, navigation back to the overview, or the button of the note,
\* which asks for the context too when that had failed.
Refresh(t) ==
    /\ Step
    /\ Screen(tab[t]) = "app" /\ tab[t].dash.on /\ ~tab[t].dash.crashed
    /\ LET w == IF tab[t].contextError THEN fetchContext(World(t), tab[t].attempt) ELSE World(t)
       IN  Becomes(t, loadOverview(w))
    /\ UNCHANGED <<telegram, server>>

\* A dialog records an operation; its success reloads the overview.
Operate(t) ==
    /\ Step
    /\ Screen(tab[t]) = "app" /\ tab[t].dash.on /\ tab[t].dash.shown # None
    /\ LET u == Caller(Token(World(t))) IN
       /\ u \in Users
       /\ version' = [version EXCEPT ![u] = @ + 1]
    /\ Becomes(t, loadOverview(World(t)))
    /\ UNCHANGED <<telegram, issued, valid, tgOwner>>

\* ErrorBoundary, "try again": the subtree is mounted anew.
TryAgain(t) ==
    /\ Step
    /\ Screen(tab[t]) = "app" /\ tab[t].dash.on /\ tab[t].dash.crashed
    /\ Becomes(t, Mount(World(t)))
    /\ UNCHANGED <<telegram, server>>

(* What happens outside. *)

\* A session ends elsewhere: it expires, or another device switches it off.
Revoke(l) ==
    /\ Step
    /\ l \in valid
    /\ valid' = valid \ {l}
    /\ UNCHANGED <<telegram, device, issued, tgOwner, version>>

\* The Telegram login opens another account, none, or its initData has expired.
Relink(who) ==
    /\ Step
    /\ telegram /\ who # tgOwner
    /\ tgOwner' = who
    /\ UNCHANGED <<telegram, device, issued, valid, version>>

\* The record passes its 72 hours, or a new build of the client no longer
\* renders its shape and the version of the cache was not raised.
Age(expired) ==
    /\ Step
    /\ record # None
    /\ record' = IF expired THEN [record EXCEPT !.expired = TRUE]
                            ELSE [record EXCEPT !.broken = TRUE]
    /\ UNCHANGED <<telegram, stored, tab, events, server>>

(* What the browser and the server answer. *)

\* The storage event of another tab's change of login, or of its wipe.
StorageEvent(t) ==
    /\ UNCHANGED <<telegram, stored, record, server, steps>>
    /\ events[t] > 0
    /\ events' = [events EXCEPT ![t] = @ - 1]
    /\ tab' = [tab EXCEPT ![t].cached = "unread", ![t].generation = @ + 1, ![t].snapshot = None]

\* getUserContext answers.
ContextAnswer(w, t, c, answer) ==
    LET done == [w EXCEPT !.tab.loading = FALSE]
        dropped == IF answer = Refused /\ c.as # None THEN setSessionToken(done, None) ELSE done
        wiped == IF answer \in {Refused, NoAccount} THEN clearStart(dropped) ELSE dropped
        stranger == answer \in Users /\ c.attempt.cachedUser \notin {None, answer}
        fresh == IF stranger THEN clearStart(done) ELSE done
        ticket == IF stranger THEN [c.attempt.ticket EXCEPT !.generation = fresh.tab.generation,
                                                                    !.late = TRUE]
                              ELSE c.attempt.ticket
    IN  CASE answer \in Users ->
               writeStart(Rendered([fresh EXCEPT !.tab.user = answer, !.tab.userAs = c.as,
                                                 !.tab.ticket = ticket]), t)
          [] answer = NoAccount -> Rendered([wiped EXCEPT !.tab.user = None, !.tab.needsAccount = TRUE])
          [] answer \in {Refused, Down} ->
               Rendered(IF ~SignedIn(wiped)
                        THEN [wiped EXCEPT !.tab.user = None, !.tab.needsLogin = TRUE]
                        ELSE IF c.attempt.cachedUser # None /\ answer = Down
                        THEN [wiped EXCEPT !.tab.contextError = TRUE]
                        ELSE [wiped EXCEPT !.tab.user = None, !.tab.error = TRUE])

ContextAnswered(t) ==
    /\ UNCHANGED <<telegram, server, steps>>
    /\ \E c \in tab[t].contexts : \E answer \in {c.caller, Caller(c.as), Down} :
          Becomes(t, ContextAnswer([World(t) EXCEPT !.tab.contexts = @ \ {c}], t, c, answer))

\* Mutant: any answer of the mounted Dashboard reaches the screen.
OverviewLoadedInAnyOrder(w, t, l, data) ==
    IF l.mounted
    THEN writeStart([w EXCEPT !.tab.dash.shown = data, !.tab.dash.fresh = TRUE,
                              !.tab.dash.failed = FALSE, !.tab.dash.loading = FALSE,
                              !.tab.dash.refreshing = FALSE, !.tab.dash.prices = TRUE], t)
    ELSE w

\* The overview answers: only the latest request of the Dashboard may touch
\* the screen, and what it shows is kept for the next start.
OverviewLoaded(w, t, l, data) ==
    IF l.latest /\ l.mounted
    THEN writeStart([w EXCEPT !.tab.dash.shown = data, !.tab.dash.fresh = TRUE,
                              !.tab.dash.failed = FALSE, !.tab.dash.loading = FALSE,
                              !.tab.dash.refreshing = FALSE, !.tab.dash.prices = TRUE], t)
    ELSE w

\* A refused session is dropped by every answer, also by a late one; the sums
\* are hidden when the refusal is the latest answer.
OverviewFailed(w, l, answer) ==
    LET dropped == IF answer = Refused /\ l.as # None THEN setSessionToken(w, None) ELSE w
        wiped == IF answer = Refused /\ l.latest THEN clearStart(dropped) ELSE dropped
    IN  IF l.latest /\ l.mounted
        THEN [wiped EXCEPT !.tab.dash.failed = TRUE, !.tab.dash.loading = FALSE,
                           !.tab.dash.refreshing = FALSE,
                           !.tab.dash.shown = IF answer = Refused THEN None ELSE @]
        ELSE wiped

OverviewAnswered(t) ==
    /\ UNCHANGED <<telegram, server, steps>>
    /\ \E l \in tab[t].loads :
          LET w == [World(t) EXCEPT !.tab.loads = @ \ {l}]
              callers == {l.caller, Caller(l.as)}
          IN  \/ \E u \in callers \cap Users :
                    \E v \in (IF u = l.caller THEN l.from ELSE version[u]) .. version[u] :
                       Becomes(t, OverviewLoaded(w, t, l, [user |-> u, as |-> l.as, version |-> v]))
              \/ \E answer \in (callers \ Users) \cup {Down} : Becomes(t, OverviewFailed(w, l, answer))

\* The prices asked for after a fresh overview arrive, or fail: the screen, and
\* with it the record, gets them without a new overview.
PricesAnswered(t) ==
    /\ UNCHANGED <<telegram, server, steps>>
    /\ tab[t].dash.on /\ tab[t].dash.prices
    /\ LET w == [World(t) EXCEPT !.tab.dash.prices = FALSE] IN
       Becomes(t, w) \/ Becomes(t, writeStart(w, t))

Answers(t) == ContextAnswered(t) \/ OverviewAnswered(t) \/ PricesAnswered(t)

Next ==
    \/ \E t \in Tabs :
          \/ Open(t) \/ Close(t) \/ Refresh(t) \/ Operate(t) \/ TryAgain(t) \/ DeleteAccount(t)
          \/ \E answered \in BOOLEAN : SignOut(t, answered)
          \/ \E l \in Logins : LogIn(t, l)
          \/ \E u \in Users : Register(t, u)
          \/ StorageEvent(t) \/ Answers(t)
    \/ \E l \in Logins : Revoke(l)
    \/ \E who \in Users \cup {NoAccount, Refused} : Relink(who)
    \/ \E expired \in BOOLEAN : Age(expired)

Spec == Init /\ [][Next]_vars

------------------------------------------------------------------------------
(* Properties. *)

Data == [user : Users, as : Logins \cup {None, "cache"}, version : Nat]
Ticket == [identity : {"session", "tg"}, generation : Nat, late : BOOLEAN]
Attempt == [ticket : Ticket, cachedUser : Users \cup {None}]

ASSUME NoneAssumption == None \notin Attempt

\* Types: every request in flight, record and screen has the shape the client
\* gives it, and a page that shows the application knows its user.
TypeOK ==
    /\ stored \in Logins \cup {None}
    /\ record \in {None} \cup [identity : {"session", "tg"}, user : Users, data : Data,
                               expired : BOOLEAN, broken : BOOLEAN, unheard : BOOLEAN, late : BOOLEAN]
    /\ valid \subseteq issued /\ issued \subseteq Logins
    /\ tgOwner \in Users \cup {NoAccount, Refused}
    /\ \A t \in Tabs :
          /\ tab[t].cached \in Logins \cup {None, "unread"}
          /\ tab[t].user \in Users \cup {None}
          /\ tab[t].ticket \in Ticket \cup {None}
          /\ tab[t].attempt \in Attempt \cup {None}
          /\ \A c \in tab[t].contexts : c.attempt \in Attempt
          /\ tab[t].dash.on = (Screen(tab[t]) = "app")
          /\ tab[t].dash.on => /\ tab[t].dash.user = tab[t].user
                               /\ tab[t].dash.shown \in Data \cup {None}

\* The snapshot on the device belongs to the login on the device: a wipe on
\* every change of login and the ticket of a late write keep the overview of an
\* earlier login from being saved under the next one.  The exception is a
\* tab that wrote before the storage event of another tab reached it.
RecordOfThisLogin ==
    record # None /\ record.identity = "session" /\ ~record.unheard /\ ~record.late =>
        stored # None /\ record.user = OwnerOf[stored] /\ record.data.user = OwnerOf[stored]

\* The overview on screen is of the user on screen when it comes from the start
\* cache, or was asked for with the session the user was: a snapshot of somebody
\* else never survives into a user's pages, in whatever order the context, the
\* overview and a change of login arrive.  (One Telegram login may open another
\* account from one request to the next.)
OverviewOfItsUser ==
    \A t \in Tabs :
        LET a == tab[t] IN
        a.dash.on /\ a.dash.shown # None
            /\ a.dash.shown.as \in {"cache"} \cup ({a.userAs} \cap Logins)
        => a.dash.shown.user = a.user

\* A late answer of an earlier request never puts back an older overview once
\* a fresh one of the same user is on the screen.
FreshNeverGoesBack ==
    [][\A t \in Tabs :
          LET old == tab[t].dash
              new == tab'[t].dash
          IN  old.on /\ new.on /\ old.fresh /\ old.shown # None /\ new.shown # None
                  /\ old.user = new.user /\ old.shown.user = new.shown.user
                  /\ tab'[t].sent >= tab[t].sent /\ new.fresh
              => new.shown.version >= old.shown.version]_vars

\* A splash always waits for an answer that will end it: for the context while
\* useAuth loads, for the latest load of a mounted Dashboard while that loads.
\* No order of refreshes, sign-ins and failures leaves a page on its splash.
SplashAwaitsAnAnswer ==
    \A t \in Tabs :
        LET a == tab[t] IN
        /\ Screen(a) = "splash" => a.contexts # {}
        /\ a.dash.on /\ (a.dash.loading \/ a.dash.refreshing)
              => \E l \in a.loads : l.latest /\ l.mounted
=============================================================================
