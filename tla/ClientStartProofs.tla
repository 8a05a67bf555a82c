------------------------- MODULE ClientStartProofs -------------------------
(***************************************************************************)
(* For any number of tabs, logins and users, and any length of their use:   *)
(* the record on the device is of the login on the device, the overview on  *)
(* the screen is of its user and is never replaced by an older one, and a   *)
(* splash always waits for an answer.                                       *)
(*                                                                          *)
(* The invariant Inv is a property of every tab, of the storage and of what *)
(* the tab has not heard of yet.  Each function of the client (clearStart,  *)
(* fetchContext, Mount, load, ...) takes a world to a world: its lemma says *)
(* which part of the invariant it keeps (Core) and which fields it leaves   *)
(* alone (Same).  A step is such a function, run in one tab (MovedKeeps).   *)
(***************************************************************************)
EXTENDS ClientStart, TLAPS

(***************************************************************************)
(* What a tab is made of.                                                   *)
(***************************************************************************)
Callers  == Users \cup {NoAccount, Refused}
Sessions == Logins \cup {None}
Snapshot == [user : Users, data : Data, broken : BOOLEAN]
Context  == [id : Nat, as : Sessions, caller : Callers, attempt : Attempt]
Load     == [id : Nat, as : Sessions, caller : Callers, latest : BOOLEAN, mounted : BOOLEAN, from : Nat]
Saved    == [identity : {"session", "tg"}, user : Users, data : Data,
             expired : BOOLEAN, broken : BOOLEAN, unheard : BOOLEAN, late : BOOLEAN]
Dash     == [on : {TRUE}, user : Users, crashed : BOOLEAN, fresh : BOOLEAN, shown : Data \cup {None},
             loading : BOOLEAN, refreshing : BOOLEAN, failed : BOOLEAN, prices : BOOLEAN]

TabFields == {"open", "cached", "generation", "snapshot", "user", "userAs", "loading", "error",
              "needsLogin", "needsAccount", "ticket", "contextError", "attempt", "dash",
              "contexts", "loads", "sent"}

Typed(a) ==
    /\ DOMAIN a = TabFields
    /\ a.open \in BOOLEAN /\ a.loading \in BOOLEAN /\ a.error \in BOOLEAN
    /\ a.needsLogin \in BOOLEAN /\ a.needsAccount \in BOOLEAN /\ a.contextError \in BOOLEAN
    /\ a.cached \in Sessions \cup {"unread"}
    /\ a.generation \in Nat /\ a.sent \in Nat
    /\ a.snapshot \in Snapshot \cup {None}
    /\ a.user \in Users \cup {None} /\ a.userAs \in Sessions \cup {"cache"}
    /\ a.ticket \in Ticket \cup {None} /\ a.attempt \in Attempt \cup {None}
    /\ a.contexts \subseteq Context /\ a.loads \subseteq Load
    /\ a.dash \in Dash \cup {NoDashboard}

\* a session speaks for its owner, or not at all
SpeaksFor(as, who) == as \in Logins => who \in {OwnerOf[as], Refused}

Owned(a) ==
    /\ a.user # None => SpeaksFor(a.userAs, a.user)
    /\ \A c \in a.contexts : SpeaksFor(c.as, c.caller)
    /\ \A l \in a.loads : SpeaksFor(l.as, l.caller)
    /\ a.dash.on /\ a.dash.shown # None =>
          /\ SpeaksFor(a.dash.shown.as, a.dash.shown.user)
          /\ a.dash.shown.as = "cache" => a.dash.shown.user = a.dash.user

\* What a ticket of this generation vouches for: the session that was read with
\* it is still the tab's.
Vouches(ticket, a, as) ==
    ticket.generation = a.generation /\ ~ticket.late =>
        as = a.cached /\ (ticket.identity = "session" <=> as # None)

Tickets(a) ==
    /\ a.attempt # None =>
          /\ ~a.attempt.ticket.late /\ a.attempt.ticket.generation <= a.generation
          /\ a.attempt.ticket.generation = a.generation =>
                /\ a.cached # "unread"
                /\ a.attempt.ticket.identity = "session" <=> a.cached # None
    /\ a.contextError => a.attempt # None
    /\ \A c \in a.contexts :
          /\ a.attempt # None /\ c.attempt.ticket.generation <= a.attempt.ticket.generation
          /\ Vouches(c.attempt.ticket, a, c.as) /\ ~c.attempt.ticket.late
    /\ a.ticket # None /\ ~a.ticket.late =>
          /\ a.attempt # None /\ a.ticket.generation <= a.attempt.ticket.generation
          /\ a.user # None => Vouches(a.ticket, a, a.userAs)

\* ... and so is what the mounted Dashboard shows, or has asked for
FromHere(a) ==
    a.attempt # None /\ a.attempt.ticket.generation = a.generation =>
        /\ \A l \in a.loads : l.mounted => l.as = a.cached
        /\ a.dash.on /\ a.dash.fresh /\ a.dash.shown # None => a.dash.shown.as = a.cached

\* a tab has the session of the device, or will hear that it changed
Heard(a, s, n) == a.open /\ n = 0 => a.cached \in {"unread", s}

\* the latest overview is asked for after the one on the screen
Newest(a, ver) ==
    /\ \A k, l \in a.loads : k.latest /\ l.latest => k = l
    /\ ~a.dash.on => \A l \in a.loads : ~l.mounted
    /\ \A l \in a.loads : l.caller \in Users => l.from <= ver[l.caller]
    /\ a.dash.on /\ a.dash.fresh /\ a.dash.shown # None =>
          LET shown == a.dash.shown
          IN  /\ shown.version <= ver[shown.user]
              /\ \A l \in a.loads : l.latest /\ l.mounted /\ l.caller = shown.user => shown.version <= l.from

Awaits(a) ==
    a.dash.on /\ (a.dash.loading \/ a.dash.refreshing) => \E l \in a.loads : l.latest /\ l.mounted

Closed(a) == ~a.open => a.contexts = {} /\ a.loads = {} /\ ~a.dash.on

\* React has rendered: the pages are those of the screen
Settled(a) ==
    /\ a.dash.on = (Screen(a) = "app")
    /\ a.dash.on => a.dash.user = a.user
    /\ Screen(a) = "splash" => a.contexts # {}

TabInv(a, s, n, ver) == Typed(a) /\ Owned(a) /\ Tickets(a) /\ Heard(a, s, n) /\ Newest(a, ver)

RecordInv(rec, s) ==
    /\ rec \in Saved \cup {None}
    /\ rec # None /\ rec.identity = "session" /\ ~rec.unheard /\ ~rec.late =>
          s # None /\ rec.user = OwnerOf[s] /\ rec.data.user = OwnerOf[s]

Inv == /\ telegram \in BOOLEAN /\ stored \in Sessions
       /\ valid \subseteq issued /\ issued \subseteq Logins
       /\ tgOwner \in Callers /\ version \in [Users -> Nat]
       /\ RecordInv(record, stored)
       /\ events \in [Tabs -> Nat] /\ tab = [t \in Tabs |-> tab[t]]
       /\ \A t \in Tabs : /\ TabInv(tab[t], stored, events[t], version)
                          /\ FromHere(tab[t]) /\ Awaits(tab[t]) /\ Closed(tab[t]) /\ Settled(tab[t])

(***************************************************************************)
(* A world: what a function of the client, run in an open tab, works on.    *)
(***************************************************************************)
\* n: storage events not delivered; d: the Dashboard as it was
World4(w) == DOMAIN w = {"tab", "stored", "record", "sends"}

Core(w, n, d) ==
    /\ World4(w) /\ w.tab.open
    /\ w.stored \in Sessions /\ w.sends \in Nat /\ (w.stored = stored \/ w.sends > 0)
    /\ RecordInv(w.record, w.stored)
    /\ TabInv(w.tab, w.stored, n, version)
    /\ w.tab.dash.on /\ w.tab.dash.fresh /\ w.tab.dash.shown # None =>
          d.on /\ d.shown = w.tab.dash.shown

Keeps(v, w, n, d) ==
    /\ Core(v, n, d)
    /\ FromHere(w.tab) => FromHere(v.tab)
    /\ Awaits(w.tab) => Awaits(v.tab)

\* b is a up to some of its fields
Same(b, a, changed) == DOMAIN b = TabFields /\ \A x \in TabFields \ changed : b[x] = a[x]

(***************************************************************************)
(* A part of the invariant depends on some of the fields.                   *)
(***************************************************************************)
LEMMA OwnedSame ==
    ASSUME NEW a, NEW b, NEW S, Same(b, a, S), Owned(a),
           {"user", "userAs", "contexts", "loads", "dash"} \cap S = {}
    PROVE  Owned(b)
<1>1. b.user = a.user /\ b.userAs = a.userAs /\ b.contexts = a.contexts /\ b.loads = a.loads
      /\ b.dash = a.dash
  BY DEF Same, TabFields
<1> QED BY <1>1 DEF Owned

LEMMA TicketsSame ==
    ASSUME NEW a, NEW b, NEW S, Same(b, a, S), Tickets(a),
           {"attempt", "generation", "cached", "contexts", "ticket", "user", "userAs", "contextError"} \cap S = {}
    PROVE  Tickets(b)
<1>1. b.user = a.user /\ b.userAs = a.userAs /\ b.contexts = a.contexts /\ b.attempt = a.attempt
      /\ b.generation = a.generation /\ b.cached = a.cached /\ b.ticket = a.ticket
      /\ b.contextError = a.contextError
  BY DEF Same, TabFields
<1> QED BY <1>1 DEF Tickets, Vouches

LEMMA NewestSame ==
    ASSUME NEW a, NEW b, NEW S, Same(b, a, S), NEW ver, Newest(a, ver), {"loads", "dash"} \cap S = {}
    PROVE  Newest(b, ver)
<1>1. b.loads = a.loads /\ b.dash = a.dash
  BY DEF Same, TabFields
<1> QED BY <1>1 DEF Newest

LEMMA AwaitsSame ==
    ASSUME NEW a, NEW b, NEW S, Same(b, a, S), Awaits(a), {"loads", "dash"} \cap S = {}
    PROVE  Awaits(b)
<1>1. b.loads = a.loads /\ b.dash = a.dash
  BY DEF Same, TabFields
<1> QED BY <1>1 DEF Awaits

LEMMA FromHereSame ==
    ASSUME NEW a, NEW b, NEW S, Same(b, a, S), FromHere(a),
           {"attempt", "generation", "cached", "loads", "dash"} \cap S = {}
    PROVE  FromHere(b)
<1>1. b.loads = a.loads /\ b.dash = a.dash /\ b.attempt = a.attempt
      /\ b.generation = a.generation /\ b.cached = a.cached
  BY DEF Same, TabFields
<1> QED BY <1>1 DEF FromHere

LEMMA ScreenSame ==
    ASSUME NEW a, NEW b, NEW S, Same(b, a, S),
           {"open", "loading", "needsLogin", "needsAccount", "error", "user"} \cap S = {}
    PROVE  Screen(b) = Screen(a)
<1>1. b.open = a.open /\ b.loading = a.loading /\ b.needsLogin = a.needsLogin
      /\ b.needsAccount = a.needsAccount /\ b.error = a.error /\ b.user = a.user
  BY DEF Same, TabFields
<1> QED BY <1>1 DEF Screen

(***************************************************************************)
(* The functions.                                                           *)
(***************************************************************************)
LEMMA RememberedKeeps ==
    ASSUME NEW w, NEW n, NEW d, Core(w, n, d)
    PROVE  LET v == Remembered(w)
           IN  /\ Keeps(v, w, n, d) /\ Same(v.tab, w.tab, {"cached"}) /\ v.tab.cached = Token(w)
               /\ v.stored = w.stored /\ v.record = w.record /\ v.sends = w.sends
               /\ Token(w) \in Sessions /\ Token(v) = Token(w)
<1> DEFINE v == Remembered(w)  a == w.tab  b == v.tab
<1>0. World4(w) /\ Typed(a) /\ TabInv(a, w.stored, n, version) /\ w.stored \in Sessions
  BY DEF Core, TabInv
<1>1. /\ World4(v) /\ Same(b, a, {"cached"}) /\ b.cached = Token(w)
      /\ v.stored = w.stored /\ v.record = w.record /\ v.sends = w.sends
  BY <1>0 DEF World4, Remembered, Same, TabFields, Typed
<1>2. Token(w) \in Sessions /\ Token(v) = Token(w) /\ (a.cached # "unread" => Token(w) = a.cached)
      /\ (a.cached = "unread" => Token(w) = w.stored)
  BY <1>0, <1>1, ClientStartAssumption DEF Token, Typed, Sessions
<1> HIDE DEF v, a, b
<1>3. Typed(b)
  BY <1>0, <1>1, <1>2 DEF Typed, Same, TabFields
<1>4. /\ b.attempt = a.attempt /\ b.generation = a.generation /\ b.loads = a.loads /\ b.dash = a.dash
      /\ b.contexts = a.contexts /\ b.ticket = a.ticket /\ b.user = a.user /\ b.userAs = a.userAs
      /\ b.open = a.open /\ b.contextError = a.contextError
  BY <1>1 DEF Same, TabFields
<1>5. Owned(b)
  BY <1>0, <1>1, OwnedSame DEF TabInv
<1>6. Tickets(b)
  BY <1>0, <1>1, <1>2, <1>4 DEF TabInv, Tickets, Vouches, Typed, Attempt, Ticket, Context
<1>7. Newest(b, version)
  BY <1>0, <1>1, NewestSame DEF TabInv
<1>8. Heard(b, v.stored, n)
  BY <1>0, <1>1, <1>2, <1>4 DEF TabInv, Heard
<1>9. FromHere(a) => FromHere(b)
  BY <1>0, <1>1, <1>2, <1>4 DEF TabInv, Tickets, FromHere
<1>10. Awaits(a) => Awaits(b)
  BY <1>1, AwaitsSame
<1>11. Core(v, n, d)
  BY <1>0, <1>1, <1>3, <1>4, <1>5, <1>6, <1>7, <1>8 DEF Core, TabInv, a, b
<1> QED BY <1>1, <1>2, <1>9, <1>10, <1>11 DEF Keeps, v, a, b

LEMMA NextGeneration ==
    ASSUME NEW a, NEW b, Typed(a), Typed(b), Tickets(a), b.generation = a.generation + 1,
           b.attempt = a.attempt, b.contexts = a.contexts, b.ticket = a.ticket, b.contextError = a.contextError
    PROVE  Tickets(b) /\ FromHere(b)
<1>1. a.generation \in Nat
  BY DEF Typed
<1>2. a.attempt # None => a.attempt.ticket.generation \in Nat /\ a.attempt.ticket.generation <= a.generation
  BY DEF Typed, Tickets, Attempt, Ticket
<1>3. FromHere(b)
  BY <1>1, <1>2 DEF FromHere
<1>4. \A c \in a.contexts : c.attempt.ticket.generation \in Nat
  BY DEF Typed, Context, Attempt, Ticket
<1>5. a.ticket # None => a.ticket.generation \in Nat
  BY DEF Typed, Ticket
<1>6. Tickets(b)
  BY <1>1, <1>2, <1>4, <1>5 DEF Tickets, Vouches
<1> QED BY <1>3, <1>6

LEMMA ClearKeeps ==
    ASSUME NEW w, NEW n, NEW d, Core(w, n, d)
    PROVE  LET v == clearStart(w)
           IN  /\ Keeps(v, w, n, d) /\ Same(v.tab, w.tab, {"generation", "snapshot"}) /\ FromHere(v.tab)
               /\ v.tab.generation = w.tab.generation + 1
               /\ v.stored = w.stored /\ v.record = None /\ v.sends >= w.sends
<1> DEFINE v == clearStart(w)  a == w.tab  b == v.tab
<1>0. World4(w) /\ Typed(a) /\ TabInv(a, w.stored, n, version) /\ w.stored \in Sessions /\ w.sends \in Nat
  BY DEF Core, TabInv
<1>1. /\ World4(v) /\ Same(b, a, {"generation", "snapshot"}) /\ b.generation = a.generation + 1
      /\ b.snapshot = None
      /\ v.stored = w.stored /\ v.record = None /\ v.sends \in {w.sends, w.sends + 1}
  BY <1>0 DEF World4, clearStart, Same, TabFields, Typed
<1> HIDE DEF v, a, b
<1>2. Typed(b)
  BY <1>0, <1>1 DEF Typed, Same, TabFields
<1>3. b.attempt = a.attempt /\ b.contexts = a.contexts /\ b.ticket = a.ticket /\ b.contextError = a.contextError
      /\ b.open = a.open /\ b.cached = a.cached /\ b.dash = a.dash
  BY <1>1 DEF Same, TabFields
<1>4. Tickets(b) /\ FromHere(b)
  BY <1>0, <1>1, <1>2, <1>3, NextGeneration DEF TabInv
<1>5. Owned(b) /\ Newest(b, version) /\ (Awaits(a) => Awaits(b))
  BY <1>0, <1>1, OwnedSame, NewestSame, AwaitsSame DEF TabInv
<1>6. Heard(b, v.stored, n)
  BY <1>0, <1>1, <1>3 DEF TabInv, Heard
<1>7. Core(v, n, d)
  <2>1. RecordInv(v.record, v.stored)
    BY <1>1 DEF RecordInv
  <2>2. v.sends \in Nat /\ (v.stored = stored \/ v.sends > 0)
    BY <1>0, <1>1 DEF Core
  <2> QED BY <1>0, <1>1, <1>2, <1>3, <1>4, <1>5, <1>6, <2>1, <2>2 DEF Core, TabInv, a, b
<1>8. v.sends >= w.sends
  BY <1>0, <1>1
<1> QED BY <1>1, <1>4, <1>5, <1>7, <1>8 DEF Keeps, v, a, b

LEMMA SetTokenKeeps ==
    ASSUME NEW w, NEW n, NEW d, NEW token \in Sessions, Core(w, n, d)
    PROVE  LET v == setSessionToken(w, token)
           IN  /\ Keeps(v, w, n, d) /\ Same(v.tab, w.tab, {"cached", "generation", "snapshot"})
               /\ FromHere(v.tab) /\ v.tab.cached = token
               /\ v.tab.generation = w.tab.generation + 1
               /\ v.stored = token /\ v.record = None
<1> DEFINE c == clearStart(w)  v == setSessionToken(w, token)  a == c.tab  b == v.tab
<1>1. /\ Core(c, n, d) /\ FromHere(a) /\ (Awaits(w.tab) => Awaits(a))
      /\ Same(a, w.tab, {"generation", "snapshot"}) /\ a.generation = w.tab.generation + 1
      /\ c.stored = w.stored /\ c.record = None /\ c.sends >= w.sends
  BY ClearKeeps DEF Keeps
<1>2. Core(w, n, d) /\ World4(c) /\ Typed(a) /\ TabInv(a, c.stored, n, version) /\ c.sends \in Nat
  BY <1>1 DEF Core, TabInv
<1>3. /\ World4(v) /\ Same(b, a, {"cached"}) /\ b.cached = token /\ v.stored = token
      /\ v.record = None /\ v.sends = IF w.stored = token THEN c.sends ELSE c.sends + 1
  BY <1>1, <1>2 DEF World4, setSessionToken, Same, TabFields, Typed
<1> HIDE DEF c, v, a, b
<1>4. /\ b.attempt = a.attempt /\ b.contexts = a.contexts /\ b.ticket = a.ticket
      /\ b.contextError = a.contextError /\ b.open = a.open /\ b.dash = a.dash
      /\ b.generation = w.tab.generation + 1
  BY <1>1, <1>3 DEF Same, TabFields
<1>5. Typed(b)
  BY <1>2, <1>3 DEF Typed, Same, TabFields
<1>6. /\ a.attempt = w.tab.attempt /\ a.contexts = w.tab.contexts /\ a.ticket = w.tab.ticket
      /\ a.contextError = w.tab.contextError
  BY <1>1 DEF Same, TabFields
<1>7. Tickets(b) /\ FromHere(b)
  <2>1. Typed(w.tab) /\ Tickets(w.tab)
    BY DEF Core, TabInv
  <2> QED BY <1>4, <1>5, <1>6, <2>1, NextGeneration
<1>8. Owned(b) /\ Newest(b, version) /\ (Awaits(a) => Awaits(b))
  BY <1>2, <1>3, OwnedSame, NewestSame, AwaitsSame DEF TabInv
<1>9. Heard(b, v.stored, n)
  BY <1>3 DEF Heard
<1>10. Core(v, n, d)
  <2>1. RecordInv(v.record, v.stored)
    BY <1>3 DEF RecordInv
  <2>2. w.sends \in Nat /\ (w.stored = stored \/ w.sends > 0)
    BY DEF Core
  <2>3. v.sends \in Nat /\ (v.stored = stored \/ v.sends > 0)
    BY <1>1, <1>2, <1>3, <2>2
  <2>4. b.open
    BY <1>1, <1>4 DEF Core, a
  <2>5. b.dash.on /\ b.dash.fresh /\ b.dash.shown # None => d.on /\ d.shown = b.dash.shown
    BY <1>1, <1>4 DEF Core, a
  <2> QED BY <1>3, <1>5, <1>7, <1>8, <1>9, <2>1, <2>3, <2>4, <2>5 DEF Core, TabInv, b
<1>11. Same(b, w.tab, {"cached", "generation", "snapshot"})
  BY <1>1, <1>3 DEF Same, TabFields
<1> QED BY <1>1, <1>3, <1>4, <1>7, <1>8, <1>10, <1>11 DEF Keeps, v, a, b

LEMMA ReadStartKeeps ==
    ASSUME NEW w, NEW n, NEW d, NEW identity, Core(w, n, d)
    PROVE  LET v == readStart(w, identity)
           IN  /\ Keeps(v, w, n, d) /\ Same(v.tab, w.tab, {"snapshot"})
               /\ v.stored = w.stored /\ v.record = w.record /\ v.sends = w.sends
<1> DEFINE v == readStart(w, identity)  a == w.tab  b == v.tab
<1>0. World4(w) /\ Typed(a) /\ TabInv(a, w.stored, n, version) /\ RecordInv(w.record, w.stored)
  BY DEF Core, TabInv
<1>1. /\ World4(v) /\ Same(b, a, {"snapshot"})
      /\ v.stored = w.stored /\ v.record = w.record /\ v.sends = w.sends
      /\ \/ b.snapshot = None
         \/ w.record # None
            /\ b.snapshot = [user |-> w.record.user, data |-> w.record.data, broken |-> w.record.broken]
  BY <1>0 DEF World4, readStart, Same, TabFields, Typed
<1>2. b.snapshot \in Snapshot \cup {None}
  BY <1>0, <1>1 DEF RecordInv, Saved, Snapshot
<1> HIDE DEF v, a, b
<1>3. Typed(b)
  BY <1>0, <1>1, <1>2 DEF Typed, Same, TabFields
<1>4. Owned(b) /\ Tickets(b) /\ Newest(b, version) /\ (Awaits(a) => Awaits(b)) /\ (FromHere(a) => FromHere(b))
  BY <1>0, <1>1, OwnedSame, TicketsSame, NewestSame, AwaitsSame, FromHereSame DEF TabInv
<1>5. b.open = a.open /\ b.cached = a.cached /\ b.dash = a.dash
  BY <1>1 DEF Same, TabFields
<1>6. Heard(b, v.stored, n)
  BY <1>0, <1>1, <1>5 DEF TabInv, Heard
<1>7. Core(v, n, d)
  BY <1>0, <1>1, <1>3, <1>4, <1>5, <1>6 DEF Core, TabInv, a, b
<1> QED BY <1>1, <1>4, <1>7 DEF Keeps, v, a, b

(***************************************************************************)
(* What the functions of a page change.                                     *)
(***************************************************************************)
Shape(w) == World4(w) /\ DOMAIN w.tab = TabFields
LEMMA FetchIs ==
    ASSUME NEW w, NEW attempt, Shape(w)
    PROVE  LET v == fetchContext(w, attempt)
           IN  /\ Shape(v) /\ Same(v.tab, w.tab, {"cached", "contextError", "sent", "contexts"})
               /\ v.tab.cached = Token(w) /\ v.tab.contextError = FALSE /\ v.tab.contextError \in BOOLEAN /\ v.tab.sent = w.tab.sent + 1
               /\ v.tab.contexts = w.tab.contexts \cup
                     {[id |-> w.tab.sent, as |-> Token(w), caller |-> Caller(Token(w)), attempt |-> attempt]}
               /\ v.stored = w.stored /\ v.record = w.record /\ v.sends = w.sends
<1> DEFINE c == [id |-> w.tab.sent, as |-> Token(w), caller |-> Caller(Token(w)), attempt |-> attempt]
           v == [Remembered(w) EXCEPT !.tab.contextError = FALSE, !.tab.sent = @ + 1, !.tab.contexts = @ \cup {c}]
<1>1. fetchContext(w, attempt) = v
  BY DEF fetchContext
<1> HIDE DEF c
<1>2. /\ Shape(v) /\ Same(v.tab, w.tab, {"cached", "contextError", "sent", "contexts"})
      /\ v.tab.cached = Token(w) /\ v.tab.contextError = FALSE /\ v.tab.contextError \in BOOLEAN /\ v.tab.sent = w.tab.sent + 1
      /\ v.tab.contexts = w.tab.contexts \cup {c}
      /\ v.stored = w.stored /\ v.record = w.record /\ v.sends = w.sends
  BY DEF Shape, World4, Remembered, Same, TabFields
<1> QED BY <1>1, <1>2 DEF c

LEMMA LoadIs ==
    ASSUME NEW w, Shape(w), w.tab.dash \in Dash, SignedIn(w)
    PROVE  LET v == loadOverview(w)
               caller == Caller(Token(w))
           IN  /\ Shape(v) /\ Same(v.tab, w.tab, {"cached", "dash", "sent", "loads"})
               /\ v.tab.cached = Token(w) /\ v.tab.sent = w.tab.sent + 1
               /\ v.tab.dash = [w.tab.dash EXCEPT !.failed = FALSE, !.refreshing = TRUE]
               /\ v.tab.loads = {[l EXCEPT !.latest = FALSE] : l \in w.tab.loads} \cup
                     {[id |-> w.tab.sent, as |-> Token(w), caller |-> caller, latest |-> TRUE,
                       mounted |-> TRUE, from |-> IF caller \in Users THEN version[caller] ELSE 0]}
               /\ v.stored = w.stored /\ v.record = w.record /\ v.sends = w.sends
<1> DEFINE caller == Caller(Token(w))
           c == [id |-> w.tab.sent, as |-> Token(w), caller |-> caller, latest |-> TRUE,
                       mounted |-> TRUE, from |-> IF caller \in Users THEN version[caller] ELSE 0]
           late == {[l EXCEPT !.latest = FALSE] : l \in w.tab.loads}
           r == Remembered(w)
           v == [r EXCEPT !.tab.dash.failed = FALSE, !.tab.dash.refreshing = TRUE, !.tab.sent = @ + 1,
                          !.tab.loads = {[l EXCEPT !.latest = FALSE] : l \in @} \cup {c}]
<1>1. loadOverview(w) = v
  BY DEF loadOverview
<1>2. Shape(r) /\ Same(r.tab, w.tab, {"cached"}) /\ r.tab.cached = Token(w)
      /\ r.stored = w.stored /\ r.record = w.record /\ r.sends = w.sends
  BY DEF Shape, World4, Remembered, Same, TabFields
<1>3. r.tab.dash = w.tab.dash /\ r.tab.loads = w.tab.loads /\ r.tab.sent = w.tab.sent
  BY <1>2 DEF Same, TabFields
<1> HIDE DEF c, r
<1>4. /\ Shape(v) /\ Same(v.tab, r.tab, {"dash", "sent", "loads"})
      /\ v.tab.sent = r.tab.sent + 1
      /\ v.stored = r.stored /\ v.record = r.record /\ v.sends = r.sends
  BY <1>2 DEF Shape, World4, Same, TabFields
<1>5. v.tab.loads = {[l EXCEPT !.latest = FALSE] : l \in r.tab.loads} \cup {c}
  BY <1>2 DEF Shape, World4, TabFields
<1>6. v.tab.dash = [r.tab.dash EXCEPT !.failed = FALSE, !.refreshing = TRUE]
  BY <1>2, <1>3 DEF Shape, World4, TabFields, Dash
<1> HIDE DEF v
<1>7. Same(v.tab, w.tab, {"cached", "dash", "sent", "loads"}) /\ v.tab.cached = Token(w)
  BY <1>2, <1>4 DEF Same, TabFields
<1> QED BY <1>1, <1>2, <1>3, <1>4, <1>5, <1>6, <1>7 DEF c

LEMMA LoadNotIs ==
    ASSUME NEW w, Shape(w), w.tab.dash \in Dash, ~SignedIn(w)
    PROVE  LET v == loadOverview(w)
           IN  /\ Shape(v) /\ Same(v.tab, w.tab, {"cached", "dash", "loads"})
               /\ v.tab.cached = Token(w)
               /\ v.tab.dash = [w.tab.dash EXCEPT !.failed = TRUE, !.loading = FALSE, !.refreshing = FALSE]
               /\ v.tab.loads = {[l EXCEPT !.latest = FALSE] : l \in w.tab.loads}
               /\ v.stored = w.stored /\ v.record = w.record /\ v.sends = w.sends
<1> DEFINE r == Remembered(w)
           v == [r EXCEPT !.tab.dash.failed = TRUE, !.tab.dash.loading = FALSE,
                 !.tab.dash.refreshing = FALSE,
                 !.tab.loads = {[l EXCEPT !.latest = FALSE] : l \in @}]
<1>1. loadOverview(w) = v
  BY DEF loadOverview
<1>2. Shape(r) /\ Same(r.tab, w.tab, {"cached"}) /\ r.tab.cached = Token(w)
      /\ r.stored = w.stored /\ r.record = w.record /\ r.sends = w.sends
  BY DEF Shape, World4, Remembered, Same, TabFields
<1>3. r.tab.dash = w.tab.dash /\ r.tab.loads = w.tab.loads /\ r.tab.sent = w.tab.sent
  BY <1>2 DEF Same, TabFields
<1> HIDE DEF r
<1>4. /\ Shape(v) /\ Same(v.tab, r.tab, {"dash", "loads"})
      /\ v.stored = r.stored /\ v.record = r.record /\ v.sends = r.sends
  BY <1>2 DEF Shape, World4, Same, TabFields
<1>5. v.tab.loads = {[l EXCEPT !.latest = FALSE] : l \in r.tab.loads}
  BY <1>2 DEF Shape, World4, TabFields
<1>6. v.tab.dash = [r.tab.dash EXCEPT !.failed = TRUE, !.loading = FALSE, !.refreshing = FALSE]
  BY <1>2, <1>3 DEF Shape, World4, TabFields, Dash
<1> HIDE DEF v
<1>7. Same(v.tab, w.tab, {"cached", "dash", "loads"}) /\ v.tab.cached = Token(w)
  BY <1>2, <1>4 DEF Same, TabFields
<1> QED BY <1>1, <1>2, <1>3, <1>4, <1>5, <1>6, <1>7
\* what the functions know of the server
Served == telegram \in BOOLEAN /\ valid \subseteq Logins /\ tgOwner \in Callers /\ version \in [Users -> Nat]

LEMMA CallerOf ==
    ASSUME Served, NEW token \in Sessions
    PROVE  Caller(token) \in Callers /\ SpeaksFor(token, Caller(token))
<1>1. CASE token = None
  BY <1>1, ClientStartAssumption DEF Caller, Served, SpeaksFor
<1>2. CASE token # None
  BY <1>2, ClientStartAssumption DEF Caller, Served, SpeaksFor, Callers, Sessions
<1> QED BY <1>1, <1>2

LEMMA FetchKeeps ==
    ASSUME NEW w, NEW n, NEW d, Core(w, n, d), Served, w.tab.attempt # None
    PROVE  LET v == fetchContext(w, w.tab.attempt)
           IN  /\ Keeps(v, w, n, d) /\ Same(v.tab, w.tab, {"cached", "contextError", "sent", "contexts"})
               /\ v.tab.contexts # {} /\ v.tab.cached \in Sessions
               /\ v.stored = w.stored /\ v.record = w.record /\ v.sends = w.sends
<1> DEFINE r == Remembered(w)  token == Token(w)  a == r.tab  attempt == w.tab.attempt
           c == [id |-> w.tab.sent, as |-> token, caller |-> Caller(token), attempt |-> attempt]
           v == fetchContext(w, attempt)  b == v.tab
<1>1. /\ Core(r, n, d) /\ (FromHere(w.tab) => FromHere(a)) /\ (Awaits(w.tab) => Awaits(a))
      /\ Same(a, w.tab, {"cached"}) /\ a.cached = token /\ token \in Sessions
      /\ r.stored = w.stored /\ r.record = w.record /\ r.sends = w.sends
  BY RememberedKeeps DEF Keeps
<1>2. /\ World4(r) /\ Typed(a) /\ TabInv(a, r.stored, n, version) /\ Typed(w.tab)
  BY <1>1 DEF Core, TabInv
<1>3. /\ World4(v) /\ Same(b, a, {"contextError", "sent", "contexts"})
      /\ b.contextError = FALSE /\ b.contextError \in BOOLEAN /\ b.sent = a.sent + 1 /\ b.contexts = a.contexts \cup {c}
      /\ v.stored = w.stored /\ v.record = w.record /\ v.sends = w.sends
  <2>1. Shape(w)
    BY <1>1, <1>2 DEF Shape, Core, Typed
  <2>2. a.sent = w.tab.sent /\ a.contexts = w.tab.contexts
    BY <1>1 DEF Same, TabFields
  <2> HIDE DEF v, a, r, attempt
  <2>3. /\ Shape(v) /\ Same(b, w.tab, {"cached", "contextError", "sent", "contexts"})
        /\ b.cached = token /\ b.contextError = FALSE /\ b.contextError \in BOOLEAN /\ b.sent = w.tab.sent + 1
        /\ b.contexts = w.tab.contexts \cup {c}
        /\ v.stored = w.stored /\ v.record = w.record /\ v.sends = w.sends
    BY <2>1, FetchIs DEF v
  <2>4. Same(b, a, {"contextError", "sent", "contexts"})
    BY <1>1, <2>3 DEF Same, TabFields
  <2> QED BY <2>2, <2>3, <2>4 DEF Shape
<1>4. c \in Context /\ SpeaksFor(c.as, c.caller) /\ c.as = token /\ c.attempt = attempt
  BY <1>1, <1>2, CallerOf DEF Typed, Context
<1>5. a.attempt = attempt
  BY <1>1 DEF Same, TabFields
<1> HIDE DEF v, a, b, c, r, attempt
<1>6. /\ b.attempt = a.attempt /\ b.generation = a.generation /\ b.loads = a.loads /\ b.dash = a.dash
      /\ b.cached = a.cached /\ b.ticket = a.ticket /\ b.user = a.user /\ b.userAs = a.userAs
      /\ b.open = a.open
  BY <1>3 DEF Same, TabFields
<1>7. Typed(b)
  <2>1. b.sent \in Nat /\ b.contextError \in BOOLEAN
    BY <1>2, <1>3 DEF Typed
  <2>2. b.contexts \subseteq Context
    BY <1>2, <1>3, <1>4 DEF Typed
  <2> QED BY <1>2, <1>3, <2>1, <2>2 DEF Typed, Same, TabFields
<1>8. Owned(b)
  BY <1>2, <1>3, <1>4, <1>6 DEF TabInv, Owned
<1>9. Newest(b, version) /\ (Awaits(a) => Awaits(b)) /\ (FromHere(a) => FromHere(b))
  BY <1>2, <1>3, NewestSame, AwaitsSame, FromHereSame DEF TabInv
<1>10. Tickets(b)
  <2>1. attempt # None /\ attempt \in Attempt /\ attempt.ticket.generation \in Nat /\ attempt.ticket.late \in BOOLEAN
    BY <1>2 DEF Typed, Attempt, Ticket, attempt
  <2>2. Vouches(attempt.ticket, b, token) /\ ~attempt.ticket.late
    BY <1>1, <1>2, <1>5, <1>6, <2>1 DEF TabInv, Tickets, Vouches
  <2>3. \A x \in a.contexts : /\ b.attempt # None /\ x.attempt.ticket.generation <= b.attempt.ticket.generation
                              /\ Vouches(x.attempt.ticket, b, x.as) /\ ~x.attempt.ticket.late
    BY <1>2, <1>6 DEF TabInv, Tickets, Vouches
  <2>4. b.attempt = attempt /\ b.attempt # None /\ b.contextError = FALSE
    BY <1>3, <1>5, <1>6, <2>1
  <2>5. \A x \in b.contexts : /\ b.attempt # None /\ x.attempt.ticket.generation <= b.attempt.ticket.generation
                              /\ Vouches(x.attempt.ticket, b, x.as) /\ ~x.attempt.ticket.late
    BY <1>3, <1>4, <2>1, <2>2, <2>3, <2>4
  <2>6. a.attempt # None => /\ ~a.attempt.ticket.late /\ a.attempt.ticket.generation <= a.generation
                            /\ a.attempt.ticket.generation = a.generation =>
                                  /\ a.cached # "unread"
                                  /\ a.attempt.ticket.identity = "session" <=> a.cached # None
    BY <1>2 DEF TabInv, Tickets
  <2>7. a.ticket # None /\ ~a.ticket.late =>
          /\ a.attempt # None /\ a.ticket.generation <= a.attempt.ticket.generation
          /\ a.user # None => Vouches(a.ticket, a, a.userAs)
    BY <1>2 DEF TabInv, Tickets
  <2> QED BY <1>6, <2>4, <2>5, <2>6, <2>7 DEF Tickets, Vouches
<1>11. Heard(b, v.stored, n)
  BY <1>1, <1>2, <1>3, <1>6 DEF TabInv, Heard
<1>12. Core(v, n, d)
  BY <1>1, <1>3, <1>6, <1>7, <1>8, <1>9, <1>10, <1>11 DEF Core, TabInv, a, b
<1>13. b.contexts # {} /\ b.cached \in Sessions
  BY <1>1, <1>3, <1>6
<1>14. Same(b, w.tab, {"cached", "contextError", "sent", "contexts"})
  BY <1>1, <1>3 DEF Same, TabFields
<1> QED BY <1>1, <1>3, <1>9, <1>12, <1>13, <1>14 DEF Keeps, v, a, b, attempt

LEMMA LoadOverviewKeeps ==
    ASSUME NEW w, NEW n, NEW d, Core(w, n, d), Served, w.tab.dash \in Dash
    PROVE  LET v == loadOverview(w)
           IN  /\ Core(v, n, d) /\ Awaits(v.tab) /\ (FromHere(w.tab) => FromHere(v.tab))
               /\ Same(v.tab, w.tab, {"cached", "dash", "sent", "loads"})
               /\ v.tab.dash \in Dash /\ v.tab.dash.user = w.tab.dash.user
               /\ v.stored = w.stored /\ v.record = w.record /\ v.sends = w.sends
<1> DEFINE r == Remembered(w)  token == Token(w)  a == r.tab  caller == Caller(token)
           l == [id |-> w.tab.sent, as |-> token, caller |-> caller, latest |-> TRUE,
                 mounted |-> TRUE, from |-> IF caller \in Users THEN version[caller] ELSE 0]
           late == {[k EXCEPT !.latest = FALSE] : k \in w.tab.loads}
           v == loadOverview(w)  b == v.tab
<1>1. /\ Core(r, n, d) /\ (FromHere(w.tab) => FromHere(a))
      /\ Same(a, w.tab, {"cached"}) /\ a.cached = token /\ token \in Sessions
      /\ r.stored = w.stored /\ r.record = w.record /\ r.sends = w.sends
  BY RememberedKeeps DEF Keeps
<1>2. /\ World4(r) /\ Typed(a) /\ TabInv(a, r.stored, n, version) /\ Typed(w.tab) /\ Owned(a) /\ Tickets(a)
      /\ Newest(a, version) /\ Heard(a, r.stored, n)
  BY <1>1 DEF Core, TabInv
<1>3. a.loads = w.tab.loads /\ a.dash = w.tab.dash /\ a.sent = w.tab.sent
  BY <1>1 DEF Same, TabFields
<1>4. /\ World4(v) /\ Same(b, a, {"dash", "sent", "loads"})
      /\ v.stored = w.stored /\ v.record = w.record /\ v.sends = w.sends
      /\ b.sent \in Nat
      /\ b.dash \in Dash /\ b.dash.user = a.dash.user /\ b.dash.fresh = a.dash.fresh /\ b.dash.shown = a.dash.shown
      /\ \/ b.loads = late \cup {l}
         \/ b.loads = late /\ b.dash.loading = FALSE /\ b.dash.refreshing = FALSE
  <2>1. Shape(w)
    BY <1>1, <1>2 DEF Shape, Core, Typed
  <2>2. a.sent \in Nat /\ a.loads = w.tab.loads
    BY <1>2, <1>3 DEF Typed
  <2> HIDE DEF v, a, r, l, late
  <2>3. CASE SignedIn(w)
    <3>1. /\ Shape(v) /\ Same(b, w.tab, {"cached", "dash", "sent", "loads"})
          /\ b.cached = token /\ b.sent = w.tab.sent + 1
          /\ b.dash = [w.tab.dash EXCEPT !.failed = FALSE, !.refreshing = TRUE]
          /\ b.loads = late \cup {l}
          /\ v.stored = w.stored /\ v.record = w.record /\ v.sends = w.sends
      BY <2>1, <2>3, LoadIs DEF v, l, late
    <3>2. Same(b, a, {"dash", "sent", "loads"})
      BY <1>1, <3>1 DEF Same, TabFields
    <3>3. b.dash \in Dash /\ b.dash.user = a.dash.user /\ b.dash.fresh = a.dash.fresh /\ b.dash.shown = a.dash.shown
      BY <1>3, <3>1 DEF Dash
    <3> QED BY <1>3, <2>2, <3>1, <3>2, <3>3 DEF Shape
  <2>4. CASE ~SignedIn(w)
    <3>1. /\ Shape(v) /\ Same(b, w.tab, {"cached", "dash", "loads"})
          /\ b.cached = token
          /\ b.dash = [w.tab.dash EXCEPT !.failed = TRUE, !.loading = FALSE, !.refreshing = FALSE]
          /\ b.loads = late
          /\ v.stored = w.stored /\ v.record = w.record /\ v.sends = w.sends
      BY <2>1, <2>4, LoadNotIs DEF v, late
    <3>2. Same(b, a, {"dash", "sent", "loads"}) /\ b.sent = a.sent
      BY <1>1, <1>3, <3>1 DEF Same, TabFields
    <3>3. b.dash \in Dash /\ b.dash.user = a.dash.user /\ b.dash.fresh = a.dash.fresh /\ b.dash.shown = a.dash.shown
          /\ b.dash.loading = FALSE /\ b.dash.refreshing = FALSE
      BY <1>3, <3>1 DEF Dash
    <3> QED BY <2>2, <3>1, <3>2, <3>3 DEF Shape
  <2> QED BY <2>3, <2>4
<1>5. l \in Load /\ SpeaksFor(l.as, l.caller) /\ l.as = token /\ l.latest /\ l.mounted
      /\ (l.caller \in Users => l.from = version[l.caller])
  <2>1. caller \in Callers /\ SpeaksFor(token, caller)
    BY <1>1, CallerOf
  <2> HIDE DEF caller, token
  <2>2. (IF caller \in Users THEN version[caller] ELSE 0) \in Nat
    BY DEF Served
  <2> QED BY <1>1, <1>2, <2>1, <2>2 DEF Typed, Load
<1>6. late \subseteq Load
      /\ \A k \in late : ~k.latest /\ \E x \in a.loads : k.as = x.as /\ k.caller = x.caller
                                                         /\ k.mounted = x.mounted /\ k.from = x.from
  BY <1>2, <1>3 DEF Typed, Load
<1> HIDE DEF v, a, b, r, l, late
<1>7. /\ b.attempt = a.attempt /\ b.generation = a.generation /\ b.contexts = a.contexts
      /\ b.cached = a.cached /\ b.ticket = a.ticket /\ b.user = a.user /\ b.userAs = a.userAs
      /\ b.open = a.open
  BY <1>4 DEF Same, TabFields
<1>8. b.loads \subseteq late \cup {l}
  BY <1>4
<1>9. Typed(b)
  BY <1>2, <1>4, <1>5, <1>6, <1>8 DEF Typed, Same, TabFields
<1>10. a.dash.on /\ b.dash.on
  BY <1>3, <1>4 DEF Dash
<1>11. Owned(b)
  <2>1. \A k \in b.loads : SpeaksFor(k.as, k.caller)
    BY <1>2, <1>5, <1>6, <1>8 DEF Owned
  <2> QED BY <1>2, <1>4, <1>7, <1>10, <2>1 DEF Owned
<1>12. Tickets(b)
  BY <1>2, <1>4, TicketsSame
<1>13. ASSUME FromHere(w.tab) PROVE FromHere(b)
  <2>1. FromHere(a)
    BY <1>1, <1>13
  <2>2. a.attempt # None /\ a.attempt.ticket.generation = a.generation => \A k \in b.loads : k.mounted => k.as = a.cached
    BY <1>1, <1>5, <1>6, <1>8, <2>1 DEF FromHere
  <2> QED BY <1>4, <1>7, <1>10, <2>1, <2>2 DEF FromHere
<1>14. Newest(b, version)
  <2>1. \A k, x \in b.loads : k.latest /\ x.latest => k = x
    BY <1>6, <1>8
  <2>2. \A x \in b.loads : x.caller \in Users => x.from <= version[x.caller]
    <3>1. l.caller \in Users => l.from <= version[l.caller]
      BY <1>5 DEF Served
    <3> QED BY <1>2, <1>6, <1>8, <3>1 DEF Newest
  <2>3. ASSUME b.dash.fresh, b.dash.shown # None
        PROVE  /\ b.dash.shown.version <= version[b.dash.shown.user]
               /\ \A k \in b.loads : k.latest /\ k.mounted /\ k.caller = b.dash.shown.user => b.dash.shown.version <= k.from
    <3>1. a.dash.shown.version <= version[a.dash.shown.user]
      BY <1>2, <1>4, <1>10, <2>3 DEF Newest
    <3>2. \A k \in b.loads : k.latest => k = l
      BY <1>6, <1>8
    <3>3. a.dash.shown.user \in Users
      BY <1>2, <1>4, <2>3 DEF Dash, Data
    <3> QED BY <1>4, <1>5, <3>1, <3>2, <3>3
  <2> QED BY <1>10, <2>1, <2>2, <2>3 DEF Newest
<1>15. Awaits(b)
  BY <1>4, <1>5 DEF Awaits
<1>16. Heard(b, v.stored, n)
  BY <1>1, <1>2, <1>4, <1>7 DEF Heard
<1>17. Core(v, n, d)
  <2>1. b.dash.on /\ b.dash.fresh /\ b.dash.shown # None => d.on /\ d.shown = b.dash.shown
    BY <1>1, <1>4, <1>10 DEF Core, a
  <2> QED BY <1>1, <1>4, <1>7, <1>9, <1>11, <1>12, <1>14, <1>16, <2>1 DEF Core, TabInv, a, b
<1>18. Same(b, w.tab, {"cached", "dash", "sent", "loads"})
  BY <1>1, <1>4 DEF Same, TabFields
<1> QED BY <1>3, <1>4, <1>13, <1>15, <1>17, <1>18 DEF v, a, b

(***************************************************************************)
(* What is kept for the next start.                                         *)
(***************************************************************************)
LEMMA WriteKeeps ==
    ASSUME NEW w, NEW d, NEW t \in Tabs, events[t] \in Nat, Core(w, events[t], d), FromHere(w.tab),
           w.tab.dash.on => w.tab.dash.user = w.tab.user
    PROVE  LET v == writeStart(w, t)
           IN  Core(v, events[t], d) /\ v.tab = w.tab /\ v.stored = w.stored /\ v.sends = w.sends
<1> DEFINE v == writeStart(w, t)  a == w.tab  n == events[t]
           rec == [identity |-> a.ticket.identity, user |-> a.user,
                   data |-> a.dash.shown, expired |-> FALSE, broken |-> FALSE,
                   unheard |-> n > 0, late |-> a.ticket.late]
           writes == /\ a.dash.on /\ a.dash.fresh /\ a.dash.shown # None
                     /\ a.ticket # None /\ a.ticket.generation = a.generation
<1>1. /\ World4(w) /\ Typed(a) /\ Owned(a) /\ Tickets(a) /\ Heard(a, w.stored, n) /\ w.stored \in Sessions
      /\ a.open /\ RecordInv(w.record, w.stored)
  BY DEF Core, TabInv
<1>2. v = IF writes THEN [w EXCEPT !.record = rec] ELSE w
  BY DEF writeStart
<1> HIDE DEF v, rec
<1>3. World4(v) /\ v.tab = w.tab /\ v.stored = w.stored /\ v.sends = w.sends
      /\ v.record = IF writes THEN rec ELSE w.record
  BY <1>1, <1>2 DEF World4
<1>4. ASSUME writes PROVE RecordInv(rec, w.stored)
  <2>1. a.dash \in Dash /\ a.dash.user = a.user
    BY <1>1, <1>4 DEF Typed, NoDashboard
  <2>2. a.user \in Users /\ a.dash.shown \in Data
    BY <1>4, <2>1 DEF Dash
  <2>3. a.ticket \in Ticket
    BY <1>1, <1>4 DEF Typed
  <2>4. (n > 0) \in BOOLEAN
    OBVIOUS
  <2>5. rec \in Saved
    BY <2>2, <2>3, <2>4 DEF rec, Saved, Ticket
  <2>6. rec.user = a.user /\ rec.data = a.dash.shown /\ rec.identity = a.ticket.identity
        /\ rec.late = a.ticket.late /\ rec.unheard = (n > 0)
    BY DEF rec
  <2>7. a.user # None
    BY <2>2, ClientStartAssumption
  <2>8. ASSUME a.ticket.identity = "session", ~a.ticket.late, n = 0
        PROVE  w.stored # None /\ a.user = OwnerOf[w.stored] /\ a.dash.shown.user = OwnerOf[w.stored]
    <3>1. a.attempt # None /\ a.ticket.generation <= a.attempt.ticket.generation
          /\ a.attempt.ticket.generation <= a.generation /\ Vouches(a.ticket, a, a.userAs)
      BY <1>1, <1>4, <2>7, <2>8 DEF Tickets
    <3>2. a.attempt.ticket.generation \in Nat /\ a.generation \in Nat
      BY <1>1, <3>1 DEF Typed, Attempt, Ticket
    <3>3. a.attempt.ticket.generation = a.generation
      BY <1>4, <3>1, <3>2
    <3>4. a.userAs = a.cached /\ a.userAs # None /\ a.cached # "unread"
      BY <1>1, <1>4, <2>8, <3>1, <3>3 DEF Vouches, Tickets
    <3>5. a.cached = w.stored /\ w.stored \in Logins
      BY <1>1, <2>8, <3>4 DEF Heard, Sessions
    <3>6. a.dash.shown.as = a.cached
      BY <1>4, <3>1, <3>3 DEF FromHere
    <3>7. SpeaksFor(a.userAs, a.user) /\ SpeaksFor(a.dash.shown.as, a.dash.shown.user)
      BY <1>1, <1>4, <2>7 DEF Owned
    <3>8. a.user # Refused /\ a.dash.shown.user # Refused
      BY <2>2, ClientStartAssumption DEF Refused, Data
    <3> QED BY <3>4, <3>5, <3>6, <3>7, <3>8, ClientStartAssumption DEF SpeaksFor
  <2>9. ~(n > 0) => n = 0
    OBVIOUS
  <2> QED BY <2>5, <2>6, <2>8, <2>9 DEF RecordInv
<1>5. RecordInv(v.record, v.stored)
  BY <1>1, <1>3, <1>4
<1> QED BY <1>3, <1>5 DEF Core, v

(***************************************************************************)
(* The pages on the screen.                                                 *)
(***************************************************************************)
LEMMA NothingShown ==
    ASSUME NEW a, ~a.dash.on, NEW ver, Newest(a, ver) PROVE FromHere(a) /\ Awaits(a)
  BY DEF Newest, FromHere, Awaits

LEMMA UnmountKeeps ==
    ASSUME NEW w, NEW n, NEW d, Core(w, n, d)
    PROVE  LET v == Unmount(w)
           IN  /\ Core(v, n, d) /\ FromHere(v.tab) /\ Awaits(v.tab) /\ ~v.tab.dash.on
               /\ Same(v.tab, w.tab, {"dash", "loads"})
               /\ v.stored = w.stored /\ v.record = w.record /\ v.sends = w.sends
<1> DEFINE v == Unmount(w)  a == w.tab  b == v.tab
           gone == {[l EXCEPT !.mounted = FALSE] : l \in w.tab.loads}
<1>1. World4(w) /\ Typed(a) /\ Owned(a) /\ Tickets(a) /\ Heard(a, w.stored, n) /\ Newest(a, version)
  BY DEF Core, TabInv
<1>2. /\ World4(v) /\ Same(b, a, {"dash", "loads"})
      /\ v.stored = w.stored /\ v.record = w.record /\ v.sends = w.sends
      /\ b.dash = NoDashboard
  BY <1>1 DEF World4, Unmount, Same, TabFields, Typed
<1>3. b.loads = gone
  BY <1>1 DEF World4, Unmount, TabFields, Typed
<1>4. gone \subseteq Load
      /\ \A k \in gone : ~k.mounted /\ \E x \in a.loads : k = [x EXCEPT !.mounted = FALSE] /\ k.as = x.as
                           /\ k.caller = x.caller /\ k.latest = x.latest /\ k.from = x.from
  BY <1>1 DEF Typed, Load
<1> HIDE DEF v, a, b, gone
<1>5. /\ b.attempt = a.attempt /\ b.generation = a.generation /\ b.contexts = a.contexts
      /\ b.cached = a.cached /\ b.ticket = a.ticket /\ b.user = a.user /\ b.userAs = a.userAs
      /\ b.open = a.open
  BY <1>2 DEF Same, TabFields
<1>6. Typed(b)
  BY <1>1, <1>2, <1>3, <1>4 DEF Typed, Same, TabFields
<1>7. ~b.dash.on
  BY <1>2 DEF NoDashboard
<1>8. Owned(b)
  BY <1>1, <1>3, <1>4, <1>5, <1>7 DEF Owned
<1>9. Tickets(b)
  BY <1>1, <1>2, TicketsSame
<1>10. Newest(b, version)
  <2>1. ASSUME NEW k \in gone, NEW l \in gone, k.latest, l.latest PROVE k = l
    <3>1. PICK x \in a.loads : k = [x EXCEPT !.mounted = FALSE] /\ x.latest
      BY <1>4, <2>1
    <3>2. PICK y \in a.loads : l = [y EXCEPT !.mounted = FALSE] /\ y.latest
      BY <1>4, <2>1
    <3>3. x = y
      BY <1>1, <3>1, <3>2 DEF Newest
    <3> QED BY <3>1, <3>2, <3>3
  <2>2. \A l \in gone : l.caller \in Users => l.from <= version[l.caller]
    BY <1>1, <1>4 DEF Newest
  <2> QED BY <1>3, <1>4, <1>7, <2>1, <2>2 DEF Newest
<1>11. Heard(b, v.stored, n)
  BY <1>1, <1>2, <1>5 DEF Heard
<1>12. Core(v, n, d)
  BY <1>2, <1>5, <1>6, <1>7, <1>8, <1>9, <1>10, <1>11 DEF Core, TabInv, a, b
<1> QED BY <1>2, <1>7, <1>10, <1>12, NothingShown DEF v, a, b

\* a Dashboard that has just been mounted, before it asks for anything
LEMMA NewDashKeeps ==
    ASSUME NEW w, NEW n, NEW d, Core(w, n, d), NEW dash \in Dash, ~dash.fresh,
           dash.shown # None => dash.shown.as = "cache" /\ dash.shown.user = dash.user
    PROVE  LET v == [w EXCEPT !.tab.dash = dash]
           IN  /\ Core(v, n, d) /\ v.tab.dash = dash /\ Same(v.tab, w.tab, {"dash"})
               /\ (FromHere(w.tab) => FromHere(v.tab))
               /\ v.stored = w.stored /\ v.record = w.record /\ v.sends = w.sends
<1> DEFINE v == [w EXCEPT !.tab.dash = dash]  a == w.tab  b == v.tab
<1>1. World4(w) /\ Typed(a) /\ Owned(a) /\ Tickets(a) /\ Heard(a, w.stored, n) /\ Newest(a, version)
  BY DEF Core, TabInv
<1>2. /\ World4(v) /\ Same(b, a, {"dash"}) /\ b.dash = dash
      /\ v.stored = w.stored /\ v.record = w.record /\ v.sends = w.sends
  BY <1>1 DEF World4, Same, TabFields, Typed
<1> HIDE DEF v, a, b
<1>3. /\ b.attempt = a.attempt /\ b.generation = a.generation /\ b.contexts = a.contexts
      /\ b.cached = a.cached /\ b.ticket = a.ticket /\ b.user = a.user /\ b.userAs = a.userAs
      /\ b.open = a.open /\ b.loads = a.loads
  BY <1>2 DEF Same, TabFields
<1>4. Typed(b)
  BY <1>1, <1>2 DEF Typed, Same, TabFields
<1>5. Owned(b)
  BY <1>1, <1>2, <1>3, ClientStartAssumption DEF Owned, SpeaksFor
<1>6. Tickets(b)
  BY <1>1, <1>2, TicketsSame
<1>7. dash.on /\ Newest(b, version)
  BY <1>1, <1>2, <1>3 DEF Newest, Dash
<1>8. FromHere(a) => FromHere(b)
  BY <1>2, <1>3 DEF FromHere
<1>9. Heard(b, v.stored, n)
  BY <1>1, <1>2, <1>3 DEF Heard
<1>10. Core(v, n, d)
  BY <1>2, <1>3, <1>4, <1>5, <1>6, <1>7, <1>9 DEF Core, TabInv, a, b
<1> QED BY <1>2, <1>8, <1>10 DEF v, a, b

LEMMA DashIsOn ==
    ASSUME NEW a, Typed(a) PROVE a.dash.on \in BOOLEAN
<1>1. CASE a.dash \in Dash
  <2>1. a.dash.on \in {TRUE}
    BY <1>1 DEF Dash
  <2>2. {TRUE} \subseteq BOOLEAN
    OBVIOUS
  <2> QED BY <2>1, <2>2, Zenon
<1>2. CASE a.dash = NoDashboard
  <2>1. NoDashboard.on = FALSE
    BY DEF NoDashboard
  <2>2. FALSE \in BOOLEAN
    OBVIOUS
  <2> QED BY <1>2, <2>1, <2>2, Zenon
<1> QED BY <1>1, <1>2 DEF Typed

LEMMA MountKeeps ==
    ASSUME NEW w, NEW n, NEW d, Core(w, n, d), Served, w.tab.user \in Users, FromHere(w.tab)
    PROVE  LET v == Mount(w)
           IN  /\ Core(v, n, d) /\ FromHere(v.tab) /\ Awaits(v.tab)
               /\ v.tab.dash.on /\ v.tab.dash.user = w.tab.user
               /\ Same(v.tab, w.tab, {"cached", "dash", "sent", "loads", "generation", "snapshot"})
               /\ v.stored = w.stored
<1> DEFINE snapshot == w.tab.snapshot
           cached == snapshot # None /\ snapshot.user = w.tab.user
           data == [user |-> snapshot.user, as |-> "cache", version |-> snapshot.data.version]
           shown == IF cached THEN data ELSE None
           dash == [on |-> TRUE, user |-> w.tab.user, crashed |-> FALSE, fresh |-> FALSE,
                    shown |-> shown, loading |-> ~cached,
                    refreshing |-> FALSE, failed |-> FALSE, prices |-> FALSE]
           crash == [dash EXCEPT !.crashed = TRUE, !.shown = None, !.loading = FALSE]
           u == [w EXCEPT !.tab.dash = dash]
           x == [w EXCEPT !.tab.dash = crash]
           v == Mount(w)
<1>1. v = IF cached /\ snapshot.broken THEN clearStart(x) ELSE loadOverview(u)
  BY DEF Mount
<1>2. Typed(w.tab)
  BY DEF Core, TabInv
<1>3. shown \in Data \cup {None}
      /\ (shown # None => shown.as = "cache" /\ shown.user = w.tab.user)
  <2>1. CASE cached
    <3>1. snapshot \in Snapshot
      BY <1>2, <2>1 DEF Typed
    <3>2. data \in Data
      BY <3>1 DEF Snapshot, Data
    <3> QED BY <2>1, <3>2
  <2>2. CASE ~cached
    BY <2>2
  <2> QED BY <2>1, <2>2
<1>4. cached \in BOOLEAN
  OBVIOUS
<1> HIDE DEF v, shown, cached, snapshot
<1>5. dash \in Dash /\ ~dash.fresh /\ dash.shown = shown /\ dash.user = w.tab.user
  BY <1>3, <1>4 DEF Dash
<1>6. crash \in Dash /\ ~crash.fresh /\ crash.shown = None /\ crash.user = w.tab.user
      /\ ~crash.loading /\ ~crash.refreshing /\ crash.on
  BY <1>5 DEF Dash
<1> HIDE DEF dash, crash
<1>7. CASE cached /\ snapshot.broken
  <2>1. Core(x, n, d) /\ x.tab.dash = crash /\ Same(x.tab, w.tab, {"dash"}) /\ x.stored = w.stored
    BY <1>6, NewDashKeeps
  <2> HIDE DEF x
  <2>2. Core(v, n, d) /\ FromHere(v.tab) /\ Same(v.tab, x.tab, {"generation", "snapshot"})
        /\ v.stored = x.stored
    BY <1>1, <1>7, <2>1, ClearKeeps DEF Keeps
  <2>3. v.tab.dash = crash
    BY <2>1, <2>2 DEF Same, TabFields
  <2>4. Awaits(v.tab) /\ v.tab.dash.on /\ v.tab.dash.user = w.tab.user
    BY <1>6, <2>3 DEF Awaits
  <2>5. Same(v.tab, w.tab, {"cached", "dash", "sent", "loads", "generation", "snapshot"})
    BY <2>1, <2>2 DEF Same, TabFields
  <2> QED BY <2>1, <2>2, <2>4, <2>5 DEF v
<1>8. CASE ~(cached /\ snapshot.broken)
  <2>1. Core(u, n, d) /\ u.tab.dash = dash /\ Same(u.tab, w.tab, {"dash"}) /\ FromHere(u.tab)
        /\ u.stored = w.stored
    BY <1>3, <1>5, NewDashKeeps
  <2> HIDE DEF u
  <2>2. /\ Core(v, n, d) /\ Awaits(v.tab) /\ FromHere(v.tab)
        /\ Same(v.tab, u.tab, {"cached", "dash", "sent", "loads"})
        /\ v.tab.dash \in Dash /\ v.tab.dash.user = dash.user /\ v.stored = u.stored
    BY <1>1, <1>5, <1>8, <2>1, LoadOverviewKeeps
  <2>3. v.tab.dash.on
    BY <2>2 DEF Dash
  <2>4. Same(v.tab, w.tab, {"cached", "dash", "sent", "loads", "generation", "snapshot"})
    BY <2>1, <2>2 DEF Same, TabFields
  <2> QED BY <1>5, <2>1, <2>2, <2>3, <2>4 DEF v
<1> QED BY <1>7, <1>8

LEMMA RenderedKeeps ==
    ASSUME NEW w, NEW n, NEW d, Core(w, n, d), Served,
           FromHere(w.tab) \/ Screen(w.tab) # "app", Awaits(w.tab),
           Screen(w.tab) = "splash" => w.tab.contexts # {}
    PROVE  LET v == Rendered(w)
           IN  /\ Core(v, n, d) /\ FromHere(v.tab) /\ Awaits(v.tab) /\ Settled(v.tab)
               /\ Same(v.tab, w.tab, {"cached", "dash", "sent", "loads", "generation", "snapshot"})
               /\ v.stored = w.stored
<1> DEFINE v == Rendered(w)  a == w.tab  b == v.tab
           F == {"cached", "dash", "sent", "loads", "generation", "snapshot"}
<1>1. Typed(a) /\ Newest(a, version)
  BY DEF Core, TabInv
<1>2. Same(a, a, F)
  BY <1>1 DEF Same, Typed
<1>3. Screen(a) = "app" => a.user \in Users
  <2>1. ASSUME Screen(a) = "app" PROVE a.user # None
    BY <2>1, <1>1 DEF Screen, Typed
  <2> QED BY <1>1, <2>1 DEF Typed
<1> SUFFICES /\ Core(v, n, d) /\ FromHere(b) /\ Awaits(b) /\ Same(b, a, F) /\ v.stored = w.stored
             /\ b.dash.on = (Screen(a) = "app") /\ (b.dash.on => b.dash.user = a.user)
  <2>1. Screen(b) = Screen(a) /\ b.user = a.user /\ b.contexts = a.contexts
    <3>1. Same(b, a, F)
      OBVIOUS
    <3> HIDE DEF a, b
    <3>2. Screen(b) = Screen(a)
      BY <3>1, ScreenSame
    <3>3. b.user = a.user /\ b.contexts = a.contexts
      BY <3>1 DEF Same, TabFields
    <3> QED BY <3>2, <3>3
  <2> QED BY <2>1 DEF Settled
<1>4. a.dash.on \in BOOLEAN
  BY <1>1, DashIsOn
<1>5. CASE Screen(a) # "app" /\ ~a.dash.on
  <2>1. v = w
    BY <1>5 DEF Rendered
  <2>2. FromHere(a)
    BY <1>1, <1>5, NothingShown
  <2> QED BY <1>2, <1>4, <1>5, <2>1, <2>2
<1>6. CASE Screen(a) # "app" /\ a.dash.on
  <2>1. v = Unmount(w)
    BY <1>6 DEF Rendered
  <2> HIDE DEF v, a
  <2>2. /\ Core(v, n, d) /\ FromHere(b) /\ Awaits(b) /\ ~b.dash.on /\ Same(b, a, {"dash", "loads"})
        /\ v.stored = w.stored
    BY <2>1, UnmountKeeps DEF a
  <2>3. Same(b, a, F)
    BY <2>2 DEF Same, TabFields
  <2>4. b.dash.on \in BOOLEAN
    BY <2>2, DashIsOn DEF Core, TabInv
  <2> QED BY <1>6, <2>2, <2>3, <2>4
<1>7. CASE Screen(a) = "app" /\ ~a.dash.on
  <2>1. v = Mount(w)
    BY <1>7 DEF Rendered
  <2>2. FromHere(a)
    BY <1>1, <1>7, NothingShown
  <2> HIDE DEF v, a
  <2>3. /\ Core(v, n, d) /\ FromHere(b) /\ Awaits(b) /\ b.dash.on /\ b.dash.user = a.user
        /\ Same(b, a, F) /\ v.stored = w.stored
    BY <1>3, <1>7, <2>1, <2>2, MountKeeps DEF a
  <2>4. b.dash.on \in BOOLEAN
    BY <2>3, DashIsOn DEF Core, TabInv
  <2> QED BY <1>7, <2>3, <2>4
<1>8. CASE Screen(a) = "app" /\ a.dash.on /\ a.dash.user = a.user
  <2>1. v = w
    BY <1>8 DEF Rendered
  <2> QED BY <1>2, <1>4, <1>8, <2>1
<1>9. CASE Screen(a) = "app" /\ a.dash.on /\ a.dash.user # a.user
  <2> DEFINE u == Unmount(w)
  <2>1. v = Mount(u)
    BY <1>9 DEF Rendered
  <2> HIDE DEF v, a, u
  <2>2. Core(u, n, d) /\ FromHere(u.tab) /\ Same(u.tab, a, {"dash", "loads"}) /\ u.stored = w.stored
    BY UnmountKeeps DEF a, u
  <2>3. u.tab.user = a.user
    BY <2>2 DEF Same, TabFields
  <2>4. /\ Core(v, n, d) /\ FromHere(b) /\ Awaits(b) /\ b.dash.on /\ b.dash.user = a.user
        /\ Same(b, u.tab, F) /\ v.stored = w.stored
    BY <1>3, <1>9, <2>1, <2>2, <2>3, MountKeeps
  <2>5. Same(b, a, F)
    BY <2>2, <2>4 DEF Same, TabFields
  <2>6. b.dash.on \in BOOLEAN
    BY <2>4, DashIsOn DEF Core, TabInv
  <2> QED BY <1>9, <2>4, <2>5, <2>6
<1> QED BY <1>4, <1>5, <1>6, <1>7, <1>8, <1>9

(***************************************************************************)
(* useAuth.load.                                                            *)
(***************************************************************************)
Begun(w, attempt, loading, user, userAs) ==
    [w EXCEPT !.tab.needsLogin = FALSE, !.tab.needsAccount = FALSE,
              !.tab.error = FALSE, !.tab.attempt = attempt,
              !.tab.loading = loading, !.tab.user = user, !.tab.userAs = userAs]

\* a load that begins remembers the generation it begins with
MayBegin(w, attempt, loading, user, userAs) ==
    /\ attempt \in Attempt /\ loading \in BOOLEAN
    /\ user \in Users \cup {None} /\ userAs \in Sessions \cup {"cache"}
    /\ user # None => SpeaksFor(userAs, user)
    /\ w.tab.ticket = None /\ w.tab.cached # "unread"
    /\ attempt.ticket.generation = w.tab.generation /\ ~attempt.ticket.late
    /\ attempt.ticket.identity = "session" <=> w.tab.cached # None

LEMMA BegunKeeps ==
    ASSUME NEW w, NEW n, NEW d, Core(w, n, d), NEW attempt, NEW loading, NEW user, NEW userAs,
           MayBegin(w, attempt, loading, user, userAs)
    PROVE  LET v == Begun(w, attempt, loading, user, userAs)
           IN  /\ Core(v, n, d) /\ v.stored = w.stored
               /\ v.tab.attempt = attempt /\ v.tab.loading = loading /\ v.tab.user = user
               /\ v.tab.needsLogin = FALSE /\ v.tab.needsAccount = FALSE /\ v.tab.error = FALSE
               /\ Same(v.tab, w.tab, {"needsLogin", "needsAccount", "error", "attempt", "loading",
                                      "user", "userAs"})
<1> DEFINE v == Begun(w, attempt, loading, user, userAs)
           a == w.tab  b == v.tab
           F == {"needsLogin", "needsAccount", "error", "attempt", "loading", "user", "userAs"}
<1>1. World4(w) /\ Typed(a) /\ Owned(a) /\ Tickets(a) /\ Heard(a, w.stored, n) /\ Newest(a, version)
  BY DEF Core, TabInv
<1>0. /\ attempt \in Attempt /\ loading \in BOOLEAN
      /\ user \in Users \cup {None} /\ userAs \in Sessions \cup {"cache"}
      /\ user # None => SpeaksFor(userAs, user)
      /\ w.tab.ticket = None /\ w.tab.cached # "unread"
      /\ attempt.ticket.generation = w.tab.generation /\ ~attempt.ticket.late
      /\ attempt.ticket.identity = "session" <=> w.tab.cached # None
  BY DEF MayBegin
<1>2. World4(v) /\ v.stored = w.stored /\ v.record = w.record /\ v.sends = w.sends /\ Same(b, a, F)
  BY <1>1 DEF World4, Same, TabFields, Typed, Begun
<1>3. b.needsLogin = FALSE /\ b.needsAccount = FALSE /\ b.error = FALSE /\ b.attempt = attempt
      /\ b.loading = loading /\ b.user = user /\ b.userAs = userAs
  BY <1>1 DEF World4, TabFields, Typed, Begun
<1>4. b.needsLogin \in BOOLEAN /\ b.needsAccount \in BOOLEAN /\ b.error \in BOOLEAN /\ b.loading \in BOOLEAN
  BY <1>0, <1>3, Zenon
<1> HIDE DEF v, a, b
<1>5. /\ b.generation = a.generation /\ b.contexts = a.contexts
      /\ b.cached = a.cached /\ b.ticket = a.ticket /\ b.contextError = a.contextError
      /\ b.open = a.open /\ b.loads = a.loads /\ b.dash = a.dash
  BY <1>2 DEF Same, TabFields
<1>6. b.attempt \in Attempt /\ b.user \in Users \cup {None} /\ b.userAs \in Sessions \cup {"cache"}
  BY <1>0, <1>3
<1>7. Typed(b)
  BY <1>1, <1>2, <1>4, <1>6 DEF Typed, Same, TabFields
<1>8. Owned(b)
  BY <1>0, <1>1, <1>3, <1>5 DEF Owned
<1>9. Tickets(b)
  <2>1. attempt # None
    BY <1>0, NoneAssumption
  <2>2. ASSUME NEW c \in a.contexts
        PROVE  c.attempt.ticket.generation <= attempt.ticket.generation
               /\ Vouches(c.attempt.ticket, b, c.as) /\ ~c.attempt.ticket.late
    <3>1. a.attempt # None /\ c.attempt.ticket.generation <= a.attempt.ticket.generation
          /\ a.attempt.ticket.generation <= a.generation
          /\ Vouches(c.attempt.ticket, a, c.as) /\ ~c.attempt.ticket.late
      BY <1>1, <2>2 DEF Tickets
    <3>2. c.attempt.ticket.generation \in Nat /\ a.attempt.ticket.generation \in Nat /\ a.generation \in Nat
      BY <1>1, <2>2, <3>1 DEF Typed, Context, Attempt, Ticket
    <3>3. attempt.ticket.generation = a.generation
      BY <1>0 DEF a
    <3> QED BY <1>5, <3>1, <3>2, <3>3 DEF Vouches
  <2>3. a.generation \in Nat /\ attempt.ticket.generation = b.generation /\ b.cached # "unread" /\ b.ticket = None
        /\ (attempt.ticket.identity = "session" <=> b.cached # None)
    BY <1>0, <1>1, <1>5 DEF Typed, a
  <2> QED BY <1>0, <1>3, <1>5, <2>1, <2>2, <2>3 DEF Tickets
<1>10. Newest(b, version)
  BY <1>1, <1>2, NewestSame
<1>11. Heard(b, v.stored, n)
  BY <1>1, <1>2, <1>5 DEF Heard
<1>12. Core(v, n, d)
  BY <1>2, <1>5, <1>7, <1>8, <1>9, <1>10, <1>11 DEF Core, TabInv, a, b
<1> QED BY <1>2, <1>3, <1>12 DEF v, a, b

\* load forgets the ticket of the load before it
LEMMA ForgottenKeeps ==
    ASSUME NEW w, NEW n, NEW d, Core(w, n, d)
    PROVE  LET v == [Remembered(w) EXCEPT !.tab.ticket = None, !.tab.contextError = FALSE]
           IN  /\ Keeps(v, w, n, d) /\ v.stored = w.stored /\ v.record = w.record
               /\ Same(v.tab, w.tab, {"cached", "ticket", "contextError"})
               /\ v.tab.cached \in Sessions /\ v.tab.ticket = None /\ Token(v) = v.tab.cached
<1> DEFINE r == Remembered(w)  v == [r EXCEPT !.tab.ticket = None, !.tab.contextError = FALSE]
           a == r.tab  b == v.tab
<1>0. /\ Core(r, n, d) /\ (FromHere(w.tab) => FromHere(a)) /\ (Awaits(w.tab) => Awaits(a))
      /\ Same(a, w.tab, {"cached"}) /\ a.cached = Token(w) /\ Token(w) \in Sessions
      /\ r.stored = w.stored /\ r.record = w.record /\ r.sends = w.sends
  BY RememberedKeeps DEF Keeps
<1> HIDE DEF r, a
<1>1. World4(r) /\ Typed(a) /\ Owned(a) /\ Tickets(a) /\ Heard(a, r.stored, n) /\ Newest(a, version)
  BY <1>0 DEF Core, TabInv, a
<1>2. /\ World4(v) /\ v.stored = r.stored /\ v.record = r.record /\ v.sends = r.sends
      /\ Same(b, a, {"ticket", "contextError"})
  BY <1>1 DEF World4, Same, TabFields, Typed, a
<1>3. b.ticket = None /\ b.contextError = FALSE
  BY <1>1 DEF World4, TabFields, Typed, a
<1>4. b.contextError \in BOOLEAN
  BY <1>3, Zenon
<1> HIDE DEF v, b
<1>5. /\ b.generation = a.generation /\ b.contexts = a.contexts /\ b.attempt = a.attempt
      /\ b.cached = a.cached /\ b.open = a.open /\ b.loads = a.loads /\ b.dash = a.dash
  BY <1>2 DEF Same, TabFields
<1>6. Typed(b)
  BY <1>1, <1>2, <1>3, <1>4 DEF Typed, Same, TabFields
<1>7. Owned(b) /\ Newest(b, version) /\ (FromHere(a) => FromHere(b)) /\ (Awaits(a) => Awaits(b))
  BY <1>1, <1>2, OwnedSame, NewestSame, FromHereSame, AwaitsSame
<1>8. Tickets(b)
  BY <1>1, <1>3, <1>5 DEF Tickets, Vouches
<1>9. Heard(b, v.stored, n)
  BY <1>1, <1>2, <1>5 DEF Heard
<1>10. Core(v, n, d)
  BY <1>0, <1>2, <1>5, <1>6, <1>7, <1>8, <1>9 DEF Core, TabInv, a, b
<1>11. Same(b, w.tab, {"cached", "ticket", "contextError"}) /\ b.cached \in Sessions
  BY <1>0, <1>2, <1>5 DEF Same, TabFields
<1>12. Token(v) = b.cached
  BY <1>11, ClientStartAssumption DEF Token, Sessions, b
<1> QED BY <1>0, <1>2, <1>3, <1>7, <1>10, <1>11, <1>12 DEF Keeps, v, b, r

\* the fields that only choose the screen
LEMMA ScreenFieldsKeep ==
    ASSUME NEW w, NEW v, NEW n, NEW d, NEW S, Core(w, n, d), World4(v),
           v.stored = w.stored, v.record = w.record, v.sends = w.sends, Same(v.tab, w.tab, S),
           S \subseteq {"needsLogin", "needsAccount", "loading", "error"},
           v.tab.needsLogin \in BOOLEAN, v.tab.needsAccount \in BOOLEAN, v.tab.loading \in BOOLEAN,
           v.tab.error \in BOOLEAN
    PROVE  Keeps(v, w, n, d)
<1> DEFINE a == w.tab  b == v.tab
<1>1. Typed(a) /\ Owned(a) /\ Tickets(a) /\ Heard(a, w.stored, n) /\ Newest(a, version)
  BY DEF Core, TabInv
<1> HIDE DEF a, b
<1>2. Same(b, a, S)
  BY DEF a, b
<1>3. Owned(b) /\ Newest(b, version) /\ (FromHere(a) => FromHere(b)) /\ (Awaits(a) => Awaits(b))
  BY <1>1, <1>2, OwnedSame, NewestSame, FromHereSame, AwaitsSame
<1>4. Tickets(b)
  BY <1>1, <1>2, TicketsSame
<1>5. /\ b.cached = a.cached /\ b.open = a.open /\ b.dash = a.dash
  BY <1>2 DEF Same, TabFields
<1>6. Typed(b)
  <2>1. b.needsLogin \in BOOLEAN /\ b.needsAccount \in BOOLEAN /\ b.loading \in BOOLEAN /\ b.error \in BOOLEAN
    BY DEF b
  <2> QED BY <1>1, <1>2, <2>1 DEF Typed, Same, TabFields
<1>7. Heard(b, v.stored, n)
  BY <1>1, <1>5 DEF Heard
<1>8. Core(v, n, d)
  BY <1>3, <1>4, <1>5, <1>6, <1>7 DEF Core, TabInv, a, b
<1> QED BY <1>3, <1>8 DEF Keeps, a, b

LEMMA LoadKeeps ==
    ASSUME NEW w, NEW n, NEW d, NEW fromCache \in BOOLEAN, Core(w, n, d), Served, Awaits(w.tab),
           fromCache => ~w.tab.dash.on
    PROVE  LET v == load(w, fromCache)
           IN  /\ Core(v, n, d) /\ FromHere(v.tab) /\ Awaits(v.tab) /\ Settled(v.tab)
               /\ v.stored = w.stored
<1> DEFINE r == [Remembered(w) EXCEPT !.tab.ticket = None, !.tab.contextError = FALSE]
           identity == Identity(r)
           read == IF fromCache THEN readStart(r, identity) ELSE r
           start == IF fromCache THEN read.tab.snapshot ELSE None
           attempt == [ticket |-> [identity |-> identity, generation |-> r.tab.generation, late |-> FALSE],
                       cachedUser |-> IF start = None THEN None ELSE start.user]
           loading == (start = None)
           user == IF start = None THEN read.tab.user ELSE start.user
           userAs == IF start = None THEN read.tab.userAs ELSE "cache"
           begun == Begun(read, attempt, loading, user, userAs)
           out == [r EXCEPT !.tab.needsLogin = TRUE, !.tab.needsAccount = FALSE, !.tab.loading = FALSE]
           v == load(w, fromCache)
<1>1. v = Rendered(IF SignedIn(r) THEN fetchContext(begun, attempt) ELSE out)
  BY DEF load, Begun
<1>2. /\ Core(r, n, d) /\ Awaits(r.tab) /\ r.stored = w.stored
      /\ Same(r.tab, w.tab, {"cached", "ticket", "contextError"})
      /\ r.tab.cached \in Sessions /\ r.tab.ticket = None /\ Token(r) = r.tab.cached
  BY ForgottenKeeps DEF Keeps
<1> HIDE DEF v, r
<1>3. Typed(r.tab) /\ World4(r) /\ r.tab.open /\ r.tab.dash = w.tab.dash
  BY <1>2 DEF Core, TabInv, Same, TabFields
<1>4. CASE SignedIn(r)
  <2>1. identity \in {"session", "tg"} /\ (identity = "session" <=> r.tab.cached # None)
    BY <1>2, <1>4 DEF Identity, SignedIn
  <2> HIDE DEF identity
  <2>2. /\ Core(read, n, d) /\ Awaits(read.tab) /\ read.stored = r.stored
        /\ Same(read.tab, r.tab, {"snapshot"})
    <3>1. CASE fromCache
      BY <1>2, <3>1, ReadStartKeeps DEF Keeps
    <3>2. CASE ~fromCache
      BY <1>2, <1>3, <3>2 DEF Same, Typed
    <3> QED BY <3>1, <3>2
  <2> HIDE DEF read
  <2>3. /\ read.tab.cached = r.tab.cached /\ read.tab.generation = r.tab.generation
        /\ read.tab.ticket = r.tab.ticket /\ read.tab.dash = r.tab.dash /\ read.tab.open = r.tab.open
    BY <2>2 DEF Same, TabFields
  <2>4. Typed(read.tab) /\ Owned(read.tab) /\ Newest(read.tab, version)
    BY <2>2 DEF Core, TabInv
  <2>5. start = None \/ start \in Snapshot
    BY <2>4 DEF Typed
  <2>6. loading \in BOOLEAN
    OBVIOUS
  <2>7. /\ user \in Users \cup {None} /\ userAs \in Sessions \cup {"cache"}
        /\ user # None => SpeaksFor(userAs, user)
        /\ (start = None \/ user \in Users)
    <3>1. CASE start = None
      BY <2>4, <3>1 DEF Typed, Owned
    <3>2. CASE start # None
      BY <2>5, <3>2, ClientStartAssumption DEF Snapshot, SpeaksFor
    <3> QED BY <3>1, <3>2
  <2>8. attempt \in Attempt
    <3>1. r.tab.generation \in Nat
      BY <1>3 DEF Typed
    <3>2. (IF start = None THEN None ELSE start.user) \in Users \cup {None}
      BY <2>5 DEF Snapshot
    <3> HIDE DEF start
    <3> QED BY <2>1, <3>1, <3>2 DEF Attempt, Ticket
  <2>9. attempt.ticket.generation = r.tab.generation /\ ~attempt.ticket.late
        /\ attempt.ticket.identity = identity
    OBVIOUS
  <2>10. loading \/ (fromCache /\ user \in Users)
    BY <2>7
  <2> HIDE DEF attempt, user, userAs, loading, start
  <2>11. /\ Core(begun, n, d) /\ begun.stored = read.stored
         /\ begun.tab.attempt = attempt /\ begun.tab.loading = loading /\ begun.tab.user = user
         /\ begun.tab.needsLogin = FALSE /\ begun.tab.needsAccount = FALSE /\ begun.tab.error = FALSE
         /\ Same(begun.tab, read.tab, {"needsLogin", "needsAccount", "error", "attempt", "loading",
                                      "user", "userAs"})
    <3>1. read.tab.ticket = None /\ read.tab.cached # "unread"
      BY <1>2, <2>3, ClientStartAssumption DEF Sessions
    <3>2. attempt.ticket.identity = "session" <=> read.tab.cached # None
      BY <2>1, <2>3, <2>9
    <3>3. attempt.ticket.generation = read.tab.generation /\ ~attempt.ticket.late
      BY <2>3, <2>9
    <3>4. MayBegin(read, attempt, loading, user, userAs)
      BY <2>6, <2>7, <2>8, <3>1, <3>2, <3>3 DEF MayBegin
    <3> QED BY <2>2, <3>4, BegunKeeps
  <2> HIDE DEF begun
  <2>12. begun.tab.dash = w.tab.dash /\ begun.tab.loads = read.tab.loads /\ begun.tab.open
    BY <1>3, <2>3, <2>11 DEF Same, TabFields
  <2>13. Awaits(begun.tab)
    BY <2>2, <2>11, AwaitsSame
  <2> DEFINE f == fetchContext(begun, attempt)
  <2>14. /\ Core(f, n, d) /\ Awaits(f.tab) /\ f.stored = begun.stored /\ f.tab.contexts # {}
         /\ Same(f.tab, begun.tab, {"cached", "contextError", "sent", "contexts"})
    <3>1. begun.tab.attempt # None
      BY <2>8, <2>11, NoneAssumption
    <3> QED BY <2>11, <2>13, <3>1, FetchKeeps DEF Keeps
  <2> HIDE DEF f
  <2>15. /\ f.tab.open /\ f.tab.loading = loading /\ f.tab.dash = w.tab.dash
    BY <2>11, <2>12, <2>14 DEF Same, TabFields
  <2>16. FromHere(f.tab) \/ Screen(f.tab) # "app"
    <3>1. CASE loading
      BY <2>15, <3>1 DEF Screen
    <3>2. CASE fromCache
      BY <2>14, <2>15, <3>2, NothingShown DEF Core, TabInv
    <3> QED BY <2>10, <3>1, <3>2
  <2>17. v = Rendered(f)
    BY <1>1, <1>4 DEF Begun, f, begun, attempt, user, userAs, loading, start, read, identity
  <2> QED BY <1>2, <2>2, <2>11, <2>14, <2>16, <2>17, RenderedKeeps DEF v
<1>5. CASE ~SignedIn(r)
  <2>1. /\ World4(out) /\ out.stored = r.stored /\ out.record = r.record /\ out.sends = r.sends
        /\ Same(out.tab, r.tab, {"needsLogin", "needsAccount", "loading"})
    BY <1>3 DEF World4, Same, TabFields, Typed
  <2>2. out.tab.needsLogin = TRUE /\ out.tab.needsAccount = FALSE /\ out.tab.loading = FALSE
    BY <1>3 DEF World4, TabFields, Typed
  <2>3. out.tab.needsLogin \in BOOLEAN /\ out.tab.needsAccount \in BOOLEAN /\ out.tab.loading \in BOOLEAN
    BY <2>2, Zenon
  <2> HIDE DEF out
  <2>8. out.tab.error \in BOOLEAN
    BY <1>3, <2>1 DEF Same, TabFields, Typed
  <2>4. Core(out, n, d) /\ Awaits(out.tab)
    BY <1>2, <2>1, <2>3, <2>8, ScreenFieldsKeep DEF Keeps
  <2>5. out.tab.open
    BY <2>4 DEF Core
  <2>6. Screen(out.tab) = "login"
    BY <2>2, <2>5 DEF Screen
  <2>7. v = Rendered(out)
    BY <1>1, <1>5 DEF out
  <2> QED BY <1>2, <2>1, <2>4, <2>6, <2>7, RenderedKeeps DEF v
<1> QED BY <1>4, <1>5

(***************************************************************************)
(* The context answers.                                                     *)
(***************************************************************************)
\* the fields that only choose the screen, and who is not known
LEMMA NobodyKeeps ==
    ASSUME NEW w, NEW v, NEW n, NEW d, NEW S, Core(w, n, d), World4(v),
           v.stored = w.stored, v.record = w.record, v.sends = w.sends, Same(v.tab, w.tab, S),
           S \subseteq {"needsLogin", "needsAccount", "loading", "error", "user", "contextError"},
           v.tab.needsLogin \in BOOLEAN, v.tab.needsAccount \in BOOLEAN, v.tab.loading \in BOOLEAN,
           v.tab.error \in BOOLEAN, v.tab.contextError \in BOOLEAN,
           v.tab.user = None \/ v.tab.user = w.tab.user,
           w.tab.attempt # None \/ v.tab.contextError = w.tab.contextError
    PROVE  Keeps(v, w, n, d)
<1> DEFINE a == w.tab  b == v.tab
<1>1. Typed(a) /\ Owned(a) /\ Tickets(a) /\ Heard(a, w.stored, n) /\ Newest(a, version)
  BY DEF Core, TabInv
<1>2. /\ Same(b, a, S) /\ (b.user = None \/ b.user = a.user)
      /\ b.contextError \in BOOLEAN
      /\ (a.attempt # None \/ b.contextError = a.contextError)
  OBVIOUS
<1>3. b.needsLogin \in BOOLEAN /\ b.needsAccount \in BOOLEAN /\ b.loading \in BOOLEAN /\ b.error \in BOOLEAN
  OBVIOUS
<1> HIDE DEF a, b
<1>4. Newest(b, version) /\ (FromHere(a) => FromHere(b)) /\ (Awaits(a) => Awaits(b))
  BY <1>1, <1>2, NewestSame, FromHereSame, AwaitsSame
<1>5. /\ b.cached = a.cached /\ b.open = a.open /\ b.dash = a.dash /\ b.contexts = a.contexts
      /\ b.loads = a.loads /\ b.userAs = a.userAs /\ b.attempt = a.attempt /\ b.ticket = a.ticket
      /\ b.generation = a.generation
  BY <1>2 DEF Same, TabFields
<1>6. Owned(b)
  BY <1>1, <1>2, <1>5 DEF Owned
<1>7. Tickets(b)
  BY <1>1, <1>2, <1>5 DEF Tickets, Vouches
<1>8. Typed(b)
  <2>1. b.user \in Users \cup {None}
    BY <1>1, <1>2 DEF Typed
  <2> QED BY <1>1, <1>2, <1>3, <2>1 DEF Typed, Same, TabFields
<1>9. Heard(b, v.stored, n)
  BY <1>1, <1>5 DEF Heard
<1>10. Core(v, n, d)
  BY <1>4, <1>5, <1>6, <1>7, <1>8, <1>9 DEF Core, TabInv, a, b
<1> QED BY <1>4, <1>10 DEF Keeps, a, b

Known(w, user, userAs, ticket) ==
    [w EXCEPT !.tab.user = user, !.tab.userAs = userAs, !.tab.ticket = ticket]

LEMMA KnownKeeps ==
    ASSUME NEW w, NEW n, NEW d, Core(w, n, d), NEW user \in Users, NEW userAs \in Sessions,
           NEW ticket \in Ticket, SpeaksFor(userAs, user),
           ~ticket.late => /\ w.tab.attempt # None
                           /\ ticket.generation <= w.tab.attempt.ticket.generation
                           /\ Vouches(ticket, w.tab, userAs)
    PROVE  LET v == Known(w, user, userAs, ticket)
           IN  /\ Keeps(v, w, n, d) /\ v.stored = w.stored
               /\ Same(v.tab, w.tab, {"user", "userAs", "ticket"}) /\ v.tab.user = user
<1> DEFINE v == Known(w, user, userAs, ticket)  a == w.tab  b == v.tab
<1>1. World4(w) /\ Typed(a) /\ Owned(a) /\ Tickets(a) /\ Heard(a, w.stored, n) /\ Newest(a, version)
  BY DEF Core, TabInv
<1>2. /\ World4(v) /\ v.stored = w.stored /\ v.record = w.record /\ v.sends = w.sends
      /\ Same(b, a, {"user", "userAs", "ticket"})
  BY <1>1 DEF World4, Same, TabFields, Typed, Known
<1>3. b.user = user /\ b.userAs = userAs /\ b.ticket = ticket
  BY <1>1 DEF World4, TabFields, Typed, Known
<1> HIDE DEF v, a, b
<1>4. /\ b.cached = a.cached /\ b.open = a.open /\ b.dash = a.dash /\ b.contexts = a.contexts
      /\ b.loads = a.loads /\ b.attempt = a.attempt /\ b.contextError = a.contextError
      /\ b.generation = a.generation
  BY <1>2 DEF Same, TabFields
<1>5. Newest(b, version) /\ (FromHere(a) => FromHere(b)) /\ (Awaits(a) => Awaits(b))
  BY <1>1, <1>2, NewestSame, FromHereSame, AwaitsSame
<1>6. Typed(b)
  BY <1>1, <1>2, <1>3 DEF Typed, Same, TabFields
<1>7. Owned(b)
  BY <1>1, <1>3, <1>4 DEF Owned
<1>8. Tickets(b)
  <2>1. ~ticket.late => /\ a.attempt # None /\ ticket.generation <= a.attempt.ticket.generation
                        /\ Vouches(ticket, b, userAs)
    BY <1>4 DEF Vouches, a
  <2> QED BY <1>1, <1>3, <1>4, <2>1 DEF Tickets, Vouches
<1>9. Heard(b, v.stored, n)
  BY <1>1, <1>2, <1>4 DEF Heard
<1>10. Core(v, n, d)
  BY <1>2, <1>4, <1>5, <1>6, <1>7, <1>8, <1>9 DEF Core, TabInv, a, b
<1> QED BY <1>2, <1>3, <1>5, <1>10 DEF Keeps, v, a, b

\* a page that React has rendered, and any world on the way to it
Whole(w, n, d) == Core(w, n, d) /\ FromHere(w.tab) /\ Awaits(w.tab)

LEMMA WholeRendered ==
    ASSUME NEW w, NEW n, NEW d, Whole(w, n, d), Served, Screen(w.tab) # "splash"
    PROVE  Whole(Rendered(w), n, d) /\ Settled(Rendered(w).tab)
<1> DEFINE v == Rendered(w)
<1> HIDE DEF v
<1>1. Core(v, n, d) /\ FromHere(v.tab) /\ Awaits(v.tab) /\ Settled(v.tab)
  BY RenderedKeeps DEF Whole, v
<1> QED BY <1>1 DEF Whole, v

LEMMA NotSplash ==
    ASSUME NEW a, a.open, a.loading = FALSE PROVE Screen(a) # "splash"
  BY DEF Screen

\* the context that answers was asked for by this load or an earlier one
Answerable(w, c) ==
    /\ c.as \in Sessions /\ c.attempt \in Attempt /\ ~c.attempt.ticket.late
    /\ w.tab.attempt # None /\ c.attempt.ticket.generation <= w.tab.attempt.ticket.generation
    /\ Vouches(c.attempt.ticket, w.tab, c.as)

LEMMA LoadingEnds ==
    ASSUME NEW w, NEW n, NEW d, Whole(w, n, d)
    PROVE  LET v == [w EXCEPT !.tab.loading = FALSE]
           IN  Whole(v, n, d) /\ Same(v.tab, w.tab, {"loading"}) /\ v.tab.loading = FALSE /\ v.tab.open
<1> DEFINE v == [w EXCEPT !.tab.loading = FALSE]
<1>1. World4(w) /\ Typed(w.tab) /\ w.tab.open
  BY DEF Whole, Core, TabInv
<1>2. /\ World4(v) /\ v.stored = w.stored /\ v.record = w.record /\ v.sends = w.sends
      /\ Same(v.tab, w.tab, {"loading"})
  BY <1>1 DEF World4, Same, TabFields, Typed
<1>3. v.tab.loading = FALSE
  BY <1>1 DEF World4, TabFields, Typed
<1>4. v.tab.loading \in BOOLEAN
  BY <1>3, Zenon
<1> HIDE DEF v
<1>5. v.tab.needsLogin \in BOOLEAN /\ v.tab.needsAccount \in BOOLEAN /\ v.tab.error \in BOOLEAN
      /\ v.tab.contextError \in BOOLEAN /\ v.tab.user = w.tab.user /\ v.tab.contextError = w.tab.contextError
      /\ v.tab.open
  BY <1>1, <1>2 DEF Same, TabFields, Typed
<1>6. Keeps(v, w, n, d)
  BY <1>2, <1>4, <1>5, NobodyKeeps DEF Whole
<1> QED BY <1>2, <1>3, <1>5, <1>6 DEF Whole, Keeps, v

\* getUserContext knows the user
LEMMA UserAnswerKeeps ==
    ASSUME NEW w, NEW d, NEW t \in Tabs, events[t] \in Nat, Whole(w, events[t], d), Served,
           NEW c, Answerable(w, c), NEW answer \in Users, SpeaksFor(c.as, answer)
    PROVE  LET v == ContextAnswer(w, t, c, answer) IN Whole(v, events[t], d) /\ Settled(v.tab)
<1> DEFINE done == [w EXCEPT !.tab.loading = FALSE]
           stranger == answer \in Users /\ c.attempt.cachedUser \notin {None, answer}
           fresh == IF stranger THEN clearStart(done) ELSE done
           ticket == IF stranger THEN [c.attempt.ticket EXCEPT !.generation = fresh.tab.generation,
                                                                    !.late = TRUE]
                              ELSE c.attempt.ticket
           x == Known(fresh, answer, c.as, ticket)
           v == ContextAnswer(w, t, c, answer)
           n == events[t]
<1>1. v = writeStart(Rendered(x), t)
  BY ClientStartAssumption DEF ContextAnswer, Known, NoAccount, Refused, Down
<1>2. Whole(done, n, d) /\ Same(done.tab, w.tab, {"loading"}) /\ done.tab.loading = FALSE /\ done.tab.open
  BY LoadingEnds
<1> HIDE DEF done, v
<1>3. Whole(fresh, n, d) /\ Same(fresh.tab, done.tab, {"generation", "snapshot"}) /\ (~stranger => fresh = done)
  <2>1. CASE stranger
    BY <1>2, <2>1, ClearKeeps DEF Whole, Keeps
  <2>2. CASE ~stranger
    <3>1. fresh = done
      BY <2>2
    <3>2. Typed(done.tab)
      BY <1>2 DEF Whole, Core, TabInv
    <3>3. Same(done.tab, done.tab, {"generation", "snapshot"})
      BY <3>2 DEF Typed, Same
    <3> HIDE DEF fresh
    <3> QED BY <1>2, <3>1, <3>3
  <2> QED BY <2>1, <2>2
<1> HIDE DEF fresh
<1>4. fresh.tab.loading = FALSE /\ fresh.tab.open /\ fresh.tab.attempt = w.tab.attempt
      /\ fresh.tab.cached = w.tab.cached /\ fresh.tab.generation \in Nat
      /\ (~stranger => fresh.tab.generation = w.tab.generation)
  <2>1. fresh.tab.generation \in Nat
    BY <1>3 DEF Whole, Core, TabInv, Typed
  <2> QED BY <1>2, <1>3, <2>1 DEF Same, TabFields
<1>5. ticket \in Ticket /\ (~ticket.late => ~stranger /\ ticket = c.attempt.ticket)
  BY <1>4 DEF Answerable, Attempt, Ticket
<1> HIDE DEF ticket, stranger
<1>6. ~ticket.late => /\ fresh.tab.attempt # None
                      /\ ticket.generation <= fresh.tab.attempt.ticket.generation
                      /\ Vouches(ticket, fresh.tab, c.as)
  BY <1>4, <1>5 DEF Answerable, Vouches
<1>7. Keeps(x, fresh, n, d) /\ Same(x.tab, fresh.tab, {"user", "userAs", "ticket"})
  BY <1>3, <1>5, <1>6, KnownKeeps DEF Whole, Answerable
<1> HIDE DEF x
<1>8. Whole(x, n, d)
  BY <1>3, <1>7 DEF Whole, Keeps
<1>9. Screen(x.tab) # "splash"
  <2>1. x.tab.open /\ x.tab.loading = FALSE
    BY <1>4, <1>7 DEF Same, TabFields
  <2> QED BY <2>1, NotSplash
<1> DEFINE y == Rendered(x)
<1>10. Whole(y, n, d) /\ Settled(y.tab)
  BY <1>8, <1>9, WholeRendered
<1> HIDE DEF y
<1>11. Core(v, n, d) /\ v.tab = y.tab
  BY <1>1, <1>10, WriteKeeps DEF Whole, Settled, y
<1> QED BY <1>10, <1>11 DEF Whole, v

\* what useAuth sets when the user is not known
Unknown(w) == {[w EXCEPT !.tab.user = None, !.tab.needsAccount = TRUE],
               [w EXCEPT !.tab.user = None, !.tab.needsLogin = TRUE],
               [w EXCEPT !.tab.user = None, !.tab.error = TRUE],
               [w EXCEPT !.tab.contextError = TRUE]}

LEMMA UnknownKeeps ==
    ASSUME NEW w, NEW n, NEW d, Whole(w, n, d), w.tab.loading = FALSE, w.tab.attempt # None,
           NEW v \in Unknown(w)
    PROVE  Whole(v, n, d) /\ Screen(v.tab) # "splash"
<1> DEFINE S == {"needsLogin", "needsAccount", "error", "user", "contextError"}
<1>1. World4(w) /\ Typed(w.tab) /\ w.tab.open
  BY DEF Whole, Core, TabInv
<1>2. /\ World4(v) /\ v.stored = w.stored /\ v.record = w.record /\ v.sends = w.sends
      /\ Same(v.tab, w.tab, S)
      /\ v.tab.user \in {None, w.tab.user}
      /\ v.tab.needsLogin \in {w.tab.needsLogin, TRUE} /\ v.tab.needsAccount \in {w.tab.needsAccount, TRUE}
      /\ v.tab.error \in {w.tab.error, TRUE} /\ v.tab.contextError \in {w.tab.contextError, TRUE}
  <2>1. CASE v = [w EXCEPT !.tab.user = None, !.tab.needsAccount = TRUE]
    BY <1>1, <2>1 DEF World4, Same, TabFields, Typed
  <2>2. CASE v = [w EXCEPT !.tab.user = None, !.tab.needsLogin = TRUE]
    BY <1>1, <2>2 DEF World4, Same, TabFields, Typed
  <2>3. CASE v = [w EXCEPT !.tab.user = None, !.tab.error = TRUE]
    BY <1>1, <2>3 DEF World4, Same, TabFields, Typed
  <2>4. CASE v = [w EXCEPT !.tab.contextError = TRUE]
    BY <1>1, <2>4 DEF World4, Same, TabFields, Typed
  <2> QED BY <2>1, <2>2, <2>3, <2>4 DEF Unknown
<1>5. v.tab.needsLogin \in BOOLEAN /\ v.tab.needsAccount \in BOOLEAN
      /\ v.tab.error \in BOOLEAN /\ v.tab.contextError \in BOOLEAN
  <2>1. w.tab.needsLogin \in BOOLEAN /\ w.tab.needsAccount \in BOOLEAN /\ w.tab.error \in BOOLEAN
        /\ w.tab.contextError \in BOOLEAN
    BY <1>1 DEF Typed
  <2> QED BY <1>2, <2>1, Zenon
<1>6. v.tab.loading \in BOOLEAN /\ v.tab.loading = w.tab.loading /\ v.tab.open
  BY <1>1, <1>2 DEF Same, TabFields, Typed
<1>7. Keeps(v, w, n, d)
  BY <1>2, <1>5, <1>6, NobodyKeeps DEF Whole
<1> QED BY <1>6, <1>7, NotSplash DEF Whole, Keeps

LEMMA OtherAnswerKeeps ==
    ASSUME NEW w, NEW d, NEW t \in Tabs, NEW n, Whole(w, n, d), Served,
           NEW c, Answerable(w, c), NEW answer \in {NoAccount, Refused, Down}
    PROVE  LET v == ContextAnswer(w, t, c, answer) IN Whole(v, n, d) /\ Settled(v.tab)
<1> DEFINE done == [w EXCEPT !.tab.loading = FALSE]
           dropped == IF answer = Refused /\ c.as # None THEN setSessionToken(done, None) ELSE done
           wiped == IF answer \in {Refused, NoAccount} THEN clearStart(dropped) ELSE dropped
           x == IF answer = NoAccount THEN [wiped EXCEPT !.tab.user = None, !.tab.needsAccount = TRUE]
                ELSE IF ~SignedIn(wiped)
                        THEN [wiped EXCEPT !.tab.user = None, !.tab.needsLogin = TRUE]
                        ELSE IF c.attempt.cachedUser # None /\ answer = Down
                        THEN [wiped EXCEPT !.tab.contextError = TRUE]
                        ELSE [wiped EXCEPT !.tab.user = None, !.tab.error = TRUE]
           v == ContextAnswer(w, t, c, answer)
<1>1. v = Rendered(x)
  <2>1. answer \notin Users
    BY ClientStartAssumption DEF NoAccount, Refused, Down
  <2>2. CASE answer = NoAccount
    BY <2>1, <2>2 DEF ContextAnswer, NoAccount, Refused, Down
  <2>3. CASE answer # NoAccount
    <3>1. v = Rendered(IF ~SignedIn(wiped)
                        THEN [wiped EXCEPT !.tab.user = None, !.tab.needsLogin = TRUE]
                        ELSE IF c.attempt.cachedUser # None /\ answer = Down
                        THEN [wiped EXCEPT !.tab.contextError = TRUE]
                        ELSE [wiped EXCEPT !.tab.user = None, !.tab.error = TRUE])
      BY <2>1, <2>3 DEF ContextAnswer
    <3> QED BY <2>3, <3>1
  <2> QED BY <2>2, <2>3
<1>2. Whole(done, n, d) /\ Same(done.tab, w.tab, {"loading"}) /\ done.tab.loading = FALSE /\ done.tab.open
  BY LoadingEnds
<1> HIDE DEF done, v
<1>3. Same(done.tab, done.tab, {})
  BY <1>2 DEF Same
<1>4. /\ Whole(dropped, n, d)
      /\ Same(dropped.tab, done.tab, {"cached", "generation", "snapshot"})
  <2>1. CASE answer = Refused /\ c.as # None
    <3>1. None \in Sessions
      BY DEF Sessions
    <3>2. dropped = setSessionToken(done, None)
      BY <2>1
    <3> HIDE DEF dropped
    <3> QED BY <1>2, <3>1, <3>2, SetTokenKeeps DEF Whole, Keeps
  <2>2. CASE ~(answer = Refused /\ c.as # None)
    <3>1. dropped = done
      BY <2>2
    <3> HIDE DEF dropped
    <3> QED BY <1>2, <1>3, <3>1 DEF Same
  <2> QED BY <2>1, <2>2
<1> HIDE DEF dropped
<1>5. Whole(wiped, n, d) /\ Same(wiped.tab, dropped.tab, {"generation", "snapshot"})
  <2>1. CASE answer \in {Refused, NoAccount}
    <3>1. wiped = clearStart(dropped)
      BY <2>1
    <3> HIDE DEF wiped
    <3> QED BY <1>4, <3>1, ClearKeeps DEF Whole, Keeps
  <2>2. CASE ~(answer \in {Refused, NoAccount})
    <3>1. wiped = dropped
      BY <2>2
    <3> HIDE DEF wiped
    <3> QED BY <1>4, <3>1 DEF Same
  <2> QED BY <2>1, <2>2
<1> HIDE DEF wiped
<1>6. wiped.tab.loading = FALSE /\ wiped.tab.attempt # None
  BY <1>2, <1>4, <1>5 DEF Same, TabFields, Answerable
<1>7. x \in Unknown(wiped)
  BY Zenon DEF Unknown
<1> HIDE DEF x
<1>8. Whole(x, n, d) /\ Screen(x.tab) # "splash"
  BY <1>5, <1>6, <1>7, UnknownKeeps
<1> QED BY <1>1, <1>8, WholeRendered DEF v

(***************************************************************************)
(* The overview answers.                                                    *)
(***************************************************************************)
\* an overview is as new as the one it replaces
NotOlder(new, old) ==
    old.on /\ new.on /\ old.fresh /\ old.shown # None /\ new.shown # None
        /\ old.shown.user = new.shown.user /\ new.fresh
    => new.shown.version >= old.shown.version

LEMMA CoreNotOlder ==
    ASSUME NEW w, NEW n, NEW d, Core(w, n, d) PROVE NotOlder(w.tab.dash, d)
<1> DEFINE new == w.tab.dash
<1>1. Typed(w.tab) /\ (new.on /\ new.fresh /\ new.shown # None => d.on /\ d.shown = new.shown)
  BY DEF Core, TabInv
<1> SUFFICES ASSUME d.on, new.on, d.fresh, d.shown # None, new.shown # None, new.fresh
             PROVE  new.shown.version >= d.shown.version
  BY DEF NotOlder
<1>2. new \in Dash
  BY <1>1 DEF Typed, NoDashboard
<1>3. new.shown.version \in Nat
  BY <1>2 DEF Dash, Data
<1> QED BY <1>1, <1>3

LEMMA SettledSame ==
    ASSUME NEW a, NEW b, NEW S, Same(b, a, S), Settled(a), b.dash.on = a.dash.on,
           a.dash.on => b.dash.user = a.dash.user,
           {"open", "loading", "needsLogin", "needsAccount", "error", "user", "contexts"} \cap S = {}
    PROVE  Settled(b)
<1>1. Screen(b) = Screen(a)
  BY ScreenSame
<1>2. b.user = a.user /\ b.contexts = a.contexts
  BY DEF Same, TabFields
<1> QED BY <1>1, <1>2 DEF Settled

LEMMA AnsweredKeeps ==
    ASSUME NEW w, NEW n, NEW d, Core(w, n, d), NEW l \in w.tab.loads
    PROVE  LET v == [w EXCEPT !.tab.loads = @ \ {l}]
           IN  /\ Core(v, n, d) /\ (FromHere(w.tab) => FromHere(v.tab))
               /\ v.stored = w.stored /\ Same(v.tab, w.tab, {"loads"})
               /\ v.tab.loads = w.tab.loads \ {l}
<1> DEFINE v == [w EXCEPT !.tab.loads = @ \ {l}]  a == w.tab  b == v.tab
<1>1. World4(w) /\ Typed(a) /\ Owned(a) /\ Tickets(a) /\ Heard(a, w.stored, n) /\ Newest(a, version)
  BY DEF Core, TabInv
<1>2. /\ World4(v) /\ v.stored = w.stored /\ v.record = w.record /\ v.sends = w.sends
      /\ Same(b, a, {"loads"})
  BY <1>1 DEF World4, Same, TabFields, Typed
<1>3. b.loads = a.loads \ {l}
  BY <1>1 DEF World4, TabFields, Typed
<1> HIDE DEF v, a, b
<1>4. /\ b.attempt = a.attempt /\ b.generation = a.generation /\ b.contexts = a.contexts
      /\ b.cached = a.cached /\ b.ticket = a.ticket /\ b.user = a.user /\ b.userAs = a.userAs
      /\ b.open = a.open /\ b.dash = a.dash
  BY <1>2 DEF Same, TabFields
<1>5. Typed(b)
  BY <1>1, <1>2, <1>3 DEF Typed, Same, TabFields
<1>6. Owned(b)
  BY <1>1, <1>3, <1>4 DEF Owned
<1>7. Tickets(b)
  BY <1>1, <1>2, TicketsSame
<1>8. Newest(b, version)
  BY <1>1, <1>3, <1>4 DEF Newest
<1>9. FromHere(a) => FromHere(b)
  BY <1>3, <1>4 DEF FromHere
<1>10. Heard(b, v.stored, n)
  BY <1>1, <1>2, <1>4 DEF Heard
<1>11. Core(v, n, d)
  BY <1>2, <1>4, <1>5, <1>6, <1>7, <1>8, <1>10 DEF Core, TabInv, a, b
<1> QED BY <1>2, <1>3, <1>9, <1>11 DEF v, a, b

\* a late answer, or one to pages that are gone, ends no wait of the screen
LEMMA OthersAwaited ==
    ASSUME NEW a, NEW b, NEW l, Awaits(a), b.dash = a.dash, b.loads = a.loads \ {l},
           ~(l.latest /\ l.mounted)
    PROVE  Awaits(b)
  BY DEF Awaits

Shown(w, data) ==
    [w EXCEPT !.tab.dash.shown = data, !.tab.dash.fresh = TRUE,
              !.tab.dash.failed = FALSE, !.tab.dash.loading = FALSE,
              !.tab.dash.refreshing = FALSE, !.tab.dash.prices = TRUE]

LEMMA ShownKeeps ==
    ASSUME NEW w, NEW n, NEW d, Core(w, n, d), w.tab.dash.on, NEW data \in Data,
           SpeaksFor(data.as, data.user), data.as \in Sessions, data.version <= version[data.user],
           \A k \in w.tab.loads : ~k.latest
    PROVE  LET v == Shown(w, data)
           IN  /\ Core(v, n, v.tab.dash) /\ Awaits(v.tab) /\ v.stored = w.stored
               /\ (FromHere(w.tab) /\ (w.tab.attempt # None
                       /\ w.tab.attempt.ticket.generation = w.tab.generation => data.as = w.tab.cached)
                     => FromHere(v.tab))
               /\ Same(v.tab, w.tab, {"dash"}) /\ v.tab.dash.shown = data
               /\ v.tab.dash.on /\ v.tab.dash.user = w.tab.dash.user
<1> DEFINE v == Shown(w, data)  a == w.tab  b == v.tab
<1>1. World4(w) /\ Typed(a) /\ Owned(a) /\ Tickets(a) /\ Heard(a, w.stored, n) /\ Newest(a, version)
  BY DEF Core, TabInv
<1>2. a.dash \in Dash
  BY <1>1 DEF Typed, NoDashboard
<1>3. /\ World4(v) /\ v.stored = w.stored /\ v.record = w.record /\ v.sends = w.sends
      /\ Same(b, a, {"dash"})
  BY <1>1 DEF World4, Same, TabFields, Typed, Shown
<1>4. b.dash = [a.dash EXCEPT !.shown = data, !.fresh = TRUE, !.failed = FALSE, !.loading = FALSE,
                              !.refreshing = FALSE, !.prices = TRUE]
  BY <1>1, <1>2 DEF World4, TabFields, Typed, Dash, Shown
<1> HIDE DEF v, a, b
<1>5. /\ b.dash \in Dash /\ b.dash.shown = data /\ b.dash.on /\ b.dash.user = a.dash.user
      /\ ~b.dash.loading /\ ~b.dash.refreshing
  BY <1>2, <1>4 DEF Dash
<1>6. /\ b.attempt = a.attempt /\ b.generation = a.generation /\ b.contexts = a.contexts
      /\ b.cached = a.cached /\ b.ticket = a.ticket /\ b.user = a.user /\ b.userAs = a.userAs
      /\ b.open = a.open /\ b.loads = a.loads
  BY <1>3 DEF Same, TabFields
<1>7. Typed(b)
  BY <1>1, <1>3, <1>5 DEF Typed, Same, TabFields
<1>8. Owned(b)
  BY <1>1, <1>5, <1>6, ClientStartAssumption DEF Owned, Sessions
<1>9. Tickets(b)
  BY <1>1, <1>3, TicketsSame
<1>10. Newest(b, version)
  BY <1>1, <1>5, <1>6 DEF Newest, a
<1>11. Heard(b, v.stored, n)
  BY <1>1, <1>3, <1>6 DEF Heard
<1>12. Awaits(b)
  BY <1>5 DEF Awaits
<1>13. ASSUME FromHere(a), a.attempt # None /\ a.attempt.ticket.generation = a.generation => data.as = a.cached
       PROVE  FromHere(b)
  BY <1>5, <1>6, <1>13 DEF FromHere
<1>14. Core(v, n, b.dash)
  BY <1>3, <1>6, <1>7, <1>8, <1>9, <1>10, <1>11 DEF Core, TabInv, a, b
<1> QED BY <1>3, <1>5, <1>12, <1>13, <1>14 DEF v, a, b

LEMMA LoadedKeeps ==
    ASSUME NEW w, NEW t \in Tabs, events[t] \in Nat, Whole(w, events[t], w.tab.dash), Settled(w.tab), Served,
           NEW l \in w.tab.loads, NEW data \in Data, data.as = l.as, SpeaksFor(data.as, data.user),
           data.version <= version[data.user],
           IF data.user = l.caller THEN l.from <= data.version ELSE data.version = version[data.user]
    PROVE  LET v == OverviewLoaded([w EXCEPT !.tab.loads = @ \ {l}], t, l, data)
           IN  /\ Whole(v, events[t], v.tab.dash) /\ Settled(v.tab)
               /\ NotOlder(v.tab.dash, w.tab.dash)
<1> DEFINE n == events[t]  d == w.tab.dash
           u == [w EXCEPT !.tab.loads = @ \ {l}]
           x == Shown(u, data)
           v == OverviewLoaded(u, t, l, data)
<1>1. /\ Core(w, n, d) /\ Typed(w.tab) /\ Newest(w.tab, version) /\ FromHere(w.tab) /\ Awaits(w.tab)
      /\ Tickets(w.tab)
  BY DEF Whole, Core, TabInv
<1>2. l \in Load /\ l.as \in Sessions
  BY <1>1 DEF Typed, Load
<1>3. v = IF l.latest /\ l.mounted THEN writeStart(x, t) ELSE u
  BY DEF OverviewLoaded, Shown
<1> HIDE DEF v
<1>4. /\ Core(u, n, d) /\ FromHere(u.tab) /\ u.stored = w.stored /\ Same(u.tab, w.tab, {"loads"})
      /\ u.tab.loads = w.tab.loads \ {l}
  BY <1>1, AnsweredKeeps
<1> HIDE DEF u
<1>5. /\ u.tab.dash = w.tab.dash /\ u.tab.attempt = w.tab.attempt /\ u.tab.cached = w.tab.cached
      /\ u.tab.generation = w.tab.generation /\ u.tab.user = w.tab.user
  BY <1>4 DEF Same, TabFields
<1>6. Settled(u.tab)
  BY <1>4, <1>5, SettledSame
<1>7. CASE ~(l.latest /\ l.mounted)
  <2>1. Awaits(u.tab)
    BY <1>1, <1>4, <1>5, <1>7, OthersAwaited
  <2>2. v = u
    BY <1>3, <1>7
  <2>3. Core(u, n, u.tab.dash) /\ NotOlder(u.tab.dash, d)
    BY <1>4, <1>5, CoreNotOlder
  <2> QED BY <1>4, <1>6, <2>1, <2>2, <2>3 DEF Whole, v, u
<1>8. CASE l.latest /\ l.mounted
  <2>1. u.tab.dash.on
    BY <1>1, <1>5, <1>8 DEF Newest
  <2>2. \A k \in u.tab.loads : ~k.latest
    BY <1>1, <1>4, <1>8 DEF Newest
  <2>3. u.tab.attempt # None /\ u.tab.attempt.ticket.generation = u.tab.generation => data.as = u.tab.cached
    BY <1>1, <1>5, <1>8 DEF FromHere
  <2>4. /\ Core(x, n, x.tab.dash) /\ Awaits(x.tab) /\ FromHere(x.tab) /\ Same(x.tab, u.tab, {"dash"})
        /\ x.tab.dash.shown = data /\ x.tab.dash.on /\ x.tab.dash.user = u.tab.dash.user
    BY <1>2, <1>4, <2>1, <2>2, <2>3, ShownKeeps
  <2> HIDE DEF x
  <2>5. Settled(x.tab)
    <3>1. x.tab.dash.on = u.tab.dash.on
      BY <2>1, <2>4
    <3> QED BY <1>6, <2>4, <3>1, SettledSame
  <2>6. x.tab.dash.on => x.tab.dash.user = x.tab.user
    BY <2>5 DEF Settled
  <2>7. Core(v, n, x.tab.dash) /\ v.tab = x.tab
    BY <1>3, <1>8, <2>4, <2>6, WriteKeeps
  <2>8. NotOlder(x.tab.dash, d)
    <3> SUFFICES ASSUME d.on, d.fresh, d.shown # None, d.shown.user = data.user
                 PROVE  data.version >= d.shown.version
      BY <2>4 DEF NotOlder
    <3>1. d.shown.version <= version[data.user]
          /\ (l.caller = data.user => d.shown.version <= l.from)
      BY <1>1, <1>8 DEF Newest
    <3>2. d \in Dash
      BY <1>1 DEF Typed, NoDashboard
    <3>3. d.shown.version \in Nat /\ data.version \in Nat /\ l.from \in Nat
      BY <1>2, <3>2 DEF Dash, Data, Load
    <3> QED BY <3>1, <3>3
  <2> QED BY <2>4, <2>5, <2>7, <2>8 DEF Whole, v, u
<1> QED BY <1>7, <1>8

\* the answer to an overview that fails
Hidden(w, answer) ==
    [w EXCEPT !.tab.dash.failed = TRUE, !.tab.dash.loading = FALSE,
              !.tab.dash.refreshing = FALSE,
              !.tab.dash.shown = IF answer = Refused THEN None ELSE @]

LEMMA HiddenKeeps ==
    ASSUME NEW w, NEW n, NEW d, Core(w, n, d), w.tab.dash.on, NEW answer
    PROVE  LET v == Hidden(w, answer)
           IN  /\ Core(v, n, d) /\ Awaits(v.tab) /\ v.stored = w.stored
               /\ (FromHere(w.tab) => FromHere(v.tab))
               /\ Same(v.tab, w.tab, {"dash"})
               /\ v.tab.dash.on /\ v.tab.dash.user = w.tab.dash.user
<1> DEFINE shown == IF answer = Refused THEN None ELSE w.tab.dash.shown
           v == [w EXCEPT !.tab.dash.failed = TRUE, !.tab.dash.loading = FALSE,
                          !.tab.dash.refreshing = FALSE, !.tab.dash.shown = shown]
           a == w.tab  b == v.tab
<1>1. /\ World4(w) /\ Typed(a) /\ Owned(a) /\ Tickets(a) /\ Heard(a, w.stored, n) /\ Newest(a, version)
      /\ a.open
      /\ (a.dash.fresh /\ a.dash.shown # None => d.on /\ d.shown = a.dash.shown)
  BY DEF Core, TabInv
<1>2. a.dash \in Dash
  BY <1>1 DEF Typed, NoDashboard
<1>3. Hidden(w, answer) = v
  BY DEF Hidden
<1>4. shown \in {None, a.dash.shown}
  OBVIOUS
<1> HIDE DEF shown
<1>5. /\ World4(v) /\ v.stored = w.stored /\ v.record = w.record /\ v.sends = w.sends
      /\ Same(b, a, {"dash"})
  BY <1>1 DEF World4, Same, TabFields, Typed
<1>6. b.dash = [a.dash EXCEPT !.failed = TRUE, !.loading = FALSE, !.refreshing = FALSE, !.shown = shown]
  BY <1>1, <1>2 DEF World4, TabFields, Typed, Dash
<1> HIDE DEF v, a, b
<1>7. /\ b.dash \in Dash /\ b.dash.shown \in {None, a.dash.shown} /\ b.dash.on /\ b.dash.user = a.dash.user
      /\ ~b.dash.loading /\ ~b.dash.refreshing /\ b.dash.fresh = a.dash.fresh
  BY <1>2, <1>4, <1>6 DEF Dash
<1>8. /\ b.attempt = a.attempt /\ b.generation = a.generation /\ b.contexts = a.contexts
      /\ b.cached = a.cached /\ b.ticket = a.ticket /\ b.user = a.user /\ b.userAs = a.userAs
      /\ b.open = a.open /\ b.loads = a.loads
  BY <1>5 DEF Same, TabFields
<1>9. Typed(b)
  BY <1>1, <1>5, <1>7 DEF Typed, Same, TabFields
<1>10. a.dash.on
  BY DEF a
<1>11. Owned(b)
  BY <1>1, <1>7, <1>8, <1>10 DEF Owned
<1>12. Tickets(b)
  BY <1>1, <1>5, TicketsSame
<1>13. Newest(b, version)
  BY <1>1, <1>7, <1>8, <1>10 DEF Newest
<1>14. Heard(b, v.stored, n)
  BY <1>1, <1>5, <1>8 DEF Heard
<1>15. Awaits(b)
  BY <1>7 DEF Awaits
<1>16. FromHere(a) => FromHere(b)
  BY <1>7, <1>8, <1>10 DEF FromHere
<1>17. b.dash.on /\ b.dash.fresh /\ b.dash.shown # None => d.on /\ d.shown = b.dash.shown
  BY <1>1, <1>7
<1>18. Core(v, n, d)
  <2>1. w.sends \in Nat /\ w.stored \in Sessions /\ (w.stored = stored \/ w.sends > 0) /\ RecordInv(w.record, w.stored)
    BY DEF Core
  <2> QED BY <1>1, <1>5, <1>8, <1>9, <1>11, <1>12, <1>13, <1>14, <1>17, <2>1 DEF Core, TabInv, b
<1> QED BY <1>3, <1>5, <1>7, <1>15, <1>16, <1>18 DEF v, a, b

LEMMA FailedKeeps ==
    ASSUME NEW w, NEW n, NEW d, Whole(w, n, d), Settled(w.tab), NEW l \in w.tab.loads, NEW answer
    PROVE  LET v == OverviewFailed([w EXCEPT !.tab.loads = @ \ {l}], l, answer)
           IN  Whole(v, n, d) /\ Settled(v.tab)
<1> DEFINE u == [w EXCEPT !.tab.loads = @ \ {l}]
           dropped == IF answer = Refused /\ l.as # None THEN setSessionToken(u, None) ELSE u
           wiped == IF answer = Refused /\ l.latest THEN clearStart(dropped) ELSE dropped
           v == OverviewFailed(u, l, answer)
<1>1. v = IF l.latest /\ l.mounted THEN Hidden(wiped, answer) ELSE wiped
  BY DEF OverviewFailed, Hidden
<1>2. Core(w, n, d) /\ FromHere(w.tab) /\ Awaits(w.tab) /\ Newest(w.tab, version)
  BY DEF Whole, Core, TabInv
<1> HIDE DEF v
<1>3. /\ Core(u, n, d) /\ FromHere(u.tab) /\ Same(u.tab, w.tab, {"loads"})
      /\ u.tab.loads = w.tab.loads \ {l}
  BY <1>2, AnsweredKeeps
<1> HIDE DEF u
<1>4. u.tab.dash = w.tab.dash
  BY <1>3 DEF Same, TabFields
<1>5. Settled(u.tab)
  BY <1>3, <1>4, SettledSame
<1>6. /\ Core(dropped, n, d) /\ FromHere(dropped.tab)
      /\ Same(dropped.tab, u.tab, {"cached", "generation", "snapshot"})
  <2>1. CASE answer = Refused /\ l.as # None
    <3>1. None \in Sessions
      BY DEF Sessions
    <3>2. dropped = setSessionToken(u, None)
      BY <2>1
    <3> HIDE DEF dropped
    <3> QED BY <1>3, <3>1, <3>2, SetTokenKeeps DEF Keeps
  <2>2. CASE ~(answer = Refused /\ l.as # None)
    <3>1. dropped = u
      BY <2>2
    <3> HIDE DEF dropped
    <3> QED BY <1>3, <3>1 DEF Same
  <2> QED BY <2>1, <2>2
<1> HIDE DEF dropped
<1>7. Core(wiped, n, d) /\ FromHere(wiped.tab) /\ Same(wiped.tab, dropped.tab, {"generation", "snapshot"})
  <2>1. CASE answer = Refused /\ l.latest
    <3>1. wiped = clearStart(dropped)
      BY <2>1
    <3> HIDE DEF wiped
    <3> QED BY <1>6, <3>1, ClearKeeps DEF Keeps
  <2>2. CASE ~(answer = Refused /\ l.latest)
    <3>1. wiped = dropped
      BY <2>2
    <3> HIDE DEF wiped
    <3> QED BY <1>6, <3>1 DEF Same
  <2> QED BY <2>1, <2>2
<1> HIDE DEF wiped
<1>8. Same(wiped.tab, u.tab, {"cached", "generation", "snapshot"})
      /\ wiped.tab.dash = w.tab.dash /\ wiped.tab.loads = w.tab.loads \ {l}
  BY <1>3, <1>4, <1>6, <1>7 DEF Same, TabFields
<1>9. Settled(wiped.tab)
  BY <1>4, <1>5, <1>8, SettledSame
<1>10. CASE ~(l.latest /\ l.mounted)
  <2>1. Awaits(wiped.tab)
    BY <1>2, <1>8, <1>10, OthersAwaited
  <2> QED BY <1>1, <1>7, <1>9, <1>10, <2>1 DEF Whole, v, u
<1>11. CASE l.latest /\ l.mounted
  <2>1. wiped.tab.dash.on
    BY <1>2, <1>8, <1>11 DEF Newest
  <2> DEFINE x == Hidden(wiped, answer)
  <2>2. /\ Core(x, n, d) /\ Awaits(x.tab) /\ FromHere(x.tab) /\ Same(x.tab, wiped.tab, {"dash"})
        /\ x.tab.dash.on /\ x.tab.dash.user = wiped.tab.dash.user
    BY <1>7, <2>1, HiddenKeeps
  <2> HIDE DEF x
  <2>3. Settled(x.tab)
    <3>1. x.tab.dash.on = wiped.tab.dash.on
      BY <2>1, <2>2
    <3> QED BY <1>9, <2>2, <3>1, SettledSame
  <2> QED BY <1>1, <1>11, <2>2, <2>3 DEF Whole, v, x, u
<1> QED BY <1>10, <1>11

(***************************************************************************)
(* A step: one tab moves, and the others see what it stored.                *)
(***************************************************************************)
\* the server gives out sessions, ends them, and only records operations
ServerMoves ==
    /\ telegram' \in BOOLEAN /\ valid' \subseteq issued' /\ issued' \subseteq Logins
    /\ tgOwner' \in Callers /\ version' \in [Users -> Nat]
    /\ \A u \in Users : version[u] <= version'[u]

Fits(a, s, n, ver) == TabInv(a, s, n, ver) /\ FromHere(a) /\ Awaits(a) /\ Closed(a) /\ Settled(a)

\* a tab moves to that of w, with n storage events to hear
Moved(t, w, n) ==
    /\ tab' = [tab EXCEPT ![t] = w.tab] /\ stored' = w.stored /\ record' = w.record
    /\ events' = [o \in Tabs |-> IF o = t THEN n
                                 ELSE IF tab[o].open THEN events[o] + w.sends ELSE events[o]]

Stores(w) ==
    /\ w.stored \in Sessions /\ w.sends \in Nat /\ (w.stored = stored \/ w.sends > 0)
    /\ RecordInv(w.record, w.stored)

Fresher == \A t \in Tabs : NotOlder(tab'[t].dash, tab[t].dash)

LEMMA NewestGrows ==
    ASSUME NEW a, Typed(a), NEW ver \in [Users -> Nat], NEW new \in [Users -> Nat],
           \A u \in Users : ver[u] <= new[u], Newest(a, ver)
    PROVE  Newest(a, new)
<1>1. ASSUME NEW l \in a.loads, l.caller \in Users PROVE l.from <= new[l.caller]
  <2>1. l.from \in Nat /\ l.from <= ver[l.caller]
    BY <1>1 DEF Typed, Load, Newest
  <2>2. ver[l.caller] \in Nat /\ new[l.caller] \in Nat /\ ver[l.caller] <= new[l.caller]
    BY <1>1
  <2> QED BY <2>1, <2>2
<1>2. ASSUME a.dash.on, a.dash.fresh, a.dash.shown # None
      PROVE  a.dash.shown.version <= new[a.dash.shown.user]
  <2>1. a.dash \in Dash
    BY <1>2 DEF Typed, NoDashboard
  <2>2. a.dash.shown.version \in Nat /\ a.dash.shown.user \in Users
    BY <1>2, <2>1 DEF Dash, Data
  <2>3. a.dash.shown.version <= ver[a.dash.shown.user]
    BY <1>2 DEF Newest
  <2>4. /\ ver[a.dash.shown.user] \in Nat /\ new[a.dash.shown.user] \in Nat
        /\ ver[a.dash.shown.user] <= new[a.dash.shown.user]
    BY <2>2
  <2> QED BY <2>2, <2>3, <2>4
<1> QED BY <1>1, <1>2 DEF Newest

LEMMA SameNotOlder ==
    ASSUME NEW a, Typed(a) PROVE NotOlder(a.dash, a.dash)
<1> SUFFICES ASSUME a.dash.on, a.dash.shown # None PROVE a.dash.shown.version >= a.dash.shown.version
  BY DEF NotOlder
<1>1. a.dash \in Dash
  BY DEF Typed, NoDashboard
<1>2. a.dash.shown.version \in Nat
  BY <1>1 DEF Dash, Data
<1> QED BY <1>2

LEMMA OthersFit ==
    ASSUME Inv, ServerMoves, NEW o \in Tabs, NEW s, NEW n,
           Heard(tab[o], s, n)
    PROVE  Fits(tab[o], s, n, version')
<1>1. /\ Typed(tab[o]) /\ Owned(tab[o]) /\ Tickets(tab[o]) /\ Newest(tab[o], version)
      /\ FromHere(tab[o]) /\ Awaits(tab[o]) /\ Closed(tab[o]) /\ Settled(tab[o])
  BY DEF Inv, TabInv
<1>2. version \in [Users -> Nat]
  BY DEF Inv
<1>3. Newest(tab[o], version')
  BY <1>1, <1>2, NewestGrows DEF ServerMoves
<1> QED BY <1>1, <1>3 DEF Fits, TabInv

LEMMA MovedKeeps ==
    ASSUME Inv, ServerMoves, NEW t \in Tabs, NEW w, NEW n \in Nat, Moved(t, w, n), Stores(w),
           Fits(w.tab, w.stored, n, version), NotOlder(w.tab.dash, tab[t].dash)
    PROVE  Inv' /\ Fresher
<1>1. /\ version \in [Users -> Nat] /\ events \in [Tabs -> Nat] /\ tab = [o \in Tabs |-> tab[o]]
      /\ stored \in Sessions
  BY DEF Inv
<1>2. /\ tab'[t] = w.tab /\ stored' = w.stored /\ record' = w.record /\ events'[t] = n
      /\ \A o \in Tabs : o # t =>
            /\ tab'[o] = tab[o]
            /\ events'[o] = IF tab[o].open THEN events[o] + w.sends ELSE events[o]
      /\ tab' = [o \in Tabs |-> tab'[o]]
  BY <1>1 DEF Moved
<1>3. events' \in [Tabs -> Nat]
  BY <1>1 DEF Moved, Stores
<1>4. Fits(w.tab, w.stored, n, version')
  <2>1. /\ Typed(w.tab) /\ Owned(w.tab) /\ Tickets(w.tab) /\ Newest(w.tab, version)
        /\ Heard(w.tab, w.stored, n)
        /\ FromHere(w.tab) /\ Awaits(w.tab) /\ Closed(w.tab) /\ Settled(w.tab)
    BY DEF Fits, TabInv
  <2>2. Newest(w.tab, version')
    BY <1>1, <2>1, NewestGrows DEF ServerMoves
  <2> QED BY <2>1, <2>2 DEF Fits, TabInv
<1>5. ASSUME NEW o \in Tabs, o # t
      PROVE  Fits(tab[o], w.stored, events'[o], version') /\ tab'[o] = tab[o] /\ Typed(tab[o])
  <2>1. Heard(tab[o], stored, events[o]) /\ Typed(tab[o])
    BY DEF Inv, TabInv
  <2>2. Heard(tab[o], w.stored, events'[o])
    <3> SUFFICES ASSUME tab[o].open, events'[o] = 0 PROVE tab[o].cached \in {"unread", w.stored}
      BY DEF Heard
    <3>1. events[o] + w.sends = 0 /\ events[o] \in Nat /\ w.sends \in Nat
      BY <1>1, <1>2, <1>5 DEF Stores
    <3>2. events[o] = 0 /\ ~(w.sends > 0)
      BY <3>1
    <3> QED BY <2>1, <3>2 DEF Heard, Stores
  <2> QED BY <1>2, <1>5, <2>1, <2>2, OthersFit
<1>6. ASSUME NEW o \in Tabs PROVE Fits(tab'[o], stored', events'[o], version') /\ NotOlder(tab'[o].dash, tab[o].dash)
  <2>1. CASE o = t
    BY <1>2, <1>4, <2>1
  <2>2. CASE o # t
    BY <1>2, <1>5, <2>2, SameNotOlder
  <2> QED BY <2>1, <2>2
<1>7. Fresher
  BY <1>6 DEF Fresher
<1>8. RecordInv(record', stored') /\ stored' \in Sessions
  BY <1>2 DEF Stores
<1>9. \A o \in Tabs : /\ TabInv(tab'[o], stored', events'[o], version')
                      /\ FromHere(tab'[o]) /\ Awaits(tab'[o]) /\ Closed(tab'[o]) /\ Settled(tab'[o])
  BY <1>6 DEF Fits
<1>10. Inv'
  BY <1>2, <1>3, <1>8, <1>9 DEF Inv, ServerMoves
<1> QED BY <1>7, <1>10

LEMMA StaysKeeps ==
    ASSUME Inv, ServerMoves, UNCHANGED <<stored, tab, events>>, RecordInv(record', stored)
    PROVE  Inv' /\ Fresher
<1>1. \A o \in Tabs : Heard(tab[o], stored, events[o]) /\ Typed(tab[o])
  BY DEF Inv, TabInv
<1>2. \A o \in Tabs : Fits(tab[o], stored, events[o], version') /\ NotOlder(tab[o].dash, tab[o].dash)
  BY <1>1, OthersFit, SameNotOlder
<1>3. \A o \in Tabs : /\ TabInv(tab[o], stored, events[o], version')
                      /\ FromHere(tab[o]) /\ Awaits(tab[o]) /\ Closed(tab[o]) /\ Settled(tab[o])
  BY <1>2 DEF Fits
<1>4. Fresher
  BY <1>2 DEF Fresher
<1>5. /\ stored \in Sessions /\ events \in [Tabs -> Nat] /\ tab = [o \in Tabs |-> tab[o]]
  BY DEF Inv
<1>6. /\ stored' \in Sessions /\ events' \in [Tabs -> Nat] /\ tab' = [o \in Tabs |-> tab'[o]]
      /\ RecordInv(record', stored')
      /\ \A o \in Tabs : /\ TabInv(tab'[o], stored', events'[o], version')
                         /\ FromHere(tab'[o]) /\ Awaits(tab'[o]) /\ Closed(tab'[o]) /\ Settled(tab'[o])
  BY <1>3, <1>5
<1>7. Inv'
  BY <1>6 DEF Inv, ServerMoves
<1> QED BY <1>4, <1>7

\* a function of the client that ends whole is a step that keeps the invariant
LEMMA BecomesKeeps ==
    ASSUME Inv, ServerMoves, NEW t \in Tabs, NEW w, NEW d, Becomes(t, w), Whole(w, events[t], d),
           Settled(w.tab), NotOlder(w.tab.dash, tab[t].dash)
    PROVE  Inv' /\ Fresher
<1>1. events \in [Tabs -> Nat]
  BY DEF Inv
<1>2. Moved(t, w, events[t])
  BY <1>1 DEF Becomes, Moved
<1>3. Core(w, events[t], d) /\ FromHere(w.tab) /\ Awaits(w.tab) /\ w.tab.open
  BY DEF Whole, Core
<1>4. Stores(w)
  BY <1>3 DEF Core, Stores
<1>5. Fits(w.tab, w.stored, events[t], version)
  BY <1>3 DEF Core, Fits, Closed
<1> QED BY <1>1, <1>2, <1>4, <1>5, MovedKeeps

LEMMA FromInv ==
    ASSUME Inv, NEW t \in Tabs
    PROVE  /\ Served /\ events[t] \in Nat /\ Typed(tab[t]) /\ Settled(tab[t])
           /\ tab[t].open => Whole(World(t), events[t], tab[t].dash)
<1>1. /\ Served /\ events[t] \in Nat /\ Typed(tab[t]) /\ Settled(tab[t])
      /\ TabInv(tab[t], stored, events[t], version) /\ FromHere(tab[t]) /\ Awaits(tab[t])
      /\ stored \in Sessions /\ RecordInv(record, stored)
  BY DEF Inv, TabInv, Served
<1>2. ASSUME tab[t].open PROVE Whole(World(t), events[t], tab[t].dash)
  <2> DEFINE w == World(t)
  <2>1. World4(w) /\ w.tab = tab[t] /\ w.stored = stored /\ w.record = record /\ w.sends = 0
    BY DEF World, World4
  <2> HIDE DEF w
  <2>2. Core(w, events[t], tab[t].dash)
    BY <1>1, <1>2, <2>1 DEF Core
  <2> QED BY <1>1, <2>1, <2>2 DEF Whole, w
<1> QED BY <1>1, <1>2

\* a step of users that leaves the server as it is
LEMMA ServerStays ==
    ASSUME Inv, UNCHANGED <<telegram, server>> PROVE ServerMoves
<1>1. /\ telegram' = telegram /\ valid' = valid /\ issued' = issued /\ tgOwner' = tgOwner
      /\ version' = version
  BY DEF server
<1>2. telegram \in BOOLEAN /\ valid \subseteq issued /\ issued \subseteq Logins /\ tgOwner \in Callers
      /\ version \in [Users -> Nat]
  BY DEF Inv
<1>3. \A u \in Users : version[u] \in Nat /\ version[u] <= version[u]
  BY <1>2
<1> QED BY <1>1, <1>2, <1>3 DEF ServerMoves

LEMMA OpenScreens ==
    ASSUME NEW a, Screen(a) \in {"app", "login", "splash", "error"} PROVE a.open
  BY DEF Screen

(***************************************************************************)
(* The steps of users.                                                      *)
(***************************************************************************)
FreshWorld == [tab |-> FreshTab, stored |-> stored, record |-> record, sends |-> 0]

LEMMA FreshKeeps ==
    ASSUME Served, stored \in Sessions, RecordInv(record, stored), NEW n, NEW d
    PROVE  Core(FreshWorld, n, d) /\ Awaits(FreshTab) /\ ~FreshTab.dash.on
<1>1. /\ World4(FreshWorld) /\ FreshWorld.tab = FreshTab /\ FreshWorld.stored = stored
      /\ FreshWorld.record = record /\ FreshWorld.sends = 0
  BY DEF FreshWorld, World4
<1> DEFINE a == FreshTab
<1>2. /\ DOMAIN a = TabFields /\ a.open = TRUE /\ a.cached = "unread" /\ a.generation = 0
      /\ a.snapshot = None /\ a.user = None /\ a.userAs = None /\ a.loading = TRUE
      /\ a.error = FALSE /\ a.needsLogin = FALSE /\ a.needsAccount = FALSE /\ a.ticket = None
      /\ a.contextError = FALSE /\ a.attempt = None /\ a.dash = NoDashboard
      /\ a.contexts = {} /\ a.loads = {} /\ a.sent = 0
  BY DEF FreshTab, TabFields
<1> HIDE DEF a
<1>3. ~a.dash.on
  BY <1>2 DEF NoDashboard
<1>4. TRUE \in BOOLEAN /\ FALSE \in BOOLEAN /\ 0 \in Nat /\ None \in Sessions
  BY DEF Sessions
<1>5. /\ a.open \in BOOLEAN /\ a.loading \in BOOLEAN /\ a.error \in BOOLEAN
      /\ a.needsLogin \in BOOLEAN /\ a.needsAccount \in BOOLEAN /\ a.contextError \in BOOLEAN
  BY <1>2, <1>4, Zenon
<1>6. Typed(a)
  BY <1>2, <1>4, <1>5 DEF Typed
<1>7. Owned(a)
  BY <1>2, <1>3 DEF Owned
<1>8. Tickets(a)
  <2>1. ~a.contextError
    BY <1>2
  <2> QED BY <1>2, <2>1 DEF Tickets
<1>9. Newest(a, version)
  BY <1>2, <1>3 DEF Newest
<1>10. Heard(a, stored, n) /\ Awaits(a)
  BY <1>2, <1>3 DEF Heard, Awaits
<1>11. a.open
  BY <1>2
<1> QED BY <1>1, <1>3, <1>6, <1>7, <1>8, <1>9, <1>10, <1>11 DEF Core, TabInv, a

LEMMA ClosedFits ==
    ASSUME NEW s, NEW n PROVE Fits(ClosedTab, s, n, version) /\ ~ClosedTab.dash.on
<1> DEFINE a == ClosedTab
<1>1. /\ DOMAIN a = TabFields /\ a.open = FALSE /\ a.cached = "unread" /\ a.generation = 0
      /\ a.snapshot = None /\ a.user = None /\ a.userAs = None /\ a.loading = FALSE
      /\ a.error = FALSE /\ a.needsLogin = FALSE /\ a.needsAccount = FALSE /\ a.ticket = None
      /\ a.contextError = FALSE /\ a.attempt = None /\ a.dash = NoDashboard
      /\ a.contexts = {} /\ a.loads = {} /\ a.sent = 0
  BY DEF FreshTab, ClosedTab, TabFields
<1> HIDE DEF a
<1>2. ~a.dash.on /\ a.dash.on = FALSE
  BY <1>1 DEF NoDashboard
<1>3. FALSE \in BOOLEAN /\ 0 \in Nat /\ None \in Sessions
  BY DEF Sessions
<1>4. /\ a.open \in BOOLEAN /\ a.loading \in BOOLEAN /\ a.error \in BOOLEAN
      /\ a.needsLogin \in BOOLEAN /\ a.needsAccount \in BOOLEAN /\ a.contextError \in BOOLEAN
  BY <1>1, <1>3, Zenon
<1>5. Typed(a)
  BY <1>1, <1>3, <1>4 DEF Typed
<1>6. ~a.open /\ ~a.contextError
  BY <1>1
<1>7. Owned(a) /\ Tickets(a) /\ Newest(a, version) /\ Heard(a, s, n)
  BY <1>1, <1>2, <1>6 DEF Owned, Tickets, Newest, Heard
<1>8. FromHere(a) /\ Awaits(a) /\ Closed(a)
  BY <1>1, <1>2, <1>6 DEF FromHere, Awaits, Closed
<1>9. Screen(a) = "closed"
  BY <1>6 DEF Screen
<1>10. Settled(a)
  <2>1. a.dash.on = (Screen(a) = "app")
    BY <1>2, <1>9
  <2> QED BY <1>2, <1>9, <2>1 DEF Settled
<1> QED BY <1>2, <1>5, <1>7, <1>8, <1>10 DEF Fits, TabInv, a

LEMMA OpenKeeps ==
    ASSUME Inv, NEW t \in Tabs, Open(t) PROVE Inv' /\ Fresher
<1> DEFINE w == load([World(t) EXCEPT !.tab = FreshTab], TRUE)  d == tab[t].dash
<1>1. /\ tab' = [tab EXCEPT ![t] = w.tab] /\ stored' = w.stored /\ record' = w.record
      /\ events' = [o \in Tabs |-> IF o = t THEN 0
                                   ELSE IF tab[o].open THEN events[o] + w.sends ELSE events[o]]
      /\ UNCHANGED <<telegram, server>>
  BY DEF Open
<1>2. Served /\ stored \in Sessions /\ RecordInv(record, stored)
  BY FromInv DEF Inv
<1>3. [World(t) EXCEPT !.tab = FreshTab] = FreshWorld
  BY DEF World, FreshWorld
<1>4. Core(FreshWorld, 0, d) /\ Awaits(FreshWorld.tab) /\ ~FreshWorld.tab.dash.on
  BY <1>2, FreshKeeps DEF FreshWorld
<1>5. w = load(FreshWorld, TRUE) /\ TRUE \in BOOLEAN
  BY <1>3
<1> HIDE DEF w, d
<1>6. Core(w, 0, d) /\ FromHere(w.tab) /\ Awaits(w.tab) /\ Settled(w.tab)
  BY <1>2, <1>4, <1>5, LoadKeeps
<1>7. Moved(t, w, 0) /\ ServerMoves
  BY <1>1, ServerStays DEF Moved
<1>8. Stores(w) /\ Fits(w.tab, w.stored, 0, version)
  BY <1>6 DEF Stores, Fits, Core, Closed
<1>9. NotOlder(w.tab.dash, d)
  BY <1>6, CoreNotOlder
<1> QED BY <1>7, <1>8, <1>9, MovedKeeps DEF d

LEMMA CloseKeeps ==
    ASSUME Inv, NEW t \in Tabs, Close(t) PROVE Inv' /\ Fresher
<1> DEFINE w == [tab |-> ClosedTab, stored |-> stored, record |-> record, sends |-> 0]
<1>1. w.tab = ClosedTab /\ w.stored = stored /\ w.record = record /\ w.sends = 0
  OBVIOUS
<1> HIDE DEF w
<1>2. events \in [Tabs -> Nat]
  BY DEF Inv
<1>3. Moved(t, w, 0)
  <2>1. \A o \in Tabs : events[o] + w.sends = events[o]
    BY <1>1, <1>2
  <2>2. events' = [o \in Tabs |-> IF o = t THEN 0 ELSE events[o]]
    BY <1>2 DEF Close
  <2>3. events' = [o \in Tabs |-> IF o = t THEN 0
                                 ELSE IF tab[o].open THEN events[o] + w.sends ELSE events[o]]
    BY <2>1, <2>2
  <2> QED BY <1>1, <2>3 DEF Moved, Close
<1>4. ServerMoves
  BY ServerStays DEF Close
<1>5. Stores(w)
  BY <1>1 DEF Stores, Inv
<1>6. Fits(w.tab, w.stored, 0, version) /\ NotOlder(w.tab.dash, tab[t].dash)
  BY <1>1, ClosedFits DEF NotOlder
<1> QED BY <1>3, <1>4, <1>5, <1>6, MovedKeeps

LEMMA LogInKeeps ==
    ASSUME Inv, NEW t \in Tabs, NEW l \in Logins, LogIn(t, l) PROVE Inv' /\ Fresher
<1> DEFINE w == World(t)  v == setSessionToken(w, l)  x == load(v, FALSE)  d == tab[t].dash
<1>1. /\ Screen(tab[t]) = "login" /\ Becomes(t, x)
      /\ issued' = issued \cup {l} /\ valid' = valid \cup {l} /\ tgOwner' \in {tgOwner, OwnerOf[l]}
      /\ UNCHANGED <<telegram, version>>
  BY DEF LogIn
<1>2. tab[t].open
  BY <1>1, OpenScreens
<1>3. Served /\ Whole(w, events[t], d) /\ l \in Sessions
  BY <1>2, FromInv DEF Sessions
<1>4. FALSE \in BOOLEAN
  OBVIOUS
<1> HIDE DEF w, d
<1>5. Core(v, events[t], d) /\ Awaits(v.tab)
  BY <1>3, SetTokenKeeps DEF Whole, Keeps
<1> HIDE DEF v
<1>6. Core(x, events[t], d) /\ FromHere(x.tab) /\ Awaits(x.tab) /\ Settled(x.tab)
  BY <1>3, <1>4, <1>5, LoadKeeps
<1> HIDE DEF x
<1>7. NotOlder(x.tab.dash, d)
  BY <1>6, CoreNotOlder
<1>8. ServerMoves
  <2>1. tgOwner' \in Callers
    BY <1>1, ClientStartAssumption DEF Inv, Callers
  <2>2. \A u \in Users : version[u] <= version'[u]
    BY <1>1 DEF Inv
  <2> QED BY <1>1, <2>1, <2>2 DEF ServerMoves, Inv
<1> QED BY <1>1, <1>6, <1>7, <1>8, BecomesKeeps DEF Whole, d

LEMMA RegisterKeeps ==
    ASSUME Inv, NEW t \in Tabs, NEW u \in Users, Register(t, u) PROVE Inv' /\ Fresher
<1> DEFINE w == World(t)  x == load(w, FALSE)  d == tab[t].dash
<1>1. /\ Screen(tab[t]) = "login" /\ Becomes(t, x) /\ tgOwner' = u
      /\ UNCHANGED <<telegram, issued, valid, version>>
  BY DEF Register
<1>2. tab[t].open
  BY <1>1, OpenScreens
<1>3. Served /\ Whole(w, events[t], d) /\ FALSE \in BOOLEAN
  BY <1>2, FromInv
<1> HIDE DEF w, d
<1>4. Core(x, events[t], d) /\ FromHere(x.tab) /\ Awaits(x.tab) /\ Settled(x.tab)
  BY <1>3, LoadKeeps DEF Whole
<1> HIDE DEF x
<1>5. NotOlder(x.tab.dash, d)
  BY <1>4, CoreNotOlder
<1>6. ServerMoves
  <2>1. tgOwner' \in Callers
    BY <1>1 DEF Callers
  <2>2. \A v \in Users : version[v] <= version'[v]
    BY <1>1 DEF Inv
  <2> QED BY <1>1, <2>1, <2>2 DEF ServerMoves, Inv
<1> QED BY <1>1, <1>4, <1>5, <1>6, BecomesKeeps DEF Whole, d

LEMMA SignOutKeeps ==
    ASSUME Inv, NEW t \in Tabs, NEW answered \in BOOLEAN, SignOut(t, answered) PROVE Inv' /\ Fresher
<1> DEFINE w == World(t)  v == setSessionToken(w, None)  d == tab[t].dash
           token == Token(w)
           x == IF answered /\ Caller(token) \in Users THEN load(v, FALSE) ELSE v
<1>1. /\ Screen(tab[t]) = "app" /\ Becomes(t, x) /\ valid' \subseteq valid
      /\ UNCHANGED <<telegram, issued, tgOwner, version>>
  BY DEF SignOut
<1>2. tab[t].open
  BY <1>1, OpenScreens
<1>3. Served /\ Whole(w, events[t], d) /\ None \in Sessions /\ FALSE \in BOOLEAN /\ Settled(w.tab)
  BY <1>2, FromInv DEF Sessions, World
<1> HIDE DEF w, d
<1>4. /\ Core(v, events[t], d) /\ FromHere(v.tab) /\ Awaits(v.tab)
      /\ Same(v.tab, w.tab, {"cached", "generation", "snapshot"})
  BY <1>3, SetTokenKeeps DEF Whole, Keeps
<1> HIDE DEF v
<1>5. v.tab.dash = w.tab.dash
  BY <1>4 DEF Same, TabFields
<1>6. Settled(v.tab)
  BY <1>3, <1>4, <1>5, SettledSame
<1>7. Core(x, events[t], d) /\ FromHere(x.tab) /\ Awaits(x.tab) /\ Settled(x.tab)
  <2>1. CASE answered /\ Caller(token) \in Users
    <3>1. x = load(v, FALSE)
      BY <2>1
    <3> HIDE DEF x
    <3> QED BY <1>3, <1>4, <3>1, LoadKeeps
  <2>2. CASE ~(answered /\ Caller(token) \in Users)
    BY <1>4, <1>6, <2>2
  <2> QED BY <2>1, <2>2
<1> HIDE DEF x
<1>8. NotOlder(x.tab.dash, d)
  BY <1>7, CoreNotOlder
<1>9. ServerMoves
  <2>1. \A u \in Users : version[u] <= version'[u]
    BY <1>1 DEF Inv
  <2> QED BY <1>1, <2>1 DEF ServerMoves, Inv
<1> QED BY <1>1, <1>7, <1>8, <1>9, BecomesKeeps DEF Whole, d

LEMMA DeleteAccountKeeps ==
    ASSUME Inv, NEW t \in Tabs, DeleteAccount(t) PROVE Inv' /\ Fresher
<1> DEFINE w == World(t)  v == clearStart(w)  x == [v EXCEPT !.tab = ClosedTab]  d == tab[t].dash
<1>1. /\ Screen(tab[t]) = "app" /\ Becomes(t, x) /\ valid' \subseteq valid
      /\ tgOwner' \in {tgOwner, NoAccount} /\ UNCHANGED <<telegram, issued, version>>
  BY DEF DeleteAccount
<1>2. tab[t].open
  BY <1>1, OpenScreens
<1>3. Served /\ Whole(w, events[t], d) /\ events[t] \in Nat /\ events \in [Tabs -> Nat]
  BY <1>2, FromInv DEF Inv
<1> HIDE DEF w, d
<1>4. Core(v, events[t], d)
  BY <1>3, ClearKeeps DEF Whole, Keeps
<1> HIDE DEF v
<1>5. x.tab = ClosedTab /\ x.stored = v.stored /\ x.record = v.record /\ x.sends = v.sends
  BY <1>4 DEF Core, World4
<1> HIDE DEF x
<1>6. Moved(t, x, events[t])
  BY <1>1, <1>3 DEF Becomes, Moved
<1>7. Stores(x)
  BY <1>4, <1>5 DEF Stores, Core
<1>8. Fits(x.tab, x.stored, events[t], version) /\ NotOlder(x.tab.dash, tab[t].dash)
  BY <1>5, ClosedFits DEF NotOlder
<1>9. ServerMoves
  <2>1. \A u \in Users : version[u] <= version'[u]
    BY <1>1 DEF Inv
  <2> QED BY <1>1, <2>1 DEF ServerMoves, Inv, Callers
<1> QED BY <1>3, <1>6, <1>7, <1>8, <1>9, MovedKeeps

LEMMA RefreshKeeps ==
    ASSUME Inv, NEW t \in Tabs, Refresh(t) PROVE Inv' /\ Fresher
<1> DEFINE w == World(t)  d == tab[t].dash
           v == IF tab[t].contextError THEN fetchContext(w, tab[t].attempt) ELSE w
           x == loadOverview(v)
<1>1. /\ Screen(tab[t]) = "app" /\ tab[t].dash.on /\ Becomes(t, x) /\ ServerMoves
  BY ServerStays DEF Refresh
<1>2. tab[t].open
  BY <1>1, OpenScreens
<1>3. /\ Served /\ Whole(w, events[t], d) /\ Settled(w.tab) /\ Typed(w.tab) /\ Tickets(w.tab)
      /\ w.tab = tab[t]
  BY <1>2, FromInv DEF World, Inv, TabInv
<1> HIDE DEF w, d
<1>4. /\ Core(v, events[t], d) /\ FromHere(v.tab) /\ Awaits(v.tab)
      /\ Same(v.tab, w.tab, {"cached", "contextError", "sent", "contexts"})
  <2>1. CASE tab[t].contextError
    <3>1. w.tab.attempt # None /\ v = fetchContext(w, w.tab.attempt)
      BY <1>3, <2>1 DEF Tickets
    <3> HIDE DEF v
    <3> QED BY <1>3, <3>1, FetchKeeps DEF Whole, Keeps
  <2>2. CASE ~tab[t].contextError
    <3>1. v = w /\ DOMAIN w.tab = TabFields
      BY <1>3, <2>2 DEF Typed
    <3> HIDE DEF v
    <3> QED BY <1>3, <3>1 DEF Whole, Same
  <2> QED BY <2>1, <2>2
<1> HIDE DEF v
<1>5. v.tab.dash = tab[t].dash /\ v.tab.dash \in Dash
  <2>1. v.tab.dash = tab[t].dash /\ tab[t].dash \in Dash \cup {NoDashboard}
    BY <1>3, <1>4 DEF Same, TabFields, Typed
  <2> QED BY <1>1, <2>1 DEF NoDashboard
<1>6. /\ Core(x, events[t], d) /\ Awaits(x.tab) /\ FromHere(x.tab)
      /\ Same(x.tab, v.tab, {"cached", "dash", "sent", "loads"})
      /\ x.tab.dash \in Dash /\ x.tab.dash.user = v.tab.dash.user
  BY <1>3, <1>4, <1>5, LoadOverviewKeeps
<1> HIDE DEF x
<1>7. Settled(x.tab)
  <2>1. x.tab.dash.on = TRUE
    BY <1>6 DEF Dash
  <2>2. Screen(v.tab) = "app" /\ Screen(x.tab) = "app"
    <3>1. Screen(v.tab) = Screen(w.tab)
      BY <1>4, ScreenSame
    <3>2. Screen(x.tab) = Screen(v.tab)
      BY <1>6, ScreenSame
    <3> QED BY <1>1, <1>3, <3>1, <3>2
  <2>3. x.tab.user = tab[t].user
    BY <1>3, <1>4, <1>6 DEF Same, TabFields
  <2>4. x.tab.dash.user = x.tab.user
    BY <1>1, <1>3, <1>5, <1>6, <2>3 DEF Settled
  <2> QED BY <2>1, <2>2, <2>4 DEF Settled
<1>8. NotOlder(x.tab.dash, d)
  BY <1>6, CoreNotOlder
<1> QED BY <1>1, <1>6, <1>7, <1>8, BecomesKeeps DEF Whole, d

LEMMA OperateKeeps ==
    ASSUME Inv, NEW t \in Tabs, Operate(t) PROVE Inv' /\ Fresher
<1> DEFINE w == World(t)  d == tab[t].dash  x == loadOverview(w)
<1>1. PICK u \in Users : version' = [version EXCEPT ![u] = @ + 1]
  BY DEF Operate
<1>2. /\ Screen(tab[t]) = "app" /\ tab[t].dash.on /\ Becomes(t, x)
      /\ UNCHANGED <<telegram, issued, valid, tgOwner>>
  BY DEF Operate
<1>3. tab[t].open
  BY <1>2, OpenScreens
<1>4. /\ Served /\ Whole(w, events[t], d) /\ Settled(w.tab) /\ Typed(w.tab) /\ w.tab = tab[t]
  BY <1>3, FromInv DEF World
<1> HIDE DEF w, d
<1>5. w.tab.dash \in Dash
  BY <1>2, <1>4 DEF Typed, NoDashboard
<1>6. /\ Core(x, events[t], d) /\ Awaits(x.tab) /\ FromHere(x.tab)
      /\ Same(x.tab, w.tab, {"cached", "dash", "sent", "loads"})
      /\ x.tab.dash \in Dash /\ x.tab.dash.user = w.tab.dash.user
  BY <1>4, <1>5, LoadOverviewKeeps DEF Whole
<1> HIDE DEF x
<1>7. Settled(x.tab)
  <2>1. x.tab.dash.on = w.tab.dash.on
    BY <1>5, <1>6 DEF Dash
  <2> QED BY <1>4, <1>6, <2>1, SettledSame
<1>8. NotOlder(x.tab.dash, d)
  BY <1>6, CoreNotOlder
<1>9. ServerMoves
  <2>1. version \in [Users -> Nat]
    BY DEF Inv
  <2>2. version' \in [Users -> Nat]
    BY <1>1, <2>1
  <2>3. \A v \in Users : version[v] <= version'[v]
    BY <1>1, <2>1
  <2> QED BY <1>2, <2>2, <2>3 DEF ServerMoves, Inv
<1> QED BY <1>2, <1>6, <1>7, <1>8, <1>9, BecomesKeeps DEF Whole, d

LEMMA TryAgainKeeps ==
    ASSUME Inv, NEW t \in Tabs, TryAgain(t) PROVE Inv' /\ Fresher
<1> DEFINE w == World(t)  d == tab[t].dash  x == Mount(w)
<1>1. /\ Screen(tab[t]) = "app" /\ tab[t].dash.on /\ Becomes(t, x) /\ ServerMoves
  BY ServerStays DEF TryAgain
<1>2. tab[t].open
  BY <1>1, OpenScreens
<1>3. /\ Served /\ Whole(w, events[t], d) /\ Settled(w.tab) /\ Typed(w.tab) /\ w.tab = tab[t]
  BY <1>2, FromInv DEF World
<1> HIDE DEF w, d
<1>4. w.tab.user \in Users
  <2>1. w.tab.dash \in Dash
    BY <1>1, <1>3 DEF Typed, NoDashboard
  <2>2. w.tab.dash.user = w.tab.user
    BY <1>1, <1>3 DEF Settled
  <2> QED BY <2>1, <2>2 DEF Dash
<1>5. /\ Core(x, events[t], d) /\ FromHere(x.tab) /\ Awaits(x.tab)
      /\ x.tab.dash.on /\ x.tab.dash.user = w.tab.user
      /\ Same(x.tab, w.tab, {"cached", "dash", "sent", "loads", "generation", "snapshot"})
  BY <1>3, <1>4, MountKeeps DEF Whole
<1> HIDE DEF x
<1>6. Settled(x.tab)
  <2>1. Screen(x.tab) = "app"
    <3>1. Screen(x.tab) = Screen(w.tab)
      BY <1>5, ScreenSame
    <3> QED BY <1>1, <1>3, <3>1
  <2>2. x.tab.user = w.tab.user
    BY <1>5 DEF Same, TabFields
  <2>3. x.tab.dash.on = TRUE
    <3>1. Typed(x.tab)
      BY <1>5 DEF Core, TabInv
    <3> QED BY <1>5, <3>1, DashIsOn
  <2> QED BY <1>5, <2>1, <2>2, <2>3 DEF Settled
<1>7. NotOlder(x.tab.dash, d)
  BY <1>5, CoreNotOlder
<1> QED BY <1>1, <1>5, <1>6, <1>7, BecomesKeeps DEF Whole, d

(***************************************************************************)
(* What happens outside.                                                    *)
(***************************************************************************)
LEMMA RevokeKeeps ==
    ASSUME Inv, NEW l \in Logins, Revoke(l) PROVE Inv' /\ Fresher
<1>1. /\ valid' \subseteq valid /\ UNCHANGED <<telegram, stored, record, tab, events, issued, tgOwner, version>>
  BY DEF Revoke, device
<1>2. \A u \in Users : version[u] <= version'[u]
  BY <1>1 DEF Inv
<1>3. ServerMoves
  BY <1>1, <1>2 DEF ServerMoves, Inv
<1>4. RecordInv(record', stored)
  BY <1>1 DEF Inv
<1> QED BY <1>1, <1>3, <1>4, StaysKeeps

LEMMA RelinkKeeps ==
    ASSUME Inv, NEW who \in Users \cup {NoAccount, Refused}, Relink(who) PROVE Inv' /\ Fresher
<1>1. /\ tgOwner' = who /\ UNCHANGED <<telegram, stored, record, tab, events, issued, valid, version>>
  BY DEF Relink, device
<1>2. \A u \in Users : version[u] <= version'[u]
  BY <1>1 DEF Inv
<1>3. ServerMoves
  BY <1>1, <1>2 DEF ServerMoves, Inv, Callers
<1>4. RecordInv(record', stored)
  BY <1>1 DEF Inv
<1> QED BY <1>1, <1>3, <1>4, StaysKeeps

LEMMA AgeKeeps ==
    ASSUME Inv, NEW expired \in BOOLEAN, Age(expired) PROVE Inv' /\ Fresher
<1>1. /\ record # None /\ UNCHANGED <<telegram, server>> /\ UNCHANGED <<stored, tab, events>>
      /\ record' \in {[record EXCEPT !.expired = TRUE], [record EXCEPT !.broken = TRUE]}
  BY DEF Age
<1>2. record \in Saved
  BY <1>1 DEF Inv, RecordInv
<1>3. /\ record' \in Saved /\ record'.identity = record.identity /\ record'.user = record.user
      /\ record'.data = record.data /\ record'.unheard = record.unheard /\ record'.late = record.late
  <2>1. CASE record' = [record EXCEPT !.expired = TRUE]
    BY <1>2, <2>1 DEF Saved
  <2>2. CASE record' = [record EXCEPT !.broken = TRUE]
    BY <1>2, <2>2 DEF Saved
  <2> QED BY <1>1, <2>1, <2>2
<1>4. RecordInv(record', stored)
  BY <1>1, <1>3 DEF Inv, RecordInv
<1> QED BY <1>1, <1>4, ServerStays, StaysKeeps

LEMMA StorageEventKeeps ==
    ASSUME Inv, NEW t \in Tabs, StorageEvent(t) PROVE Inv' /\ Fresher
<1> DEFINE a == tab[t]
           b == [a EXCEPT !.cached = "unread", !.generation = @ + 1, !.snapshot = None]
           w == [tab |-> b, stored |-> stored, record |-> record, sends |-> 0]
           n == events[t] - 1
<1>1. /\ events \in [Tabs -> Nat] /\ tab = [o \in Tabs |-> tab[o]] /\ stored \in Sessions
      /\ RecordInv(record, stored)
      /\ Typed(a) /\ Owned(a) /\ Tickets(a) /\ Newest(a, version)
      /\ FromHere(a) /\ Awaits(a) /\ Closed(a) /\ Settled(a)
  BY DEF Inv, TabInv
<1>2. /\ UNCHANGED <<stored, record>> /\ ServerMoves /\ events[t] > 0 /\ events' = [events EXCEPT ![t] = @ - 1]
      /\ tab' = [tab EXCEPT ![t].cached = "unread", ![t].generation = @ + 1, ![t].snapshot = None]
  BY ServerStays DEF StorageEvent
<1>3. w.tab = b /\ w.stored = stored /\ w.record = record /\ w.sends = 0
  OBVIOUS
<1>4. tab' = [tab EXCEPT ![t] = b]
  BY <1>1, <1>2
<1>5. /\ Same(b, a, {"cached", "generation", "snapshot"}) /\ b.cached = "unread"
      /\ b.generation = a.generation + 1 /\ b.snapshot = None
  BY <1>1 DEF Same, TabFields, Typed
<1>6. n \in Nat
  BY <1>1, <1>2
<1>7. events' = [o \in Tabs |-> IF o = t THEN n
                                ELSE IF tab[o].open THEN events[o] + w.sends ELSE events[o]]
  <2>1. \A o \in Tabs : events[o] + w.sends = events[o]
    BY <1>1, <1>3
  <2>2. events' = [o \in Tabs |-> IF o = t THEN n ELSE events[o]]
    BY <1>1, <1>2
  <2> QED BY <2>1, <2>2
<1> HIDE DEF a, b, w, n
<1>8. Moved(t, w, n)
  BY <1>2, <1>3, <1>4, <1>7 DEF Moved
<1>9. /\ b.attempt = a.attempt /\ b.contexts = a.contexts /\ b.ticket = a.ticket
      /\ b.contextError = a.contextError /\ b.open = a.open /\ b.dash = a.dash /\ b.loads = a.loads
  BY <1>5 DEF Same, TabFields
<1>10. Typed(b)
  <2>1. a.generation \in Nat
    BY <1>1 DEF Typed
  <2> QED BY <1>1, <1>5, <2>1 DEF Typed, Same, TabFields
<1>11. Tickets(b) /\ FromHere(b)
  BY <1>1, <1>5, <1>9, <1>10, NextGeneration
<1>12. Owned(b) /\ Newest(b, version) /\ Awaits(b)
  BY <1>1, <1>5, OwnedSame, NewestSame, AwaitsSame
<1>13. Settled(b)
  <2>1. a.dash.on => b.dash.user = a.dash.user
    BY <1>9
  <2> QED BY <1>1, <1>5, <1>9, <2>1, SettledSame
<1>14. Heard(b, stored, n) /\ Closed(b)
  BY <1>1, <1>5, <1>9 DEF Heard, Closed
<1>15. Fits(w.tab, w.stored, n, version)
  BY <1>3, <1>10, <1>11, <1>12, <1>13, <1>14 DEF Fits, TabInv
<1>16. Stores(w)
  BY <1>1, <1>3 DEF Stores
<1>17. NotOlder(w.tab.dash, tab[t].dash)
  BY <1>1, <1>3, <1>9, SameNotOlder DEF a
<1> QED BY <1>2, <1>6, <1>8, <1>15, <1>16, <1>17, MovedKeeps

(***************************************************************************)
(* The answers of the server.                                               *)
(***************************************************************************)
LEMMA ContextDropped ==
    ASSUME NEW w, NEW n, NEW d, Whole(w, n, d), NEW c \in w.tab.contexts
    PROVE  LET v == [w EXCEPT !.tab.contexts = @ \ {c}] IN Whole(v, n, d) /\ Answerable(v, c)
<1> DEFINE v == [w EXCEPT !.tab.contexts = @ \ {c}]  a == w.tab  b == v.tab
<1>1. /\ World4(w) /\ Typed(a) /\ Owned(a) /\ Tickets(a) /\ Heard(a, w.stored, n) /\ Newest(a, version)
      /\ a.open /\ FromHere(a) /\ Awaits(a) /\ c \in a.contexts
  BY DEF Whole, Core, TabInv
<1>2. /\ World4(v) /\ v.stored = w.stored /\ v.record = w.record /\ v.sends = w.sends
      /\ Same(b, a, {"contexts"})
  BY <1>1 DEF World4, Same, TabFields, Typed
<1>3. b.contexts = a.contexts \ {c}
  BY <1>1 DEF World4, TabFields, Typed
<1> HIDE DEF v, a, b
<1>4. /\ b.attempt = a.attempt /\ b.generation = a.generation /\ b.loads = a.loads
      /\ b.cached = a.cached /\ b.ticket = a.ticket /\ b.user = a.user /\ b.userAs = a.userAs
      /\ b.open = a.open /\ b.dash = a.dash /\ b.contextError = a.contextError
  BY <1>2 DEF Same, TabFields
<1>5. Typed(b)
  BY <1>1, <1>2, <1>3 DEF Typed, Same, TabFields
<1>6. Owned(b)
  BY <1>1, <1>3, <1>4 DEF Owned
<1>7. \A ticket, as : Vouches(ticket, b, as) = Vouches(ticket, a, as)
  BY <1>4 DEF Vouches
<1>8. Tickets(b)
  BY <1>1, <1>3, <1>4, <1>7 DEF Tickets
<1>9. Newest(b, version) /\ FromHere(b) /\ Awaits(b)
  BY <1>1, <1>2, NewestSame, FromHereSame, AwaitsSame
<1>10. Heard(b, v.stored, n)
  BY <1>1, <1>2, <1>4 DEF Heard
<1>11. Core(v, n, d)
  <2>1. /\ w.sends \in Nat /\ w.stored \in Sessions /\ (w.stored = stored \/ w.sends > 0)
        /\ RecordInv(w.record, w.stored)
        /\ (a.dash.on /\ a.dash.fresh /\ a.dash.shown # None => d.on /\ d.shown = a.dash.shown)
    BY DEF Whole, Core, a
  <2> QED BY <1>1, <1>2, <1>4, <1>5, <1>6, <1>8, <1>9, <1>10, <2>1 DEF Core, TabInv, b
<1>12. Answerable(v, c)
  <2>1. c.as \in Sessions /\ c.attempt \in Attempt
    BY <1>1 DEF Typed, Context
  <2>2. /\ a.attempt # None /\ c.attempt.ticket.generation <= a.attempt.ticket.generation
        /\ Vouches(c.attempt.ticket, a, c.as) /\ ~c.attempt.ticket.late
    BY <1>1 DEF Tickets
  <2> QED BY <1>4, <1>7, <2>1, <2>2 DEF Answerable, b
<1> QED BY <1>9, <1>11, <1>12 DEF Whole, v, b

LEMMA ContextAnsweredKeeps ==
    ASSUME Inv, NEW t \in Tabs, ContextAnswered(t) PROVE Inv' /\ Fresher
<1>0. PICK c \in tab[t].contexts :
         \E answer \in {c.caller, Caller(c.as), Down} :
            Becomes(t, ContextAnswer([World(t) EXCEPT !.tab.contexts = @ \ {c}], t, c, answer))
  BY DEF ContextAnswered
<1>1. PICK answer \in {c.caller, Caller(c.as), Down} :
         Becomes(t, ContextAnswer([World(t) EXCEPT !.tab.contexts = @ \ {c}], t, c, answer))
  BY <1>0
<1> DEFINE w == World(t)  d == tab[t].dash  v == [w EXCEPT !.tab.contexts = @ \ {c}]
           x == ContextAnswer(v, t, c, answer)
<1>2. tab[t].open
  BY DEF Inv, Closed
<1>3. /\ Served /\ events[t] \in Nat /\ Whole(w, events[t], d) /\ c \in w.tab.contexts
      /\ Typed(tab[t]) /\ Owned(tab[t])
  BY <1>2, FromInv DEF World, Inv, TabInv
<1> HIDE DEF w, d
<1>4. Whole(v, events[t], d) /\ Answerable(v, c)
  BY <1>3, ContextDropped
<1>5. c.caller \in Callers /\ SpeaksFor(c.as, c.caller) /\ c.as \in Sessions
  BY <1>3 DEF Typed, Owned, Context
<1>6. Caller(c.as) \in Callers /\ SpeaksFor(c.as, Caller(c.as))
  BY <1>3, <1>5, CallerOf
<1> HIDE DEF v
<1>7. Whole(x, events[t], d) /\ Settled(x.tab)
  <2>1. CASE answer \in Users
    <3>1. Down \notin Users
      BY ClientStartAssumption DEF Down
    <3>2. SpeaksFor(c.as, answer)
      BY <1>1, <1>5, <1>6, <2>1, <3>1
    <3> QED BY <1>3, <1>4, <2>1, <3>2, UserAnswerKeeps
  <2>2. CASE answer \notin Users
    <3>1. answer \in {NoAccount, Refused, Down}
      BY <1>1, <1>5, <1>6, <2>2 DEF Callers
    <3> QED BY <1>3, <1>4, <3>1, OtherAnswerKeeps
  <2> QED BY <2>1, <2>2
<1> HIDE DEF x
<1>8. NotOlder(x.tab.dash, d)
  BY <1>7, CoreNotOlder DEF Whole
<1>9. ServerMoves /\ Becomes(t, x)
  BY <1>1, ServerStays DEF ContextAnswered, x, v, w
<1> QED BY <1>7, <1>8, <1>9, BecomesKeeps DEF d

\* the versions an answer to l may carry, when user u asked
Readable(l, u) == (IF u = l.caller THEN l.from ELSE version[u]) .. version[u]

LEMMA OverviewAnsweredKeeps ==
    ASSUME Inv, NEW t \in Tabs, OverviewAnswered(t) PROVE Inv' /\ Fresher
<1> DEFINE w == World(t)  d == tab[t].dash
<1>1. PICK l \in tab[t].loads :
         \/ \E u \in {l.caller, Caller(l.as)} \cap Users : \E v \in Readable(l, u) :
               Becomes(t, OverviewLoaded([w EXCEPT !.tab.loads = @ \ {l}], t, l,
                                         [user |-> u, as |-> l.as, version |-> v]))
         \/ \E answer \in ({l.caller, Caller(l.as)} \ Users) \cup {Down} :
               Becomes(t, OverviewFailed([w EXCEPT !.tab.loads = @ \ {l}], l, answer))
  BY DEF OverviewAnswered, Readable
<1>2. tab[t].open
  BY DEF Inv, Closed
<1>3. /\ Served /\ events[t] \in Nat /\ Whole(w, events[t], d) /\ Settled(w.tab) /\ w.tab = tab[t]
      /\ Typed(tab[t]) /\ Owned(tab[t])
  BY <1>2, FromInv DEF World, Inv, TabInv
<1>4. ServerMoves
  BY ServerStays DEF OverviewAnswered
<1> HIDE DEF w
<1>5. ASSUME NEW u \in {l.caller, Caller(l.as)} \cap Users, NEW v \in Readable(l, u),
             Becomes(t, OverviewLoaded([w EXCEPT !.tab.loads = @ \ {l}], t, l,
                                       [user |-> u, as |-> l.as, version |-> v]))
      PROVE  Inv' /\ Fresher
  <2> DEFINE data == [user |-> u, as |-> l.as, version |-> v]
             x == OverviewLoaded([w EXCEPT !.tab.loads = @ \ {l}], t, l, data)
  <2>1. l.as \in Sessions /\ l.from \in Nat /\ SpeaksFor(l.as, l.caller)
    BY <1>3 DEF Typed, Load, Owned
  <2>2. version[u] \in Nat
    BY <1>3 DEF Served
  <2>3. v \in Nat /\ v <= version[u] /\ (IF u = l.caller THEN l.from <= v ELSE v = version[u])
    BY <1>5, <2>1, <2>2 DEF Readable
  <2>4. SpeaksFor(l.as, u)
    BY <1>3, <2>1, CallerOf
  <2>5. data \in Data /\ data.as = l.as /\ data.user = u /\ data.version = v
    BY <2>1, <2>3 DEF Data, Sessions
  <2> HIDE DEF data
  <2>6. Whole(x, events[t], x.tab.dash) /\ Settled(x.tab) /\ NotOlder(x.tab.dash, w.tab.dash)
    <3>1. Whole(w, events[t], w.tab.dash) /\ l \in w.tab.loads
      BY <1>3
    <3>2. IF data.user = l.caller THEN l.from <= data.version ELSE data.version = version[data.user]
      BY <2>3, <2>5
    <3> QED BY <1>3, <2>3, <2>4, <2>5, <3>1, <3>2, LoadedKeeps
  <2>7. Becomes(t, x)
    BY <1>5 DEF data
  <2> HIDE DEF x
  <2> QED BY <1>3, <1>4, <2>6, <2>7, BecomesKeeps
<1>6. ASSUME NEW answer, Becomes(t, OverviewFailed([w EXCEPT !.tab.loads = @ \ {l}], l, answer))
      PROVE  Inv' /\ Fresher
  <2> DEFINE x == OverviewFailed([w EXCEPT !.tab.loads = @ \ {l}], l, answer)
  <2>1. Whole(x, events[t], d) /\ Settled(x.tab)
    <3>1. l \in w.tab.loads
      BY <1>3
    <3> HIDE DEF d
    <3> QED BY <1>3, <3>1, FailedKeeps
  <2>2. Becomes(t, x)
    BY <1>6
  <2> HIDE DEF x
  <2>3. NotOlder(x.tab.dash, d)
    BY <2>1, CoreNotOlder DEF Whole
  <2> QED BY <1>4, <2>1, <2>2, <2>3, BecomesKeeps
<1> QED BY <1>1, <1>5, <1>6

LEMMA PricesKeep ==
    ASSUME NEW w, NEW n, NEW d, Whole(w, n, d), Settled(w.tab), w.tab.dash.on
    PROVE  LET v == [w EXCEPT !.tab.dash.prices = FALSE] IN Whole(v, n, d) /\ Settled(v.tab) /\ v.tab.dash.on
<1> DEFINE v == [w EXCEPT !.tab.dash.prices = FALSE]  a == w.tab  b == v.tab
<1>1. /\ World4(w) /\ Typed(a) /\ Owned(a) /\ Tickets(a) /\ Heard(a, w.stored, n) /\ Newest(a, version)
      /\ a.open /\ FromHere(a) /\ Awaits(a) /\ a.dash.on /\ Settled(a)
      /\ (a.dash.fresh /\ a.dash.shown # None => d.on /\ d.shown = a.dash.shown)
  BY DEF Whole, Core, TabInv
<1>2. a.dash \in Dash
  BY <1>1 DEF Typed, NoDashboard
<1>3. /\ World4(v) /\ v.stored = w.stored /\ v.record = w.record /\ v.sends = w.sends
      /\ Same(b, a, {"dash"})
  BY <1>1 DEF World4, Same, TabFields, Typed
<1>4. b.dash = [a.dash EXCEPT !.prices = FALSE]
  BY <1>1, <1>2 DEF World4, TabFields, Typed, Dash
<1> HIDE DEF v, a, b
<1>5. /\ b.dash \in Dash /\ b.dash.shown = a.dash.shown /\ b.dash.on = a.dash.on /\ b.dash.user = a.dash.user
      /\ b.dash.loading = a.dash.loading /\ b.dash.refreshing = a.dash.refreshing /\ b.dash.fresh = a.dash.fresh
  BY <1>2, <1>4 DEF Dash
<1>6. /\ b.attempt = a.attempt /\ b.generation = a.generation /\ b.contexts = a.contexts
      /\ b.cached = a.cached /\ b.ticket = a.ticket /\ b.user = a.user /\ b.userAs = a.userAs
      /\ b.open = a.open /\ b.loads = a.loads
  BY <1>3 DEF Same, TabFields
<1>7. Typed(b)
  BY <1>1, <1>3, <1>5 DEF Typed, Same, TabFields
<1>8. Owned(b)
  BY <1>1, <1>5, <1>6 DEF Owned
<1>9. Tickets(b)
  BY <1>1, <1>3, TicketsSame
<1>10. Newest(b, version)
  BY <1>1, <1>5, <1>6 DEF Newest
<1>11. Heard(b, v.stored, n)
  BY <1>1, <1>3, <1>6 DEF Heard
<1>12. Awaits(b) /\ FromHere(b)
  BY <1>1, <1>5, <1>6 DEF Awaits, FromHere
<1>13. Settled(b)
  BY <1>1, <1>3, <1>5, SettledSame
<1>14. Core(v, n, d)
  <2>1. /\ w.sends \in Nat /\ w.stored \in Sessions /\ (w.stored = stored \/ w.sends > 0)
        /\ RecordInv(w.record, w.stored)
    BY DEF Whole, Core
  <2> QED BY <1>1, <1>3, <1>5, <1>6, <1>7, <1>8, <1>9, <1>10, <1>11, <2>1 DEF Core, TabInv, b
<1> QED BY <1>1, <1>5, <1>12, <1>13, <1>14 DEF Whole, v, b

LEMMA PricesAnsweredKeeps ==
    ASSUME Inv, NEW t \in Tabs, PricesAnswered(t) PROVE Inv' /\ Fresher
<1> DEFINE w == World(t)  d == tab[t].dash  v == [w EXCEPT !.tab.dash.prices = FALSE]
           x == writeStart(v, t)
<1>1. /\ ServerMoves /\ tab[t].dash.on /\ (Becomes(t, v) \/ Becomes(t, x))
  BY ServerStays DEF PricesAnswered
<1>2. tab[t].open
  BY <1>1 DEF Inv, Closed
<1>3. /\ Served /\ events[t] \in Nat /\ Whole(w, events[t], d) /\ Settled(w.tab) /\ w.tab.dash.on
  BY <1>1, <1>2, FromInv DEF World
<1> HIDE DEF w, d
<1>4. Whole(v, events[t], d) /\ Settled(v.tab) /\ v.tab.dash.on
  BY <1>3, PricesKeep
<1> HIDE DEF v
<1>5. v.tab.dash.on => v.tab.dash.user = v.tab.user
  BY <1>4 DEF Settled
<1>6. Core(x, events[t], d) /\ x.tab = v.tab
  BY <1>3, <1>4, <1>5, WriteKeeps DEF Whole
<1> HIDE DEF x
<1>7. Whole(x, events[t], d) /\ Settled(x.tab)
  BY <1>4, <1>6 DEF Whole
<1>8. NotOlder(v.tab.dash, d) /\ NotOlder(x.tab.dash, d)
  BY <1>4, <1>6, CoreNotOlder DEF Whole
<1>9. CASE Becomes(t, v)
  BY <1>1, <1>4, <1>8, <1>9, BecomesKeeps DEF d
<1>10. CASE Becomes(t, x)
  BY <1>1, <1>7, <1>8, <1>10, BecomesKeeps DEF d
<1> QED BY <1>1, <1>9, <1>10

(***************************************************************************)
(* The start, and the whole.                                                *)
(***************************************************************************)
LEMMA InitInv == Init => Inv
<1> SUFFICES ASSUME Init PROVE Inv
  OBVIOUS
<1>1. /\ telegram \in BOOLEAN /\ tgOwner \in Callers /\ version \in [Users -> Nat]
      /\ stored \in Sessions /\ valid \subseteq issued /\ issued \subseteq Logins
      /\ events = [t \in Tabs |-> 0]
  BY ClientStartAssumption DEF Init, Callers, Sessions
<1>2. Served
  BY <1>1 DEF Served
<1>3. RecordInv(record, stored)
  <2>1. CASE record = None
    BY <2>1 DEF RecordInv
  <2>2. CASE record # None
    <3>1. PICK u \in Users : record = SavedStart(u)
      BY <2>2 DEF Init
    <3>2. stored # None /\ record.user = OwnerOf[stored]
      BY <2>2 DEF Init
    <3>3. [user |-> u, as |-> None, version |-> 0] \in Data
      BY DEF Data
    <3>4. record \in Saved /\ record.user = u /\ record.data.user = u
      BY <3>1, <3>3 DEF SavedStart, Saved
    <3> QED BY <3>2, <3>4 DEF RecordInv
  <2> QED BY <2>1, <2>2
<1>4. PICK running \in Tabs : tab = [t \in Tabs |-> IF t = running THEN JustStarted ELSE ClosedTab]
  BY DEF Init
<1> DEFINE w == load(FreshWorld, TRUE)
<1>5. JustStarted = w.tab
  BY DEF JustStarted, FreshWorld
<1>6. /\ Core(w, 0, NoDashboard) /\ FromHere(w.tab) /\ Awaits(w.tab) /\ Settled(w.tab)
      /\ w.stored = stored
  <2>1. Core(FreshWorld, 0, NoDashboard) /\ Awaits(FreshWorld.tab) /\ ~FreshWorld.tab.dash.on
        /\ FreshWorld.stored = stored /\ TRUE \in BOOLEAN
    BY <1>1, <1>2, <1>3, FreshKeeps DEF FreshWorld
  <2> QED BY <1>2, <2>1, LoadKeeps
<1> HIDE DEF w
<1>7. Fits(w.tab, stored, 0, version)
  BY <1>6 DEF Core, Fits, Closed
<1>8. ASSUME NEW t \in Tabs PROVE Fits(tab[t], stored, events[t], version)
  <2>1. events[t] = 0
    BY <1>1
  <2>2. CASE t = running
    BY <1>4, <1>5, <1>7, <2>1, <2>2
  <2>3. CASE t # running
    BY <1>4, <2>1, <2>3, ClosedFits
  <2> QED BY <2>2, <2>3
<1>9. events \in [Tabs -> Nat] /\ tab = [t \in Tabs |-> tab[t]]
  BY <1>1, <1>4
<1> QED BY <1>1, <1>3, <1>8, <1>9 DEF Inv, Fits

LEMMA StepKeeps == Inv /\ [Next]_vars => Inv' /\ Fresher
<1> SUFFICES ASSUME Inv, [Next]_vars PROVE Inv' /\ Fresher
  OBVIOUS
<1>1. ASSUME NEW t \in Tabs,
             \/ Open(t) \/ Close(t) \/ Refresh(t) \/ Operate(t) \/ TryAgain(t) \/ DeleteAccount(t)
      PROVE  Inv' /\ Fresher
  BY <1>1, OpenKeeps, CloseKeeps, RefreshKeeps, OperateKeeps, TryAgainKeeps, DeleteAccountKeeps
<1>2. ASSUME NEW t \in Tabs,
             \/ \E answered \in BOOLEAN : SignOut(t, answered)
             \/ \E l \in Logins : LogIn(t, l)
             \/ \E u \in Users : Register(t, u)
      PROVE  Inv' /\ Fresher
  BY <1>2, SignOutKeeps, LogInKeeps, RegisterKeeps
<1>3. ASSUME NEW t \in Tabs, StorageEvent(t) \/ Answers(t)
      PROVE  Inv' /\ Fresher
  BY <1>3, StorageEventKeeps, ContextAnsweredKeeps, OverviewAnsweredKeeps, PricesAnsweredKeeps DEF Answers
<1>4. ASSUME \/ \E l \in Logins : Revoke(l)
             \/ \E who \in Users \cup {NoAccount, Refused} : Relink(who)
             \/ \E expired \in BOOLEAN : Age(expired)
      PROVE  Inv' /\ Fresher
  BY <1>4, RevokeKeeps, RelinkKeeps, AgeKeeps
<1>5. ASSUME UNCHANGED vars PROVE Inv' /\ Fresher
  <2>1. UNCHANGED <<telegram, server>> /\ UNCHANGED <<stored, tab, events>> /\ RecordInv(record', stored)
    BY <1>5 DEF vars, server, Inv
  <2> QED BY <2>1, ServerStays, StaysKeeps
<1> QED BY <1>1, <1>2, <1>3, <1>4, <1>5 DEF Next

\* The invariant holds in every state, whatever the tabs, logins and users.
THEOREM StartsAreSafe == Spec => []Inv
  BY InitInv, StepKeeps, PTL DEF Spec

\* Every request in flight, record and screen has the shape the client gives
\* it, and the pages of the application exist exactly while App shows them.
THEOREM TypesAreRight == Spec => []TypeOK
<1>1. Inv => TypeOK
  <2> SUFFICES ASSUME Inv PROVE TypeOK
    OBVIOUS
  <2>1. ASSUME NEW t \in Tabs
        PROVE  /\ tab[t].cached \in Logins \cup {None, "unread"}
               /\ tab[t].user \in Users \cup {None}
               /\ tab[t].ticket \in Ticket \cup {None}
               /\ tab[t].attempt \in Attempt \cup {None}
               /\ \A c \in tab[t].contexts : c.attempt \in Attempt
               /\ tab[t].dash.on = (Screen(tab[t]) = "app")
               /\ tab[t].dash.on => /\ tab[t].dash.user = tab[t].user
                                    /\ tab[t].dash.shown \in Data \cup {None}
    <3>1. Typed(tab[t]) /\ Settled(tab[t])
      BY DEF Inv, TabInv
    <3>2. tab[t].dash.on => tab[t].dash \in Dash
      BY <3>1 DEF Typed, NoDashboard
    <3>3. tab[t].dash.on => tab[t].dash.shown \in Data \cup {None}
      BY <3>2 DEF Dash
    <3> QED BY <3>1, <3>3 DEF Typed, Settled, Context, Sessions
  <2>2. record \in {None} \cup [identity : {"session", "tg"}, user : Users, data : Data,
                                expired : BOOLEAN, broken : BOOLEAN, unheard : BOOLEAN, late : BOOLEAN]
    BY DEF Inv, RecordInv, Saved
  <2>3. /\ stored \in Logins \cup {None} /\ valid \subseteq issued /\ issued \subseteq Logins
        /\ tgOwner \in Users \cup {NoAccount, Refused}
    BY DEF Inv, Sessions, Callers
  <2> QED BY <2>1, <2>2, <2>3 DEF TypeOK
<1> QED BY <1>1, StartsAreSafe, PTL

\* The snapshot on the device belongs to the login on the device, unless a tab
\* wrote it before it heard of a change made in another.
THEOREM RecordsAreOfThisLogin == Spec => []RecordOfThisLogin
<1>1. Inv => RecordOfThisLogin
  BY DEF Inv, RecordInv, RecordOfThisLogin
<1> QED BY <1>1, StartsAreSafe, PTL

\* An overview on the screen that came from the start cache, or was asked for
\* with the session the user was, is the user's.
THEOREM OverviewsAreOfTheirUser == Spec => []OverviewOfItsUser
<1>1. Inv => OverviewOfItsUser
  <2> SUFFICES ASSUME Inv, NEW t \in Tabs, tab[t].dash.on, tab[t].dash.shown # None,
                      tab[t].dash.shown.as \in {"cache"} \cup ({tab[t].userAs} \cap Logins)
               PROVE  tab[t].dash.shown.user = tab[t].user
    BY DEF OverviewOfItsUser
  <2> DEFINE a == tab[t]
  <2>1. Typed(a) /\ Owned(a) /\ a.dash.user = a.user
    BY DEF Inv, TabInv, Settled
  <2>2. a.dash \in Dash
    BY <2>1 DEF Typed, NoDashboard
  <2>3. a.dash.shown.user \in Users /\ a.user \in Users
    BY <2>1, <2>2 DEF Dash, Data
  <2>4. SpeaksFor(a.dash.shown.as, a.dash.shown.user) /\ SpeaksFor(a.userAs, a.user)
        /\ (a.dash.shown.as = "cache" => a.dash.shown.user = a.dash.user)
    BY <2>1, <2>3, ClientStartAssumption DEF Owned
  <2>5. CASE a.dash.shown.as = "cache"
    BY <2>1, <2>4, <2>5
  <2>6. CASE a.dash.shown.as = a.userAs /\ a.userAs \in Logins
    BY <2>3, <2>4, <2>6, ClientStartAssumption DEF SpeaksFor, Refused
  <2> QED BY <2>5, <2>6
<1> QED BY <1>1, StartsAreSafe, PTL

\* A splash waits for an answer that will end it.
THEOREM SplashesAwaitAnAnswer == Spec => []SplashAwaitsAnAnswer
<1>1. Inv => SplashAwaitsAnAnswer
  BY DEF Inv, Settled, Awaits, SplashAwaitsAnAnswer
<1> QED BY <1>1, StartsAreSafe, PTL

\* No late answer puts an older overview of the same user back on the screen.
THEOREM FreshOverviewsStay == Spec => FreshNeverGoesBack
<1>1. Inv /\ [Next]_vars =>
         [\A t \in Tabs :
             LET old == tab[t].dash
                 new == tab'[t].dash
             IN  old.on /\ new.on /\ old.fresh /\ old.shown # None /\ new.shown # None
                     /\ old.user = new.user /\ old.shown.user = new.shown.user
                     /\ tab'[t].sent >= tab[t].sent /\ new.fresh
                 => new.shown.version >= old.shown.version]_vars
  BY StepKeeps DEF Fresher, NotOlder
<1> QED BY <1>1, StartsAreSafe, PTL DEF Spec, FreshNeverGoesBack
=============================================================================
