----------------------------- MODULE ClientForms -----------------------------
(***************************************************************************)
(* A page of the web client with its sheets.  A sheet is opened by a state *)
(* of the page (its door) and holds one or several forms; a form lets some *)
(* submissions through, by what it shows, and its handler makes calls one  *)
(* after another.  Calls are handled by the server, answered or lost; a    *)
(* handler goes on after its sheet was closed.  The forms themselves are   *)
(* the constant Forms; the modules *Forms describe those of the client.    *)
(*                                                                         *)
(* The amounts on the server and on the screen are "facts".                *)
(***************************************************************************)
EXTENDS FormRecords

CONSTANTS
    Forms,          \* name of a form -> what the form does
    Scenes,         \* sets of forms of one page that are tried together
    Bounds          \* by the number of forms: taps, losses, changes elsewhere, refreshes,
                    \* and how many of the last three together

\* The server looks at the request key in every call of the form.
Honoured(f) == \A o \in Forms[f].offers : \A i \in DOMAIN o.calls : o.calls[i].once
KeyedForm(f) == Forms[f].scope # None /\ Honoured(f)

Amounted(amounts) == amounts \in [DOMAIN amounts -> Int]
AmountedCall(c) == Amounted(c.needs) /\ Amounted(c.moves)

\* A scene is a set of forms, an offer makes a call at least, and amounts are numbers.
ASSUME ClientFormsAssumption ==
    /\ None \notin Int
    /\ \A forms \in Scenes : forms \subseteq DOMAIN Forms
    /\ \A f \in DOMAIN Forms :
          /\ Amounted(Forms[f].facts)
          /\ Forms[f].after \in {"reload", "awaited", "patch", "nothing"}
          /\ \A o \in Forms[f].offers :
                /\ Amounted(o.asks)
                /\ Len(o.calls) \in Nat \ {0} /\ DOMAIN o.calls = 1..Len(o.calls)
                /\ \A i \in DOMAIN o.calls : AmountedCall(o.calls[i])
                /\ o.undo # None => AmountedCall(o.undo)

\* A form that waits for the load of its page closes no door under a form that
\* locks its sheet.  Where no key keeps a locked form from being carried out twice,
\* only a form of the same sheet with the same busy state closes its door.
ASSUME DoorsAssumption ==
    \A forms \in Scenes : \A f, g \in forms :
        Forms[g].locked /\ Forms[g].slot = None /\ Forms[g].door \in Forms[f].closes =>
            /\ Forms[f].after # "awaited"
            /\ f # g /\ ~KeyedForm(g) =>
                  Forms[f].door = Forms[g].door /\ Forms[f].flag = Forms[g].flag /\ Forms[f].slot = None

VARIABLES
    scene,      \* the forms of this behaviour
    facts,      \* the server: amounts by name
    version,    \* the server: number of changes of facts
    keys,       \* the server: request keys already carried out
    page,       \* what the page shows and the loads it has in flight
    slots,      \* busy states that live in the page, by name
    sheet,      \* the sheet that is open, or None
    session,    \* sessionStorage: the saved request by scope, or None
    runs,       \* handlers that run
    orphans,    \* requests nobody waits for, which the server may still get
    wishes,     \* history: what the user wanted, one entry per intention
    owed,       \* history: the change up to which the page must show
    count       \* taps, losses, changes elsewhere and refreshes so far

vars == <<scene, facts, version, keys, page, slots, sheet, session, runs, orphans, wishes, owed, count>>

Most == Bounds[Cardinality(scene)]
Disturbances == count.losses + count.elsewhere + count.refreshes
Spare(kind) == count[kind] < Most[kind] /\ (kind = "taps" \/ Disturbances < Most.disturbances)

Larger(m, n) == IF m >= n THEN m ELSE n
Smaller(m, n) == IF m <= n THEN m ELSE n

Slots == {Forms[f].slot : f \in scene} \ {None}
Scopes == {Forms[f].scope : f \in scene} \ {None}
CallsOf(f) == UNION {{o.calls[i] : i \in DOMAIN o.calls} : o \in Forms[f].offers}
Amounts(f) == (UNION {DOMAIN o.asks : o \in Forms[f].offers}) \cup DOMAIN Forms[f].facts
                \cup (UNION {DOMAIN c.needs \cup DOMAIN c.moves : c \in CallsOf(f)})

\* The amounts a scene begins with: two of everything a form says nothing about.
FirstFacts(forms) ==
    [n \in UNION {Amounts(f) : f \in forms} |->
        IF \E f \in forms : n \in DOMAIN Forms[f].facts
        THEN LET f == CHOOSE f \in forms : n \in DOMAIN Forms[f].facts IN Forms[f].facts[n]
        ELSE 2]

------------------------------------------------------------------------------
(* The page and its sheets. *)

Guarded == \A f \in scene : Forms[f].guarded

\* A load is answered with what the server had at some time since it was sent.
WithLoad(p) == [p EXCEPT !.sent = @ + 1,
                         !.loads = @ \cup {[id |-> p.sent + 1, shown |-> facts, seen |-> version]}]

\* What the form has before its eyes: data of the page now or when it opened the
\* sheet, or data the sheet asked for.
Shown(f) == CASE Forms[f].reads = "page" -> page.shown
              [] Forms[f].reads \in {"door", "sheet"} -> sheet.shown

Marked(f) == IF Forms[f].slot = None THEN Forms[f].flag \in sheet.busy
                                     ELSE slots[Forms[f].slot] = Forms[f].flag

Lets(f, o) == \A n \in DOMAIN o.asks : Shown(f)[n] >= o.asks[n]

\* onClose is refused while one of the forms that lock the sheet runs.
Locked == \E f \in scene : /\ Forms[f].door = sheet.door /\ Forms[f].locked
                           /\ Marked(f)

Unmounted(rs) == {[r EXCEPT !.mounted = FALSE] : r \in rs}

------------------------------------------------------------------------------
(* useCryptoRequestKey *)

\* The request saved in the storage of the tab wins over the memory of the form.
SavedRequest(f) == IF session[Forms[f].scope] # None THEN session[Forms[f].scope]
                                                     ELSE sheet.memory[f]

\* Mutant: every tap is a request of its own.
RequestKeyAnew(f, payload) == [payload |-> payload, id |-> count.taps + 1]

RequestKey(f, payload) ==
    LET saved == SavedRequest(f) IN
    IF saved # None /\ saved.payload = payload THEN saved
    ELSE [payload |-> payload, id |-> count.taps + 1]

------------------------------------------------------------------------------
(* The server. *)

CallOf(r) == IF r.undoing THEN r.offer.undo ELSE r.offer.calls[r.step]
Sufficient(c) == \A n \in DOMAIN c.needs : facts[n] >= c.needs[n]
Moved(c) == [n \in DOMAIN facts |-> IF n \in DOMAIN c.moves THEN facts[n] + c.moves[n] ELSE facts[n]]

\* A request with a key the server has carried out is answered again without
\* effect, where the server looks at the key; so is a call for what is gone already.
Repeated(r) == LET c == CallOf(r) IN (c.once /\ r.key \in keys) \/ (c.spent # None /\ facts[c.spent] < 1)

Carried(r) ==
    /\ facts' = Moved(CallOf(r))
    /\ version' = version + 1
    /\ keys' = IF CallOf(r).once /\ r.key # None THEN keys \cup {r.key} ELSE keys
    /\ wishes' = IF r.step = 1 /\ ~r.undoing THEN [wishes EXCEPT ![r.wish].times = @ + 1] ELSE wishes

------------------------------------------------------------------------------
NoBusy == [s \in Slots |-> None]

Init ==
    /\ scene \in Scenes
    /\ facts = FirstFacts(scene)
    /\ version = 0 /\ owed = 0
    /\ keys = {}
    /\ page = [shown |-> facts, seen |-> 0, sent |-> 0, loads |-> {}]
    /\ slots = NoBusy
    /\ sheet = None
    /\ session = [s \in Scopes |-> None]
    /\ runs = {} /\ orphans = {}
    /\ wishes = <<>>
    /\ count = [taps |-> 0, losses |-> 0, elsewhere |-> 0, refreshes |-> 0]

server == <<facts, version, keys>>

OpenSheet(f) ==
    /\ sheet = None
    /\ Spare("taps")
    /\ sheet' = [door |-> Forms[f].door, shown |-> IF Forms[f].reads = "door" THEN page.shown ELSE facts,
                 busy |-> {}, over |-> {}, memory |-> [g \in scene |-> None]]
    /\ UNCHANGED <<scene, server, page, slots, session, runs, orphans, wishes, owed, count>>

CloseSheetAnyTime ==
    /\ sheet # None
    /\ sheet' = None
    /\ runs' = Unmounted(runs)
    /\ UNCHANGED <<scene, server, page, slots, session, orphans, wishes, owed, count>>

CloseSheet ==
    /\ sheet # None
    /\ ~Locked
    /\ sheet' = None
    /\ runs' = Unmounted(runs)
    /\ UNCHANGED <<scene, server, page, slots, session, orphans, wishes, owed, count>>

\* History: an intention goes on until its answer is known; another one of the
\* same scope that begins or runs meanwhile crosses it.
Topic(f) == IF Forms[f].scope = None THEN f ELSE Forms[f].scope
Pending(f, payload) == {w \in DOMAIN wishes : /\ wishes[w].topic = Topic(f) /\ wishes[w].open
                                              /\ wishes[w].payload = payload}
Others(f, own) == {w \in DOMAIN wishes : /\ wishes[w].topic = Topic(f) /\ w # own
                                         /\ wishes[w].open \/ \E r \in runs : r.wish = w}
Wished(f, payload, own) ==
    LET known == own \in DOMAIN wishes
        wish == IF known THEN wishes[own]
                ELSE [topic |-> Topic(f), form |-> f, payload |-> payload, open |-> TRUE,
                      times |-> 0, lost |-> FALSE, crossed |-> FALSE]
        others == Others(f, own)
    IN  [w \in DOMAIN wishes \cup {own} |->
            IF w = own THEN [wish EXCEPT !.crossed = @ \/ others # {}]
            ELSE IF w \in others THEN [wishes[w] EXCEPT !.crossed = TRUE] ELSE wishes[w]]

\* A tap on the button of a form: disabled while the handler is marked as
\* running, or while what is shown does not allow it.
Submit(f, o) ==
    /\ Spare("taps")
    /\ sheet # None /\ sheet.door = Forms[f].door
    /\ ~Marked(f) /\ Forms[f].flag \notin sheet.over
    /\ Lets(f, o)
    /\ LET form == Forms[f]
           payload == <<f, o.payload>>
           request == IF form.scope = None THEN None ELSE RequestKey(f, payload)
           pending == Pending(f, payload)
           own == IF pending = {} THEN Len(wishes) + 1 ELSE CHOOSE w \in pending : TRUE
       IN  /\ runs' = runs \cup
                 {[id |-> count.taps + 1, form |-> f, offer |-> o, wish |-> own, step |-> 1,
                   key |-> IF request = None THEN None ELSE request.id, undoing |-> FALSE,
                   phase |-> "sent", at |-> 0, load |-> 0, mounted |-> TRUE]}
           /\ sheet' = [sheet EXCEPT !.busy = IF form.slot = None THEN @ \cup {form.flag} ELSE @,
                                     !.memory[f] = request]
           /\ slots' = IF form.slot = None THEN slots ELSE [slots EXCEPT ![form.slot] = form.flag]
           /\ session' = IF form.scope = None THEN session ELSE [session EXCEPT ![form.scope] = request]
           /\ wishes' = Wished(f, payload, own)
    /\ count' = [count EXCEPT !.taps = @ + 1]
    /\ UNCHANGED <<scene, server, page, orphans, owed>>

\* The server carries a request out, refuses it, or knows it already.
Handle(r) ==
    /\ r.phase = "sent"
    /\ IF Repeated(r) \/ ~Sufficient(CallOf(r))
       THEN /\ runs' = (runs \ {r}) \cup
                  {[r EXCEPT !.phase = IF Repeated(r) THEN "done" ELSE "refused", !.at = version]}
            /\ UNCHANGED <<server, wishes>>
       ELSE /\ runs' = (runs \ {r}) \cup {[r EXCEPT !.phase = "done", !.at = version + 1]}
            /\ Carried(r)
    /\ UNCHANGED <<scene, page, slots, sheet, session, orphans, owed, count>>

\* A request whose sender has given up arrives after all.
HandleOrphan(r) ==
    /\ orphans' = orphans \ {r}
    /\ IF Repeated(r) \/ ~Sufficient(CallOf(r)) THEN UNCHANGED <<server, wishes>> ELSE Carried(r)
    /\ UNCHANGED <<scene, page, slots, sheet, session, runs, owed, count>>

------------------------------------------------------------------------------
(* The end of a handler. *)

\* The busy state of a handler ends with it: in its sheet, if that is still
\* there, or in the page, whoever has set it since.
Freed(form) == IF form.slot = None THEN slots ELSE [slots EXCEPT ![form.slot] = None]
\* Mutant: only a success ends the busy state.
UnmarkedBySuccess(form, mounted) == sheet

Unmarked(form, mounted) ==
    IF mounted /\ form.slot = None THEN [sheet EXCEPT !.busy = @ \ {form.flag}] ELSE sheet

Judged(r, open) == [wishes EXCEPT ![r.wish].open = open]

\* Mutant: a success leaves the page as it is.
UpdatedNever(form, call) == page

\* Mutant: the answer takes the place of what the page shows.
UpdatedAlone(form, call) == [page EXCEPT !.shown = call.moves]

\* What the page shows after a success: it asks for everything anew, or takes
\* over what the answer says, or nothing of it is shown.
Updated(form, call) ==
    CASE form.after \in {"reload", "awaited"} -> WithLoad(page)
      [] form.after = "patch" ->
             [page EXCEPT !.seen = version,
                          !.shown = [n \in DOMAIN @ |-> IF n \in DOMAIN call.moves THEN facts[n] ELSE @[n]]]
      [] form.after = "nothing" -> page

\* completed() and onSuccess: the key is given up, the page closes its doors
\* and reloads; a handler that waits for the load stays busy.
Succeeded(r) ==
    LET form == Forms[r.form]
        closes == sheet # None /\ sheet.door \in form.closes
        waits == form.after = "awaited"
        left == (runs \ {r}) \cup IF waits THEN {[r EXCEPT !.phase = "loading", !.load = page.sent + 1]} ELSE {}
        settled == IF waits \/ ~form.frees THEN sheet ELSE Unmarked(form, r.mounted)
    IN  /\ session' = IF form.scope = None THEN session ELSE [session EXCEPT ![form.scope] = None]
        /\ slots' = IF waits THEN slots ELSE Freed(form)
        /\ sheet' = CASE closes -> None
                      [] ~closes /\ r.mounted -> [settled EXCEPT !.memory[r.form] = None]
                      [] ~closes /\ ~r.mounted -> sheet
        /\ runs' = IF closes THEN Unmounted(left) ELSE left
        /\ page' = Updated(form, CallOf(r))
        \* a load on its way may take the place of a patch
        /\ owed' = IF form.after = "nothing" \/ (form.after = "patch" /\ page.loads # {}) THEN owed
                   ELSE Larger(owed, r.at)
        /\ wishes' = Judged(r, FALSE)

\* The handler ends with an error, and its form stays as it is; the page hears
\* nothing of the calls that had gone through.
Failed(r) ==
    /\ slots' = Freed(Forms[r.form])
    /\ sheet' = LET form == Forms[r.form] IN
                IF form.final /\ r.mounted THEN [Unmarked(form, TRUE) EXCEPT !.over = @ \cup {form.flag}]
                                          ELSE Unmarked(form, r.mounted)
    /\ runs' = runs \ {r}
    /\ UNCHANGED <<session, page, owed>>

\* Mutant: nothing is undone.
StoppedAtOnce(r) == Failed(r)

\* A call of the script fails; where the script has something to undo, it does
\* so first.
Stopped(r) ==
    IF r.step > 1 /\ r.offer.undo # None /\ ~r.undoing
    THEN /\ runs' = (runs \ {r}) \cup {[r EXCEPT !.undoing = TRUE, !.phase = "sent"]}
         /\ UNCHANGED <<session, slots, sheet, page, owed>>
    ELSE Failed(r)

Answer(r) ==
    /\ CASE r.phase = "done" /\ ~r.undoing /\ r.step = Len(r.offer.calls) -> Succeeded(r)
         [] r.phase = "done" /\ ~r.undoing /\ r.step < Len(r.offer.calls) ->
                /\ runs' = (runs \ {r}) \cup {[r EXCEPT !.step = @ + 1, !.phase = "sent"]}
                /\ UNCHANGED <<session, slots, sheet, page, owed, wishes>>
         [] r.phase = "refused" \/ (r.phase = "done" /\ r.undoing) ->
                /\ Stopped(r)
                /\ wishes' = IF r.undoing \/ wishes[r.wish].lost THEN wishes ELSE Judged(r, FALSE)
         [] r.phase \in {"sent", "loading"} -> FALSE
    /\ UNCHANGED <<scene, server, orphans, count>>

\* The client gives up on a request; the server may get it later, or has it.
Lose(r) ==
    /\ Spare("losses")
    /\ r.phase # "loading"
    /\ count' = [count EXCEPT !.losses = @ + 1]
    /\ orphans' = IF r.phase = "sent" THEN orphans \cup {r} ELSE orphans
    /\ Stopped(r)
    /\ wishes' = [wishes EXCEPT ![r.wish].lost = TRUE]
    /\ UNCHANGED <<scene, server>>

------------------------------------------------------------------------------
(* The loads of the page, and the rest of the world. *)

\* Mutant: no page numbers its loads.
TakenInAnyOrder(l, answer) == [page EXCEPT !.shown = answer.shown, !.seen = answer.seen]

\* Only a page that numbers its loads drops the answer of an earlier one.
Taken(l, answer) ==
    IF Guarded /\ l.id # page.sent THEN page
    ELSE [page EXCEPT !.shown = answer.shown, !.seen = answer.seen]

\* The handlers that have waited for a load end with it, whether it failed or not.
Waited(l) ==
    LET over == {r \in runs : r.phase = "loading" /\ r.load = l.id}
        inPage == {Forms[r.form].slot : r \in over}
        inSheet == {Forms[r.form].flag :
                       r \in {q \in over : q.mounted /\ Forms[q.form].slot = None /\ Forms[q.form].frees}}
    IN  /\ runs' = runs \ over
        /\ slots' = [s \in Slots |-> IF s \in inPage THEN None ELSE slots[s]]
        /\ sheet' = IF inSheet = {} THEN sheet ELSE [sheet EXCEPT !.busy = @ \ inSheet]

LoadAnswered(l) ==
    /\ \E answer \in {l, [l EXCEPT !.shown = facts, !.seen = version]} :
          page' = [Taken(l, answer) EXCEPT !.loads = @ \ {l}]
    \* history: an unguarded page may go back to an older answer
    /\ owed' = IF Guarded \/ l.id = page.sent THEN owed ELSE Smaller(owed, page'.seen)
    /\ Waited(l)
    /\ UNCHANGED <<scene, server, session, orphans, wishes, count>>

\* The load fails and the page says so.
LoadLost(l) ==
    /\ Spare("losses")
    /\ count' = [count EXCEPT !.losses = @ + 1]
    /\ page' = [page EXCEPT !.loads = @ \ {l}]
    /\ owed' = IF l.id = page.sent THEN Smaller(owed, page.seen) ELSE owed
    /\ Waited(l)
    /\ UNCHANGED <<scene, server, session, orphans, wishes>>

Refresh ==
    /\ Spare("refreshes")
    /\ count' = [count EXCEPT !.refreshes = @ + 1]
    /\ page' = WithLoad(page)
    /\ UNCHANGED <<scene, server, slots, sheet, session, runs, orphans, wishes, owed>>

\* Another device, person or job of the server takes something.
Elsewhere(n) ==
    /\ Spare("elsewhere")
    /\ count' = [count EXCEPT !.elsewhere = @ + 1]
    /\ facts[n] > 0
    /\ facts' = [facts EXCEPT ![n] = @ - 1]
    /\ version' = version + 1
    /\ UNCHANGED <<scene, keys, page, slots, sheet, session, runs, orphans, wishes, owed>>

Next ==
    \/ \E f \in scene : OpenSheet(f) \/ \E o \in Forms[f].offers : Submit(f, o)
    \/ CloseSheet
    \/ \E r \in runs : Handle(r) \/ Answer(r) \/ Lose(r)
    \/ \E r \in orphans : HandleOrphan(r)
    \/ \E l \in page.loads : LoadAnswered(l) \/ LoadLost(l)
    \/ Refresh
    \/ \E n \in DOMAIN facts : Elsewhere(n)

Spec == Init /\ [][Next]_vars

------------------------------------------------------------------------------
(* Properties. *)

OfScene(request) ==
    request = None \/ (request.id \in 1..count.taps
                      /\ \E o \in Forms[request.payload[1]].offers : request.payload[2] = o.payload)

\* Types: the page shows an amount for every one of the server, a busy state has the name of a form of
\* its place, and a saved request is one of the scene.
TypeOK ==
    /\ facts \in [DOMAIN facts -> Int] /\ page.seen \in 0..version /\ owed \in 0..version
    /\ keys \subseteq 1..count.taps
    /\ DOMAIN page.shown = DOMAIN facts
    /\ \A s \in Slots : slots[s] = None \/ \E f \in scene : Forms[f].slot = s /\ Forms[f].flag = slots[s]
    /\ sheet # None => /\ \E f \in scene : sheet.door = Forms[f].door
                       /\ sheet.busy \subseteq {Forms[f].flag : f \in scene}
                       /\ \A f \in scene : OfScene(sheet.memory[f])
    /\ \A s \in Scopes : OfScene(session[s])
    /\ \A r \in runs : r.form \in scene /\ r.wish \in DOMAIN wishes

Keyed(w) == KeyedForm(wishes[w].form)
\* A busy state in the sheet is gone with it; one in the page is lost to another
\* form that writes there.
Leavable(f) ==
    IF Forms[f].slot = None THEN ~Forms[f].locked
    ELSE \E g \in scene : Forms[g].slot = Forms[f].slot /\ Forms[g].flag # Forms[f].flag

\* What the user wanted once is carried out once, however often the button was
\* tapped, the sheet closed and opened again, and answers were lost.  A form
\* with a request key promises that unless another request of its scope crossed
\* this one; a form without promises it as long as no answer was lost and the
\* form keeps the user in front of it.
DoneOnce ==
    \A w \in DOMAIN wishes :
        \/ wishes[w].times <= 1
        \/ Keyed(w) /\ wishes[w].crossed
        \/ ~Keyed(w) /\ (wishes[w].lost \/ Leavable(wishes[w].form))

\* When nothing is on its way, the page shows every change that was confirmed to
\* the user, unless its last load failed or it does not number its loads.
ChangesAreShown == runs = {} /\ page.loads = {} => page.seen >= owed

\* A busy form waits for one of its own handlers: no button stays disabled.
\* The one whose success does not end the busy state relies on a load that takes
\* the button away.
BusyAwaitsACall ==
    /\ sheet # None => \A flag \in sheet.busy :
          \/ \E r \in runs : r.mounted /\ Forms[r.form].flag = flag
          \/ \E f \in scene : Forms[f].flag = flag /\ ~Forms[f].frees
    /\ \A s \in Slots : slots[s] # None => \E r \in runs : Forms[r.form].slot = s

\* A script with an undo leaves nothing half-made, unless an answer was lost.
NothingHalfMade ==
    runs = {} /\ orphans = {} /\ count.losses = 0 /\ "bare" \in DOMAIN facts => facts["bare"] = 0

\* A form that locks its sheet shows its user the answer: the sheet goes away
\* under its handler only when another handler succeeds.
LockedFormsStay ==
    [][\A r \in runs, q \in runs' :
          r.id = q.id /\ r.mounted /\ ~q.mounted /\ Forms[r.form].locked /\ Forms[r.form].slot = None
          => \E s \in runs : s.id \notin {t.id : t \in runs'} /\ s.phase = "done"]_vars
=============================================================================
