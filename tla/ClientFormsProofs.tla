------------------------- MODULE ClientFormsProofs -------------------------
(***************************************************************************)
(* What a page promises, whatever forms it has: a disabled button waits     *)
(* for a handler that runs, a form that locks its sheet keeps it until      *)
(* its handler has ended, what was wanted once is carried out once, and a   *)
(* change the user was told of is on the screen.                            *)
(***************************************************************************)
EXTENDS ClientForms, SequenceTheorems, TLAPS

(***************************************************************************)
(* The invariant.                                                           *)
(***************************************************************************)
RunFields == {"id", "form", "offer", "wish", "step", "key", "undoing", "phase", "at", "load",
              "mounted"}
SheetFields == {"door", "shown", "busy", "over", "memory"}
RequestFields == {"payload", "id"}

\* None, a model value, is no record.
NoneIsNoRecord == \A s : DOMAIN s = SheetFields \/ DOMAIN s = RequestFields => s # None

RunOK(r) ==
    /\ DOMAIN r = RunFields
    /\ r.form \in scene
    /\ r.mounted \in BOOLEAN /\ r.undoing \in BOOLEAN
    /\ r.phase \in {"sent", "done", "refused", "loading"}
    /\ Len(r.offer.calls) \in Nat /\ r.step \in 1..Len(r.offer.calls)
    /\ r.id \in Nat /\ r.id <= count.taps

\* the busy state of the handler is in its sheet
InSheet(r) == r.mounted /\ Forms[r.form].slot = None
FlagOf(r) == Forms[r.form].flag

Shapes ==
    /\ scene \in Scenes /\ DOMAIN slots = Slots
    /\ count \in [taps : Nat, losses : Nat, elsewhere : Nat, refreshes : Nat]
    /\ \A r \in runs : RunOK(r)
    /\ \A r, q \in runs : r.id = q.id => r = q
    /\ sheet # None => DOMAIN sheet = SheetFields

\* A handler whose sheet is still there has marked it as busy, and is the only
\* one that has done so.
MountedInv ==
    /\ \A r \in runs : r.mounted => /\ DOMAIN sheet = SheetFields
                                    /\ sheet.door = Forms[r.form].door
    /\ \A r \in runs : InSheet(r) => FlagOf(r) \in sheet.busy
    /\ \A r, q \in runs : InSheet(r) /\ InSheet(q) /\ FlagOf(r) = FlagOf(q) => r = q

BusyInv ==
    /\ sheet # None => \A flag \in sheet.busy :
          \/ \E r \in runs : InSheet(r) /\ FlagOf(r) = flag
          \/ \E f \in scene : Forms[f].flag = flag /\ ~Forms[f].frees
    /\ \A s \in Slots : slots[s] # None => \E r \in runs : Forms[r.form].slot = s

FormsInv == Shapes /\ MountedInv /\ BusyInv

LEMMA InitFormsInv == Init => FormsInv
<1> SUFFICES ASSUME Init PROVE FormsInv
  OBVIOUS
<1>1. Shapes
  BY SMT DEF Init, Shapes, NoBusy
<1>2. MountedInv
  BY DEF Init, MountedInv
<1>3. BusyInv
  BY DEF Init, BusyInv, NoBusy
<1> QED BY <1>1, <1>2, <1>3 DEF FormsInv

(***************************************************************************)
(* Locks: no handler loses its sheet, or only where another one succeeds.   *)
(***************************************************************************)
MountsStay == \A r \in runs, q \in runs' : r.id = q.id /\ r.mounted => q.mounted

LocksHold ==
    \A r \in runs, q \in runs' :
        r.id = q.id /\ r.mounted /\ ~q.mounted /\ Forms[r.form].locked /\ Forms[r.form].slot = None
        => \E s \in runs : s.id \notin {t.id : t \in runs'} /\ s.phase = "done"

(***************************************************************************)
(* Steps that change nothing but one handler, which goes on.                *)
(***************************************************************************)
GoesOn(r, q) ==
    /\ r \in runs /\ runs' = (runs \ {r}) \cup {q}
    /\ RunOK(q) /\ q.id = r.id /\ q.form = r.form /\ q.mounted = r.mounted

\* the handlers of the sheet stay as they are
Kept ==
    /\ \A q \in runs' : \E r \in runs : r.id = q.id /\ r.form = q.form /\ r.mounted = q.mounted
    /\ \A r \in runs : \E q \in runs' : r.id = q.id /\ r.form = q.form /\ r.mounted = q.mounted
    /\ \A r, q \in runs' : r.id = q.id => r = q

LEMMA GoesOnKeeps ==
    ASSUME FormsInv, NEW r, NEW q, GoesOn(r, q)
    PROVE  Kept
<1>1. \A p \in runs : p.id = r.id => p = r
  BY DEF FormsInv, Shapes, GoesOn
<1> QED BY <1>1 DEF Kept, GoesOn, FormsInv, Shapes

Counts == [taps : Nat, losses : Nat, elsewhere : Nat, refreshes : Nat]

\* the sheet may forget a request, but not its door or who is busy
SheetKept ==
    \/ sheet' = sheet
    \/ /\ DOMAIN sheet = SheetFields /\ DOMAIN sheet' = SheetFields
       /\ sheet'.door = sheet.door /\ sheet'.busy = sheet.busy

LEMMA KeptInv ==
    ASSUME NoneIsNoRecord, FormsInv, Kept, \A q \in runs' : RunOK(q)', SheetKept,
           UNCHANGED <<scene, slots>>, count' \in Counts
    PROVE  FormsInv' /\ MountsStay
<1>0. /\ sheet' # None => \/ sheet' = sheet
                          \/ DOMAIN sheet = SheetFields /\ DOMAIN sheet' = SheetFields
      /\ DOMAIN sheet = SheetFields => /\ DOMAIN sheet' = SheetFields
                                       /\ sheet'.door = sheet.door /\ sheet'.busy = sheet.busy
  BY DEF SheetKept
<1>1. Shapes'
  BY <1>0 DEF FormsInv, Shapes, Kept, Slots, Counts
<1>2. MountedInv'
  <2>1. ASSUME NEW q \in runs', q.mounted
        PROVE  /\ DOMAIN sheet' = SheetFields /\ sheet'.door = Forms[q.form].door
               /\ InSheet(q) => FlagOf(q) \in sheet'.busy
    <3>1. PICK r \in runs : r.id = q.id /\ r.form = q.form /\ r.mounted = q.mounted
      BY DEF Kept
    <3> QED BY <1>0, <2>1, <3>1 DEF FormsInv, MountedInv, InSheet, FlagOf
  <2>2. ASSUME NEW p \in runs', NEW q \in runs', InSheet(p), InSheet(q), FlagOf(p) = FlagOf(q)
        PROVE  p = q
    <3>1. PICK r \in runs : r.id = q.id /\ r.form = q.form /\ r.mounted = q.mounted
      BY DEF Kept
    <3>2. PICK s \in runs : s.id = p.id /\ s.form = p.form /\ s.mounted = p.mounted
      BY DEF Kept
    <3>3. r = s
      BY <2>2, <3>1, <3>2 DEF FormsInv, MountedInv, InSheet, FlagOf
    <3> QED BY <3>1, <3>2, <3>3 DEF Kept
  <2> QED BY <2>1, <2>2 DEF MountedInv, InSheet, FlagOf
<1>3. BusyInv'
  <2>1. ASSUME NEW flag, NEW r \in runs, InSheet(r), FlagOf(r) = flag
        PROVE  \E q \in runs' : InSheet(q) /\ FlagOf(q) = flag
    <3>1. PICK q \in runs' : r.id = q.id /\ r.form = q.form /\ r.mounted = q.mounted
      BY DEF Kept
    <3> QED BY <2>1, <3>1 DEF InSheet, FlagOf
  <2>2. ASSUME NEW s, NEW r \in runs, Forms[r.form].slot = s
        PROVE  \E q \in runs' : Forms[q.form].slot = s
    <3>1. PICK q \in runs' : r.id = q.id /\ r.form = q.form /\ r.mounted = q.mounted
      BY DEF Kept
    <3> QED BY <2>2, <3>1
  <2>3. ASSUME sheet' # None, NEW flag \in sheet'.busy
        PROVE  sheet # None /\ flag \in sheet.busy
    BY <2>3 DEF SheetKept, NoneIsNoRecord
  <2> QED BY <2>1, <2>2, <2>3 DEF FormsInv, BusyInv, InSheet, FlagOf, Slots
<1>4. MountsStay
  BY DEF MountsStay, Kept, FormsInv, Shapes
<1> QED BY <1>1, <1>2, <1>3, <1>4 DEF FormsInv

(***************************************************************************)
(* Handlers that end.                                                       *)
(***************************************************************************)
\* Handlers rs end, and the busy states of those in cleared go with them.
Ending(rs, cleared) ==
    /\ rs \subseteq runs /\ runs' = runs \ rs
    /\ cleared \subseteq {r \in rs : InSheet(r)}
    /\ \A r \in rs : InSheet(r) /\ r \notin cleared => ~Forms[r.form].frees
    /\ \/ sheet' = sheet /\ cleared = {}
       \/ /\ DOMAIN sheet = SheetFields /\ DOMAIN sheet' = SheetFields
          /\ sheet'.door = sheet.door
          /\ sheet'.busy = sheet.busy \ {FlagOf(r) : r \in cleared}
    /\ DOMAIN slots' = DOMAIN slots
    /\ \A s \in Slots : slots'[s] # None =>
          slots'[s] = slots[s] /\ \A r \in rs : Forms[r.form].slot # s

LEMMA EndingInv ==
    ASSUME NoneIsNoRecord, FormsInv, NEW rs, NEW cleared, Ending(rs, cleared),
           scene' = scene, count' \in Counts, count'.taps = count.taps
    PROVE  FormsInv' /\ MountsStay
<1>1. /\ rs \subseteq runs /\ runs' = runs \ rs
      /\ sheet # None <=> sheet' # None
      /\ DOMAIN sheet = SheetFields => DOMAIN sheet' = SheetFields /\ sheet'.door = sheet.door
  BY DEF Ending, NoneIsNoRecord
<1>2. Shapes'
  BY <1>1 DEF FormsInv, Shapes, Ending, Slots, RunOK, Counts
<1>3. ASSUME NEW r \in runs', InSheet(r) PROVE FlagOf(r) \in sheet'.busy
  <2>1. FlagOf(r) \in sheet.busy /\ r \in runs /\ r \notin rs
    BY <1>1, <1>3 DEF FormsInv, MountedInv
  <2>2. \A q \in cleared : FlagOf(q) # FlagOf(r)
    BY <1>1, <1>3, <2>1 DEF FormsInv, MountedInv, Ending
  <2> QED BY <2>1, <2>2 DEF Ending
<1>4. MountedInv'
  <2>1. \A r \in runs' : r.mounted => DOMAIN sheet' = SheetFields /\ sheet'.door = Forms[r.form].door
    BY <1>1 DEF FormsInv, MountedInv
  <2>2. \A r, q \in runs' : InSheet(r) /\ InSheet(q) /\ FlagOf(r) = FlagOf(q) => r = q
    BY <1>1 DEF FormsInv, MountedInv
  <2> QED BY <1>3, <2>1, <2>2 DEF MountedInv, InSheet, FlagOf
<1>5. ASSUME sheet' # None, NEW flag \in sheet'.busy
      PROVE  \/ \E r \in runs' : InSheet(r) /\ FlagOf(r) = flag
             \/ \E f \in scene : Forms[f].flag = flag /\ ~Forms[f].frees
  <2>1. flag \in sheet.busy /\ \A r \in cleared : FlagOf(r) # flag
    BY <1>5 DEF Ending
  <2>2. CASE \E r \in runs : InSheet(r) /\ FlagOf(r) = flag
    <3>1. PICK r \in runs : InSheet(r) /\ FlagOf(r) = flag
      BY <2>2
    <3>2. CASE r \in rs
      <4>1. ~Forms[r.form].frees /\ r.form \in scene
        BY <2>1, <3>1, <3>2 DEF Ending, FormsInv, Shapes, RunOK
      <4> QED BY <3>1, <4>1 DEF FlagOf
    <3>3. CASE r \notin rs
      BY <1>1, <3>1, <3>3
    <3> QED BY <3>2, <3>3
  <2>3. CASE \E f \in scene : Forms[f].flag = flag /\ ~Forms[f].frees
    BY <2>3
  <2> QED BY <1>1, <1>5, <2>1, <2>2, <2>3 DEF FormsInv, BusyInv
<1>6. ASSUME NEW s \in Slots, slots'[s] # None PROVE \E r \in runs' : Forms[r.form].slot = s
  <2>1. slots[s] # None /\ \A r \in rs : Forms[r.form].slot # s
    BY <1>6 DEF Ending
  <2> QED BY <1>1, <2>1 DEF FormsInv, BusyInv
<1>7. BusyInv'
  BY <1>5, <1>6 DEF BusyInv, InSheet, FlagOf, Slots
<1>8. MountsStay
  BY <1>1 DEF MountsStay, FormsInv, Shapes
<1> QED BY <1>2, <1>4, <1>7, <1>8 DEF FormsInv

\* The sheet closes; its handlers go on without it.
Closing ==
    /\ sheet' = None
    /\ \A q \in runs' : RunOK(q) /\ ~q.mounted
    /\ \A r, q \in runs' : r.id = q.id => r = q
    /\ DOMAIN slots' = DOMAIN slots
    /\ \A s \in Slots : slots'[s] # None => \E r \in runs' : Forms[r.form].slot = s

LEMMA ClosingInv ==
    ASSUME FormsInv, Closing, UNCHANGED <<scene, count>>
    PROVE  FormsInv'
<1>1. Shapes'
  BY DEF FormsInv, Shapes, Closing, Slots, RunOK
<1>2. MountedInv'
  BY DEF Closing, MountedInv, InSheet
<1>3. BusyInv'
  BY DEF Closing, BusyInv, Slots
<1> QED BY <1>1, <1>2, <1>3 DEF FormsInv

LEMMA UnmountedRuns ==
    ASSUME NEW rs, \A r \in rs : RunOK(r), \A r, q \in rs : r.id = q.id => r = q
    PROVE  /\ \A q \in Unmounted(rs) :
                 /\ RunOK(q) /\ ~q.mounted
                 /\ \E r \in rs : q.id = r.id /\ q.form = r.form
           /\ \A r \in rs : \E q \in Unmounted(rs) : q.id = r.id /\ q.form = r.form
           /\ \A r, q \in Unmounted(rs) : r.id = q.id => r = q
<1>1. ASSUME NEW r \in rs
      PROVE  LET q == [r EXCEPT !.mounted = FALSE]
             IN  RunOK(q) /\ ~q.mounted /\ q.id = r.id /\ q.form = r.form
  <2>1. RunOK(r)
    OBVIOUS
  <2> QED BY <2>1, SMT DEF RunOK, RunFields
<1>2. Unmounted(rs) = {[r EXCEPT !.mounted = FALSE] : r \in rs}
  BY DEF Unmounted
<1>3. \A q \in Unmounted(rs) : \E r \in rs : q = [r EXCEPT !.mounted = FALSE]
  BY <1>2
<1>4. \A r \in rs : [r EXCEPT !.mounted = FALSE] \in Unmounted(rs)
  BY <1>2
<1>5. ASSUME NEW p \in Unmounted(rs), NEW q \in Unmounted(rs), p.id = q.id PROVE p = q
  <2>1. PICK r \in rs : p = [r EXCEPT !.mounted = FALSE]
    BY <1>3
  <2>2. PICK s \in rs : q = [s EXCEPT !.mounted = FALSE]
    BY <1>3
  <2>3. r.id = s.id
    BY <1>1, <1>5, <2>1, <2>2
  <2>4. r = s
    BY <2>3
  <2> QED BY <2>1, <2>2, <2>4
<1>6. ASSUME NEW q \in Unmounted(rs)
      PROVE  RunOK(q) /\ ~q.mounted /\ \E r \in rs : q.id = r.id /\ q.form = r.form
  <2>1. PICK r \in rs : q = [r EXCEPT !.mounted = FALSE]
    BY <1>3
  <2>2. RunOK(q) /\ ~q.mounted /\ q.id = r.id /\ q.form = r.form
    BY <1>1, <2>1
  <2> QED BY <2>2
<1>7. ASSUME NEW r \in rs
      PROVE  \E q \in Unmounted(rs) : q.id = r.id /\ q.form = r.form
  <2> DEFINE q == [r EXCEPT !.mounted = FALSE]
  <2>1. q.id = r.id /\ q.form = r.form
    BY <1>1
  <2>2. q \in Unmounted(rs)
    BY <1>4
  <2> HIDE DEF q
  <2> QED BY <2>1, <2>2
<1> QED BY <1>5, <1>6, <1>7

(***************************************************************************)
(* The actions.                                                             *)
(***************************************************************************)
\* A step that leaves the handlers, the sheet and the busy states alone.
LEMMA AloneInv ==
    ASSUME NoneIsNoRecord, FormsInv, UNCHANGED <<scene, runs, sheet, slots>>,
           count' \in Counts, count'.taps = count.taps
    PROVE  FormsInv' /\ MountsStay
<1>1. Kept /\ SheetKept
  BY DEF Kept, SheetKept, FormsInv, Shapes
<1>2. \A q \in runs' : RunOK(q)'
  BY DEF FormsInv, Shapes, RunOK
<1> QED BY <1>1, <1>2, KeptInv

LEMMA GoesOnInv ==
    ASSUME NoneIsNoRecord, FormsInv, NEW r, NEW q, GoesOn(r, q), SheetKept,
           UNCHANGED <<scene, slots>>, count' \in Counts, count'.taps = count.taps
    PROVE  FormsInv' /\ MountsStay
<1>1. Kept
  BY GoesOnKeeps
<1>2. \A p \in runs' : RunOK(p)'
  BY DEF GoesOn, FormsInv, Shapes, RunOK
<1> QED BY <1>1, <1>2, KeptInv

LEMMA OpenSheetInv ==
    ASSUME NoneIsNoRecord, FormsInv, NEW f \in scene, OpenSheet(f)
    PROVE  FormsInv' /\ MountsStay
<1>1. /\ sheet = None /\ UNCHANGED <<scene, runs, slots, count>>
      /\ DOMAIN sheet' = SheetFields /\ sheet'.busy = {}
  BY DEF OpenSheet, SheetFields
<1>2. \A r \in runs : ~r.mounted
  BY <1>1 DEF FormsInv, Shapes, RunOK, MountedInv, NoneIsNoRecord
<1>3. Shapes'
  BY <1>1 DEF FormsInv, Shapes, RunOK, Slots
<1>4. MountedInv'
  BY <1>1, <1>2 DEF MountedInv, InSheet
<1>5. BusyInv'
  BY <1>1 DEF FormsInv, BusyInv, Slots
<1>6. MountsStay
  BY <1>2 DEF MountsStay
<1> QED BY <1>3, <1>4, <1>5, <1>6 DEF FormsInv

LEMMA CloseSheetInv ==
    ASSUME FormsInv, CloseSheet
    PROVE  FormsInv' /\ LocksHold
<1>1. /\ sheet' = None /\ runs' = Unmounted(runs) /\ UNCHANGED <<scene, slots, count>>
  BY DEF CloseSheet
<1>2. /\ \A r \in runs : RunOK(r)
      /\ \A r, q \in runs : r.id = q.id => r = q
  BY DEF FormsInv, Shapes
<1>3. /\ \A q \in Unmounted(runs) : RunOK(q) /\ ~q.mounted
      /\ \A r \in runs : \E q \in Unmounted(runs) : q.form = r.form
      /\ \A r, q \in Unmounted(runs) : r.id = q.id => r = q
  BY <1>2, UnmountedRuns
<1>4. Closing
  BY <1>1, <1>3 DEF Closing, FormsInv, BusyInv
<1>5. ASSUME NEW r \in runs, r.mounted, Forms[r.form].locked, Forms[r.form].slot = None
      PROVE  FALSE
  <2>1. /\ r.form \in scene /\ Forms[r.form].door = sheet.door
        /\ Forms[r.form].flag \in sheet.busy
    BY <1>2, <1>5 DEF FormsInv, MountedInv, InSheet, FlagOf, RunOK
  <2>2. Locked
    BY <1>5, <2>1 DEF Locked, Marked
  <2> QED BY <2>2 DEF CloseSheet
<1>6. LocksHold
  BY <1>5 DEF LocksHold
<1> QED BY <1>1, <1>4, <1>6, ClosingInv

LEMMA SubmitInv ==
    ASSUME NoneIsNoRecord, FormsInv, NEW f \in scene, NEW o \in Forms[f].offers, Submit(f, o)
    PROVE  FormsInv' /\ MountsStay
<1> DEFINE form == Forms[f]
           flag == form.flag
<1>1. /\ sheet # None /\ sheet.door = form.door /\ ~Marked(f)
      /\ count' = [count EXCEPT !.taps = @ + 1] /\ scene' = scene
      /\ slots' = IF form.slot = None THEN slots ELSE [slots EXCEPT ![form.slot] = flag]
  BY DEF Submit
<1>2. PICK new :
         /\ runs' = runs \cup {new}
         /\ DOMAIN new = RunFields /\ new.id = count.taps + 1 /\ new.form = f /\ new.offer = o
         /\ new.step = 1 /\ new.undoing = FALSE /\ new.phase = "sent" /\ new.mounted = TRUE
  <2> DEFINE payload == <<f, o.payload>>
             request == IF form.scope = None THEN None ELSE RequestKey(f, payload)
             pending == Pending(f, payload)
             own == IF pending = {} THEN Len(wishes) + 1 ELSE CHOOSE w \in pending : TRUE
             new == [id |-> count.taps + 1, form |-> f, offer |-> o, wish |-> own, step |-> 1,
                     key |-> IF request = None THEN None ELSE request.id, undoing |-> FALSE,
                     phase |-> "sent", at |-> 0, load |-> 0, mounted |-> TRUE]
  <2>1. runs' = runs \cup {new}
    BY DEF Submit
  <2>2. /\ DOMAIN new = RunFields /\ new.id = count.taps + 1 /\ new.form = f /\ new.offer = o
        /\ new.step = 1 /\ new.undoing = FALSE /\ new.phase = "sent" /\ new.mounted = TRUE
    BY DEF RunFields
  <2> QED BY <2>1, <2>2
<1>3. PICK request : sheet' = [sheet EXCEPT !.busy = IF form.slot = None THEN @ \cup {flag} ELSE @,
                                            !.memory[f] = request]
  BY DEF Submit
<1>4. /\ DOMAIN sheet = SheetFields /\ DOMAIN sheet' = SheetFields /\ sheet'.door = sheet.door
      /\ sheet'.busy = IF form.slot = None THEN sheet.busy \cup {flag} ELSE sheet.busy
  <2>1. DOMAIN sheet = SheetFields
    BY <1>1 DEF FormsInv, Shapes
  <2> QED BY <1>3, <2>1 DEF SheetFields
<1>5. /\ count.taps \in Nat /\ count' \in Counts /\ count'.taps = count.taps + 1
  BY <1>1, SMT DEF FormsInv, Shapes, Counts
<1>6. \A r \in runs : RunOK(r)' /\ r.id # new.id
  BY <1>1, <1>2, <1>5, SMT DEF FormsInv, Shapes, RunOK
<1>7. RunOK(new)'
  <2>1. f \in DOMAIN Forms /\ Len(o.calls) \in Nat \ {0}
    BY ClientFormsAssumption DEF FormsInv, Shapes
  <2>2. new.step \in 1..Len(new.offer.calls) /\ Len(new.offer.calls) \in Nat
    BY <1>2, <2>1, SMT
  <2>3. new.id \in Nat /\ new.id <= count'.taps
    BY <1>2, <1>5, SMT
  <2> QED BY <1>1, <1>2, <2>2, <2>3 DEF RunOK
<1>8. Shapes'
  <2>1. DOMAIN slots' = Slots
    BY <1>1 DEF FormsInv, Shapes
  <2>2. Slots' = Slots /\ scene' \in Scenes
    BY <1>1 DEF Slots, FormsInv, Shapes
  <2>3. \A r, q \in runs' : r.id = q.id => r = q
    BY <1>2, <1>6 DEF FormsInv, Shapes
  <2> QED BY <1>2, <1>4, <1>5, <1>6, <1>7, <2>1, <2>2, <2>3 DEF Shapes, Counts
<1>9. MountedInv'
  <2>1. \A r \in runs' : r.mounted => DOMAIN sheet' = SheetFields /\ sheet'.door = Forms[r.form].door
    BY <1>1, <1>2, <1>4 DEF FormsInv, MountedInv
  <2>2. \A r \in runs' : InSheet(r) => FlagOf(r) \in sheet'.busy
    BY <1>2, <1>4 DEF FormsInv, MountedInv, InSheet, FlagOf
  <2>3. InSheet(new) => \A r \in runs : InSheet(r) => FlagOf(r) # FlagOf(new)
    BY <1>1, <1>2 DEF FormsInv, MountedInv, InSheet, FlagOf, Marked
  <2>4. \A r, q \in runs' : InSheet(r) /\ InSheet(q) /\ FlagOf(r) = FlagOf(q) => r = q
    BY <1>2, <2>3 DEF FormsInv, MountedInv
  <2> QED BY <2>1, <2>2, <2>4 DEF MountedInv, InSheet, FlagOf
<1>10. BusyInv'
  <2>1. \A x \in sheet'.busy :
           \/ \E r \in runs' : InSheet(r) /\ FlagOf(r) = x
           \/ \E g \in scene : Forms[g].flag = x /\ ~Forms[g].frees
    BY <1>1, <1>2, <1>4 DEF FormsInv, BusyInv, InSheet, FlagOf
  <2>2. \A s \in Slots : slots'[s] # None => \E r \in runs' : Forms[r.form].slot = s
    BY <1>1, <1>2 DEF FormsInv, Shapes, BusyInv
  <2> QED BY <1>1, <2>1, <2>2 DEF BusyInv, InSheet, FlagOf, Slots
<1>11. MountsStay
  BY <1>2, <1>6 DEF MountsStay, FormsInv, Shapes
<1> QED BY <1>8, <1>9, <1>10, <1>11 DEF FormsInv

LEMMA HandleInv ==
    ASSUME NoneIsNoRecord, FormsInv, NEW r \in runs, Handle(r)
    PROVE  FormsInv' /\ MountsStay
<1> DEFINE phase == IF Repeated(r) THEN "done" ELSE "refused"
<1>1. \/ runs' = (runs \ {r}) \cup {[r EXCEPT !.phase = phase, !.at = version]}
      \/ runs' = (runs \ {r}) \cup {[r EXCEPT !.phase = "done", !.at = version + 1]}
  BY DEF Handle
<1>2. RunOK(r) /\ count \in Counts
  BY DEF FormsInv, Shapes, Counts
<1>3. UNCHANGED <<scene, slots, sheet, count>>
  BY DEF Handle
<1>4. \E q : GoesOn(r, q)
  <2>1. CASE runs' = (runs \ {r}) \cup {[r EXCEPT !.phase = phase, !.at = version]}
    <3> DEFINE q == [r EXCEPT !.phase = phase, !.at = version]
    <3>1. RunOK(q) /\ q.id = r.id /\ q.form = r.form /\ q.mounted = r.mounted
      BY <1>2 DEF RunOK, RunFields
    <3> QED BY <2>1, <3>1 DEF GoesOn
  <2>2. CASE runs' = (runs \ {r}) \cup {[r EXCEPT !.phase = "done", !.at = version + 1]}
    <3> DEFINE q == [r EXCEPT !.phase = "done", !.at = version + 1]
    <3>1. RunOK(q) /\ q.id = r.id /\ q.form = r.form /\ q.mounted = r.mounted
      BY <1>2 DEF RunOK, RunFields
    <3> QED BY <2>2, <3>1 DEF GoesOn
  <2> QED BY <1>1, <2>1, <2>2
<1> QED BY <1>2, <1>3, <1>4, GoesOnInv DEF SheetKept

\* The busy state of a handler ends with it.
LEMMA FreedSlots ==
    ASSUME FormsInv, NEW r \in runs
    PROVE  LET freed == Freed(Forms[r.form])
           IN  /\ DOMAIN freed = DOMAIN slots
               /\ \A s \in Slots : freed[s] # None => freed[s] = slots[s] /\ Forms[r.form].slot # s
<1>1. DOMAIN slots = Slots /\ r.form \in scene
  BY DEF FormsInv, Shapes, RunOK
<1>2. CASE Forms[r.form].slot = None
  BY <1>1, <1>2 DEF Freed, Slots
<1>3. CASE Forms[r.form].slot # None
  BY <1>1, <1>3 DEF Freed, Slots
<1> QED BY <1>2, <1>3

LEMMA FailedEnds ==
    ASSUME FormsInv, NEW r \in runs, Failed(r)
    PROVE  Ending({r}, IF InSheet(r) THEN {r} ELSE {})
<1>1. /\ DOMAIN slots' = DOMAIN slots
      /\ \A s \in Slots : slots'[s] # None => slots'[s] = slots[s] /\ Forms[r.form].slot # s
  BY FreedSlots DEF Failed
<1>2. r.mounted => DOMAIN sheet = SheetFields
  BY DEF FormsInv, MountedInv
<1>3. runs' = runs \ {r} /\ r.mounted \in BOOLEAN
  BY DEF Failed, FormsInv, Shapes, RunOK
<1>4. CASE ~r.mounted
  <2>1. sheet' = sheet
    BY <1>3, <1>4 DEF Failed, Unmarked
  <2> QED BY <1>1, <1>3, <1>4, <2>1 DEF Ending, InSheet
<1>5. CASE r.mounted
  <2> DEFINE u == Unmarked(Forms[r.form], TRUE)
  <2>1. /\ DOMAIN u = SheetFields /\ u.door = sheet.door
        /\ u.busy = sheet.busy \ {FlagOf(q) : q \in IF InSheet(r) THEN {r} ELSE {}}
    <3>1. CASE InSheet(r)
      <4>1. u = [sheet EXCEPT !.busy = @ \ {Forms[r.form].flag}]
        BY <3>1 DEF Unmarked, InSheet
      <4> QED BY <1>2, <1>5, <3>1, <4>1 DEF SheetFields, FlagOf
    <3>2. CASE ~InSheet(r)
      <4>1. u = sheet
        BY <1>5, <3>2 DEF Unmarked, InSheet
      <4> QED BY <1>2, <1>5, <3>2, <4>1
    <3> QED BY <3>1, <3>2
  <2>2. sheet' = u \/ sheet' = [u EXCEPT !.over = @ \cup {Forms[r.form].flag}]
    BY <1>3, <1>5 DEF Failed
  <2> HIDE DEF u
  <2>3. DOMAIN sheet' = SheetFields /\ sheet'.door = u.door /\ sheet'.busy = u.busy
    BY <2>1, <2>2 DEF SheetFields
  <2> QED BY <1>1, <1>2, <1>3, <1>5, <2>1, <2>3 DEF Ending, InSheet
<1> QED BY <1>3, <1>4, <1>5

LEMMA StoppedInv ==
    ASSUME NoneIsNoRecord, FormsInv, NEW r \in runs, Stopped(r),
           scene' = scene, count' \in Counts, count'.taps = count.taps
    PROVE  FormsInv' /\ MountsStay
<1>1. CASE Failed(r)
  BY <1>1, FailedEnds, EndingInv
<1>2. CASE ~Failed(r)
  <2> DEFINE q == [r EXCEPT !.undoing = TRUE, !.phase = "sent"]
  <2>1. runs' = (runs \ {r}) \cup {q} /\ UNCHANGED <<sheet, slots>>
    BY <1>2 DEF Stopped
  <2>2. RunOK(r)
    BY DEF FormsInv, Shapes
  <2>3. RunOK(q) /\ q.id = r.id /\ q.form = r.form /\ q.mounted = r.mounted
    BY <2>2 DEF RunOK, RunFields
  <2> HIDE DEF q
  <2>4. GoesOn(r, q)
    BY <2>1, <2>3 DEF GoesOn
  <2> QED BY <2>1, <2>4, GoesOnInv DEF SheetKept
<1> QED BY <1>1, <1>2

\* The handlers a load ends.
LEMMA WaitedInv ==
    ASSUME NoneIsNoRecord, FormsInv, NEW l, Waited(l),
           scene' = scene, count' \in Counts, count'.taps = count.taps
    PROVE  FormsInv' /\ MountsStay
<1> DEFINE over == {r \in runs : r.phase = "loading" /\ r.load = l.id}
           cleared == {r \in over : InSheet(r) /\ Forms[r.form].frees}
           inPage == {Forms[r.form].slot : r \in over}
           inSheet == {Forms[r.form].flag :
                          r \in {q \in over : q.mounted /\ Forms[q.form].slot = None /\ Forms[q.form].frees}}
<1>1. /\ runs' = runs \ over
      /\ slots' = [s \in Slots |-> IF s \in inPage THEN None ELSE slots[s]]
      /\ sheet' = IF inSheet = {} THEN sheet ELSE [sheet EXCEPT !.busy = @ \ inSheet]
  BY DEF Waited
<1>2. inSheet = {FlagOf(r) : r \in cleared}
  BY DEF FlagOf, InSheet
<1>3. over \subseteq runs /\ cleared \subseteq {r \in over : InSheet(r)}
  OBVIOUS
<1>4. \A r \in over : InSheet(r) /\ r \notin cleared => ~Forms[r.form].frees
  OBVIOUS
<1>5. \A r \in over : Forms[r.form].slot \in inPage
  OBVIOUS
<1>6. cleared # {} => DOMAIN sheet = SheetFields
  BY <1>3 DEF FormsInv, MountedInv, InSheet
<1> HIDE DEF over, cleared, inPage, inSheet
<1>7. \/ sheet' = sheet /\ cleared = {}
      \/ /\ DOMAIN sheet = SheetFields /\ DOMAIN sheet' = SheetFields
         /\ sheet'.door = sheet.door
         /\ sheet'.busy = sheet.busy \ {FlagOf(r) : r \in cleared}
  <2>1. CASE cleared = {}
    BY <1>1, <1>2, <2>1
  <2>2. CASE cleared # {}
    <3>1. inSheet # {}
      BY <1>2, <2>2
    <3>2. sheet' = [sheet EXCEPT !.busy = @ \ inSheet]
      BY <1>1, <3>1
    <3> QED BY <1>2, <1>6, <2>2, <3>2 DEF SheetFields
  <2> QED BY <2>1, <2>2
<1>8. DOMAIN slots' = DOMAIN slots
  BY <1>1 DEF FormsInv, Shapes
<1>9. \A s \in Slots : slots'[s] # None =>
         slots'[s] = slots[s] /\ \A r \in over : Forms[r.form].slot # s
  BY <1>1, <1>5
<1>10. Ending(over, cleared)
  BY <1>1, <1>3, <1>4, <1>7, <1>8, <1>9 DEF Ending
<1> QED BY <1>10, EndingInv

LEMMA StayingHolds == MountsStay => LocksHold
  BY DEF MountsStay, LocksHold

LEMMA SucceededInv ==
    ASSUME NoneIsNoRecord, FormsInv, NEW r \in runs, r.phase = "done", Succeeded(r), UNCHANGED <<scene, count>>
    PROVE  /\ FormsInv' /\ LocksHold
           /\ ~(sheet # None /\ sheet.door \in Forms[r.form].closes) => MountsStay
<1> DEFINE form == Forms[r.form]
           closes == sheet # None /\ sheet.door \in form.closes
           waits == form.after = "awaited"
           waiting == [r EXCEPT !.phase = "loading", !.load = page.sent + 1]
           left == (runs \ {r}) \cup IF waits THEN {waiting} ELSE {}
           settled == IF waits \/ ~form.frees THEN sheet ELSE Unmarked(form, r.mounted)
<1>1. /\ slots' = IF waits THEN slots ELSE Freed(form)
      /\ sheet' = CASE closes -> None
                    [] ~closes /\ r.mounted -> [settled EXCEPT !.memory[r.form] = None]
                    [] ~closes /\ ~r.mounted -> sheet
      /\ runs' = IF closes THEN Unmounted(left) ELSE left
  BY DEF Succeeded
<1>2. /\ RunOK(r) /\ r.mounted \in BOOLEAN
      /\ count \in Counts /\ DOMAIN slots = Slots
      /\ r.mounted => DOMAIN sheet = SheetFields
  BY DEF FormsInv, Shapes, RunOK, Counts, MountedInv
<1>3. RunOK(waiting) /\ waiting.id = r.id /\ waiting.form = r.form /\ waiting.mounted = r.mounted
  BY <1>2 DEF RunOK, RunFields
<1>4. /\ DOMAIN Freed(form) = DOMAIN slots
      /\ \A s \in Slots : Freed(form)[s] # None => Freed(form)[s] = slots[s] /\ form.slot # s
  BY FreedSlots
<1> HIDE DEF waiting
<1>5. CASE closes
  <2>1. sheet' = None /\ runs' = Unmounted(left)
    BY <1>1, <1>5
  <2>2. /\ \A q \in left : RunOK(q)
        /\ \A p, q \in left : p.id = q.id => p = q
    BY <1>3 DEF FormsInv, Shapes
  <2>3. ASSUME NEW s \in Slots, slots'[s] # None PROVE \E q \in left : Forms[q.form].slot = s
    <3>1. CASE waits
      <4>1. PICK q \in runs : Forms[q.form].slot = s
        BY <1>1, <2>3, <3>1 DEF FormsInv, BusyInv
      <4> QED BY <1>3, <3>1, <4>1
    <3>2. CASE ~waits
      <4>1. slots[s] # None /\ form.slot # s
        BY <1>1, <1>4, <2>3, <3>2
      <4>2. PICK q \in runs : Forms[q.form].slot = s
        BY <4>1 DEF FormsInv, BusyInv
      <4>3. q # r
        BY <4>1, <4>2
      <4> QED BY <4>2, <4>3
    <3> QED BY <3>1, <3>2
  <2> HIDE DEF left
  <2>4. /\ \A q \in Unmounted(left) : RunOK(q) /\ ~q.mounted
        /\ \A q \in left : \E p \in Unmounted(left) : p.form = q.form
        /\ \A p, q \in Unmounted(left) : p.id = q.id => p = q
    BY <2>2, UnmountedRuns
  <2>5. DOMAIN slots' = DOMAIN slots
    BY <1>1, <1>4
  <2>6. Closing
    BY <2>1, <2>3, <2>4, <2>5 DEF Closing
  <2>7. LocksHold
    <3> SUFFICES ASSUME NEW p \in runs, NEW q \in runs', p.id = q.id, p.mounted,
                        Forms[p.form].locked, Forms[p.form].slot = None
                 PROVE  r.id \notin {t.id : t \in runs'}
      BY DEF LocksHold
    <3>1. /\ p.form \in scene /\ r.form \in scene /\ scene \in Scenes
          /\ Forms[p.form].door = sheet.door
      BY DEF FormsInv, Shapes, MountedInv, RunOK
    <3>2. ~waits
      BY <1>5, <3>1, DoorsAssumption
    <3>3. left = runs \ {r}
      BY <3>2 DEF left
    <3>4. \A t \in left : t.id # r.id
      BY <3>3 DEF FormsInv, Shapes
    <3>5. \A t \in Unmounted(left) : t.id # r.id
      BY <2>2, <3>4, UnmountedRuns
    <3> QED BY <2>1, <3>5
  <2> QED BY <1>5, <2>6, <2>7, ClosingInv
<1>6. CASE ~closes /\ waits
  <2>1. GoesOn(r, waiting)
    BY <1>1, <1>3, <1>6 DEF GoesOn
  <2>2. SheetKept
    <3>1. CASE r.mounted
      <4>1. sheet' = [sheet EXCEPT !.memory[r.form] = None]
        BY <1>1, <1>6, <3>1
      <4> QED BY <1>2, <3>1, <4>1 DEF SheetKept, SheetFields
    <3>2. CASE ~r.mounted
      BY <1>1, <1>6, <3>2 DEF SheetKept
    <3> QED BY <1>2, <3>1, <3>2
  <2>3. slots' = slots
    BY <1>1, <1>6
  <2> QED BY <1>2, <2>1, <2>2, <2>3, GoesOnInv, StayingHolds
<1>7. CASE ~closes /\ ~waits
  <2> DEFINE cleared == IF InSheet(r) /\ form.frees THEN {r} ELSE {}
  <2>1. runs' = runs \ {r} /\ slots' = Freed(form)
    BY <1>1, <1>7
  <2>2. \/ sheet' = sheet /\ cleared = {}
        \/ /\ DOMAIN sheet = SheetFields /\ DOMAIN sheet' = SheetFields
           /\ sheet'.door = sheet.door
           /\ sheet'.busy = sheet.busy \ {FlagOf(q) : q \in cleared}
    <3>1. CASE r.mounted /\ cleared = {r}
      <4>1. settled = [sheet EXCEPT !.busy = @ \ {form.flag}]
        BY <1>7, <3>1 DEF Unmarked, InSheet
      <4>2. sheet' = [settled EXCEPT !.memory[r.form] = None]
        BY <1>1, <1>7, <3>1
      <4>3. /\ DOMAIN settled = SheetFields /\ settled.door = sheet.door
            /\ settled.busy = sheet.busy \ {form.flag}
        BY <1>2, <3>1, <4>1 DEF SheetFields
      <4> HIDE DEF settled, cleared
      <4>4. DOMAIN sheet' = SheetFields /\ sheet'.door = settled.door /\ sheet'.busy = settled.busy
        BY <4>2, <4>3 DEF SheetFields
      <4>5. {FlagOf(q) : q \in {r}} = {form.flag}
        BY DEF FlagOf
      <4> QED BY <1>2, <3>1, <4>3, <4>4, <4>5
    <3>2. CASE r.mounted /\ cleared = {}
      <4>1. settled = sheet
        BY <1>7, <3>2 DEF Unmarked, InSheet
      <4>2. sheet' = [sheet EXCEPT !.memory[r.form] = None]
        BY <1>1, <1>7, <3>2, <4>1
      <4>3. DOMAIN sheet' = SheetFields /\ sheet'.door = sheet.door /\ sheet'.busy = sheet.busy
        BY <1>2, <3>2, <4>2 DEF SheetFields
      <4> QED BY <1>2, <3>2, <4>3
    <3>3. CASE ~r.mounted
      BY <1>1, <1>7, <3>3 DEF InSheet
    <3> QED BY <1>2, <3>1, <3>2, <3>3
  <2>3. Ending({r}, cleared)
    BY <1>4, <2>1, <2>2 DEF Ending
  <2> QED BY <1>2, <2>3, EndingInv, StayingHolds
<1> QED BY <1>5, <1>6, <1>7

LEMMA AnswerInv ==
    ASSUME NoneIsNoRecord, FormsInv, NEW r \in runs, Answer(r)
    PROVE  FormsInv' /\ LocksHold
<1>1. RunOK(r) /\ count \in Counts /\ UNCHANGED <<scene, count>>
  BY DEF FormsInv, Shapes, Counts, Answer
<1>2. CASE r.phase = "done" /\ ~r.undoing /\ r.step = Len(r.offer.calls)
  <2>1. /\ r.phase = "done" /\ ~r.undoing /\ r.step = Len(r.offer.calls)
        /\ ~(r.step < Len(r.offer.calls)) /\ r.phase # "refused" /\ r.phase \notin {"sent", "loading"}
    BY <1>1, <1>2, SMT DEF RunOK
  <2>2. Succeeded(r)
    BY <2>1, Zenon DEF Answer
  <2> QED BY <1>1, <1>2, <2>2, SucceededInv
<1>3. CASE r.phase = "done" /\ ~r.undoing /\ r.step < Len(r.offer.calls)
  <2> DEFINE q == [r EXCEPT !.step = @ + 1, !.phase = "sent"]
  <2>1. runs' = (runs \ {r}) \cup {q} /\ UNCHANGED <<sheet, slots>>
    BY <1>1, <1>3, SMT DEF Answer, RunOK
  <2>2. /\ DOMAIN q = RunFields /\ q.step = r.step + 1 /\ q.phase = "sent" /\ q.offer = r.offer
        /\ q.id = r.id /\ q.form = r.form /\ q.mounted = r.mounted /\ q.undoing = r.undoing
    BY <1>1 DEF RunOK, RunFields
  <2> HIDE DEF q
  <2>3. q.step \in 1..Len(q.offer.calls)
    BY <1>1, <1>3, <2>2, SMT DEF RunOK
  <2>4. GoesOn(r, q)
    BY <1>1, <2>1, <2>2, <2>3 DEF GoesOn, RunOK
  <2> QED BY <1>1, <2>1, <2>4, GoesOnInv, StayingHolds DEF SheetKept
<1>4. CASE r.phase = "refused" \/ (r.phase = "done" /\ r.undoing)
  <2>1. Stopped(r)
    BY <1>1, <1>4 DEF Answer, RunOK
  <2> QED BY <1>1, <2>1, StoppedInv, StayingHolds
<1>5. CASE r.phase \in {"sent", "loading"}
  BY <1>5 DEF Answer
<1>6. \/ r.phase = "done" /\ ~r.undoing /\ r.step = Len(r.offer.calls)
      \/ r.phase = "done" /\ ~r.undoing /\ r.step < Len(r.offer.calls)
      \/ r.phase = "refused" \/ (r.phase = "done" /\ r.undoing)
      \/ r.phase \in {"sent", "loading"}
  BY <1>1, SMT DEF RunOK
<1> QED BY <1>2, <1>3, <1>4, <1>5, <1>6

LEMMA CountsStay ==
    ASSUME FormsInv, NEW kind \in {"losses", "elsewhere", "refreshes"},
           count' = [count EXCEPT ![kind] = @ + 1] \/ count' = count
    PROVE  count' \in Counts /\ count'.taps = count.taps
  BY SMT DEF FormsInv, Shapes, Counts

LEMMA StepFormsInv ==
    ASSUME NoneIsNoRecord, FormsInv, [Next]_vars
    PROVE  FormsInv' /\ LocksHold
<1>1. ASSUME NEW f \in scene, OpenSheet(f) PROVE FormsInv' /\ LocksHold
  BY <1>1, OpenSheetInv, StayingHolds
<1>2. ASSUME NEW f \in scene, NEW o \in Forms[f].offers, Submit(f, o) PROVE FormsInv' /\ LocksHold
  BY <1>2, SubmitInv, StayingHolds
<1>3. CASE CloseSheet
  BY <1>3, CloseSheetInv
<1>4. ASSUME NEW r \in runs, Handle(r) \/ Answer(r) PROVE FormsInv' /\ LocksHold
  BY <1>4, HandleInv, AnswerInv, StayingHolds
<1>5. ASSUME NEW r \in runs, Lose(r) PROVE FormsInv' /\ LocksHold
  <2>1. Stopped(r) /\ scene' = scene /\ count' = [count EXCEPT !.losses = @ + 1]
    BY <1>5 DEF Lose
  <2>2. count' \in Counts /\ count'.taps = count.taps
    BY <2>1, CountsStay
  <2> QED BY <2>1, <2>2, StoppedInv, StayingHolds
<1>6. ASSUME NEW l \in page.loads, LoadAnswered(l) PROVE FormsInv' /\ LocksHold
  <2>1. Waited(l) /\ scene' = scene /\ count' = count
    BY <1>6 DEF LoadAnswered
  <2>2. count' \in Counts /\ count'.taps = count.taps
    BY <2>1, CountsStay
  <2> QED BY <2>1, <2>2, WaitedInv, StayingHolds
<1>7. ASSUME NEW l \in page.loads, LoadLost(l) PROVE FormsInv' /\ LocksHold
  <2>1. Waited(l) /\ scene' = scene /\ count' = [count EXCEPT !.losses = @ + 1]
    BY <1>7 DEF LoadLost
  <2>2. count' \in Counts /\ count'.taps = count.taps
    BY <2>1, CountsStay
  <2> QED BY <2>1, <2>2, WaitedInv, StayingHolds
<1>8. CASE Refresh \/ (\E r \in orphans : HandleOrphan(r)) \/ (\E n \in DOMAIN facts : Elsewhere(n))
           \/ UNCHANGED vars
  <2>1. UNCHANGED <<scene, runs, sheet, slots>>
    BY <1>8 DEF Refresh, HandleOrphan, Elsewhere, vars
  <2>2. \/ count' = [count EXCEPT !.refreshes = @ + 1]
        \/ count' = [count EXCEPT !.elsewhere = @ + 1]
        \/ count' = count
    BY <1>8 DEF Refresh, HandleOrphan, Elsewhere, vars
  <2>3. count' \in Counts /\ count'.taps = count.taps
    BY <2>2, CountsStay
  <2> QED BY <2>1, <2>3, AloneInv, StayingHolds
<1> QED BY <1>1, <1>2, <1>3, <1>4, <1>5, <1>6, <1>7, <1>8 DEF Next

LEMMA FormsInvAlways == ASSUME NoneIsNoRecord PROVE Spec => []FormsInv
<1>1. FormsInv /\ [Next]_vars => FormsInv'
  BY StepFormsInv
<1> QED BY InitFormsInv, <1>1, PTL DEF Spec

\* setBusy(false) in every end of a handler: whatever forms a page has, a button
\* that is disabled waits for a handler that runs, in its sheet or in its page.
THEOREM BusyEnds == ASSUME NoneIsNoRecord PROVE Spec => []BusyAwaitsACall
<1>1. FormsInv => BusyAwaitsACall
  BY DEF FormsInv, BusyInv, BusyAwaitsACall, InSheet, FlagOf
<1> QED BY FormsInvAlways, <1>1, PTL

\* requestClose is refused while a form that locks its sheet is busy: its user
\* sees the answer, unless another handler that succeeds closes the sheet.
THEOREM LockedSheetsStay == ASSUME NoneIsNoRecord PROVE Spec => LockedFormsStay
<1> DEFINE Step ==
       \A r \in runs, q \in runs' :
          r.id = q.id /\ r.mounted /\ ~q.mounted /\ Forms[r.form].locked /\ Forms[r.form].slot = None
          => \E s \in runs : s.id \notin {t.id : t \in runs'} /\ s.phase = "done"
<1>1. FormsInv /\ [Next]_vars => [Step]_vars
  BY StepFormsInv DEF LocksHold
<1>2. Spec => [][Step]_vars
  BY FormsInvAlways, <1>1, PTL DEF Spec
<1> QED BY <1>2 DEF LockedFormsStay

(***************************************************************************)
(* What is kept of the server, the page, the requests and the wishes.       *)
(***************************************************************************)
PageFields == {"shown", "seen", "sent", "loads"}
LoadFields == {"id", "shown", "seen"}
WishFields == {"topic", "form", "payload", "open", "times", "lost", "crossed"}

ServerOK ==
    /\ version \in Nat /\ keys \subseteq 1..count.taps
    /\ facts \in [DOMAIN facts -> Int]
    /\ \A f \in scene : Amounts(f) \subseteq DOMAIN facts

PageOK ==
    /\ DOMAIN page = PageFields
    /\ DOMAIN page.shown = DOMAIN facts /\ page.seen \in 0..version
    /\ page.sent \in Nat /\ owed \in 0..version
    /\ \A l \in page.loads : /\ DOMAIN l = LoadFields /\ DOMAIN l.shown = DOMAIN facts
                             /\ l.id \in 1..page.sent /\ l.seen \in 0..version

SheetOK ==
    sheet # None =>
        /\ DOMAIN sheet = SheetFields
        /\ \E f \in scene : sheet.door = Forms[f].door
        /\ sheet.busy \subseteq {Forms[f].flag : f \in scene}
        /\ DOMAIN sheet.memory = scene /\ \A f \in scene : OfScene(sheet.memory[f])

PlacesOK ==
    /\ \A s \in Slots : slots[s] = None \/ \E f \in scene : Forms[f].slot = s /\ Forms[f].flag = slots[s]
    /\ DOMAIN session = Scopes /\ \A s \in Scopes : OfScene(session[s])

WishOK(w) ==
    /\ DOMAIN wishes[w] = WishFields
    /\ wishes[w].form \in scene /\ wishes[w].payload[1] = wishes[w].form
    /\ wishes[w].topic = Topic(wishes[w].form)
    /\ wishes[w].times \in Nat
    /\ {wishes[w].open, wishes[w].lost, wishes[w].crossed} \subseteq BOOLEAN

WishesOK == (\E S : wishes \in Seq(S)) /\ \A w \in DOMAIN wishes : WishOK(w)

\* what a handler, or a request without one, was told when it began
Told(r) ==
    /\ DOMAIN r = RunFields
    /\ r.form \in scene /\ r.offer \in Forms[r.form].offers
    /\ r.step \in 1..Len(r.offer.calls)
    /\ r.undoing \in BOOLEAN /\ (r.undoing => r.step > 1 /\ r.offer.undo # None)
    /\ r.undoing => ~wishes[r.wish].open \/ wishes[r.wish].lost
    /\ r.wish \in DOMAIN wishes /\ wishes[r.wish].payload = <<r.form, r.offer.payload>>
    /\ r.key \in 1..count.taps \cup {None}
    /\ Forms[r.form].scope # None => r.key # None
    /\ r.at \in 0..version

Typed == /\ ServerOK /\ PageOK /\ SheetOK /\ PlacesOK /\ WishesOK
         /\ \A r \in runs \cup orphans : Told(r)

\* the page has, or its latest load brings, every change it owes
Owing ==
    /\ \A l, m \in page.loads : l.id = m.id => l = m
    /\ \A l \in page.loads : l.id = page.sent => owed <= l.seen
    /\ (\A l \in page.loads : l.id # page.sent) => owed <= page.seen

\* two wishes of a topic that are pursued at a time have crossed
Active(w) == wishes[w].open \/ \E r \in runs : r.wish = w
Crossing ==
    \A v, w \in DOMAIN wishes :
        v # w /\ wishes[v].topic = wishes[w].topic /\ Active(v) /\ Active(w) => wishes[w].crossed

\* a wish has one request key, which is saved while its answer is not known
KeyIs(w, k) ==
    LET saved == session[Forms[wishes[w].form].scope]
    IN  /\ \A r \in runs \cup orphans : r.wish = w => r.key = k
        /\ wishes[w].times <= 1
        /\ wishes[w].times = 1 => k \in keys
        /\ wishes[w].open => saved # None /\ saved.id = k /\ saved.payload = wishes[w].payload
OneKey == \A w \in DOMAIN wishes : Keyed(w) /\ ~wishes[w].crossed => \E k \in Nat : KeyIs(w, k)

\* without a key, a wish has one handler, as long as no answer is lost
Fresh(r) == r.step = 1 /\ r.phase = "sent"
Strict(w) == ~Keyed(w) /\ ~wishes[w].lost /\ ~Leavable(wishes[w].form)
HandledOnce(w) ==
    /\ \A r \in orphans : r.wish # w
    /\ \A r, q \in runs : r.wish = w /\ q.wish = w => r = q
    /\ wishes[w].times <= 1
    /\ \A r \in runs : r.wish = w /\ Fresh(r) => wishes[w].times = 0
    /\ wishes[w].open => \E r \in runs : r.wish = w /\ r.phase # "loading"
OneHandler == \A w \in DOMAIN wishes : Strict(w) => HandledOnce(w)

\* a busy state of the page whose forms share a flag has one handler
OneFlag(s) == \A f, g \in scene : Forms[f].slot = s /\ Forms[g].slot = s => Forms[f].flag = Forms[g].flag
SlotInv ==
    \A s \in Slots : OneFlag(s) => \A r \in runs : Forms[r.form].slot = s =>
        slots[s] = FlagOf(r) /\ \A q \in runs : Forms[q.form].slot = s => q = r

\* a locked form without a key, and whatever may close its sheet, stays in it
Keeps(f) == Forms[f].locked /\ Forms[f].slot = None /\ ~KeyedForm(f)
Under(f, g) == g = f \/ Forms[f].door \in Forms[g].closes
StayInv ==
    \A f \in scene : Keeps(f) => \A r \in runs : Under(f, r.form) /\ r.phase # "loading" => r.mounted

PromiseInv == FormsInv /\ Typed /\ Owing /\ Crossing /\ OneKey /\ OneHandler /\ SlotInv /\ StayInv

LEMMA FirstFactsAreAmounts ==
    ASSUME NEW forms \in Scenes
    PROVE  /\ FirstFacts(forms) \in [DOMAIN FirstFacts(forms) -> Int]
           /\ \A f \in forms : Amounts(f) \subseteq DOMAIN FirstFacts(forms)
<1> DEFINE names == UNION {Amounts(f) : f \in forms}
           first(n) == IF \E f \in forms : n \in DOMAIN Forms[f].facts
                       THEN LET f == CHOOSE f \in forms : n \in DOMAIN Forms[f].facts IN Forms[f].facts[n]
                       ELSE 2
<1>1. FirstFacts(forms) = [n \in names |-> first(n)]
  BY DEF FirstFacts
<1>2. ASSUME NEW n \in names PROVE first(n) \in Int
  <2>1. CASE \E f \in forms : n \in DOMAIN Forms[f].facts
    <3> DEFINE g == CHOOSE f \in forms : n \in DOMAIN Forms[f].facts
    <3>1. g \in forms /\ n \in DOMAIN Forms[g].facts
      BY <2>1
    <3>2. g \in DOMAIN Forms
      BY <3>1, ClientFormsAssumption
    <3>3. Amounted(Forms[g].facts)
      BY <3>2, ClientFormsAssumption
    <3>4. Forms[g].facts[n] \in Int
      BY <3>1, <3>3 DEF Amounted
    <3>5. first(n) = Forms[g].facts[n]
      BY <2>1
    <3> QED BY <3>4, <3>5
  <2>2. CASE ~\E f \in forms : n \in DOMAIN Forms[f].facts
    BY <2>2
  <2> QED BY <2>1, <2>2
<1>3. ASSUME NEW f \in forms PROVE Amounts(f) \subseteq names
  OBVIOUS
<1> HIDE DEF names, first
<1> QED BY <1>1, <1>2, <1>3

LEMMA InitPromiseInv == ASSUME Init PROVE PromiseInv
<1> USE DEF Init
<1>1. ServerOK
  <2>1. /\ facts \in [DOMAIN facts -> Int]
        /\ \A f \in scene : Amounts(f) \subseteq DOMAIN facts
    BY FirstFactsAreAmounts
  <2> QED BY <2>1 DEF ServerOK
<1>2. PageOK
  BY DEF PageOK, PageFields
<1>3. SheetOK /\ PlacesOK
  BY DEF SheetOK, PlacesOK, NoBusy, OfScene
<1>4. WishesOK
  BY EmptySeq DEF WishesOK
<1>5. Typed
  BY <1>1, <1>2, <1>3, <1>4 DEF Typed
<1>6. Owing
  BY DEF Owing
<1>7. Crossing /\ OneKey /\ OneHandler /\ SlotInv /\ StayInv
  BY DEF Crossing, OneKey, OneHandler, SlotInv, StayInv
<1> QED BY <1>5, <1>6, <1>7, InitFormsInv DEF PromiseInv

(***************************************************************************)
(* Steps in which handlers go on or end and wishes change with them: every  *)
(* step but a tap.                                                          *)
(***************************************************************************)
Became(q, r) ==
    /\ DOMAIN q = RunFields
    /\ q.id = r.id /\ q.form = r.form /\ q.offer = r.offer /\ q.wish = r.wish
    /\ q.key = r.key
    /\ q.step \in 1..Len(q.offer.calls)
    /\ q.undoing \in BOOLEAN /\ (q.undoing => q.step > 1 /\ q.offer.undo # None)
    /\ q.undoing => ~wishes'[q.wish].open \/ wishes'[q.wish].lost
    /\ q.at \in 0..version'
    /\ Fresh(q) => Fresh(r)
    /\ q.phase # "loading" => r.phase # "loading"

WishesGoOn ==
    /\ DOMAIN wishes' = DOMAIN wishes
    /\ wishes' = [w \in DOMAIN wishes |-> wishes'[w]]
    /\ \A w \in DOMAIN wishes :
          LET old == wishes[w]  now == wishes'[w]
          IN  /\ DOMAIN now = WishFields
              /\ now.form = old.form /\ now.payload = old.payload /\ now.topic = old.topic
              /\ now.crossed = old.crossed
              /\ {now.open, now.lost} \subseteq BOOLEAN
              /\ now.open => old.open
              /\ old.lost => now.lost

\* the first call of a wish is carried out
CarriesOut(r) ==
    /\ r \notin orphans => Fresh(r) /\ \A q \in runs' : q.id = r.id => ~Fresh(q)
    /\ Honoured(r.form) => r.key \notin keys /\ (r.key # None => r.key \in keys')

TimesGoOn ==
    \A w \in DOMAIN wishes :
        \/ wishes'[w].times = wishes[w].times
        \/ /\ wishes'[w].times = wishes[w].times + 1
           /\ \E r \in runs \cup orphans : r.wish = w /\ CarriesOut(r)

SessionGoesOn ==
    /\ DOMAIN session' = DOMAIN session
    /\ \A s \in Scopes :
          \/ session'[s] = session[s]
          \/ /\ session'[s] = None
             /\ \E r \in runs : Forms[r.form].scope = s /\ ~wishes'[r.wish].open

Onward ==
    /\ scene' = scene /\ count'.taps = count.taps
    /\ version <= version' /\ version' \in Nat /\ keys \subseteq keys'
    /\ \A q \in runs' : \E r \in runs : Became(q, r)
    /\ \A r \in orphans' : r \in orphans \/ (r \in runs /\ wishes'[r.wish].lost)
    /\ \A r \in runs : r.phase # "loading" =>
          \/ \E q \in runs' : q.wish = r.wish /\ q.phase # "loading"
          \/ ~wishes'[r.wish].open \/ wishes'[r.wish].lost
    /\ WishesGoOn /\ TimesGoOn /\ SessionGoesOn

LEMMA WishesStaySeq ==
    ASSUME NEW ws, NEW n \in Nat, DOMAIN ws = 1..n, ws = [w \in DOMAIN ws |-> ws[w]]
    PROVE  \E S : ws \in Seq(S)
<1> DEFINE S == {ws[w] : w \in DOMAIN ws}
<1>1. ws \in [1..n -> S]
  OBVIOUS
<1>2. Seq(S) = UNION {[1..m -> S] : m \in Nat}
  BY SeqDef
<1>3. ws \in Seq(S)
  BY <1>1, <1>2
<1> QED BY <1>3

LEMMA WishesAreCounted ==
    ASSUME WishesOK
    PROVE  Len(wishes) \in Nat /\ DOMAIN wishes = 1..Len(wishes)
<1>1. PICK S : wishes \in Seq(S)
  BY DEF WishesOK
<1> QED BY <1>1, LenProperties

LEMMA WishesKept == ASSUME WishesOK, scene' = scene, WishesGoOn, TimesGoOn PROVE WishesOK'
<1>1. Len(wishes) \in Nat /\ DOMAIN wishes = 1..Len(wishes)
  BY WishesAreCounted
<1>2. \E S : wishes' \in Seq(S)
  BY <1>1, WishesStaySeq DEF WishesGoOn
<1>3. ASSUME NEW w \in DOMAIN wishes PROVE WishOK(w)'
  <2>1. WishOK(w)
    BY DEF WishesOK
  <2>2. wishes'[w].times \in Nat
    BY <2>1 DEF WishOK, TimesGoOn
  <2> QED BY <2>1, <2>2 DEF WishOK, WishesGoOn, Topic
<1> QED BY <1>2, <1>3 DEF WishesOK, WishesGoOn

LEMMA ToldKept ==
    ASSUME Typed, Onward, NEW r \in runs' \cup orphans' PROVE Told(r)'
<1>1. ASSUME NEW q, Told(q) PROVE Told(q)'
  <2>1. version \in Nat /\ version' \in Nat /\ version <= version' /\ q.at \in 0..version
    BY <1>1 DEF Typed, ServerOK, Onward, Told
  <2>2. q.at \in 0..version'
    BY <2>1
  <2> QED BY <1>1, <2>2 DEF Told, Onward, WishesGoOn
<1>2. CASE r \in orphans'
  BY <1>1, <1>2 DEF Onward, Typed
<1>3. CASE r \in runs'
  <2>1. PICK q \in runs : Became(r, q)
    BY <1>3 DEF Onward
  <2>2. Told(q)'
    BY <1>1 DEF Typed
  <2> QED BY <2>1, <2>2 DEF Told, Became
<1> QED BY <1>2, <1>3

\* a wish that is pursued has been pursued before
LEMMA ActiveBefore ==
    ASSUME Typed, Onward, NEW w \in DOMAIN wishes, Active(w)' PROVE Active(w)
<1>1. CASE wishes'[w].open
  BY <1>1 DEF Onward, WishesGoOn, Active
<1>2. CASE \E q \in runs' : q.wish = w
  <2>1. PICK q \in runs' : q.wish = w
    BY <1>2
  <2>2. PICK r \in runs : Became(q, r)
    BY DEF Onward
  <2> QED BY <2>1, <2>2 DEF Became, Active
<1> QED BY <1>1, <1>2 DEF Active

LEMMA CrossingKept == ASSUME Typed, Crossing, Onward PROVE Crossing'
<1> SUFFICES ASSUME NEW v \in DOMAIN wishes', NEW w \in DOMAIN wishes', v # w,
                    wishes'[v].topic = wishes'[w].topic, Active(v)', Active(w)'
             PROVE  wishes'[w].crossed
  BY DEF Crossing, Active
<1>1. v \in DOMAIN wishes /\ w \in DOMAIN wishes /\ Active(v) /\ Active(w)
  BY ActiveBefore DEF Onward, WishesGoOn
<1> QED BY <1>1 DEF Crossing, Onward, WishesGoOn

\* the form of a wish is that of its handlers
LEMMA WishOfRun ==
    ASSUME Typed, NEW r \in runs \cup orphans
    PROVE  /\ r.wish \in DOMAIN wishes /\ wishes[r.wish].form = r.form
           /\ wishes[r.wish].topic = Topic(r.form)
<1>1. Told(r)
  BY DEF Typed
<1>2. WishOK(r.wish)
  BY <1>1 DEF Typed, WishesOK, Told
<1>3. <<r.form, r.offer.payload>>[1] = r.form
  OBVIOUS
<1>4. wishes[r.wish].payload = <<r.form, r.offer.payload>> /\ r.wish \in DOMAIN wishes
  BY <1>1 DEF Told
<1> QED BY <1>2, <1>3, <1>4 DEF WishOK

LEMMA OneKeyKept == ASSUME Typed, Crossing, OneKey, Onward PROVE OneKey'
<1> SUFFICES ASSUME NEW w \in DOMAIN wishes', Keyed(w)', ~wishes'[w].crossed
             PROVE  \E k \in Nat : KeyIs(w, k)'
  BY DEF OneKey
<1>1. w \in DOMAIN wishes /\ Keyed(w) /\ ~wishes[w].crossed /\ wishes'[w].form = wishes[w].form
  BY DEF Onward, WishesGoOn, Keyed
<1>2. PICK k \in Nat : KeyIs(w, k)
  BY <1>1 DEF OneKey
<1>3. k # None
  BY ClientFormsAssumption
<1>4. ASSUME NEW q \in runs' \cup orphans', q.wish = w PROVE q.key = k
  <2>1. CASE q \in runs'
    <3>1. PICK r \in runs : Became(q, r)
      BY <2>1 DEF Onward
    <3> QED BY <1>2, <1>4, <3>1 DEF KeyIs, Became
  <2>2. CASE q \in orphans'
    BY <1>2, <1>4, <2>2 DEF KeyIs, Onward
  <2> QED BY <2>1, <2>2
<1>5. wishes'[w].times <= 1 /\ (wishes'[w].times = 1 => k \in keys')
  <2>1. CASE wishes'[w].times = wishes[w].times
    BY <1>2, <2>1 DEF KeyIs, Onward
  <2>2. CASE wishes'[w].times # wishes[w].times
    <3>1. PICK r \in runs \cup orphans : r.wish = w /\ CarriesOut(r)
      BY <1>1, <2>2 DEF Onward, TimesGoOn
    <3>2. r.key = k /\ Honoured(r.form)
      BY <1>1, <1>2, <3>1, WishOfRun DEF KeyIs, Keyed, KeyedForm
    <3>3. k \notin keys /\ k \in keys'
      BY <1>3, <3>1, <3>2 DEF CarriesOut
    <3>4. wishes[w].times \in Nat /\ wishes[w].times <= 1 /\ wishes[w].times # 1
      BY <1>1, <1>2, <3>3 DEF KeyIs, Typed, WishesOK, WishOK
    <3>5. wishes'[w].times = wishes[w].times + 1
      BY <1>1, <2>2 DEF Onward, TimesGoOn
    <3> QED BY <3>3, <3>4, <3>5
  <2> QED BY <2>1, <2>2
<1>6. ASSUME wishes'[w].open
      PROVE  LET saved == session'[Forms[wishes'[w].form].scope]
             IN  saved # None /\ saved.id = k /\ saved.payload = wishes'[w].payload
  <2> DEFINE s == Forms[wishes[w].form].scope
  <2>1. wishes[w].open /\ wishes'[w].payload = wishes[w].payload
    BY <1>1, <1>6 DEF Onward, WishesGoOn
  <2>2. session[s] # None /\ session[s].id = k /\ session[s].payload = wishes[w].payload
    BY <1>2, <2>1 DEF KeyIs
  <2>3. WishOK(w)
    BY <1>1 DEF Typed, WishesOK
  <2>4. s \in Scopes /\ s # None
    BY <1>1, <2>3 DEF WishOK, Scopes, Keyed, KeyedForm
  <2>5. ASSUME NEW r \in runs, Forms[r.form].scope = s, ~wishes'[r.wish].open PROVE FALSE
    <3>1. r.wish \in DOMAIN wishes /\ wishes[r.wish].topic = Topic(r.form) /\ r.wish # w
      BY <1>6, <2>5, WishOfRun
    <3>2. Topic(r.form) = s /\ wishes[w].topic = s
      BY <2>3, <2>4, <2>5 DEF Topic, WishOK
    <3>3. Active(r.wish) /\ Active(w)
      BY <2>1 DEF Active
    <3> QED BY <1>1, <3>1, <3>2, <3>3 DEF Crossing
  <2>6. session'[s] = session[s]
    BY <2>4, <2>5 DEF Onward, SessionGoesOn
  <2> QED BY <1>1, <2>1, <2>2, <2>6
<1>7. KeyIs(w, k)'
  BY <1>4, <1>5, <1>6 DEF KeyIs
<1> QED BY <1>7

LEMMA OneHandlerKept == ASSUME Typed, OneHandler, Onward, FormsInv, FormsInv' PROVE OneHandler'
<1> SUFFICES ASSUME NEW w \in DOMAIN wishes', Strict(w)' PROVE HandledOnce(w)'
  BY DEF OneHandler
<1>1. w \in DOMAIN wishes /\ Strict(w) /\ ~wishes'[w].lost
  BY DEF Onward, WishesGoOn, Strict, Keyed, Leavable
<1>2. HandledOnce(w)
  BY <1>1 DEF OneHandler
<1>3. \A r \in orphans' : r.wish # w
  BY <1>1, <1>2 DEF HandledOnce, Onward
<1>4. ASSUME NEW p \in runs', NEW q \in runs', p.wish = w, q.wish = w PROVE p = q
  <2>1. PICK r \in runs : Became(p, r)
    BY DEF Onward
  <2>2. PICK s \in runs : Became(q, s)
    BY DEF Onward
  <2>3. r = s
    BY <1>2, <1>4, <2>1, <2>2 DEF HandledOnce, Became
  <2>4. p.id = q.id
    BY <2>1, <2>2, <2>3 DEF Became
  <2> QED BY <2>4 DEF FormsInv, Shapes
<1>5. ASSUME wishes'[w].open PROVE \E q \in runs' : q.wish = w /\ q.phase # "loading"
  <2>1. PICK r \in runs : r.wish = w /\ r.phase # "loading"
    BY <1>1, <1>2, <1>5 DEF HandledOnce, Onward, WishesGoOn
  <2> QED BY <1>1, <1>5, <2>1 DEF Onward
<1>6. /\ wishes'[w].times <= 1
      /\ \A q \in runs' : q.wish = w /\ Fresh(q) => wishes'[w].times = 0
  <2>1. CASE wishes'[w].times = wishes[w].times
    <3>1. wishes'[w].times <= 1
      BY <1>2, <2>1 DEF HandledOnce
    <3>2. ASSUME NEW q \in runs', q.wish = w, Fresh(q) PROVE wishes'[w].times = 0
      <4>1. PICK r \in runs : Became(q, r)
        BY DEF Onward
      <4> QED BY <1>2, <2>1, <3>2, <4>1 DEF HandledOnce, Became
    <3> QED BY <3>1, <3>2
  <2>2. CASE wishes'[w].times # wishes[w].times
    <3>1. PICK r \in runs \cup orphans : r.wish = w /\ CarriesOut(r)
      BY <1>1, <2>2 DEF Onward, TimesGoOn
    <3>2. r \in runs /\ Fresh(r) /\ \A q \in runs' : q.id = r.id => ~Fresh(q)
      BY <1>2, <3>1 DEF HandledOnce, CarriesOut
    <3>3. wishes'[w].times = 1
      BY <1>1, <1>2, <2>2, <3>1, <3>2 DEF HandledOnce, Onward, TimesGoOn
    <3>4. ASSUME NEW q \in runs', q.wish = w PROVE ~Fresh(q)
      <4>1. PICK s \in runs : Became(q, s)
        BY DEF Onward
      <4>2. s = r
        BY <1>2, <3>1, <3>2, <3>4, <4>1 DEF HandledOnce, Became
      <4> QED BY <3>2, <4>1, <4>2 DEF Became
    <3> QED BY <3>3, <3>4
  <2> QED BY <2>1, <2>2
<1> QED BY <1>3, <1>4, <1>5, <1>6 DEF HandledOnce, Fresh

(***************************************************************************)
(* What such a step leaves of the places.                                   *)
(***************************************************************************)
SheetShrinks ==
    \/ sheet' = None \/ sheet' = sheet
    \/ /\ sheet # None /\ DOMAIN sheet' = SheetFields
       /\ sheet'.door = sheet.door /\ sheet'.busy \subseteq sheet.busy
       /\ DOMAIN sheet'.memory = DOMAIN sheet.memory
       /\ \A f \in DOMAIN sheet.memory : sheet'.memory[f] \in {sheet.memory[f], None}

SlotsShrink == \A s \in Slots : slots'[s] \in {slots[s], None}

\* a request of the scene, after the step
OfSceneNow(request) ==
    request = None \/ (request.id \in 1..count'.taps
                      /\ \E o \in Forms[request.payload[1]].offers : request.payload[2] = o.payload)

LEMMA PlacesKept ==
    ASSUME Typed, Onward, SheetShrinks, SlotsShrink PROVE SheetOK' /\ PlacesOK'
<1>1. \A request : OfScene(request) => OfSceneNow(request)
  BY DEF OfScene, OfSceneNow, Onward
<1>2. OfSceneNow(None)
  BY DEF OfSceneNow
<1>3. ASSUME sheet' # None
      PROVE  /\ DOMAIN sheet' = SheetFields
             /\ \E f \in scene' : sheet'.door = Forms[f].door
             /\ sheet'.busy \subseteq {Forms[f].flag : f \in scene'}
             /\ DOMAIN sheet'.memory = scene' /\ \A f \in scene' : OfSceneNow(sheet'.memory[f])
  <2>1. sheet # None /\ SheetOK /\ scene' = scene
    BY <1>3 DEF SheetShrinks, Typed, Onward
  <2>2. CASE sheet' = sheet
    BY <1>1, <2>1, <2>2 DEF SheetOK
  <2>3. CASE sheet' # sheet
    <3>1. \A f \in scene : OfSceneNow(sheet'.memory[f])
      BY <1>1, <1>2, <1>3, <2>1, <2>3 DEF SheetOK, SheetShrinks
    <3> QED BY <1>3, <2>1, <2>3, <3>1 DEF SheetOK, SheetShrinks
  <2> QED BY <2>2, <2>3
<1>4. SheetOK'
  BY <1>3 DEF SheetOK, OfScene, OfSceneNow
<1>5. ASSUME NEW s \in Slots'
      PROVE  slots'[s] = None \/ \E f \in scene' : Forms[f].slot = s /\ Forms[f].flag = slots'[s]
  BY <1>5 DEF Onward, SlotsShrink, Slots, Typed, PlacesOK
<1>6. ASSUME NEW s \in Scopes' PROVE OfSceneNow(session'[s])
  <2>1. s \in Scopes /\ OfScene(session[s])
    BY <1>6 DEF Onward, Scopes, Typed, PlacesOK
  <2>2. session'[s] \in {session[s], None}
    BY <2>1 DEF Onward, SessionGoesOn
  <2> QED BY <1>1, <1>2, <2>1, <2>2
<1>7. DOMAIN session' = Scopes'
  BY DEF Onward, SessionGoesOn, Typed, PlacesOK, Scopes
<1> QED BY <1>4, <1>5, <1>6, <1>7 DEF PlacesOK, OfScene, OfSceneNow

LEMMA SlotKept ==
    ASSUME SlotInv, Onward, FormsInv',
           \A s \in Slots : OneFlag(s) =>
               slots'[s] = slots[s] \/ \A q \in runs' : Forms[q.form].slot # s
    PROVE  SlotInv'
<1> SUFFICES ASSUME NEW s \in Slots, OneFlag(s), NEW p \in runs', Forms[p.form].slot = s,
                    NEW q \in runs', Forms[q.form].slot = s
             PROVE  slots'[s] = FlagOf(p) /\ q = p
  BY DEF SlotInv, OneFlag, Onward, Slots, FlagOf
<1>1. PICK r \in runs : Became(p, r)
  BY DEF Onward
<1>2. PICK t \in runs : Became(q, t)
  BY DEF Onward
<1>3. slots[s] = FlagOf(r) /\ t = r
  BY <1>1, <1>2 DEF SlotInv, Became
<1>4. p.id = q.id
  BY <1>1, <1>2, <1>3 DEF Became
<1>5. p = q
  BY <1>4 DEF FormsInv, Shapes
<1>6. slots'[s] = slots[s]
  OBVIOUS
<1> QED BY <1>1, <1>3, <1>5, <1>6 DEF Became, FlagOf

LEMMA StayKept ==
    ASSUME StayInv, Onward, MountsStay, \A q \in runs' : q.mounted \in BOOLEAN PROVE StayInv'
<1> SUFFICES ASSUME NEW f \in scene, Keeps(f), NEW q \in runs', Under(f, q.form), q.phase # "loading"
             PROVE  q.mounted
  BY DEF StayInv, Onward
<1>1. PICK r \in runs : Became(q, r)
  BY DEF Onward
<1>2. r.mounted
  BY <1>1 DEF StayInv, Became
<1> QED BY <1>1, <1>2 DEF MountsStay, Became

\* all of these
LEMMA PromisesKept ==
    ASSUME PromiseInv, Onward, FormsInv', SheetShrinks, SlotsShrink, ServerOK', PageOK', Owing',
           SlotInv', StayInv'
    PROVE  PromiseInv'
<1>1. Typed'
  <2>1. SheetOK' /\ PlacesOK' /\ WishesOK'
    BY PlacesKept, WishesKept DEF PromiseInv, Typed, Onward
  <2>2. \A r \in runs' \cup orphans' : Told(r)'
    BY ToldKept DEF PromiseInv
  <2> QED BY <2>1, <2>2 DEF Typed
<1>2. Crossing' /\ OneKey' /\ OneHandler'
  BY CrossingKept, OneKeyKept, OneHandlerKept DEF PromiseInv
<1> QED BY <1>1, <1>2 DEF PromiseInv

(***************************************************************************)
(* The handlers that stay as they are.                                      *)
(***************************************************************************)
LEMMA SelfBecame ==
    ASSUME Typed, NEW r \in runs, WishesGoOn, version <= version', version' \in Nat
    PROVE  Became(r, r)
<1>1. Told(r) /\ version \in Nat
  BY DEF Typed, ServerOK
<1>2. r.at \in 0..version'
  BY <1>1 DEF Told
<1>3. r.undoing => ~wishes'[r.wish].open \/ wishes'[r.wish].lost
  BY <1>1 DEF Told, WishesGoOn
<1> QED BY <1>1, <1>2, <1>3 DEF Became, Told

LEMMA WishesUnchanged ==
    ASSUME Typed, UNCHANGED wishes PROVE WishesGoOn /\ TimesGoOn
<1>1. wishes = [w \in DOMAIN wishes |-> wishes[w]]
  <2>1. PICK S : wishes \in Seq(S)
    BY DEF Typed, WishesOK
  <2> QED BY <2>1, LenProperties
<1>2. \A w \in DOMAIN wishes : WishOK(w)
  BY DEF Typed, WishesOK
<1> QED BY <1>1, <1>2 DEF WishesGoOn, TimesGoOn, WishOK

LEMMA OnwardAlone ==
    ASSUME PromiseInv, UNCHANGED <<scene, orphans, wishes, session, keys>>, count'.taps = count.taps,
           version <= version', version' \in Nat, runs' \subseteq runs,
           \A r \in runs : r \in runs' \/ r.phase = "loading"
    PROVE  Onward
<1>1. WishesGoOn /\ TimesGoOn
  BY WishesUnchanged DEF PromiseInv
<1>2. \A q \in runs' : Became(q, q)
  BY <1>1, SelfBecame DEF PromiseInv
<1> QED BY <1>1, <1>2 DEF Onward, SessionGoesOn

\* the server and the page where nothing happens to them
LEMMA ServerStays ==
    ASSUME Typed, scene' = scene, count'.taps = count.taps, UNCHANGED <<version, keys, facts>>
    PROVE  ServerOK'
  BY DEF Typed, ServerOK

LEMMA PageStays ==
    ASSUME Typed, Owing, UNCHANGED <<page, owed>>, version <= version', version' \in Nat,
           DOMAIN facts' = DOMAIN facts
    PROVE  PageOK' /\ Owing'
<1>1. version \in Nat /\ \A n \in 0..version : n \in 0..version'
  BY DEF Typed, ServerOK
<1>2. PageOK'
  BY <1>1 DEF Typed, PageOK
<1> QED BY <1>2 DEF Owing

LEMMA OpenSheetKeeps ==
    ASSUME NoneIsNoRecord, PromiseInv, NEW f \in scene, OpenSheet(f) PROVE PromiseInv'
<1>1. /\ sheet = None /\ UNCHANGED <<scene, facts, version, keys, page, owed, runs, slots, count>>
      /\ UNCHANGED <<orphans, wishes, session>>
      /\ sheet'.door = Forms[f].door /\ DOMAIN sheet' = SheetFields /\ sheet'.busy = {}
      /\ DOMAIN sheet'.memory = scene /\ \A g \in scene : sheet'.memory[g] = None
  BY DEF OpenSheet, server, SheetFields
<1>2. FormsInv' /\ MountsStay
  BY OpenSheetInv DEF PromiseInv
<1>3. version \in Nat
  BY DEF PromiseInv, Typed, ServerOK
<1>4. Onward
  BY <1>1, <1>3, OnwardAlone
<1>5. ServerOK' /\ PageOK' /\ Owing'
  BY <1>1, <1>3, ServerStays, PageStays DEF PromiseInv
<1>6. SheetOK'
  BY <1>1 DEF SheetOK, OfScene
<1>7. PlacesOK'
  BY <1>1 DEF PromiseInv, Typed, PlacesOK, Slots, Scopes, OfScene
<1>8. Typed'
  <2>1. WishesOK'
    BY <1>4, WishesKept DEF PromiseInv, Typed, Onward
  <2>2. \A r \in runs' \cup orphans' : Told(r)'
    BY <1>4, ToldKept DEF PromiseInv
  <2> QED BY <1>5, <1>6, <1>7, <2>1, <2>2 DEF Typed
<1>9. Crossing' /\ OneKey' /\ OneHandler'
  BY <1>2, <1>4, CrossingKept, OneKeyKept, OneHandlerKept DEF PromiseInv
<1>10. SlotInv'
  <2>1. UNCHANGED <<scene, runs, slots>>
    BY <1>1
  <2> QED BY <2>1 DEF PromiseInv, SlotInv, OneFlag, Slots
<1>11. StayInv'
  BY <1>1 DEF PromiseInv, StayInv
<1> QED BY <1>2, <1>5, <1>8, <1>9, <1>10, <1>11 DEF PromiseInv

\* Other amounts, another load: nothing a handler holds changes.
LEMMA ElsewhereKeeps ==
    ASSUME NoneIsNoRecord, PromiseInv, NEW n \in DOMAIN facts, Elsewhere(n) PROVE PromiseInv'
<1>1. /\ count' = [count EXCEPT !.elsewhere = @ + 1] /\ version' = version + 1
      /\ facts' = [facts EXCEPT ![n] = @ - 1]
      /\ UNCHANGED <<scene, keys, page, owed, runs, slots, sheet, orphans, wishes, session>>
  BY DEF Elsewhere
<1>2. count' \in Counts /\ count'.taps = count.taps
  BY <1>1, CountsStay DEF PromiseInv
<1>3. FormsInv' /\ MountsStay
  BY <1>1, <1>2, AloneInv DEF PromiseInv
<1>4. version \in Nat /\ version <= version' /\ version' \in Nat
  BY <1>1 DEF PromiseInv, Typed, ServerOK
<1>5. Onward
  BY <1>1, <1>2, <1>4, OnwardAlone
<1>6. ServerOK'
  BY <1>1, <1>2, <1>4 DEF PromiseInv, Typed, ServerOK
<1>7. PageOK' /\ Owing'
  BY <1>1, <1>4, PageStays DEF PromiseInv
<1>8. SlotInv' /\ StayInv' /\ SheetShrinks /\ SlotsShrink
  BY <1>1 DEF PromiseInv, SlotInv, StayInv, OneFlag, Slots, SheetShrinks, SlotsShrink
<1> QED BY <1>3, <1>5, <1>6, <1>7, <1>8, PromisesKept

(***************************************************************************)
(* The loads of the page.                                                   *)
(***************************************************************************)
LEMMA LoadSent ==
    ASSUME Typed, Owing, page' = WithLoad(page), UNCHANGED <<facts, version>>, owed' \in 0..version
    PROVE  PageOK' /\ Owing'
<1> DEFINE new == [id |-> page.sent + 1, shown |-> facts, seen |-> version]
<1>1. /\ DOMAIN page' = PageFields /\ page'.sent = page.sent + 1 /\ page'.loads = page.loads \cup {new}
      /\ page'.shown = page.shown /\ page'.seen = page.seen
  BY DEF WithLoad, Typed, PageOK, PageFields
<1>2. /\ page.sent \in Nat /\ version \in Nat /\ page.seen \in 0..version
      /\ \A l \in page.loads : l.id \in 1..page.sent /\ l.seen \in 0..version
  BY DEF Typed, ServerOK, PageOK
<1>3. /\ DOMAIN new = LoadFields /\ new.id = page.sent + 1 /\ new.shown = facts /\ new.seen = version
  BY DEF LoadFields
<1> HIDE DEF new
<1>4. \A l \in page'.loads : l.id \in 1..page'.sent /\ l.seen \in 0..version
  BY <1>1, <1>2, <1>3
<1>5. PageOK'
  BY <1>1, <1>2, <1>3, <1>4 DEF Typed, PageOK
<1>6. \A l \in page.loads : l.id # new.id /\ l.id # page'.sent
  BY <1>1, <1>2, <1>3
<1>7. owed' <= new.seen /\ new.id = page'.sent
  BY <1>1, <1>2, <1>3
<1>8. Owing'
  BY <1>1, <1>6, <1>7 DEF Owing
<1> QED BY <1>5, <1>8

LEMMA RefreshKeeps ==
    ASSUME NoneIsNoRecord, PromiseInv, Refresh PROVE PromiseInv'
<1>1. /\ count' = [count EXCEPT !.refreshes = @ + 1] /\ page' = WithLoad(page)
      /\ UNCHANGED <<scene, facts, version, keys, owed, runs, slots, sheet, orphans, wishes, session>>
  BY DEF Refresh, server
<1>2. count' \in Counts /\ count'.taps = count.taps
  BY <1>1, CountsStay DEF PromiseInv
<1>3. FormsInv' /\ MountsStay
  BY <1>1, <1>2, AloneInv DEF PromiseInv
<1>4. version \in Nat /\ version <= version' /\ version' \in Nat /\ owed' \in 0..version
  BY <1>1 DEF PromiseInv, Typed, ServerOK, PageOK
<1>5. Onward
  BY <1>1, <1>2, <1>4, OnwardAlone
<1>6. ServerOK'
  BY <1>1, <1>2, ServerStays DEF PromiseInv
<1>7. PageOK' /\ Owing'
  BY <1>1, <1>4, LoadSent DEF PromiseInv
<1>8. SlotInv' /\ StayInv' /\ SheetShrinks /\ SlotsShrink
  BY <1>1 DEF PromiseInv, SlotInv, StayInv, OneFlag, Slots, SheetShrinks, SlotsShrink
<1> QED BY <1>3, <1>5, <1>6, <1>7, <1>8, PromisesKept

LEMMA WaitedKeeps ==
    ASSUME NoneIsNoRecord, PromiseInv, NEW l, Waited(l), count' \in Counts, count'.taps = count.taps,
           UNCHANGED <<scene, facts, version, keys, orphans, wishes, session>>
    PROVE  /\ FormsInv' /\ Onward /\ SheetShrinks /\ SlotsShrink /\ ServerOK'
           /\ SlotInv' /\ StayInv'
<1> DEFINE over == {r \in runs : r.phase = "loading" /\ r.load = l.id}
           inPage == {Forms[r.form].slot : r \in over}
           inSheet == {Forms[r.form].flag :
                          r \in {q \in over : q.mounted /\ Forms[q.form].slot = None /\ Forms[q.form].frees}}
<1>1. /\ runs' = runs \ over
      /\ slots' = [s \in Slots |-> IF s \in inPage THEN None ELSE slots[s]]
      /\ sheet' = IF inSheet = {} THEN sheet ELSE [sheet EXCEPT !.busy = @ \ inSheet]
  BY DEF Waited
<1>2. FormsInv' /\ MountsStay
  BY WaitedInv DEF PromiseInv
<1>3. version \in Nat /\ version <= version' /\ version' \in Nat
  BY DEF PromiseInv, Typed, ServerOK
<1>4. runs' \subseteq runs /\ \A r \in runs : r \in runs' \/ r.phase = "loading"
  BY <1>1
<1>5. Onward
  BY <1>3, <1>4, OnwardAlone
<1>6. ServerOK'
  BY ServerStays DEF PromiseInv
<1>7. SheetShrinks
  <2>1. CASE inSheet = {}
    BY <1>1, <2>1 DEF SheetShrinks
  <2>2. CASE inSheet # {}
    <3>1. sheet' = [sheet EXCEPT !.busy = @ \ inSheet]
      BY <1>1, <2>2
    <3>2. \E r \in runs : r.mounted
      BY <2>2
    <3>3. DOMAIN sheet = SheetFields /\ sheet # None
      BY <3>2 DEF PromiseInv, FormsInv, MountedInv, NoneIsNoRecord
    <3> HIDE DEF inSheet
    <3> QED BY <3>1, <3>3 DEF SheetShrinks, SheetFields
  <2> QED BY <2>1, <2>2
<1>8. SlotsShrink
  BY <1>1 DEF SlotsShrink
<1>9. SlotInv'
  <2>1. ASSUME NEW s \in Slots, OneFlag(s)
        PROVE  slots'[s] = slots[s] \/ \A q \in runs' : Forms[q.form].slot # s
    <3>1. CASE s \notin inPage
      BY <1>1, <3>1
    <3>2. CASE s \in inPage
      <4>1. PICK r \in over : Forms[r.form].slot = s
        BY <3>2
      <4>2. \A q \in runs : Forms[q.form].slot = s => q = r
        BY <2>1, <4>1 DEF PromiseInv, SlotInv
      <4> QED BY <1>1, <4>1, <4>2
    <3> QED BY <3>1, <3>2
  <2> QED BY <1>2, <1>5, <2>1, SlotKept DEF PromiseInv
<1>10. StayInv'
  BY <1>2, <1>5, StayKept DEF PromiseInv, FormsInv, Shapes, RunOK
<1> QED BY <1>2, <1>5, <1>6, <1>7, <1>8, <1>9, <1>10

LEMMA LoadAnsweredKeeps ==
    ASSUME NoneIsNoRecord, PromiseInv, NEW l \in page.loads, LoadAnswered(l) PROVE PromiseInv'
<1>1. /\ Waited(l) /\ UNCHANGED <<scene, facts, version, keys, orphans, wishes, session, count>>
      /\ owed' = IF Guarded \/ l.id = page.sent THEN owed ELSE Smaller(owed, page'.seen)
  BY DEF LoadAnswered, server
<1>2. count' \in Counts /\ count'.taps = count.taps
  BY <1>1 DEF PromiseInv, FormsInv, Shapes, Counts
<1>3. /\ FormsInv' /\ Onward /\ SheetShrinks /\ SlotsShrink /\ ServerOK'
      /\ SlotInv' /\ StayInv'
  BY <1>1, <1>2, WaitedKeeps
<1>4. PICK answer \in {l, [l EXCEPT !.shown = facts, !.seen = version]} :
         page' = [Taken(l, answer) EXCEPT !.loads = @ \ {l}]
  BY DEF LoadAnswered
<1>5. /\ version \in Nat /\ page.sent \in Nat /\ page.seen \in 0..version /\ owed \in 0..version
      /\ DOMAIN page = PageFields /\ DOMAIN page.shown = DOMAIN facts
      /\ \A m \in page.loads : /\ DOMAIN m = LoadFields /\ DOMAIN m.shown = DOMAIN facts
                               /\ m.id \in 1..page.sent /\ m.seen \in 0..version
  BY DEF PromiseInv, Typed, ServerOK, PageOK
<1>6. DOMAIN answer.shown = DOMAIN facts /\ answer.seen \in 0..version /\ l.seen <= answer.seen
  <2>1. DOMAIN l = LoadFields /\ DOMAIN l.shown = DOMAIN facts /\ l.seen \in 0..version
    BY <1>5
  <2>2. CASE answer = l
    BY <2>1, <2>2
  <2>3. CASE answer = [l EXCEPT !.shown = facts, !.seen = version]
    <3>1. answer.shown = facts /\ answer.seen = version
      BY <2>1, <2>3 DEF LoadFields
    <3> QED BY <1>5, <2>1, <3>1
  <2> QED BY <2>2, <2>3
<1>7. /\ DOMAIN page' = PageFields /\ page'.sent = page.sent /\ page'.loads = page.loads \ {l}
      /\ \/ Guarded /\ l.id # page.sent /\ page'.shown = page.shown /\ page'.seen = page.seen
         \/ /\ ~Guarded \/ l.id = page.sent
            /\ page'.shown = answer.shown /\ page'.seen = answer.seen
  BY <1>4, <1>5 DEF Taken, PageFields
<1>8. owed' \in 0..version /\ owed' <= owed /\ (l.id # page.sent /\ ~Guarded => owed' <= page'.seen)
  BY <1>1, <1>5, <1>6, <1>7 DEF Smaller
<1>9. PageOK'
  BY <1>1, <1>5, <1>6, <1>7, <1>8 DEF PageOK
<1>10. Owing'
  <2>1. \A m, n \in page'.loads : m.id = n.id => m = n
    BY <1>7 DEF PromiseInv, Owing
  <2>2. ASSUME NEW m \in page'.loads, m.id = page'.sent PROVE owed' <= m.seen
    <3>1. owed <= m.seen /\ m.seen \in Nat
      BY <1>5, <1>7, <2>2 DEF PromiseInv, Owing
    <3> QED BY <1>5, <1>8, <3>1
  <2>3. ASSUME \A m \in page'.loads : m.id # page'.sent PROVE owed' <= page'.seen
    <3>1. CASE l.id = page.sent
      <4>1. owed <= l.seen /\ page'.seen = answer.seen /\ l.seen \in Nat
        BY <1>5, <1>7, <3>1 DEF PromiseInv, Owing
      <4> QED BY <1>5, <1>6, <1>8, <4>1
    <3>2. CASE l.id # page.sent /\ ~Guarded
      BY <1>8, <3>2
    <3>3. CASE l.id # page.sent /\ Guarded
      <4>1. \A m \in page.loads : m.id # page.sent
        BY <1>7, <2>3, <3>3
      <4>2. owed <= page.seen /\ page'.seen = page.seen
        BY <1>7, <3>3, <4>1 DEF PromiseInv, Owing
      <4> QED BY <1>5, <1>8, <4>2
    <3> QED BY <3>1, <3>2, <3>3
  <2> QED BY <2>1, <2>2, <2>3 DEF Owing
<1> QED BY <1>3, <1>9, <1>10, PromisesKept

LEMMA LoadLostKeeps ==
    ASSUME NoneIsNoRecord, PromiseInv, NEW l \in page.loads, LoadLost(l) PROVE PromiseInv'
<1>1. /\ Waited(l) /\ UNCHANGED <<scene, facts, version, keys, orphans, wishes, session>>
      /\ count' = [count EXCEPT !.losses = @ + 1]
      /\ page' = [page EXCEPT !.loads = @ \ {l}]
      /\ owed' = IF l.id = page.sent THEN Smaller(owed, page.seen) ELSE owed
  BY DEF LoadLost, server
<1>2. count' \in Counts /\ count'.taps = count.taps
  BY <1>1, CountsStay DEF PromiseInv
<1>3. /\ FormsInv' /\ Onward /\ SheetShrinks /\ SlotsShrink /\ ServerOK'
      /\ SlotInv' /\ StayInv'
  BY <1>1, <1>2, WaitedKeeps
<1>4. /\ version \in Nat /\ page.sent \in Nat /\ page.seen \in 0..version /\ owed \in 0..version
      /\ DOMAIN page = PageFields /\ DOMAIN page.shown = DOMAIN facts
      /\ \A m \in page.loads : /\ DOMAIN m = LoadFields /\ DOMAIN m.shown = DOMAIN facts
                               /\ m.id \in 1..page.sent /\ m.seen \in 0..version
  BY DEF PromiseInv, Typed, ServerOK, PageOK
<1>5. /\ DOMAIN page' = PageFields /\ page'.sent = page.sent /\ page'.loads = page.loads \ {l}
      /\ page'.shown = page.shown /\ page'.seen = page.seen
  BY <1>1, <1>4 DEF PageFields
<1>6. owed' \in 0..version /\ owed' <= owed /\ (l.id = page.sent => owed' <= page.seen)
  BY <1>1, <1>4 DEF Smaller
<1>7. PageOK'
  BY <1>1, <1>4, <1>5, <1>6 DEF PageOK
<1>8. Owing'
  <2>1. \A m, n \in page'.loads : m.id = n.id => m = n
    BY <1>5 DEF PromiseInv, Owing
  <2>2. ASSUME NEW m \in page'.loads, m.id = page'.sent PROVE owed' <= m.seen
    <3>1. owed <= m.seen /\ m.seen \in Nat
      BY <1>4, <1>5, <2>2 DEF PromiseInv, Owing
    <3> QED BY <1>4, <1>6, <3>1
  <2>3. ASSUME \A m \in page'.loads : m.id # page'.sent PROVE owed' <= page'.seen
    <3>1. CASE l.id = page.sent
      BY <1>5, <1>6, <3>1
    <3>2. CASE l.id # page.sent
      <4>1. owed <= page.seen
        BY <1>5, <2>3, <3>2 DEF PromiseInv, Owing
      <4> QED BY <1>4, <1>5, <1>6, <4>1
    <3> QED BY <3>1, <3>2
  <2> QED BY <2>1, <2>2, <2>3 DEF Owing
<1> QED BY <1>3, <1>7, <1>8, PromisesKept

(***************************************************************************)
(* The sheet is closed.                                                     *)
(***************************************************************************)
\* a handler that loses its sheet goes on without it
LEMMA UnmountedBecame ==
    ASSUME Typed, NEW rs, NEW q \in Unmounted(rs), version <= version', version' \in Nat,
           \A p \in rs : \E r \in runs : Became(p, r)
    PROVE  \E p \in rs : q = [p EXCEPT !.mounted = FALSE] /\ \E r \in runs : Became(q, r)
<1>1. PICK p \in rs : q = [p EXCEPT !.mounted = FALSE]
  BY DEF Unmounted
<1>2. PICK r \in runs : Became(p, r)
  OBVIOUS
<1>3. Became(q, r)
  BY <1>1, <1>2 DEF Became, RunFields, Fresh
<1> QED BY <1>1, <1>3

LEMMA CloseSheetKeeps ==
    ASSUME NoneIsNoRecord, PromiseInv, CloseSheet PROVE PromiseInv'
<1>1. /\ sheet # None /\ ~Locked /\ sheet' = None /\ runs' = Unmounted(runs)
      /\ UNCHANGED <<scene, facts, version, keys, page, owed, slots, session, orphans, wishes, count>>
  BY DEF CloseSheet, server
<1>2. FormsInv'
  BY CloseSheetInv DEF PromiseInv
<1>3. version \in Nat /\ version <= version' /\ version' \in Nat
  BY <1>1 DEF PromiseInv, Typed, ServerOK
<1>4. WishesGoOn /\ TimesGoOn
  BY <1>1, WishesUnchanged DEF PromiseInv
<1>7. \A r \in runs : Became(r, r)
  BY <1>3, <1>4, SelfBecame DEF PromiseInv
<1>5. \A q \in runs' : \E r \in runs : Became(q, r)
  BY <1>1, <1>3, <1>7, UnmountedBecame DEF PromiseInv
<1>6. ASSUME NEW r \in runs, r.phase # "loading"
      PROVE  \E q \in runs' : q.wish = r.wish /\ q.phase # "loading"
  <2> DEFINE q == [r EXCEPT !.mounted = FALSE]
  <2>1. q \in runs'
    BY <1>1 DEF Unmounted
  <2>2. q.wish = r.wish /\ q.phase = r.phase
    BY <1>7 DEF Became, RunFields
  <2> QED BY <1>6, <2>1, <2>2
<1>8. Onward
  BY <1>1, <1>3, <1>4, <1>5, <1>6 DEF Onward, SessionGoesOn
<1>9. ServerOK' /\ PageOK' /\ Owing'
  BY <1>1, <1>3, ServerStays, PageStays DEF PromiseInv
<1>10. SheetShrinks /\ SlotsShrink
  BY <1>1 DEF SheetShrinks, SlotsShrink
<1>11. SlotInv'
  BY <1>1, <1>2, <1>8, SlotKept DEF PromiseInv
<1>12. StayInv'
  <2> SUFFICES ASSUME NEW f \in scene, Keeps(f), NEW q \in runs', Under(f, q.form), q.phase # "loading"
               PROVE  FALSE
    BY <1>1 DEF StayInv
  <2>1. PICK r \in runs : Became(q, r)
    BY <1>5
  <2>2. r.mounted /\ r.form = q.form
    BY <2>1 DEF PromiseInv, StayInv, Became
  <2>3. /\ r.form \in scene /\ scene \in Scenes /\ sheet.door = Forms[r.form].door
    BY <2>2 DEF PromiseInv, FormsInv, Shapes, RunOK, MountedInv
  <2>4. /\ Forms[r.form].door = Forms[f].door /\ Forms[r.form].flag = Forms[f].flag
        /\ Forms[r.form].slot = None
    BY <2>2, <2>3, DoorsAssumption DEF Keeps, Under
  <2>5. Forms[f].flag \in sheet.busy
    BY <2>2, <2>4 DEF PromiseInv, FormsInv, MountedInv, InSheet, FlagOf
  <2>6. Locked
    BY <2>3, <2>4, <2>5 DEF Locked, Marked, Keeps
  <2> QED BY <1>1, <2>6
<1> QED BY <1>2, <1>8, <1>9, <1>10, <1>11, <1>12, PromisesKept

(***************************************************************************)
(* One handler goes on or ends, the others stay as they are.                *)
(***************************************************************************)
\* what a handler is, before and after
LEMMA RunHas ==
    ASSUME PromiseInv, NEW r \in runs
    PROVE  /\ RunOK(r) /\ Told(r) /\ r.form \in DOMAIN Forms /\ scene \in Scenes
           /\ r.offer \in Forms[r.form].offers /\ r.mounted \in BOOLEAN
           /\ r.wish \in DOMAIN wishes
<1>1. RunOK(r) /\ Told(r) /\ scene \in Scenes
  BY DEF PromiseInv, FormsInv, Shapes, Typed
<1> QED BY <1>1, ClientFormsAssumption DEF RunOK, Told

LEMMA OnwardOne ==
    ASSUME PromiseInv, NEW r \in runs, scene' = scene, count'.taps = count.taps,
           version <= version', version' \in Nat, keys \subseteq keys',
           \A q \in runs' : q \in runs \/ Became(q, r),
           \A p \in runs : p = r \/ p \in runs',
           r.phase # "loading" =>
               \/ \E q \in runs' : q.wish = r.wish /\ q.phase # "loading"
               \/ ~wishes'[r.wish].open \/ wishes'[r.wish].lost,
           \A o \in orphans' : o \in orphans \/ (o = r /\ wishes'[r.wish].lost),
           WishesGoOn, TimesGoOn, SessionGoesOn
    PROVE  Onward
<1>1. \A q \in runs : Became(q, q)
  BY SelfBecame DEF PromiseInv
<1>2. \A q \in runs' : \E p \in runs : Became(q, p)
  BY <1>1
<1>3. \A p \in runs : p.phase # "loading" =>
         \/ \E q \in runs' : q.wish = p.wish /\ q.phase # "loading"
         \/ ~wishes'[p.wish].open \/ wishes'[p.wish].lost
  OBVIOUS
<1> QED BY <1>2, <1>3 DEF Onward

\* A handler that goes on in its sheet, which stays as it is.
LEMMA GoneOn ==
    ASSUME PromiseInv, Onward, FormsInv', MountsStay, UNCHANGED <<sheet, slots>>
    PROVE  SheetShrinks /\ SlotsShrink /\ SlotInv' /\ StayInv'
<1>1. SheetShrinks /\ SlotsShrink
  BY DEF SheetShrinks, SlotsShrink
<1>2. SlotInv'
  BY SlotKept DEF PromiseInv
<1>3. StayInv'
  BY StayKept DEF PromiseInv, FormsInv, Shapes, RunOK
<1> QED BY <1>1, <1>2, <1>3

LEMMA CallIsAmounted ==
    ASSUME PromiseInv, NEW r \in runs \cup orphans
    PROVE  /\ AmountedCall(CallOf(r))
           /\ ~r.undoing => CallOf(r) = r.offer.calls[r.step] /\ r.step \in DOMAIN r.offer.calls
           /\ r.form \in DOMAIN Forms /\ r.offer \in Forms[r.form].offers
<1>1. Told(r) /\ scene \in Scenes
  BY DEF PromiseInv, FormsInv, Shapes, Typed
<1>2. r.form \in DOMAIN Forms /\ r.offer \in Forms[r.form].offers
  BY <1>1, ClientFormsAssumption DEF Told
<1>3. /\ DOMAIN r.offer.calls = 1..Len(r.offer.calls)
      /\ \A i \in DOMAIN r.offer.calls : AmountedCall(r.offer.calls[i])
      /\ r.offer.undo # None => AmountedCall(r.offer.undo)
  BY <1>2, ClientFormsAssumption
<1>4. r.step \in DOMAIN r.offer.calls /\ r.undoing \in BOOLEAN /\ (r.undoing => r.offer.undo # None)
  BY <1>1, <1>3 DEF Told
<1> QED BY <1>2, <1>3, <1>4 DEF CallOf

\* The server carries a request out, once for its key.
LEMMA CarriedOut ==
    ASSUME PromiseInv, NEW r \in runs \cup orphans, Carried(r), ~Repeated(r),
           scene' = scene, count'.taps = count.taps,
           r \notin orphans => r.phase = "sent" /\ \A q \in runs' : q.id = r.id => q.phase = "done"
    PROVE  /\ ServerOK' /\ DOMAIN facts' = DOMAIN facts /\ WishesGoOn /\ TimesGoOn
           /\ version <= version' /\ version' \in Nat /\ version' = version + 1 /\ keys \subseteq keys'
<1> DEFINE c == CallOf(r)
           first == r.step = 1 /\ ~r.undoing
<1>1. /\ facts' = Moved(c) /\ version' = version + 1
      /\ keys' = IF c.once /\ r.key # None THEN keys \cup {r.key} ELSE keys
      /\ wishes' = IF first THEN [wishes EXCEPT ![r.wish].times = @ + 1] ELSE wishes
  BY DEF Carried
<1>2. Told(r) /\ ServerOK /\ r.wish \in DOMAIN wishes /\ r.key \in 1..count.taps \cup {None}
  BY DEF PromiseInv, Typed, Told
<1>3. /\ AmountedCall(c) /\ (~r.undoing => c = r.offer.calls[r.step] /\ r.step \in DOMAIN r.offer.calls)
      /\ r.form \in DOMAIN Forms /\ r.offer \in Forms[r.form].offers
  BY CallIsAmounted
<1>4. version \in Nat /\ version' = version + 1 /\ version <= version' /\ version' \in Nat
  BY <1>1, <1>2 DEF ServerOK
<1>5. keys \subseteq keys' /\ keys' \subseteq 1..count.taps
  BY <1>1, <1>2 DEF ServerOK
<1>6. DOMAIN facts' = DOMAIN facts /\ facts' \in [DOMAIN facts -> Int]
  <2>1. \A n \in DOMAIN facts : facts[n] \in Int
    BY <1>2 DEF ServerOK
  <2>2. \A n \in DOMAIN c.moves : c.moves[n] \in Int
    BY <1>3 DEF AmountedCall, Amounted
  <2>3. facts' = [n \in DOMAIN facts |-> IF n \in DOMAIN c.moves THEN facts[n] + c.moves[n] ELSE facts[n]]
    BY <1>1 DEF Moved
  <2> HIDE DEF c
  <2> QED BY <2>1, <2>2, <2>3
<1>7. ServerOK'
  BY <1>2, <1>4, <1>5, <1>6 DEF ServerOK, Amounts
<1>8. CASE ~first
  <2>1. WishesGoOn /\ TimesGoOn
    BY <1>1, <1>8, WishesUnchanged DEF PromiseInv
  <2> QED BY <1>4, <1>5, <1>6, <1>7, <2>1
<1>9. CASE first
  <2>1. wishes' = [wishes EXCEPT ![r.wish].times = @ + 1]
    BY <1>1, <1>9
  <2>2. \A w \in DOMAIN wishes : WishOK(w)
    BY DEF PromiseInv, Typed, WishesOK
  <2>3. Honoured(r.form) => c.once
    BY <1>3, <1>9 DEF Honoured
  <2>4. Honoured(r.form) => r.key \notin keys /\ (r.key # None => r.key \in keys')
    BY <1>1, <2>3 DEF Repeated
  <2>5. r \notin orphans => Fresh(r) /\ \A q \in runs' : q.id = r.id => ~Fresh(q)
    BY <1>9 DEF Fresh
  <2>6. CarriesOut(r)
    BY <2>4, <2>5 DEF CarriesOut
  <2>7. TimesGoOn
    BY <1>2, <2>1, <2>2, <2>6 DEF TimesGoOn, WishOK, WishFields
  <2>8. WishesGoOn
    <3>1. DOMAIN wishes' = DOMAIN wishes /\ wishes' = [w \in DOMAIN wishes |-> wishes'[w]]
      BY <2>1
    <3>2. ASSUME NEW w \in DOMAIN wishes
          PROVE  LET old == wishes[w]  now == wishes'[w]
                 IN  /\ DOMAIN now = WishFields
                     /\ now.form = old.form /\ now.payload = old.payload /\ now.topic = old.topic
                     /\ now.crossed = old.crossed
                     /\ {now.open, now.lost} \subseteq BOOLEAN
                     /\ now.open => old.open
                     /\ old.lost => now.lost
      BY <1>2, <2>1, <2>2 DEF WishOK, WishFields
    <3> QED BY <3>1, <3>2 DEF WishesGoOn
  <2> QED BY <1>4, <1>5, <1>6, <1>7, <2>7, <2>8
<1> QED BY <1>8, <1>9

LEMMA HandleKeeps ==
    ASSUME NoneIsNoRecord, PromiseInv, NEW r \in runs, Handle(r) PROVE PromiseInv'
<1>1. /\ r.phase = "sent"
      /\ UNCHANGED <<scene, page, slots, sheet, session, orphans, owed, count>>
  BY DEF Handle
<1>2. FormsInv' /\ MountsStay
  BY HandleInv DEF PromiseInv
<1>3. /\ version \in Nat /\ RunOK(r) /\ Told(r) /\ r.wish \in DOMAIN wishes
      /\ \A q \in runs : q.id = r.id => q = r
  BY RunHas DEF PromiseInv, Typed, ServerOK, FormsInv, Shapes
<1>4. SessionGoesOn
  BY <1>1 DEF SessionGoesOn
<1>5. ASSUME NEW q, runs' = (runs \ {r}) \cup {q}, Became(q, r), q.phase # "loading",
             ServerOK', DOMAIN facts' = DOMAIN facts, WishesGoOn, TimesGoOn,
             version <= version', version' \in Nat, keys \subseteq keys'
      PROVE  PromiseInv'
  <2>1. \A p \in runs' : p \in runs \/ Became(p, r)
    BY <1>5
  <2>2. q \in runs' /\ q.wish = r.wish
    BY <1>5 DEF Became
  <2>3. \A p \in runs : p = r \/ p \in runs'
    BY <1>5
  <2>4. Onward
    BY <1>1, <1>4, <1>5, <2>1, <2>2, <2>3, OnwardOne
  <2>5. SheetShrinks /\ SlotsShrink /\ SlotInv' /\ StayInv'
    BY <1>1, <1>2, <2>4, GoneOn
  <2>6. PageOK' /\ Owing'
    BY <1>1, <1>5, PageStays DEF PromiseInv
  <2> QED BY <1>2, <1>5, <2>4, <2>5, <2>6, PromisesKept
<1>6. CASE Repeated(r) \/ ~Sufficient(CallOf(r))
  <2> DEFINE q == [r EXCEPT !.phase = IF Repeated(r) THEN "done" ELSE "refused",
                            !.at = version]
  <2>1. runs' = (runs \ {r}) \cup {q} /\ UNCHANGED <<facts, version, keys, wishes>>
    BY <1>6 DEF Handle, server
  <2>2. /\ DOMAIN q = RunFields /\ q.phase = IF Repeated(r) THEN "done" ELSE "refused"
        /\ q.at = version
        /\ q.id = r.id /\ q.form = r.form /\ q.offer = r.offer /\ q.wish = r.wish /\ q.step = r.step
        /\ q.key = r.key /\ q.undoing = r.undoing /\ q.mounted = r.mounted
    BY <1>3 DEF RunOK, RunFields
  <2> HIDE DEF q
  <2>3. WishesGoOn /\ TimesGoOn
    BY <2>1, WishesUnchanged DEF PromiseInv
  <2>5. q.at \in 0..version'
    BY <1>3, <2>1, <2>2
  <2>6. q.phase # "sent" /\ q.phase # "loading"
    BY <2>2
  <2>7. Became(q, r)
    BY <1>1, <1>3, <2>1, <2>2, <2>5, <2>6 DEF Became, Told, Fresh
  <2>8. ServerOK'
    BY <1>1, <2>1, ServerStays DEF PromiseInv
  <2> QED BY <1>3, <1>5, <2>1, <2>3, <2>6, <2>7, <2>8
<1>7. CASE ~(Repeated(r) \/ ~Sufficient(CallOf(r)))
  <2> DEFINE q == [r EXCEPT !.phase = "done", !.at = version + 1]
  <2>1. runs' = (runs \ {r}) \cup {q} /\ Carried(r)
    BY <1>7 DEF Handle
  <2>2. /\ DOMAIN q = RunFields /\ q.phase = "done" /\ q.at = version + 1
        /\ q.id = r.id /\ q.form = r.form /\ q.offer = r.offer /\ q.wish = r.wish /\ q.step = r.step
        /\ q.key = r.key /\ q.undoing = r.undoing /\ q.mounted = r.mounted
    BY <1>3 DEF RunOK, RunFields
  <2> HIDE DEF q
  <2>3. \A p \in runs' : p.id = r.id => p.phase = "done"
    BY <1>3, <2>1, <2>2
  <2>4. /\ ServerOK' /\ DOMAIN facts' = DOMAIN facts /\ WishesGoOn /\ TimesGoOn
        /\ version <= version' /\ version' \in Nat /\ version' = version + 1 /\ keys \subseteq keys'
    BY <1>1, <1>7, <2>1, <2>3, CarriedOut
  <2>5. q.at \in 0..version'
    BY <1>3, <2>2, <2>4
  <2>6. r.undoing => ~wishes'[r.wish].open \/ wishes'[r.wish].lost
    BY <1>3, <2>4 DEF Told, WishesGoOn
  <2>7. Became(q, r)
    BY <1>1, <1>3, <2>2, <2>5, <2>6 DEF Became, Told, Fresh
  <2> QED BY <1>5, <2>1, <2>2, <2>4, <2>7
<1> QED BY <1>6, <1>7

LEMMA HandleOrphanKeeps ==
    ASSUME NoneIsNoRecord, PromiseInv, NEW r \in orphans, HandleOrphan(r) PROVE PromiseInv'
<1>1. /\ orphans' = orphans \ {r}
      /\ UNCHANGED <<scene, page, slots, sheet, session, runs, owed, count>>
  BY DEF HandleOrphan
<1>2. count' \in Counts /\ count'.taps = count.taps
  BY <1>1 DEF PromiseInv, FormsInv, Shapes, Counts
<1>3. FormsInv' /\ MountsStay
  BY <1>1, <1>2, AloneInv DEF PromiseInv
<1>4. version \in Nat
  BY DEF PromiseInv, Typed, ServerOK
<1>5. /\ ServerOK' /\ DOMAIN facts' = DOMAIN facts /\ WishesGoOn /\ TimesGoOn
      /\ version <= version' /\ version' \in Nat /\ keys \subseteq keys'
  <2>1. CASE Repeated(r) \/ ~Sufficient(CallOf(r))
    <3>1. UNCHANGED <<facts, version, keys, wishes>>
      BY <2>1 DEF HandleOrphan, server
    <3>2. WishesGoOn /\ TimesGoOn
      BY <3>1, WishesUnchanged DEF PromiseInv
    <3>3. ServerOK'
      BY <1>1, <1>2, <3>1, ServerStays DEF PromiseInv
    <3> QED BY <1>4, <3>1, <3>2, <3>3
  <2>2. CASE ~(Repeated(r) \/ ~Sufficient(CallOf(r)))
    <3>1. Carried(r)
      BY <2>2 DEF HandleOrphan
    <3> QED BY <1>1, <1>2, <2>2, <3>1, CarriedOut
  <2> QED BY <2>1, <2>2
<1>6. \A q \in runs : Became(q, q)
  BY <1>5, SelfBecame DEF PromiseInv
<1>7. SessionGoesOn
  BY <1>1 DEF SessionGoesOn
<1>8. Onward
  BY <1>1, <1>2, <1>5, <1>6, <1>7 DEF Onward
<1>9. SheetShrinks /\ SlotsShrink /\ SlotInv' /\ StayInv'
  BY <1>1, <1>3, <1>8, GoneOn
<1>10. PageOK' /\ Owing'
  BY <1>1, <1>5, PageStays DEF PromiseInv
<1> QED BY <1>3, <1>5, <1>8, <1>9, <1>10, PromisesKept

(***************************************************************************)
(* The answer of a wish is known, or lost.                                  *)
(***************************************************************************)
LEMMA WishJudged ==
    ASSUME PromiseInv, NEW w \in DOMAIN wishes,
           \/ wishes' = [wishes EXCEPT ![w].open = FALSE]
           \/ wishes' = [wishes EXCEPT ![w].lost = TRUE]
    PROVE  /\ WishesGoOn /\ TimesGoOn
           /\ wishes' = [wishes EXCEPT ![w].open = FALSE] => ~wishes'[w].open
           /\ wishes' = [wishes EXCEPT ![w].lost = TRUE] => wishes'[w].lost
<1>1. \A v \in DOMAIN wishes : WishOK(v)
  BY DEF PromiseInv, Typed, WishesOK
<1>2. CASE wishes' = [wishes EXCEPT ![w].open = FALSE]
  <2>1. DOMAIN wishes' = DOMAIN wishes /\ wishes' = [v \in DOMAIN wishes |-> wishes'[v]]
    BY <1>2
  <2>2. wishes'[w] = [wishes[w] EXCEPT !.open = FALSE] /\ \A v \in DOMAIN wishes : v # w => wishes'[v] = wishes[v]
    BY <1>2
  <2>3. WishesGoOn
    <3>1. ASSUME NEW v \in DOMAIN wishes
          PROVE  LET old == wishes[v]  now == wishes'[v]
                 IN  /\ DOMAIN now = WishFields
                     /\ now.form = old.form /\ now.payload = old.payload /\ now.topic = old.topic
                     /\ now.crossed = old.crossed
                     /\ {now.open, now.lost} \subseteq BOOLEAN
                     /\ now.open => old.open
                     /\ old.lost => now.lost
      <4>1. WishOK(v)
        BY <1>1
      <4>2. CASE v # w
        BY <2>2, <4>1, <4>2 DEF WishOK
      <4>3. CASE v = w
        BY <2>2, <4>1, <4>3 DEF WishOK, WishFields
      <4> QED BY <4>2, <4>3
    <3> QED BY <2>1, <3>1 DEF WishesGoOn
  <2>4. TimesGoOn /\ ~wishes'[w].open
    BY <1>1, <2>2 DEF TimesGoOn, WishOK, WishFields
  <2>5. wishes' # [wishes EXCEPT ![w].lost = TRUE] \/ wishes'[w].lost
    BY <1>1, <2>2 DEF WishOK, WishFields
  <2> QED BY <2>3, <2>4, <2>5
<1>3. CASE wishes' = [wishes EXCEPT ![w].lost = TRUE]
  <2>1. DOMAIN wishes' = DOMAIN wishes /\ wishes' = [v \in DOMAIN wishes |-> wishes'[v]]
    BY <1>3
  <2>2. wishes'[w] = [wishes[w] EXCEPT !.lost = TRUE] /\ \A v \in DOMAIN wishes : v # w => wishes'[v] = wishes[v]
    BY <1>3
  <2>3. WishesGoOn
    <3>1. ASSUME NEW v \in DOMAIN wishes
          PROVE  LET old == wishes[v]  now == wishes'[v]
                 IN  /\ DOMAIN now = WishFields
                     /\ now.form = old.form /\ now.payload = old.payload /\ now.topic = old.topic
                     /\ now.crossed = old.crossed
                     /\ {now.open, now.lost} \subseteq BOOLEAN
                     /\ now.open => old.open
                     /\ old.lost => now.lost
      <4>1. WishOK(v)
        BY <1>1
      <4>2. CASE v # w
        BY <2>2, <4>1, <4>2 DEF WishOK
      <4>3. CASE v = w
        BY <2>2, <4>1, <4>3 DEF WishOK, WishFields
      <4> QED BY <4>2, <4>3
    <3> QED BY <2>1, <3>1 DEF WishesGoOn
  <2>4. TimesGoOn /\ wishes'[w].lost
    BY <1>1, <2>2 DEF TimesGoOn, WishOK, WishFields
  <2>5. wishes' # [wishes EXCEPT ![w].open = FALSE] \/ ~wishes'[w].open
    BY <1>1, <2>2 DEF WishOK, WishFields
  <2> QED BY <2>3, <2>4, <2>5
<1> QED BY <1>2, <1>3

(***************************************************************************)
(* A handler ends.                                                          *)
(***************************************************************************)
LEMMA FreedShrinks ==
    ASSUME PromiseInv, NEW r \in runs, slots' = Freed(Forms[r.form])
    PROVE  /\ SlotsShrink
           /\ (\A q \in runs' : \E p \in runs \ {r} : q.form = p.form) =>
              \A s \in Slots : OneFlag(s) =>
                  slots'[s] = slots[s] \/ \A q \in runs' : Forms[q.form].slot # s
<1> DEFINE form == Forms[r.form]
<1>1. DOMAIN slots = Slots
  BY DEF PromiseInv, FormsInv, Shapes
<1>2. \A s \in Slots : slots'[s] = slots[s] \/ (slots'[s] = None /\ form.slot = s)
  <2>1. CASE form.slot = None
    BY <2>1 DEF Freed
  <2>2. CASE form.slot # None
    <3>1. slots' = [slots EXCEPT ![form.slot] = None]
      BY <2>2 DEF Freed
    <3> QED BY <1>1, <3>1
  <2> QED BY <2>1, <2>2
<1>3. SlotsShrink
  BY <1>2 DEF SlotsShrink
<1>4. ASSUME \A q \in runs' : \E p \in runs \ {r} : q.form = p.form, NEW s \in Slots, OneFlag(s),
             slots'[s] # slots[s], NEW q \in runs', Forms[q.form].slot = s
      PROVE  FALSE
  <2>1. form.slot = s
    BY <1>2, <1>4
  <2>2. PICK p \in runs \ {r} : q.form = p.form
    BY <1>4
  <2>3. p = r
    BY <1>4, <2>1, <2>2 DEF PromiseInv, SlotInv
  <2> QED BY <2>2, <2>3
<1> QED BY <1>3, <1>4

LEMMA UnmarkedShrinks ==
    ASSUME PromiseInv, NEW r \in runs, r.mounted
    PROVE  LET u == Unmarked(Forms[r.form], TRUE)
           IN  /\ DOMAIN u = SheetFields /\ u.door = sheet.door /\ u.busy \subseteq sheet.busy
               /\ u.memory = sheet.memory
<1>1. DOMAIN sheet = SheetFields
  BY DEF PromiseInv, FormsInv, MountedInv
<1>2. CASE Forms[r.form].slot = None
  <2>1. Unmarked(Forms[r.form], TRUE) = [sheet EXCEPT !.busy = @ \ {Forms[r.form].flag}]
    BY <1>2 DEF Unmarked
  <2> QED BY <1>1, <2>1 DEF SheetFields
<1>3. CASE Forms[r.form].slot # None
  BY <1>1, <1>3 DEF Unmarked
<1> QED BY <1>2, <1>3

LEMMA FailedShrinks ==
    ASSUME NoneIsNoRecord, PromiseInv, NEW r \in runs, Failed(r)
    PROVE  SheetShrinks
<1>1. r.mounted \in BOOLEAN
  BY RunHas
<1>2. CASE ~r.mounted
  BY <1>1, <1>2 DEF Failed, Unmarked, SheetShrinks
<1>3. CASE r.mounted
  <2> DEFINE u == Unmarked(Forms[r.form], TRUE)
  <2>1. /\ DOMAIN u = SheetFields /\ u.door = sheet.door /\ u.busy \subseteq sheet.busy
        /\ u.memory = sheet.memory
    BY <1>3, UnmarkedShrinks
  <2>2. sheet' = u \/ sheet' = [u EXCEPT !.over = @ \cup {Forms[r.form].flag}]
    BY <1>1, <1>3 DEF Failed
  <2>3. DOMAIN sheet = SheetFields
    BY <1>3 DEF PromiseInv, FormsInv, MountedInv
  <2> HIDE DEF u
  <2>4. /\ DOMAIN sheet' = SheetFields /\ sheet'.door = u.door /\ sheet'.busy = u.busy
        /\ sheet'.memory = u.memory
    BY <2>1, <2>2 DEF SheetFields
  <2>5. sheet # None
    BY <2>3 DEF NoneIsNoRecord
  <2> QED BY <2>1, <2>4, <2>5 DEF SheetShrinks
<1> QED BY <1>1, <1>2, <1>3

LEMMA StoppedKeeps ==
    ASSUME NoneIsNoRecord, PromiseInv, NEW r \in runs, Stopped(r), r.phase # "loading",
           UNCHANGED <<scene, facts, version, keys>>, count' \in Counts, count'.taps = count.taps,
           WishesGoOn, TimesGoOn, ~wishes'[r.wish].open \/ wishes'[r.wish].lost,
           \A o \in orphans' : o \in orphans \/ (o = r /\ wishes'[r.wish].lost)
    PROVE  PromiseInv'
<1>1. FormsInv' /\ MountsStay
  BY StoppedInv DEF PromiseInv
<1>2. /\ version \in Nat /\ version <= version' /\ version' \in Nat /\ keys \subseteq keys'
      /\ RunOK(r) /\ Told(r)
  BY RunHas DEF PromiseInv, Typed, ServerOK
<1>3. UNCHANGED <<session, page, owed>>
  BY DEF Stopped, Failed
<1>4. ServerOK' /\ PageOK' /\ Owing' /\ SessionGoesOn
  BY <1>2, <1>3, ServerStays, PageStays DEF PromiseInv, SessionGoesOn
<1>5. CASE Failed(r)
  <2>1. runs' = runs \ {r} /\ slots' = Freed(Forms[r.form])
    BY <1>5 DEF Failed
  <2>2. Onward
    BY <1>2, <1>4, <2>1, OnwardOne
  <2>3. SheetShrinks
    BY <1>5, FailedShrinks
  <2>4. \A q \in runs' : \E p \in runs \ {r} : q.form = p.form
    BY <2>1
  <2>5. SlotsShrink /\ SlotInv'
    BY <1>1, <2>1, <2>2, <2>4, FreedShrinks, SlotKept DEF PromiseInv
  <2>6. StayInv'
    BY <1>1, <2>2, StayKept DEF PromiseInv, FormsInv, Shapes, RunOK
  <2> QED BY <1>1, <1>4, <2>2, <2>3, <2>5, <2>6, PromisesKept
<1>6. CASE ~Failed(r)
  <2> DEFINE q == [r EXCEPT !.undoing = TRUE, !.phase = "sent"]
  <2>1. /\ runs' = (runs \ {r}) \cup {q} /\ UNCHANGED <<sheet, slots>>
        /\ r.step > 1 /\ r.offer.undo # None
    BY <1>6 DEF Stopped
  <2>2. /\ DOMAIN q = RunFields /\ q.phase = "sent" /\ q.undoing = TRUE /\ q.at = r.at
        /\ q.id = r.id /\ q.form = r.form /\ q.offer = r.offer /\ q.wish = r.wish /\ q.step = r.step
        /\ q.key = r.key /\ q.mounted = r.mounted
    BY <1>2 DEF RunOK, RunFields
  <2> HIDE DEF q
  <2>3. Became(q, r)
    <3>1. ~Fresh(q) /\ q.at \in 0..version' /\ q.step \in 1..Len(q.offer.calls)
      BY <1>2, <2>1, <2>2 DEF Told, Fresh
    <3>2. ~wishes'[q.wish].open \/ wishes'[q.wish].lost
      BY <2>2
    <3> QED BY <2>1, <2>2, <3>1, <3>2 DEF Became
  <2>4. \A p \in runs' : p \in runs \/ Became(p, r)
    BY <2>1, <2>3
  <2>5. \A p \in runs : p = r \/ p \in runs'
    BY <2>1
  <2>6. Onward
    BY <1>2, <1>4, <2>4, <2>5, OnwardOne
  <2>7. SheetShrinks /\ SlotsShrink /\ SlotInv' /\ StayInv'
    BY <1>1, <2>1, <2>6, GoneOn
  <2> QED BY <1>1, <1>4, <2>6, <2>7, PromisesKept
<1> QED BY <1>5, <1>6

LEMMA LoseKeeps ==
    ASSUME NoneIsNoRecord, PromiseInv, NEW r \in runs, Lose(r) PROVE PromiseInv'
<1>1. /\ r.phase # "loading" /\ Stopped(r)
      /\ count' = [count EXCEPT !.losses = @ + 1]
      /\ orphans' = IF r.phase = "sent" THEN orphans \cup {r} ELSE orphans
      /\ wishes' = [wishes EXCEPT ![r.wish].lost = TRUE]
      /\ UNCHANGED <<scene, facts, version, keys>>
  BY DEF Lose, server
<1>2. count' \in Counts /\ count'.taps = count.taps
  BY <1>1, CountsStay DEF PromiseInv
<1>3. r.wish \in DOMAIN wishes
  BY RunHas
<1>4. WishesGoOn /\ TimesGoOn /\ wishes'[r.wish].lost
  BY <1>1, <1>3, WishJudged
<1>5. \A o \in orphans' : o \in orphans \/ (o = r /\ wishes'[r.wish].lost)
  BY <1>1, <1>4
<1> QED BY <1>1, <1>2, <1>4, <1>5, StoppedKeeps

LEMMA SucceededPage ==
    ASSUME PromiseInv, NEW r \in runs, Succeeded(r), UNCHANGED <<facts, version>>
    PROVE  PageOK' /\ Owing'
<1> DEFINE form == Forms[r.form]
<1>1. /\ page' = Updated(form, CallOf(r))
      /\ owed' = IF form.after = "nothing" \/ (form.after = "patch" /\ page.loads # {}) THEN owed
                 ELSE Larger(owed, r.at)
  BY DEF Succeeded
<1>2. /\ Typed /\ Owing /\ version \in Nat /\ r.at \in 0..version /\ owed \in 0..version
      /\ r.form \in DOMAIN Forms
  BY RunHas DEF PromiseInv, Typed, ServerOK, PageOK, Told
<1>3. owed' \in 0..version
  BY <1>1, <1>2 DEF Larger
<1>4. CASE form.after \in {"reload", "awaited"}
  <2>1. page' = WithLoad(page)
    BY <1>1, <1>4 DEF Updated
  <2> QED BY <1>2, <1>3, <2>1, LoadSent
<1>5. CASE form.after = "patch"
  <2> DEFINE call == CallOf(r)
             shown == [n \in DOMAIN page.shown |-> IF n \in DOMAIN call.moves THEN facts[n] ELSE page.shown[n]]
  <2>1. page' = [page EXCEPT !.seen = version, !.shown = shown]
    BY <1>1, <1>5 DEF Updated
  <2>2. DOMAIN shown = DOMAIN page.shown
    OBVIOUS
  <2> HIDE DEF shown
  <2>3. /\ DOMAIN page' = PageFields /\ page'.seen = version /\ page'.sent = page.sent
        /\ page'.loads = page.loads /\ DOMAIN page'.shown = DOMAIN facts
    BY <1>2, <2>1, <2>2 DEF Typed, PageOK, PageFields
  <2>4. PageOK'
    BY <1>2, <1>3, <2>3 DEF Typed, PageOK
  <2>5. page.loads # {} => owed' = owed
    BY <1>1, <1>5
  <2>6. owed' <= page'.seen
    BY <1>2, <1>3, <2>3
  <2>7. \A l \in page.loads : l.id = page'.sent => owed' <= l.seen
    BY <1>2, <2>3, <2>5 DEF Owing
  <2>8. \A l, m \in page'.loads : l.id = m.id => l = m
    BY <1>2, <2>3 DEF Owing
  <2>9. Owing'
    BY <2>3, <2>6, <2>7, <2>8 DEF Owing
  <2> QED BY <2>4, <2>9
<1>6. CASE form.after = "nothing"
  <2>1. page' = page /\ owed' = owed
    BY <1>1, <1>6 DEF Updated
  <2> QED BY <1>2, <2>1, PageStays
<1> QED BY <1>2, <1>4, <1>5, <1>6, ClientFormsAssumption

LEMMA SucceededSheet ==
    ASSUME NoneIsNoRecord, PromiseInv, NEW r \in runs, Succeeded(r)
    PROVE  SheetShrinks
<1> DEFINE form == Forms[r.form]
           closes == sheet # None /\ sheet.door \in form.closes
           waits == form.after = "awaited"
           settled == IF waits \/ ~form.frees THEN sheet ELSE Unmarked(form, r.mounted)
<1>1. sheet' = CASE closes -> None
                 [] ~closes /\ r.mounted -> [settled EXCEPT !.memory[r.form] = None]
                 [] ~closes /\ ~r.mounted -> sheet
  BY DEF Succeeded
<1>2. r.mounted \in BOOLEAN /\ r.form \in scene
  BY RunHas DEF RunOK
<1>3. CASE closes
  BY <1>1, <1>3 DEF SheetShrinks
<1>4. CASE ~closes /\ ~r.mounted
  BY <1>1, <1>4 DEF SheetShrinks
<1>5. CASE ~closes /\ r.mounted
  <2>1. DOMAIN sheet = SheetFields /\ sheet # None
    BY <1>5 DEF PromiseInv, FormsInv, MountedInv, NoneIsNoRecord
  <2>2. sheet' = [settled EXCEPT !.memory[r.form] = None]
    BY <1>1, <1>5
  <2>3. /\ DOMAIN settled = SheetFields /\ settled.door = sheet.door /\ settled.busy \subseteq sheet.busy
        /\ settled.memory = sheet.memory
    <3>1. CASE waits \/ ~form.frees
      BY <2>1, <3>1
    <3>2. CASE ~(waits \/ ~form.frees)
      BY <1>5, <3>2, UnmarkedShrinks
    <3> QED BY <3>1, <3>2
  <2> HIDE DEF settled
  <2>4. /\ DOMAIN sheet' = SheetFields /\ sheet'.door = settled.door /\ sheet'.busy = settled.busy
        /\ sheet'.memory = [settled.memory EXCEPT ![r.form] = None]
    BY <2>2, <2>3 DEF SheetFields
  <2>5. DOMAIN sheet'.memory = DOMAIN sheet.memory
    BY <2>3, <2>4
  <2>6. \A f \in DOMAIN sheet.memory : sheet'.memory[f] \in {sheet.memory[f], None}
    BY <2>3, <2>4
  <2> QED BY <2>1, <2>3, <2>4, <2>5, <2>6 DEF SheetShrinks
<1> QED BY <1>2, <1>3, <1>4, <1>5

\* A success that closes the sheet of a form that stays in it was in it as well,
\* and they shared a busy state: it was the same handler.
LEMMA ClosedByItsOwn ==
    ASSUME PromiseInv, NEW r \in runs, r.phase # "loading", sheet # None,
           sheet.door \in Forms[r.form].closes,
           NEW f \in scene, Keeps(f), NEW t \in runs, Under(f, t.form), t.phase # "loading"
    PROVE  t = r /\ Forms[r.form].after # "awaited"
<1>1. /\ t.mounted /\ sheet.door = Forms[t.form].door
      /\ t.form \in scene /\ r.form \in scene /\ scene \in Scenes
  BY DEF PromiseInv, StayInv, FormsInv, MountedInv, Shapes, RunOK
<1>2. \A g \in scene : Under(f, g) =>
         Forms[g].door = Forms[f].door /\ Forms[g].flag = Forms[f].flag /\ Forms[g].slot = None
  BY <1>1, DoorsAssumption DEF Keeps, Under
<1>3. Forms[t.form].door = Forms[f].door
  BY <1>1, <1>2
<1>4. Under(f, r.form)
  BY <1>1, <1>3 DEF Under
<1>5. r.mounted
  BY <1>4 DEF PromiseInv, StayInv
<1>6. InSheet(r) /\ InSheet(t) /\ FlagOf(r) = FlagOf(t)
  BY <1>1, <1>2, <1>4, <1>5 DEF InSheet, FlagOf
<1>7. t = r
  BY <1>6 DEF PromiseInv, FormsInv, MountedInv
<1>8. Forms[r.form].after # "awaited"
  BY <1>1, <1>3, DoorsAssumption DEF Keeps
<1> QED BY <1>7, <1>8

LEMMA SucceededKeeps ==
    ASSUME NoneIsNoRecord, PromiseInv, NEW r \in runs, r.phase = "done", ~r.undoing, Succeeded(r),
           UNCHANGED <<scene, count, orphans, facts, version, keys>>
    PROVE  PromiseInv'
<1> DEFINE form == Forms[r.form]
           closes == sheet # None /\ sheet.door \in form.closes
           waits == form.after = "awaited"
           waiting == [r EXCEPT !.phase = "loading", !.load = page.sent + 1]
           left == (runs \ {r}) \cup IF waits THEN {waiting} ELSE {}
<1>1. /\ session' = IF form.scope = None THEN session ELSE [session EXCEPT ![form.scope] = None]
      /\ slots' = IF waits THEN slots ELSE Freed(form)
      /\ runs' = IF closes THEN Unmounted(left) ELSE left
      /\ wishes' = [wishes EXCEPT ![r.wish].open = FALSE]
      /\ closes => sheet' = None
  BY DEF Succeeded, Judged
<1>2. /\ version \in Nat /\ version <= version' /\ version' \in Nat /\ keys \subseteq keys'
      /\ RunOK(r) /\ Told(r) /\ r.wish \in DOMAIN wishes /\ r.form \in scene /\ r.mounted \in BOOLEAN
      /\ count'.taps = count.taps
  BY RunHas DEF PromiseInv, Typed, ServerOK, RunOK
<1>3. FormsInv' /\ (~closes => MountsStay)
  BY SucceededInv DEF PromiseInv
<1>4. WishesGoOn /\ TimesGoOn /\ ~wishes'[r.wish].open
  BY <1>1, <1>2, WishJudged
<1>5. SessionGoesOn
  <2>1. DOMAIN session = Scopes
    BY DEF PromiseInv, Typed, PlacesOK
  <2>2. CASE form.scope = None
    BY <1>1, <2>2 DEF SessionGoesOn
  <2>3. CASE form.scope # None
    <3>1. session' = [session EXCEPT ![form.scope] = None]
      BY <1>1, <2>3
    <3> QED BY <1>4, <2>1, <3>1 DEF SessionGoesOn
  <2> QED BY <2>2, <2>3
<1>6. Became(waiting, r) /\ waiting.phase = "loading"
  <2>1. /\ DOMAIN waiting = RunFields /\ waiting.phase = "loading" /\ waiting.undoing = r.undoing
        /\ waiting.at = r.at /\ waiting.id = r.id /\ waiting.form = r.form /\ waiting.offer = r.offer
        /\ waiting.wish = r.wish /\ waiting.step = r.step
        /\ waiting.key = r.key
    BY <1>2 DEF RunOK, RunFields
  <2> HIDE DEF waiting
  <2> QED BY <1>2, <2>1 DEF Became, Told, Fresh
<1> HIDE DEF waiting
<1>7. ServerOK' /\ PageOK' /\ Owing' /\ SheetShrinks
  BY <1>2, ServerStays, SucceededPage, SucceededSheet DEF PromiseInv
<1>8. \A p \in left : p \in runs \/ Became(p, r)
  BY <1>6
<1>9. \A p \in runs : Became(p, p)
  BY <1>2, <1>4, SelfBecame DEF PromiseInv
<1>10. \A q \in left : \E p \in runs : Became(q, p)
  BY <1>8, <1>9
<1>11. \A p \in runs : p = r \/ p \in left
  OBVIOUS
<1>12. ~waits => \A q \in left : q \in runs \ {r}
  OBVIOUS
<1>13. \A q \in left : q = waiting \/ q \in runs \ {r}
  OBVIOUS
<1> HIDE DEF left
<1>14. CASE ~closes
  <2>1. runs' = left
    BY <1>1, <1>14
  <2>2. Onward
    BY <1>2, <1>4, <1>5, <1>8, <1>11, <2>1, OnwardOne
  <2>3. SlotsShrink /\ SlotInv'
    <3>1. CASE waits
      <4>1. slots' = slots
        BY <1>1, <3>1
      <4> QED BY <1>3, <2>2, <4>1, SlotKept DEF PromiseInv, SlotsShrink
    <3>2. CASE ~waits
      <4>1. slots' = Freed(form) /\ \A q \in runs' : \E p \in runs \ {r} : q.form = p.form
        BY <1>1, <1>12, <2>1, <3>2
      <4> QED BY <1>3, <2>2, <4>1, FreedShrinks, SlotKept DEF PromiseInv
    <3> QED BY <3>1, <3>2
  <2>4. StayInv'
    BY <1>3, <1>14, <2>2, StayKept DEF PromiseInv, FormsInv, Shapes, RunOK
  <2> QED BY <1>3, <1>7, <2>2, <2>3, <2>4, PromisesKept
<1>15. CASE closes
  <2>1. runs' = Unmounted(left)
    BY <1>1, <1>15
  <2>2. \A q \in runs' : \E p \in left : q = [p EXCEPT !.mounted = FALSE] /\ \E t \in runs : Became(q, t)
    BY <1>2, <1>10, <2>1, UnmountedBecame DEF PromiseInv
  <2>3. ASSUME NEW p \in runs, p.phase # "loading"
        PROVE  \/ \E q \in runs' : q.wish = p.wish /\ q.phase # "loading"
               \/ ~wishes'[p.wish].open
    <3>1. CASE p = r
      BY <1>4, <3>1
    <3>2. CASE p # r
      <4> DEFINE q == [p EXCEPT !.mounted = FALSE]
      <4>1. q \in runs'
        BY <1>11, <2>1, <3>2 DEF Unmounted
      <4>2. q.wish = p.wish /\ q.phase = p.phase
        BY <1>9 DEF Became, RunFields
      <4> QED BY <2>3, <4>1, <4>2
    <3> QED BY <3>1, <3>2
  <2>4. Onward
    BY <1>2, <1>4, <1>5, <2>2, <2>3 DEF Onward
  <2>5. \A q \in runs', p \in left : q = [p EXCEPT !.mounted = FALSE] => q.form = p.form /\ q.phase = p.phase
    BY <1>10 DEF Became, RunFields
  <2>6. SlotsShrink /\ SlotInv'
    <3>1. CASE waits
      <4>1. slots' = slots
        BY <1>1, <3>1
      <4> QED BY <1>3, <2>4, <4>1, SlotKept DEF PromiseInv, SlotsShrink
    <3>2. CASE ~waits
      <4>1. slots' = Freed(form) /\ \A q \in runs' : \E p \in runs \ {r} : q.form = p.form
        BY <1>1, <1>12, <2>2, <2>5, <3>2
      <4> QED BY <1>3, <2>4, <4>1, FreedShrinks, SlotKept DEF PromiseInv
    <3> QED BY <3>1, <3>2
  <2>7. StayInv'
    <3> SUFFICES ASSUME NEW f \in scene, Keeps(f), NEW q \in runs', Under(f, q.form), q.phase # "loading"
                 PROVE  FALSE
      BY DEF StayInv
    <3>1. PICK p \in left : q = [p EXCEPT !.mounted = FALSE]
      BY <2>2
    <3>2. q.form = p.form /\ q.phase = p.phase
      BY <2>5, <3>1
    <3>3. p \in runs \ {r}
      BY <1>6, <1>13, <3>2
    <3>4. p = r
      BY <1>15, <3>2, <3>3, ClosedByItsOwn
    <3> QED BY <3>3, <3>4
  <2> QED BY <1>3, <1>7, <2>4, <2>6, <2>7, PromisesKept
<1> QED BY <1>14, <1>15

LEMMA AnswerKeeps ==
    ASSUME NoneIsNoRecord, PromiseInv, NEW r \in runs, Answer(r) PROVE PromiseInv'
<1>1. /\ RunOK(r) /\ Told(r) /\ r.wish \in DOMAIN wishes
      /\ UNCHANGED <<scene, count, orphans, facts, version, keys>>
      /\ count' \in Counts /\ count'.taps = count.taps
  BY RunHas DEF Answer, server, PromiseInv, FormsInv, Shapes, Counts
<1>2. CASE r.phase = "done" /\ ~r.undoing /\ r.step = Len(r.offer.calls)
  <2>1. /\ r.phase = "done" /\ ~r.undoing /\ r.step = Len(r.offer.calls)
        /\ ~(r.step < Len(r.offer.calls)) /\ r.phase # "refused" /\ r.phase \notin {"sent", "loading"}
    BY <1>1, <1>2, SMT DEF RunOK
  <2>2. Succeeded(r)
    BY <2>1, Zenon DEF Answer
  <2> QED BY <1>1, <1>2, <2>2, SucceededKeeps
<1>3. CASE r.phase = "done" /\ ~r.undoing /\ r.step < Len(r.offer.calls)
  <2> DEFINE q == [r EXCEPT !.step = @ + 1, !.phase = "sent"]
  <2>1. runs' = (runs \ {r}) \cup {q} /\ UNCHANGED <<session, slots, sheet, page, owed, wishes>>
    BY <1>1, <1>3, SMT DEF Answer, RunOK
  <2>2. /\ DOMAIN q = RunFields /\ q.step = r.step + 1 /\ q.phase = "sent" /\ q.offer = r.offer
        /\ q.id = r.id /\ q.form = r.form /\ q.wish = r.wish /\ q.at = r.at
        /\ q.key = r.key /\ q.mounted = r.mounted /\ q.undoing = r.undoing
    BY <1>1 DEF RunOK, RunFields
  <2> HIDE DEF q
  <2>3. q.step \in 1..Len(q.offer.calls) /\ q.step # 1
    BY <1>1, <1>3, <2>2, SMT DEF RunOK
  <2>4. version \in Nat /\ version <= version' /\ version' \in Nat /\ keys \subseteq keys'
    BY <1>1 DEF PromiseInv, Typed, ServerOK
  <2>5. Became(q, r)
    BY <1>1, <1>3, <2>2, <2>3 DEF Became, Told, Fresh
  <2>6. WishesGoOn /\ TimesGoOn
    BY <2>1, WishesUnchanged DEF PromiseInv
  <2>7. SessionGoesOn
    BY <2>1 DEF SessionGoesOn
  <2>8. \A p \in runs' : p \in runs \/ Became(p, r)
    BY <2>1, <2>5
  <2>9. \A p \in runs : p = r \/ p \in runs'
    BY <2>1
  <2>10. q \in runs' /\ q.wish = r.wish /\ q.phase # "loading"
    BY <2>1, <2>2
  <2>11. Onward
    BY <1>1, <2>4, <2>6, <2>7, <2>8, <2>9, <2>10, OnwardOne
  <2>12. GoesOn(r, q)
    BY <1>1, <2>1, <2>2, <2>3 DEF GoesOn, RunOK
  <2>13. FormsInv' /\ MountsStay
    BY <1>1, <2>1, <2>12, GoesOnInv DEF SheetKept, PromiseInv
  <2>14. SheetShrinks /\ SlotsShrink /\ SlotInv' /\ StayInv'
    BY <2>1, <2>11, <2>13, GoneOn
  <2>15. ServerOK' /\ PageOK' /\ Owing'
    BY <1>1, <2>1, <2>4, ServerStays, PageStays DEF PromiseInv
  <2> QED BY <2>11, <2>13, <2>14, <2>15, PromisesKept
<1>4. CASE r.phase = "refused" \/ (r.phase = "done" /\ r.undoing)
  <2>1. /\ Stopped(r) /\ r.phase # "loading"
        /\ wishes' = IF r.undoing \/ wishes[r.wish].lost THEN wishes ELSE Judged(r, FALSE)
    BY <1>1, <1>4 DEF Answer, RunOK
  <2>2. /\ WishesGoOn /\ TimesGoOn
        /\ ~wishes'[r.wish].open \/ wishes'[r.wish].lost
    <3>1. CASE r.undoing \/ wishes[r.wish].lost
      <4>1. wishes' = wishes
        BY <2>1, <3>1
      <4> QED BY <1>1, <3>1, <4>1, WishesUnchanged DEF Told, PromiseInv
    <3>2. CASE ~(r.undoing \/ wishes[r.wish].lost)
      <4>1. wishes' = [wishes EXCEPT ![r.wish].open = FALSE]
        BY <2>1, <3>2 DEF Judged
      <4> QED BY <1>1, <4>1, WishJudged
    <3> QED BY <3>1, <3>2
  <2> QED BY <1>1, <2>1, <2>2, StoppedKeeps
<1>5. CASE r.phase \in {"sent", "loading"}
  BY <1>5 DEF Answer
<1>6. \/ r.phase = "done" /\ ~r.undoing /\ r.step = Len(r.offer.calls)
      \/ r.phase = "done" /\ ~r.undoing /\ r.step < Len(r.offer.calls)
      \/ r.phase = "refused" \/ (r.phase = "done" /\ r.undoing)
      \/ r.phase \in {"sent", "loading"}
  BY <1>1, SMT DEF RunOK
<1> QED BY <1>2, <1>3, <1>4, <1>5, <1>6

(***************************************************************************)
(* A tap.                                                                   *)
(***************************************************************************)
Tapped(f, o, new, own, request) ==
    /\ runs' = runs \cup {new}
    /\ DOMAIN new = RunFields /\ new.id = count.taps + 1 /\ new.form = f /\ new.offer = o
    /\ new.wish = own /\ new.step = 1 /\ new.undoing = FALSE /\ new.phase = "sent" /\ new.at = 0
    /\ new.mounted = TRUE
    /\ new.key = IF request = None THEN None ELSE request.id
    /\ request = IF Forms[f].scope = None THEN None ELSE RequestKey(f, <<f, o.payload>>)
    /\ \/ Pending(f, <<f, o.payload>>) = {} /\ own = Len(wishes) + 1
       \/ own \in Pending(f, <<f, o.payload>>)
    /\ sheet' = [sheet EXCEPT !.busy = IF Forms[f].slot = None THEN @ \cup {Forms[f].flag} ELSE @,
                              !.memory[f] = request]
    /\ slots' = IF Forms[f].slot = None THEN slots ELSE [slots EXCEPT ![Forms[f].slot] = Forms[f].flag]
    /\ session' = IF Forms[f].scope = None THEN session ELSE [session EXCEPT ![Forms[f].scope] = request]
    /\ wishes' = Wished(f, <<f, o.payload>>, own)
    /\ count' = [count EXCEPT !.taps = @ + 1]
    /\ UNCHANGED <<scene, facts, version, keys, page, orphans, owed>>
    /\ sheet # None /\ ~Marked(f) /\ Lets(f, o)

LEMMA SubmitTaps ==
    ASSUME NEW f, NEW o, Submit(f, o)
    PROVE  \E new, own, request : Tapped(f, o, new, own, request)
<1> DEFINE payload == <<f, o.payload>>
           request == IF Forms[f].scope = None THEN None ELSE RequestKey(f, payload)
           pending == Pending(f, payload)
           own == IF pending = {} THEN Len(wishes) + 1 ELSE CHOOSE w \in pending : TRUE
           new == [id |-> count.taps + 1, form |-> f, offer |-> o, wish |-> own, step |-> 1,
                   key |-> IF request = None THEN None ELSE request.id, undoing |-> FALSE,
                   phase |-> "sent", at |-> 0, load |-> 0, mounted |-> TRUE]
<1>1. /\ DOMAIN new = RunFields /\ new.id = count.taps + 1 /\ new.form = f /\ new.offer = o
      /\ new.wish = own /\ new.step = 1 /\ new.undoing = FALSE /\ new.phase = "sent" /\ new.at = 0
      /\ new.mounted = TRUE
      /\ new.key = IF request = None THEN None ELSE request.id
  BY DEF RunFields
<1>2. (pending = {} /\ own = Len(wishes) + 1) \/ own \in pending
  OBVIOUS
<1>3. /\ runs' = runs \cup {new}
      /\ sheet' = [sheet EXCEPT !.busy = IF Forms[f].slot = None THEN @ \cup {Forms[f].flag} ELSE @,
                                !.memory[f] = request]
      /\ slots' = IF Forms[f].slot = None THEN slots ELSE [slots EXCEPT ![Forms[f].slot] = Forms[f].flag]
      /\ session' = IF Forms[f].scope = None THEN session ELSE [session EXCEPT ![Forms[f].scope] = request]
      /\ wishes' = Wished(f, payload, own)
  BY DEF Submit
<1>4. /\ count' = [count EXCEPT !.taps = @ + 1]
      /\ UNCHANGED <<scene, facts, version, keys, page, orphans, owed>>
      /\ sheet # None /\ ~Marked(f) /\ Lets(f, o)
  BY DEF Submit, server
<1>5. request = IF Forms[f].scope = None THEN None ELSE RequestKey(f, payload)
  OBVIOUS
<1> HIDE DEF new, own, pending, request
<1>6. Tapped(f, o, new, own, request)
  BY <1>1, <1>2, <1>3, <1>4, <1>5 DEF Tapped, pending
<1> QED BY <1>6

\* the request of a tap
LEMMA TappedRequest ==
    ASSUME NoneIsNoRecord, PromiseInv, NEW f \in scene, NEW o \in Forms[f].offers,
           NEW new, NEW own, NEW request, Tapped(f, o, new, own, request)
    PROVE  /\ count.taps \in Nat /\ count'.taps = count.taps + 1
           /\ OfSceneNow(request)
           /\ Forms[f].scope # None => /\ request # None /\ request.payload = <<f, o.payload>>
                                       /\ request.id \in 1..count'.taps /\ new.key = request.id
           /\ Forms[f].scope = None => request = None /\ new.key = None
           /\ \A other : OfScene(other) => OfSceneNow(other)
<1> DEFINE payload == <<f, o.payload>>
           saved == SavedRequest(f)
           made == [payload |-> payload, id |-> count.taps + 1]
<1>1. count.taps \in Nat /\ count'.taps = count.taps + 1
  BY SMT DEF Tapped, PromiseInv, FormsInv, Shapes
<1>2. \A other : OfScene(other) => OfSceneNow(other)
  BY <1>1 DEF OfScene, OfSceneNow
<1>3. CASE Forms[f].scope = None
  BY <1>1, <1>2, <1>3 DEF Tapped, OfSceneNow
<1>4. CASE Forms[f].scope # None
  <2>1. request = RequestKey(f, payload)
    BY <1>4 DEF Tapped
  <2>2. OfScene(saved)
    <3>1. Forms[f].scope \in Scopes
      BY <1>4 DEF Scopes
    <3>2. sheet # None
      BY DEF Tapped
    <3>3. OfScene(session[Forms[f].scope]) /\ OfScene(sheet.memory[f])
      BY <3>1, <3>2 DEF PromiseInv, Typed, PlacesOK, SheetOK
    <3> QED BY <3>3 DEF SavedRequest
  <2>3. made # None /\ made.payload = payload /\ made.id = count.taps + 1
    <3>1. DOMAIN made = RequestFields
      BY DEF RequestFields
    <3> QED BY <3>1 DEF NoneIsNoRecord
  <2>4. (request = saved /\ saved # None /\ saved.payload = payload) \/ request = made
    BY <2>1 DEF RequestKey
  <2> HIDE DEF saved, made
  <2>5. request # None /\ request.payload = payload
    BY <2>3, <2>4
  <2>6. request.id \in 1..count'.taps
    <3>1. CASE request = saved /\ saved # None
      <4>1. saved.id \in 1..count.taps
        BY <2>2, <3>1 DEF OfScene
      <4> QED BY <1>1, <3>1, <4>1
    <3>2. CASE request = made
      BY <1>1, <2>3, <3>2
    <3> QED BY <2>4, <3>1, <3>2
  <2>7. payload[1] = f /\ payload[2] = o.payload
    OBVIOUS
  <2>8. OfSceneNow(request)
    BY <2>5, <2>6, <2>7 DEF OfSceneNow
  <2>9. new.key = request.id
    BY <2>5 DEF Tapped
  <2> QED BY <1>1, <1>2, <1>4, <2>5, <2>6, <2>8, <2>9
<1> QED BY <1>3, <1>4

\* the wish of a tap, and what becomes of the others
WishesTapped(f, o, own) ==
    /\ DOMAIN wishes' = DOMAIN wishes \cup {own}
    /\ \A w \in DOMAIN wishes \ {own} :
          /\ DOMAIN wishes'[w] = WishFields
          /\ wishes'[w].form = wishes[w].form /\ wishes'[w].payload = wishes[w].payload
          /\ wishes'[w].topic = wishes[w].topic /\ wishes'[w].open = wishes[w].open
          /\ wishes'[w].times = wishes[w].times /\ wishes'[w].lost = wishes[w].lost
          /\ wishes'[w].crossed = (wishes[w].crossed \/ w \in Others(f, own))
    /\ DOMAIN wishes'[own] = WishFields
    /\ wishes'[own].form = f /\ wishes'[own].payload = <<f, o.payload>>
    /\ wishes'[own].topic = Topic(f) /\ wishes'[own].open = TRUE
    /\ \/ /\ own \notin DOMAIN wishes /\ own = Len(wishes) + 1
          /\ wishes'[own].times = 0 /\ wishes'[own].lost = FALSE
          /\ wishes'[own].crossed = (Others(f, own) # {})
       \/ /\ own \in DOMAIN wishes
          /\ wishes[own].form = f /\ wishes[own].payload = <<f, o.payload>>
          /\ wishes[own].topic = Topic(f) /\ wishes[own].open
          /\ wishes'[own].times = wishes[own].times /\ wishes'[own].lost = wishes[own].lost
          /\ wishes'[own].crossed = (wishes[own].crossed \/ Others(f, own) # {})

LEMMA TappedWishes ==
    ASSUME PromiseInv, NEW f \in scene, NEW o \in Forms[f].offers,
           NEW new, NEW own, NEW request, Tapped(f, o, new, own, request)
    PROVE  WishesTapped(f, o, own)
<1> DEFINE payload == <<f, o.payload>>
           others == Others(f, own)
           made == [topic |-> Topic(f), form |-> f, payload |-> payload, open |-> TRUE,
                    times |-> 0, lost |-> FALSE, crossed |-> FALSE]
           wish == IF own \in DOMAIN wishes THEN wishes[own] ELSE made
<1>1. wishes' = [w \in DOMAIN wishes \cup {own} |->
                    IF w = own THEN [wish EXCEPT !.crossed = @ \/ others # {}]
                    ELSE IF w \in others THEN [wishes[w] EXCEPT !.crossed = TRUE] ELSE wishes[w]]
  BY DEF Tapped, Wished
<1>2. \A w \in DOMAIN wishes : WishOK(w)
  BY DEF PromiseInv, Typed, WishesOK
<1>3. Len(wishes) \in Nat /\ DOMAIN wishes = 1..Len(wishes)
  BY WishesAreCounted DEF PromiseInv, Typed
<1>4. DOMAIN wishes' = DOMAIN wishes \cup {own}
  BY <1>1
<1>5. ASSUME NEW w \in DOMAIN wishes \ {own}
      PROVE  /\ DOMAIN wishes'[w] = WishFields
             /\ wishes'[w].form = wishes[w].form /\ wishes'[w].payload = wishes[w].payload
             /\ wishes'[w].topic = wishes[w].topic /\ wishes'[w].open = wishes[w].open
             /\ wishes'[w].times = wishes[w].times /\ wishes'[w].lost = wishes[w].lost
             /\ wishes'[w].crossed = (wishes[w].crossed \/ w \in Others(f, own))
  <2>1. wishes'[w] = IF w \in others THEN [wishes[w] EXCEPT !.crossed = TRUE] ELSE wishes[w]
    BY <1>1
  <2>2. DOMAIN wishes[w] = WishFields /\ wishes[w].crossed \in BOOLEAN
    BY <1>2 DEF WishOK
  <2> HIDE DEF others
  <2>3. CASE w \in others
    BY <2>1, <2>2, <2>3 DEF WishFields, others
  <2>4. CASE w \notin others
    BY <2>1, <2>2, <2>4 DEF WishFields, others
  <2> QED BY <2>3, <2>4
<1>6. wishes'[own] = [wish EXCEPT !.crossed = @ \/ others # {}]
  BY <1>1
<1>7. CASE own \notin DOMAIN wishes
  <2>1. own = Len(wishes) + 1
    BY <1>7 DEF Tapped, Pending
  <2>2. wish = made
    BY <1>7
  <2>3. /\ DOMAIN made = WishFields /\ made.topic = Topic(f) /\ made.form = f /\ made.payload = payload
        /\ made.open = TRUE /\ made.times = 0 /\ made.lost = FALSE /\ made.crossed = FALSE
    BY DEF WishFields
  <2> HIDE DEF made, wish, others
  <2>4. /\ DOMAIN wishes'[own] = WishFields /\ wishes'[own].form = f /\ wishes'[own].payload = payload
        /\ wishes'[own].topic = Topic(f) /\ wishes'[own].open = TRUE
        /\ wishes'[own].times = 0 /\ wishes'[own].lost = FALSE
    BY <1>6, <2>2, <2>3 DEF WishFields
  <2>5. wishes'[own].crossed = (others # {})
    BY <1>6, <2>2, <2>3 DEF WishFields
  <2> QED BY <1>4, <1>5, <1>7, <2>1, <2>4, <2>5 DEF others, WishesTapped
<1>8. CASE own \in DOMAIN wishes
  <2>1. own \in Pending(f, payload)
    BY <1>3, <1>8, SMT DEF Tapped
  <2>2. wishes[own].topic = Topic(f) /\ wishes[own].open /\ wishes[own].payload = payload
    BY <2>1 DEF Pending
  <2>3. payload[1] = f
    OBVIOUS
  <2>4. /\ wishes[own].form = f /\ DOMAIN wishes[own] = WishFields
        /\ wishes[own].open \in BOOLEAN /\ wishes[own].crossed \in BOOLEAN
    BY <1>2, <1>8, <2>2, <2>3 DEF WishOK
  <2>5. wishes'[own] = [wishes[own] EXCEPT !.crossed = wishes[own].crossed \/ others # {}]
    BY <1>6, <1>8
  <2> HIDE DEF wish, others
  <2>6. /\ DOMAIN wishes'[own] = WishFields /\ wishes'[own].form = f /\ wishes'[own].payload = payload
        /\ wishes'[own].topic = Topic(f) /\ wishes'[own].open = TRUE
        /\ wishes'[own].times = wishes[own].times /\ wishes'[own].lost = wishes[own].lost
    BY <2>2, <2>4, <2>5 DEF WishFields
  <2>7. wishes'[own].crossed = (wishes[own].crossed \/ others # {})
    BY <2>4, <2>5 DEF WishFields
  <2> QED BY <1>4, <1>5, <1>8, <2>2, <2>4, <2>6, <2>7 DEF others, WishesTapped
<1> QED BY <1>7, <1>8

\* A wish that is pursued after the tap was so before, or is its own.
LEMMA TappedActive ==
    ASSUME PromiseInv, NEW f \in scene, NEW o \in Forms[f].offers,
           NEW new, NEW own, NEW request, Tapped(f, o, new, own, request),
           NEW w \in DOMAIN wishes', w # own
    PROVE  /\ w \in DOMAIN wishes /\ wishes'[w].topic = wishes[w].topic
           /\ Active(w)' => Active(w)
           /\ Active(w) /\ wishes[w].topic = Topic(f) => w \in Others(f, own)
<1>0. WishesTapped(f, o, own)
  BY TappedWishes
<1>1. w \in DOMAIN wishes \ {own}
  BY <1>0 DEF WishesTapped
<1>2. wishes'[w].topic = wishes[w].topic /\ wishes'[w].open = wishes[w].open
  BY <1>1, <1>0 DEF WishesTapped
<1>3. \A r \in runs' : r.wish = w => r \in runs
  BY DEF Tapped
<1> QED BY <1>1, <1>2, <1>3 DEF Active, Others

LEMMA TappedCrossing ==
    ASSUME PromiseInv, NEW f \in scene, NEW o \in Forms[f].offers,
           NEW new, NEW own, NEW request, Tapped(f, o, new, own, request)
    PROVE  Crossing'
<1> SUFFICES ASSUME NEW v \in DOMAIN wishes', NEW w \in DOMAIN wishes', v # w,
                    wishes'[v].topic = wishes'[w].topic, Active(v)', Active(w)'
             PROVE  wishes'[w].crossed
  BY DEF Crossing, Active
<1>0. WishesTapped(f, o, own)
  BY TappedWishes
<1>1. wishes'[own].topic = Topic(f)
  BY <1>0 DEF WishesTapped
<1>2. CASE w = own
  <2>1. v \in Others(f, own)
    BY <1>1, <1>2, TappedActive
  <2>2. Others(f, own) # {}
    BY <2>1
  <2> QED BY <1>2, <2>2, <1>0 DEF WishesTapped
<1>3. CASE w # own /\ v = own
  <2>1. w \in Others(f, own) /\ w \in DOMAIN wishes \ {own}
    BY <1>1, <1>3, TappedActive
  <2> QED BY <2>1, <1>0 DEF WishesTapped
<1>4. CASE w # own /\ v # own
  <2>1. /\ v \in DOMAIN wishes /\ w \in DOMAIN wishes \ {own} /\ Active(v) /\ Active(w)
        /\ wishes[v].topic = wishes[w].topic
    BY <1>4, TappedActive
  <2>2. wishes[w].crossed
    BY <2>1 DEF PromiseInv, Crossing
  <2> QED BY <2>1, <2>2, <1>0 DEF WishesTapped
<1> QED BY <1>2, <1>3, <1>4

\* the wishes of handlers and of lost requests are known
LEMMA WishesOfRuns ==
    ASSUME PromiseInv, NEW r \in runs \cup orphans PROVE r.wish \in DOMAIN wishes
  BY DEF PromiseInv, Typed, Told

LEMMA TappedKey ==
    ASSUME NoneIsNoRecord, PromiseInv, NEW f \in scene, NEW o \in Forms[f].offers,
           NEW new, NEW own, NEW request, Tapped(f, o, new, own, request)
    PROVE  OneKey'
<1> SUFFICES ASSUME NEW w \in DOMAIN wishes', Keyed(w)', ~wishes'[w].crossed
             PROVE  \E k \in Nat : KeyIs(w, k)'
  BY DEF OneKey
<1> DEFINE payload == <<f, o.payload>>
           scope == Forms[f].scope
<1>0. WishesTapped(f, o, own)
  BY TappedWishes
<1>1. /\ runs' = runs \cup {new} /\ new.wish = own /\ UNCHANGED <<orphans, keys>>
      /\ session' = IF scope = None THEN session ELSE [session EXCEPT ![scope] = request]
  BY DEF Tapped
<1>2. DOMAIN session = Scopes
  BY DEF PromiseInv, Typed, PlacesOK
<1>3. CASE w # own
  <2>1. /\ w \in DOMAIN wishes \ {own} /\ wishes'[w].form = wishes[w].form
        /\ wishes'[w].payload = wishes[w].payload /\ wishes'[w].topic = wishes[w].topic
        /\ wishes'[w].open = wishes[w].open /\ wishes'[w].times = wishes[w].times
        /\ ~wishes[w].crossed /\ w \notin Others(f, own)
    BY <1>3, <1>0 DEF WishesTapped
  <2>2. Keyed(w)
    BY <2>1 DEF Keyed
  <2>3. PICK k \in Nat : KeyIs(w, k)
    BY <2>1, <2>2 DEF PromiseInv, OneKey
  <2>4. \A r \in runs' \cup orphans' : r.wish = w => r.key = k
    BY <1>1, <1>3, <2>3 DEF KeyIs
  <2>5. ASSUME wishes[w].open PROVE session'[Forms[wishes[w].form].scope] = session[Forms[wishes[w].form].scope]
    <3>1. wishes[w].topic # Topic(f)
      BY <2>1, <2>5 DEF Others
    <3>2. WishOK(w)
      BY <2>1 DEF PromiseInv, Typed, WishesOK
    <3>3. Forms[wishes[w].form].scope # None
      BY <2>2 DEF Keyed, KeyedForm
    <3>4. Forms[wishes[w].form].scope # scope
      BY <3>1, <3>2, <3>3 DEF WishOK, Topic
    <3> QED BY <1>1, <1>2, <3>4
  <2>6. KeyIs(w, k)'
    BY <1>1, <2>1, <2>3, <2>4, <2>5 DEF KeyIs
  <2> QED BY <2>6
<1>4. CASE w = own
  <2>1. /\ wishes'[own].form = f /\ wishes'[own].payload = payload /\ ~wishes'[own].crossed
        /\ DOMAIN wishes' = DOMAIN wishes \cup {own}
    BY <1>4, <1>0 DEF WishesTapped
  <2>2. scope # None
    BY <1>4, <2>1 DEF Keyed, KeyedForm
  <2>3. /\ request # None /\ request.payload = payload /\ request.id \in 1..count'.taps
        /\ new.key = request.id /\ count.taps \in Nat /\ count'.taps = count.taps + 1
    BY <2>2, TappedRequest
  <2>4. request.id \in Nat
    BY <2>3
  <2>5. scope \in Scopes
    BY <2>2 DEF Scopes
  <2>6. session'[scope] = request
    BY <1>1, <1>2, <2>2, <2>5
  <2>7. CASE own \notin DOMAIN wishes
    <3>1. wishes'[own].times = 0
      BY <2>7, <1>0 DEF WishesTapped
    <3>2. \A r \in runs' \cup orphans' : r.wish = own => r = new
      BY <1>1, <2>7, WishesOfRuns
    <3>3. KeyIs(own, request.id)'
      BY <2>1, <2>3, <2>6, <3>1, <3>2 DEF KeyIs
    <3> QED BY <1>4, <2>4, <3>3
  <2>8. CASE own \in DOMAIN wishes
    <3>1. /\ wishes[own].form = f /\ wishes[own].payload = payload /\ wishes[own].open
          /\ wishes'[own].times = wishes[own].times /\ ~wishes[own].crossed
      BY <2>1, <2>8, <1>0 DEF WishesTapped
    <3>2. Keyed(own)
      BY <1>4, <2>1, <3>1 DEF Keyed
    <3>3. PICK k \in Nat : KeyIs(own, k)
      BY <2>8, <3>1, <3>2 DEF PromiseInv, OneKey
    <3>4. session[scope] # None /\ session[scope].id = k /\ session[scope].payload = payload
      BY <3>1, <3>3 DEF KeyIs
    <3>5. RequestKey(f, payload) = session[scope]
      BY <3>4 DEF RequestKey, SavedRequest
    <3>6. request = session[scope]
      BY <2>2, <3>5 DEF Tapped
    <3>7. \A r \in runs' \cup orphans' : r.wish = own => r.key = k
      BY <1>1, <2>3, <3>3, <3>4, <3>6 DEF KeyIs
    <3>8. KeyIs(own, k)'
      BY <1>1, <2>1, <2>3, <2>6, <3>1, <3>3, <3>4, <3>6, <3>7 DEF KeyIs
    <3> QED BY <1>4, <3>8
  <2> QED BY <2>7, <2>8
<1> QED BY <1>3, <1>4

\* A handler of a form that keeps its user in front of it disables the button.
LEMMA BusyWhileHandled ==
    ASSUME PromiseInv, NEW f \in scene, ~KeyedForm(f), ~Leavable(f),
           NEW r \in runs, r.form = f, r.phase # "loading"
    PROVE  Marked(f)
<1>1. CASE Forms[f].slot = None
  <2>1. Keeps(f) /\ Under(f, r.form)
    BY <1>1 DEF Leavable, Keeps, Under
  <2>2. r.mounted
    BY <2>1 DEF PromiseInv, StayInv
  <2>3. Forms[f].flag \in sheet.busy
    BY <1>1, <2>2 DEF PromiseInv, FormsInv, MountedInv, InSheet, FlagOf
  <2> QED BY <1>1, <2>3 DEF Marked
<1>2. CASE Forms[f].slot # None
  <2> DEFINE s == Forms[f].slot
  <2>1. s \in Slots
    BY <1>2 DEF Slots
  <2>2. \A g \in scene : Forms[g].slot = s => Forms[g].flag = Forms[f].flag
    BY <1>2 DEF Leavable
  <2>3. OneFlag(s)
    BY <2>2 DEF OneFlag
  <2>4. slots[s] = FlagOf(r)
    BY <2>1, <2>3 DEF PromiseInv, SlotInv
  <2> QED BY <1>2, <2>4 DEF Marked, FlagOf
<1> QED BY <1>1, <1>2

LEMMA TappedHandler ==
    ASSUME PromiseInv, NEW f \in scene, NEW o \in Forms[f].offers,
           NEW new, NEW own, NEW request, Tapped(f, o, new, own, request)
    PROVE  OneHandler'
<1> SUFFICES ASSUME NEW w \in DOMAIN wishes', Strict(w)' PROVE HandledOnce(w)'
  BY DEF OneHandler
<1>0. WishesTapped(f, o, own)
  BY TappedWishes
<1>1. /\ runs' = runs \cup {new} /\ new.wish = own /\ new.phase = "sent" /\ ~Marked(f)
      /\ UNCHANGED <<orphans, scene>>
  BY DEF Tapped
<1>2. CASE w # own
  <2>1. /\ w \in DOMAIN wishes \ {own} /\ wishes'[w].form = wishes[w].form
        /\ wishes'[w].open = wishes[w].open /\ wishes'[w].times = wishes[w].times
        /\ wishes'[w].lost = wishes[w].lost
    BY <1>2, <1>0 DEF WishesTapped
  <2>2. Strict(w)
    BY <1>1, <2>1 DEF Strict, Keyed, Leavable
  <2>3. HandledOnce(w)
    BY <2>1, <2>2 DEF PromiseInv, OneHandler
  <2> QED BY <1>1, <1>2, <2>1, <2>3 DEF HandledOnce, Fresh
<1>3. CASE w = own /\ own \notin DOMAIN wishes
  <2>1. wishes'[own].times = 0
    BY <1>3, <1>0 DEF WishesTapped
  <2>2. (\A r \in runs : r.wish # own) /\ (\A r \in orphans : r.wish # own)
    BY <1>3, WishesOfRuns
  <2> QED BY <1>1, <1>3, <2>1, <2>2 DEF HandledOnce, Fresh
<1>4. CASE w = own /\ own \in DOMAIN wishes
  <2>1. /\ wishes[own].form = f /\ wishes'[own].form = f /\ wishes[own].open
        /\ wishes'[own].lost = wishes[own].lost
    BY <1>4, <1>0 DEF WishesTapped
  <2>2. Strict(own) /\ ~KeyedForm(f) /\ ~Leavable(f)
    BY <1>1, <1>4, <2>1 DEF Strict, Keyed, Leavable
  <2>3. PICK r \in runs : r.wish = own /\ r.phase # "loading"
    BY <1>4, <2>1, <2>2 DEF PromiseInv, OneHandler, HandledOnce
  <2>4. r.form = f
    BY <2>1, <2>3, WishOfRun DEF PromiseInv
  <2> QED BY <1>1, <2>2, <2>3, <2>4, BusyWhileHandled
<1> QED BY <1>2, <1>3, <1>4

LEMMA TappedTyped ==
    ASSUME NoneIsNoRecord, PromiseInv, NEW f \in scene, NEW o \in Forms[f].offers,
           NEW new, NEW own, NEW request, Tapped(f, o, new, own, request)
    PROVE  Typed'
<1> DEFINE form == Forms[f]
<1>0. WishesTapped(f, o, own)
  BY TappedWishes
<1>1. /\ count.taps \in Nat /\ count'.taps = count.taps + 1
      /\ OfSceneNow(request)
      /\ new.key \in 1..count'.taps \cup {None} /\ (form.scope # None => new.key # None)
      /\ \A other : OfScene(other) => OfSceneNow(other)
  <2>1. \A n \in 1..count'.taps : n # None
    BY ClientFormsAssumption
  <2> QED BY <2>1, TappedRequest
<1>2. /\ UNCHANGED <<scene, facts, version, keys, page, orphans, owed>>
      /\ runs' = runs \cup {new} /\ sheet # None
  BY DEF Tapped
<1>3. ServerOK'
  BY <1>1, <1>2 DEF PromiseInv, Typed, ServerOK, Amounts
<1>4. PageOK'
  BY <1>2 DEF PromiseInv, Typed, PageOK
<1>5. SheetOK'
  <2>1. SheetOK
    BY DEF PromiseInv, Typed
  <2>2. /\ DOMAIN sheet' = SheetFields /\ sheet'.door = sheet.door
        /\ sheet'.busy \subseteq sheet.busy \cup {form.flag}
        /\ sheet'.memory = [sheet.memory EXCEPT ![f] = request]
    <3>1. sheet' = [sheet EXCEPT !.busy = IF form.slot = None THEN @ \cup {form.flag} ELSE @,
                                 !.memory[f] = request]
      BY DEF Tapped
    <3> QED BY <1>2, <2>1, <3>1 DEF SheetOK, SheetFields
  <2>3. DOMAIN sheet'.memory = scene /\ \A g \in scene : OfSceneNow(sheet'.memory[g])
    BY <1>1, <1>2, <2>1, <2>2 DEF SheetOK
  <2>4. sheet'.busy \subseteq {Forms[g].flag : g \in scene}
    BY <1>2, <2>1, <2>2 DEF SheetOK
  <2> QED BY <1>2, <2>1, <2>2, <2>3, <2>4 DEF SheetOK, OfScene, OfSceneNow
<1>6. PlacesOK'
  <2>1. PlacesOK /\ DOMAIN slots = Slots
    BY DEF PromiseInv, Typed, FormsInv, Shapes
  <2>2. /\ slots' = IF form.slot = None THEN slots ELSE [slots EXCEPT ![form.slot] = form.flag]
        /\ session' = IF form.scope = None THEN session ELSE [session EXCEPT ![form.scope] = request]
    BY DEF Tapped
  <2>3. ASSUME NEW s \in Slots
        PROVE  slots'[s] = None \/ \E g \in scene : Forms[g].slot = s /\ Forms[g].flag = slots'[s]
    BY <2>1, <2>2 DEF PlacesOK
  <2>4. DOMAIN session' = Scopes /\ \A s \in Scopes : OfSceneNow(session'[s])
    BY <1>1, <2>1, <2>2 DEF PlacesOK
  <2>5. Slots' = Slots /\ Scopes' = Scopes
    BY <1>2 DEF Slots, Scopes
  <2> QED BY <1>2, <2>3, <2>4, <2>5 DEF PlacesOK, OfScene, OfSceneNow
<1>7. WishesOK'
  <2>1. Len(wishes) \in Nat /\ DOMAIN wishes = 1..Len(wishes) /\ \A w \in DOMAIN wishes : WishOK(w)
    BY WishesAreCounted DEF PromiseInv, Typed, WishesOK
  <2>2. PICK n \in Nat : DOMAIN wishes' = 1..n
    <3>1. CASE own \in DOMAIN wishes
      <4>1. DOMAIN wishes' = DOMAIN wishes
        BY <3>1, <1>0 DEF WishesTapped
      <4> QED BY <2>1, <4>1
    <3>2. CASE own \notin DOMAIN wishes
      <4>1. DOMAIN wishes' = DOMAIN wishes \cup {own} /\ own = Len(wishes) + 1
        BY <3>2, <1>0 DEF WishesTapped
      <4>2. DOMAIN wishes' = 1..(Len(wishes) + 1)
        BY <2>1, <4>1
      <4> QED BY <2>1, <4>2
    <3> QED BY <3>1, <3>2
  <2>3. wishes' = [w \in DOMAIN wishes' |-> wishes'[w]]
    BY DEF Tapped, Wished
  <2>4. \E S : wishes' \in Seq(S)
    BY <2>2, <2>3, WishesStaySeq
  <2>5. ASSUME NEW w \in DOMAIN wishes' PROVE WishOK(w)'
    <3>1. CASE w = own
      <4>1. <<f, o.payload>>[1] = f
        OBVIOUS
      <4>2. /\ DOMAIN wishes'[own] = WishFields /\ wishes'[own].form = f
            /\ wishes'[own].payload = <<f, o.payload>> /\ wishes'[own].topic = Topic(f)
            /\ wishes'[own].open = TRUE
        BY <1>0 DEF WishesTapped
      <4>3. /\ wishes'[own].times \in Nat /\ wishes'[own].lost \in BOOLEAN
            /\ wishes'[own].crossed \in BOOLEAN
        <5>1. own \in DOMAIN wishes => wishes[own].times \in Nat /\ {wishes[own].lost, wishes[own].crossed} \subseteq BOOLEAN
          BY <2>1 DEF WishOK
        <5>2. CASE own \in DOMAIN wishes
          BY <1>0, <5>1, <5>2 DEF WishesTapped
        <5>3. CASE own \notin DOMAIN wishes
          <6>1. /\ wishes'[own].times = 0 /\ wishes'[own].lost = FALSE
                /\ wishes'[own].crossed = (Others(f, own) # {})
            BY <1>0, <5>3 DEF WishesTapped
          <6>2. (Others(f, own) # {}) \in BOOLEAN
            OBVIOUS
          <6>3. wishes'[own].crossed \in BOOLEAN
            BY <6>1, <6>2, Zenon
          <6>4. wishes'[own].times \in Nat
            BY <6>1, SMT
          <6>5. wishes'[own].lost \in BOOLEAN
            BY <6>1, Zenon
          <6> QED BY <6>3, <6>4, <6>5
        <5> QED BY <5>2, <5>3
      <4> QED BY <1>2, <3>1, <4>1, <4>2, <4>3 DEF WishOK, Topic
    <3>2. CASE w # own
      <4>1. w \in DOMAIN wishes \ {own}
        BY <3>2, <1>0 DEF WishesTapped
      <4>2. WishOK(w)
        BY <2>1, <4>1
      <4>3. /\ DOMAIN wishes'[w] = WishFields
            /\ wishes'[w].form = wishes[w].form /\ wishes'[w].payload = wishes[w].payload
            /\ wishes'[w].topic = wishes[w].topic /\ wishes'[w].open = wishes[w].open
            /\ wishes'[w].times = wishes[w].times /\ wishes'[w].lost = wishes[w].lost
            /\ wishes'[w].crossed = (wishes[w].crossed \/ w \in Others(f, own))
        BY <4>1, <1>0 DEF WishesTapped
      <4>4. wishes'[w].crossed \in BOOLEAN
        BY <4>3
      <4> QED BY <1>2, <4>2, <4>3, <4>4 DEF WishOK, Topic
    <3> QED BY <3>1, <3>2
  <2> QED BY <2>4, <2>5 DEF WishesOK
<1>8. ASSUME NEW r \in runs' \cup orphans' PROVE Told(r)'
  <2>1. version \in Nat /\ version' = version
    BY <1>2 DEF PromiseInv, Typed, ServerOK
  <2>2. CASE r = new
    <3>1. Len(o.calls) \in Nat \ {0}
      <4>1. f \in DOMAIN Forms
        BY ClientFormsAssumption DEF PromiseInv, FormsInv, Shapes
      <4> QED BY <4>1, ClientFormsAssumption
    <3>2. 1 \in 1..Len(o.calls) /\ 0 \in 0..version
      BY <2>1, <3>1
    <3>3. /\ DOMAIN new = RunFields /\ new.form = f /\ new.offer = o /\ new.wish = own /\ new.step = 1
          /\ new.undoing = FALSE /\ new.at = 0
      BY DEF Tapped
    <3>4. own \in DOMAIN wishes' /\ wishes'[own].payload = <<f, o.payload>>
      BY <1>0 DEF WishesTapped
    <3> QED BY <1>1, <1>2, <2>1, <2>2, <3>2, <3>3, <3>4 DEF Told
  <2>3. CASE r \in runs \cup orphans
    <3>1. Told(r) /\ r.wish \in DOMAIN wishes
      BY <2>3 DEF PromiseInv, Typed, Told
    <3>2. /\ r.wish \in DOMAIN wishes' /\ wishes'[r.wish].payload = wishes[r.wish].payload
          /\ wishes'[r.wish].open => wishes[r.wish].open
          /\ wishes[r.wish].lost => wishes'[r.wish].lost
      BY <3>1, <1>0 DEF WishesTapped
    <3>3. r.key \in 1..count'.taps \cup {None}
      BY <1>1, <3>1 DEF Told
    <3> QED BY <1>2, <3>1, <3>2, <3>3 DEF Told
  <2> QED BY <1>2, <2>2, <2>3
<1> QED BY <1>3, <1>4, <1>5, <1>6, <1>7, <1>8 DEF Typed

LEMMA SubmitKeeps ==
    ASSUME NoneIsNoRecord, PromiseInv, NEW f \in scene, NEW o \in Forms[f].offers, Submit(f, o)
    PROVE  PromiseInv'
<1>1. PICK new, own, request : Tapped(f, o, new, own, request)
  BY SubmitTaps
<1>2. FormsInv'
  BY SubmitInv DEF PromiseInv
<1>3. Typed' /\ Crossing' /\ OneKey' /\ OneHandler'
  BY <1>1, TappedTyped, TappedCrossing, TappedKey, TappedHandler
<1>4. /\ runs' = runs \cup {new} /\ new.form = f /\ new.offer = o
      /\ new.phase = "sent" /\ new.mounted = TRUE
      /\ slots' = IF Forms[f].slot = None THEN slots ELSE [slots EXCEPT ![Forms[f].slot] = Forms[f].flag]
      /\ Lets(f, o) /\ ~Marked(f) /\ UNCHANGED <<scene, page, owed>>
  BY <1>1 DEF Tapped
<1>5. Owing'
  BY <1>4 DEF PromiseInv, Owing
<1>7. SlotInv'
  <2> SUFFICES ASSUME NEW s \in Slots, OneFlag(s), NEW p \in runs', Forms[p.form].slot = s
               PROVE  slots'[s] = FlagOf(p) /\ \A q \in runs' : Forms[q.form].slot = s => q = p
    BY <1>4 DEF SlotInv, OneFlag, Slots, FlagOf
  <2>1. s # None /\ s \in DOMAIN slots
    BY DEF Slots, PromiseInv, FormsInv, Shapes
  <2>2. CASE Forms[f].slot = s
    <3>1. \A r \in runs : Forms[r.form].slot = s => slots[s] = FlagOf(r) /\ r.form \in scene
      BY DEF PromiseInv, SlotInv, FormsInv, Shapes, RunOK
    <3>2. \A r \in runs : Forms[r.form].slot # s
      BY <1>4, <2>1, <2>2, <3>1 DEF OneFlag, FlagOf, Marked
    <3>3. p = new /\ \A q \in runs' : Forms[q.form].slot = s => q = new
      BY <1>4, <3>2
    <3> QED BY <1>4, <2>1, <2>2, <3>3 DEF FlagOf
  <2>3. CASE Forms[f].slot # s
    <3>1. slots'[s] = slots[s] /\ p \in runs /\ \A q \in runs' : Forms[q.form].slot = s => q \in runs
      BY <1>4, <2>1, <2>3
    <3> QED BY <3>1 DEF PromiseInv, SlotInv
  <2> QED BY <2>2, <2>3
<1>8. StayInv'
  BY <1>4 DEF PromiseInv, StayInv
<1> QED BY <1>2, <1>3, <1>5, <1>7, <1>8 DEF PromiseInv

(***************************************************************************)
(* What the client promises its user.                                       *)
(***************************************************************************)
LEMMA StepPromiseInv ==
    ASSUME NoneIsNoRecord, PromiseInv, [Next]_vars PROVE PromiseInv'
<1>1. ASSUME NEW f \in scene, OpenSheet(f) PROVE PromiseInv'
  BY <1>1, OpenSheetKeeps
<1>2. ASSUME NEW f \in scene, NEW o \in Forms[f].offers, Submit(f, o) PROVE PromiseInv'
  BY <1>2, SubmitKeeps
<1>3. CASE CloseSheet
  BY <1>3, CloseSheetKeeps
<1>4. ASSUME NEW r \in runs, Handle(r) PROVE PromiseInv'
  BY <1>4, HandleKeeps
<1>5. ASSUME NEW r \in runs, Answer(r) PROVE PromiseInv'
  BY <1>5, AnswerKeeps
<1>6. ASSUME NEW r \in runs, Lose(r) PROVE PromiseInv'
  BY <1>6, LoseKeeps
<1>7. ASSUME NEW r \in orphans, HandleOrphan(r) PROVE PromiseInv'
  BY <1>7, HandleOrphanKeeps
<1>8. ASSUME NEW l \in page.loads, LoadAnswered(l) \/ LoadLost(l) PROVE PromiseInv'
  BY <1>8, LoadAnsweredKeeps, LoadLostKeeps
<1>9. CASE Refresh
  BY <1>9, RefreshKeeps
<1>10. ASSUME NEW n \in DOMAIN facts, Elsewhere(n) PROVE PromiseInv'
  BY <1>10, ElsewhereKeeps
<1>11. CASE UNCHANGED vars
  <2>1. UNCHANGED <<scene, facts, version, keys, page, slots, sheet, session, runs, orphans, wishes,
                    owed, count>>
    BY <1>11 DEF vars
  <2>2. FormsInv' /\ Typed'
    <3>1. FormsInv'
      BY <2>1 DEF PromiseInv, FormsInv, Shapes, MountedInv, BusyInv, RunOK, InSheet, FlagOf, Slots
    <3>2. ServerOK' /\ PageOK' /\ SheetOK'
      BY <2>1 DEF PromiseInv, Typed, ServerOK, PageOK, SheetOK, OfScene
    <3>3. PlacesOK'
      BY <2>1 DEF PromiseInv, Typed, PlacesOK, OfScene, Slots, Scopes
    <3>4. WishesOK' /\ \A r \in runs' \cup orphans' : Told(r)'
      BY <2>1 DEF PromiseInv, Typed, WishesOK, WishOK, Told
    <3> QED BY <3>1, <3>2, <3>3, <3>4 DEF Typed
  <2>3. Owing' /\ Crossing' /\ SlotInv' /\ StayInv'
    BY <2>1 DEF PromiseInv, Owing, Crossing, Active, SlotInv, OneFlag, Slots, StayInv
  <2>4. OneKey'
    BY <2>1 DEF PromiseInv, OneKey, KeyIs, Keyed
  <2>5. OneHandler'
    BY <2>1 DEF PromiseInv, OneHandler, HandledOnce, Strict, Keyed, Leavable
  <2> QED BY <2>2, <2>3, <2>4, <2>5 DEF PromiseInv
<1> QED BY <1>1, <1>2, <1>3, <1>4, <1>5, <1>6, <1>7, <1>8, <1>9, <1>10, <1>11 DEF Next

LEMMA PromiseInvAlways == ASSUME NoneIsNoRecord PROVE Spec => []PromiseInv
<1>1. Init => PromiseInv
  BY InitPromiseInv
<1>2. PromiseInv /\ [Next]_vars => PromiseInv'
  BY StepPromiseInv
<1> QED BY <1>1, <1>2, PTL DEF Spec

\* The types of a page, whatever forms it has.
THEOREM PagesAreTyped == ASSUME NoneIsNoRecord PROVE Spec => []TypeOK
<1>1. PromiseInv => TypeOK
  <2> SUFFICES ASSUME PromiseInv PROVE TypeOK
    OBVIOUS
  <2>1. Typed /\ ServerOK /\ PageOK /\ SheetOK /\ PlacesOK
    BY DEF PromiseInv, Typed
  <2>2. \A r \in runs : r.form \in scene /\ r.wish \in DOMAIN wishes
    BY <2>1 DEF Typed, Told
  <2> QED BY <2>1, <2>2 DEF TypeOK, ServerOK, PageOK, SheetOK, PlacesOK
<1> QED BY PromiseInvAlways, <1>1, PTL

\* useCryptoRequestKey and the buttons that are disabled while a handler runs:
\* what the user wanted once is carried out once.
THEOREM WantedOnceDoneOnce == ASSUME NoneIsNoRecord PROVE Spec => []DoneOnce
<1>1. PromiseInv => DoneOnce
  <2> SUFFICES ASSUME PromiseInv, NEW w \in DOMAIN wishes
               PROVE  \/ wishes[w].times <= 1
                      \/ Keyed(w) /\ wishes[w].crossed
                      \/ ~Keyed(w) /\ (wishes[w].lost \/ Leavable(wishes[w].form))
    BY DEF DoneOnce
  <2>1. CASE Keyed(w) /\ ~wishes[w].crossed
    BY <2>1 DEF PromiseInv, OneKey, KeyIs
  <2>2. CASE Strict(w)
    BY <2>2 DEF PromiseInv, OneHandler, HandledOnce
  <2> QED BY <2>1, <2>2 DEF Strict
<1> QED BY PromiseInvAlways, <1>1, PTL

\* The reload after a success: with nothing on its way, the page shows every
\* change that was confirmed to its user.
THEOREM ConfirmedIsShown == ASSUME NoneIsNoRecord PROVE Spec => []ChangesAreShown
<1>1. PromiseInv => ChangesAreShown
  <2> SUFFICES ASSUME PromiseInv, page.loads = {} PROVE page.seen >= owed
    BY DEF ChangesAreShown
  <2>1. owed <= page.seen
    BY DEF PromiseInv, Owing
  <2>2. owed \in Nat /\ page.seen \in Nat
    BY DEF PromiseInv, Typed, ServerOK, PageOK
  <2> QED BY <2>1, <2>2
<1> QED BY PromiseInvAlways, <1>1, PTL
=============================================================================
