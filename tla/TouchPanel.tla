----------------------------- MODULE TouchPanel -----------------------------
(***************************************************************************)
(* Touch input of ui.cpp: what the input thread makes of the events of a   *)
(* panel, and the dialogs that take the input.  Panels of type A report    *)
(* all fingers that are down, those of type B (with slots) what changed;   *)
(* the kernel drops a coordinate of a slot that is as before.  The events  *)
(* of a frame, up to SYN_REPORT, are one step: nobody else reads them.     *)
(* Text is visible, so that keys are enqueued.                             *)
(***************************************************************************)
EXTENDS Integers, SequencesExt

CONSTANTS
    PanelMax,       \* touch_max of the panel, [x, y]; touch_min is 0
    Fb,             \* fb_dimensions
    MinSwipe,       \* min_swipe_px.x
    ItemHeight,     \* MenuItemHeight()
    MenuTop,        \* MenuItemStart()
    VirtualKey,     \* the area of a virtual key: [min, max], points
    MaxSecond,      \* bound: how often a second finger comes down
    FewPoints       \* bound: where the fingers are from then on

ASSUME TouchAssumption == ItemHeight > 0 /\ PanelMax.x > 0 /\ PanelMax.y > 0

VARIABLES
    dev,            \* the input_device
    panel,          \* its type, whether it sends BTN_TOUCH, the fingers that
                    \* are down, and the last coordinates and slot it sent
    dialog,         \* dialog_icon, or "none"
    dismissing,     \* the input thread found a dialog it will dismiss
    contact         \* history: what became of the one finger that came down
tvars == <<dev, panel, dialog, dismissing, contact>>

Points == [x : 0 .. PanelMax.x, y : 0 .. PanelMax.y]
Places(second) == IF second > 0 THEN FewPoints ELSE Points
Slots == {0, 1}
Up == [x |-> -1, y |-> -1]
Scaled(p) == [x |-> (p.x * Fb.x) \div PanelMax.x, y |-> (p.y * Fb.y) \div PanelMax.y]

Zero == [x |-> 0, y |-> 0]
NoContact(start, d, solo) ==
    [keys |-> << >>, scrolled |-> FALSE, start |-> start, still |-> TRUE, solo |-> solo, dialog |-> d]
Untold == NoContact(Zero, "none", FALSE)

TouchInit ==
    /\ dev = [saw |-> {}, touch |-> FALSE, swipe |-> FALSE, pos |-> Zero, start |-> Zero, track |-> 0,
              active |-> 0, first |-> 0, slot |-> 0, id |-> -1]
    /\ \E kind \in {"A", "B"}, btn \in BOOLEAN :
        panel = [kind |-> kind, btn |-> btn, finger |-> [s \in Slots |-> Up],
                 last |-> [s \in Slots |-> Zero], slot |-> 0, id |-> [s \in Slots |-> -1], second |-> 0]
    /\ dialog = "none" /\ dismissing = FALSE /\ contact = Untold

-----------------------------------------------------------------------------
Key(name) == <<name, 0>>
Row(n) == <<"row", n>>

(* A handler takes and returns w, the device with the dialog and the keys. *)
(* EnqueueKey(): a dialog takes the key.                                   *)
EnqueueKey(w, key) ==
    IF w.dismissing THEN w
    ELSE IF w.dialog # "none" THEN [w EXCEPT !.dismissing = (w.dialog = "ERROR")]
    ELSE CASE key[1] = "BTN_TOUCH" -> w                     \* HandleMenuKey() knows no such key
           [] key[1] \in {"K", "J"} -> [w EXCEPT !.scrolled = TRUE]
           [] OTHER -> IF Len(w.keys) = 2 THEN w ELSE [w EXCEPT !.keys = Append(@, key)]

handle_press(w) ==
    [w EXCEPT !.dev.start = w.dev.pos, !.dev.track = w.dev.pos.y, !.dev.touch = TRUE, !.dev.swipe = FALSE]

Distance(i) == IF i < 0 THEN -i ELSE i
Sideways(d) == Distance(d.pos.x - d.start.x) > Distance(d.pos.y - d.start.y)
FarEnough(d) == Distance(d.pos.x - d.start.x) > MinSwipe

handle_gestures(w) ==
    LET d == w.dev IN
    IF Sideways(d) THEN [w EXCEPT !.dev.swipe = @ \/ FarEnough(d)]
    ELSE IF Distance(d.pos.y - d.track) <= ItemHeight THEN w
    ELSE IF w.dialog # "none" THEN [w EXCEPT !.dev.swipe = TRUE]
    ELSE EnqueueKey([w EXCEPT !.dev.swipe = TRUE, !.dev.track = d.pos.y],
                    Key(IF d.pos.y < d.track THEN "K" ELSE "J"))

OnVirtualKey(p) ==
    /\ p.x >= VirtualKey.min.x /\ p.x < VirtualKey.max.x
    /\ p.y >= VirtualKey.min.y /\ p.y < VirtualKey.max.y
RowAt(p) == (p.y - MenuTop) \div ItemHeight

AfterReset(d) == FALSE
WasSwipe(d) == d.swipe
BehindDialog(w) == FALSE
DialogTakes(w) == w.dialog # "none"

handle_release(w) ==
    LET d == w.dev
        over == [w EXCEPT !.dev.touch = FALSE, !.dev.swipe = FALSE, !.dev.first = 0] IN
    IF ~WasSwipe(d) /\ OnVirtualKey(d.start) THEN EnqueueKey(over, Key("vkey"))
    ELSE IF DialogTakes(w) THEN [over EXCEPT !.dismissing = (w.dialog = "ERROR")]    \* a swipe too
    ELSE IF WasSwipe(d)
      THEN IF Sideways(d) /\ FarEnough(d)
             THEN EnqueueKey(over, Key(IF d.pos.x > d.start.x THEN "ENTER" ELSE "BACK")) ELSE over
    ELSE IF d.pos.y >= MenuTop THEN EnqueueKey(over, Row(RowAt(d.pos))) ELSE over

-----------------------------------------------------------------------------
(* process_abs()                                                           *)
SlotsKept(d) == d
SlotsReset(d) == [d EXCEPT !.first = 0, !.slot = 0]

Tracking(d, id) ==
    LET s == [SlotsReset(d) EXCEPT !.saw = @ \cup {"id"}] IN
    IF id = d.id THEN s ELSE [s EXCEPT !.id = id, !.active = @ + (IF id < 0 THEN -1 ELSE 1)]

Ignored(d) == IF d.active = 0 THEN {"x", "y"} \subseteq d.saw ELSE d.slot # d.first

process_abs(d, e) ==
    CASE e[1] = "slot" -> [d EXCEPT !.slot = e[2], !.first = IF @ = -1 THEN e[2] ELSE @]
      [] e[1] = "id" -> Tracking(d, e[2])
      [] e[1] = "x" -> IF Ignored(d) THEN d
                       ELSE [d EXCEPT !.saw = @ \cup {"x"}, !.pos.x = (e[2] * Fb.x) \div PanelMax.x]
      [] e[1] = "y" -> IF Ignored(d) THEN d
                       ELSE [d EXCEPT !.saw = @ \cup {"y"}, !.pos.y = (e[2] * Fb.y) \div PanelMax.y]

(* process_syn()                                                           *)
MtReport(w) ==
    LET p == IF ~w.dev.touch /\ {"x", "y"} \subseteq w.dev.saw THEN handle_press(w) ELSE w IN
    [p EXCEPT !.dev.saw = @ \cup {"mt"}]

Released(d) ==
    /\ d.touch
    /\ IF "mt" \in d.saw THEN d.saw \cap {"x", "y"} = {}
       ELSE "id" \in d.saw /\ d.id = -1 /\ d.slot = d.first

SynReport(w) ==
    LET p == IF w.dev.touch THEN handle_gestures(w)
             ELSE IF "id" \in w.dev.saw THEN handle_press(w) ELSE w
        r == IF Released(p.dev) THEN handle_release(p) ELSE p IN
    [r EXCEPT !.dev.saw = {}]

(* DialogDismiss() on BTN_TOUCH comes before the rest of the frame.        *)
ButtonUp(w) ==
    LET r == EnqueueKey(w, Key("BTN_TOUCH")) IN
    IF r.dismissing THEN [r EXCEPT !.dialog = "none", !.dismissing = FALSE] ELSE r

InputEvent(w, e) ==
    CASE e[1] = "mt" -> MtReport(w)
      [] e[1] = "syn" -> SynReport(w)
      [] e[1] = "btn" -> IF e[2] = 0 THEN ButtonUp(w) ELSE w
      [] OTHER -> [w EXCEPT !.dev = process_abs(w.dev, e)]

-----------------------------------------------------------------------------
(* The kernel's side: the frame for a panel that was p and now has f down. *)
Down(f) == {s \in Slots : f[s] # Up}

SlotEvents(p, s, f, id) ==
    (IF p.slot # s THEN <<<<"slot", s>>>> ELSE << >>)
    \o (IF p.id[s] # id THEN <<<<"id", id>>>> ELSE << >>)
    \o (IF f[s] # Up /\ f[s].x # p.last[s].x THEN <<<<"x", f[s].x>>>> ELSE << >>)
    \o (IF f[s] # Up /\ f[s].y # p.last[s].y THEN <<<<"y", f[s].y>>>> ELSE << >>)

ReportA(f, s) == IF f[s] = Up THEN << >> ELSE <<<<"x", f[s].x>>, <<"y", f[s].y>>, <<"mt">>>>

Frame(p, s, f, id) ==
    (IF p.kind = "B" THEN SlotEvents(p, s, f, id)
     ELSE IF Down(f) = {} THEN <<<<"mt">>>> ELSE ReportA(f, 0) \o ReportA(f, 1))
    \o (IF p.btn /\ (Down(f) = {}) # (Down(p.finger) = {})
          THEN <<<<"btn", IF Down(f) = {} THEN 0 ELSE 1>>>> ELSE << >>)
    \o <<<<"syn">>>>

(* The finger in slot s comes down, moves or is lifted.                    *)
Report(s, f, id, c) ==
    LET w == FoldLeft(InputEvent,
                [dev |-> dev, dialog |-> dialog, dismissing |-> FALSE,
                 keys |-> c.keys, scrolled |-> c.scrolled], Frame(panel, s, f, id)) IN
    /\ ~dismissing
    /\ panel' = [panel EXCEPT !.finger = f, !.slot = s, !.id[s] = id,
                              !.last[s] = IF f[s] = Up THEN @ ELSE f[s],
                              !.second = @ + (IF Down(f) = Slots /\ Down(panel.finger) # Slots THEN 1 ELSE 0)]
    /\ dev' = w.dev /\ dialog' = w.dialog /\ dismissing' = w.dismissing
    /\ contact' = IF c.solo THEN [c EXCEPT !.keys = w.keys, !.scrolled = w.scrolled] ELSE Untold

FreshId == CHOOSE i \in 1 .. 3 : i # dev.id /\ \A s \in Slots : panel.id[s] # i

FingerDown ==
    /\ Down(panel.finger) = {}
    /\ \E p \in Places(panel.second) :
        Report(0, [panel.finger EXCEPT ![0] = p], FreshId, NoContact(Scaled(p), dialog, panel.second = 0))

SecondDown ==
    /\ Down(panel.finger) \in {{0}, {1}} /\ panel.second < MaxSecond
    /\ \E s \in Slots \ Down(panel.finger), p \in FewPoints :
        Report(s, [panel.finger EXCEPT ![s] = p], FreshId, Untold)

FingerMoves ==
    \E s \in Down(panel.finger) : \E p \in Places(panel.second) \ {panel.finger[s]} :
        Report(s, [panel.finger EXCEPT ![s] = p], panel.id[s], [contact EXCEPT !.still = FALSE])

FingerUp ==
    \E s \in Down(panel.finger) : Report(s, [panel.finger EXCEPT ![s] = Up], -1, contact)

(* DialogDismiss() in the input thread: of whatever dialog there is then.  *)
DialogDismiss ==
    /\ dismissing /\ dismissing' = FALSE /\ dialog' = "none"
    /\ UNCHANGED <<dev, panel, contact>>

(* main, or a client of the message socket, shows or dismisses a dialog.   *)
DialogChanged ==
    /\ \E d \in {"none", "INFO", "ERROR"} \ {dialog} : dialog' = d
    /\ contact' = Untold
    /\ UNCHANGED <<dev, panel, dismissing>>

TouchNext ==
    FingerDown \/ SecondDown \/ FingerMoves \/ FingerUp \/ DialogDismiss \/ DialogChanged

-----------------------------------------------------------------------------
Settled == Down(panel.finger) = {} /\ ~dismissing

(* When no finger is on the panel, no touch is in progress, whatever       *)
(* fingers came and went in whatever order: a touch that stayed open would *)
(* take the next tap for its end.                                          *)
TouchEnds == Down(panel.finger) = {} => ~dev.touch

Meant(p) == IF OnVirtualKey(p) THEN <<Key("vkey")>> ELSE IF p.y >= MenuTop THEN <<Row(RowAt(p))>> ELSE << >>

(* With one finger, and no dialog: a contact gives at most one key besides *)
(* the scrolling; one that scrolled gives no row; and one that stayed      *)
(* where it came down gives the virtual key or the row there, or nothing.  *)
(* (Only before two fingers were ever used: their coordinates get mixed    *)
(* up, and a later tap at an old place is taken for one at the other's.)   *)
TouchMeant ==
    Settled /\ contact.solo /\ contact.dialog = "none" =>
        /\ Len(contact.keys) <= 1
        /\ contact.still => ~contact.scrolled /\ contact.keys = Meant(contact.start)
        /\ contact.scrolled => \A i \in DOMAIN contact.keys : contact.keys[i][1] # "row"

(* A dialog takes a contact of one finger whole: nothing reaches the menu  *)
(* behind it, and the contact dismisses it if it shows an error, and only  *)
(* then.  (For panels without BTN_TOUCH: that event dismisses the dialog   *)
(* before the release is seen, which then is a tap on the menu.)           *)
DialogTakesTouch ==
    Settled /\ contact.solo /\ contact.dialog # "none" /\ ~panel.btn =>
        /\ contact.keys = << >> /\ ~contact.scrolled
        /\ dialog = IF contact.dialog = "ERROR" THEN "none" ELSE contact.dialog

=============================================================================
