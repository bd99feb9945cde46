-------------------------------- MODULE Menu --------------------------------
(***************************************************************************)
(* A menu on the screen: get_menu_selection() of recovery.cpp, StartMenu,  *)
(* SelectMenu, ScrollMenu and EndMenu of screen_ui.cpp, HandleMenuKey of   *)
(* default_device.cpp, and the row that handle_release() of ui.cpp sends   *)
(* for a touch.  Menus follow one another: the position of the view is     *)
(* kept from one to the next, and the highlight moves independently of it. *)
(***************************************************************************)
EXTENDS Integers

CONSTANTS
    MenuSizes,      \* numbers of items of the menus that may be shown
    MaxMenuRows,    \* max_menu_rows: rows of items that fit on the screen
    kMaxMenuRows,   \* items that StartMenu() copies at most
    TouchRows       \* rows, counted from the first, that a touch can report

ASSUME SizesAssumption == MenuSizes \subseteq Nat \ {0}
ASSUME RowsAssumption ==
    /\ MaxMenuRows \in Nat \ {0} /\ kMaxMenuRows \in Nat \ {0}
    /\ TouchRows \in 1 .. kMaxMenuRows

kNoAction == -1
kGoBack == -5
kRefresh == -6
Nothing == -2       \* value of touched: there was no item on the row

VARIABLES
    menuItems,      \* menu_items, the items that were copied
    menuSel,        \* menu_sel
    menuShowStart,  \* menu_show_start, the item on the first row
    showMenu,       \* show_menu
    itemCount, selected, chosen,    \* get_menu_selection()'s variables
    running,        \* is a menu waiting for keys?
    rootMenu,       \* ui_root_menu
    showText,       \* show_text
    showTextEver,   \* show_text_ever
    touched         \* history: the item on the row whose touch ended the menu

screen == <<menuItems, menuSel, menuShowStart>>
shownText == <<showText, showTextEver>>
mvars == <<menuItems, menuSel, menuShowStart, showMenu, itemCount, selected,
           chosen, running, rootMenu, showText, showTextEver, touched>>

(* The variables keep their types: StartMenu() copies no more items than   *)
(* menu[] has room for.                                                    *)
MenuTyped ==
    /\ menuItems \in 0 .. kMaxMenuRows /\ menuSel \in Int /\ menuShowStart \in Int
    /\ itemCount \in Nat /\ selected \in Int /\ chosen \in Int
    /\ showMenu \in BOOLEAN /\ running \in BOOLEAN /\ rootMenu \in BOOLEAN
    /\ showText \in BOOLEAN /\ showTextEver \in BOOLEAN
    /\ touched \in Nat \cup {kNoAction, Nothing}

MenuInit ==
    /\ menuItems = 0 /\ menuSel = 0 /\ menuShowStart = 0 /\ showMenu = FALSE
    /\ itemCount = 0 /\ selected = 0 /\ chosen = kNoAction
    /\ running = FALSE /\ rootMenu = FALSE
    /\ showText \in BOOLEAN /\ showTextEver = showText
    /\ touched = kNoAction

-----------------------------------------------------------------------------
(* StartMenu() copies as many items as menu[] holds.                       *)
CopiedItems(n) == IF n <= kMaxMenuRows THEN n ELSE kMaxMenuRows

(* StartMenu() keeps the view if the initial selection is in it.           *)
StartView(s) ==
    IF menuShowStart <= s - MaxMenuRows \/ menuShowStart > s THEN s
    ELSE menuShowStart

(* get_menu_selection() up to its loop.  The initial selection is the      *)
(* first item or, in a list that is shown again (update_directory), the    *)
(* one that was chosen before.                                             *)
StartMenu ==
    /\ ~running
    /\ \E n \in MenuSizes :
          /\ itemCount' = n
          /\ menuItems' = CopiedItems(n)
    /\ selected' \in 0 .. menuItems' - 1 /\ menuSel' = selected'
    /\ menuShowStart' = StartView(selected')
    /\ rootMenu' \in BOOLEAN
    /\ showMenu' = TRUE /\ running' = TRUE
    /\ chosen' = kNoAction /\ touched' = kNoAction
    /\ UNCHANGED shownText

(* SelectMenu(): wrap around at both ends, then move the view.             *)
Wrapped(s) ==
    LET up == IF s < 0 THEN menuItems + s ELSE s
    IN  IF up >= menuItems THEN up - menuItems ELSE up

View(s) ==
    LET up == IF s < menuShowStart /\ menuShowStart > 0 THEN s ELSE menuShowStart
    IN  IF s - up >= MaxMenuRows THEN s - MaxMenuRows + 1 ELSE up

SelectMenu(s) ==
    /\ menuSel' = Wrapped(s) /\ selected' = Wrapped(s)
    /\ menuShowStart' = View(Wrapped(s))
    /\ UNCHANGED menuItems

(* EndMenu() and the return of get_menu_selection().                       *)
EndMenu(result) ==
    /\ running' = FALSE /\ showMenu' = FALSE /\ chosen' = result

(* A key that HandleMenuKey() maps to an action; it maps none while the    *)
(* text is hidden.                                                         *)
Handled == running /\ showText /\ touched' = kNoAction

HighlightUp ==
    /\ Handled
    /\ SelectMenu(selected - 1)
    /\ UNCHANGED <<showMenu, itemCount, chosen, running, rootMenu, shownText>>

HighlightDown ==
    /\ Handled
    /\ SelectMenu(selected + 1)
    /\ UNCHANGED <<showMenu, itemCount, chosen, running, rootMenu, shownText>>

(* ScrollMenu(): kScrollUp moves the items up, so the view down.  The      *)
(* highlight stays where it is.                                            *)
ScrollUp ==
    /\ Handled
    /\ menuShowStart' = IF menuShowStart < menuItems - MaxMenuRows
                        THEN menuShowStart + 1 ELSE menuShowStart
    /\ UNCHANGED <<menuItems, menuSel, showMenu, itemCount, selected, chosen,
                   running, rootMenu, shownText>>

ScrollDown ==
    /\ Handled
    /\ menuShowStart' = IF menuShowStart > 0 THEN menuShowStart - 1
                        ELSE menuShowStart
    /\ UNCHANGED <<menuItems, menuSel, showMenu, itemCount, selected, chosen,
                   running, rootMenu, shownText>>

InvokeItem ==
    /\ Handled
    /\ EndMenu(selected)
    /\ UNCHANGED <<screen, itemCount, selected, rootMenu, shownText>>

(* "if (!ui_root_menu) return kGoBack".                                    *)
GoBack ==
    /\ Handled /\ ~rootMenu
    /\ EndMenu(kGoBack)
    /\ UNCHANGED <<screen, itemCount, selected, rootMenu, shownText>>

(* What draw_screen_locked() puts on a row.                                *)
Rows == IF menuItems - menuShowStart > MaxMenuRows THEN MaxMenuRows
        ELSE menuItems - menuShowStart
RowItem(row) == IF row < Rows THEN menuShowStart + row ELSE Nothing

(* handle_release() sends KEY_FLAG_ABS | row; get_menu_selection() selects *)
(* that row of the view and invokes it.                                    *)
TouchAbsolute(row) == row
TouchSelection(row) == row + menuShowStart

Touch ==
    /\ running /\ showText
    /\ \E row \in 0 .. TouchRows - 1 :
          /\ row < itemCount
          /\ SelectMenu(TouchSelection(row))
          /\ touched' = RowItem(row)
          /\ EndMenu(selected')
    /\ UNCHANGED <<itemCount, rootMenu, shownText>>

(* WaitKey() timed out: 120 seconds without a key.                         *)
Timeout ==
    /\ running /\ ~showTextEver
    /\ EndMenu(0) /\ touched' = kNoAction
    /\ UNCHANGED <<screen, itemCount, selected, rootMenu, shownText>>

(* CancelWaitKey() or a volume that came or went: the menu returns and is  *)
(* left on the screen.                                                     *)
Interrupted ==
    /\ running
    /\ running' = FALSE /\ chosen' \in {kNoAction, kRefresh}
    /\ touched' = kNoAction
    /\ UNCHANGED <<screen, showMenu, itemCount, selected, rootMenu, shownText>>

(* CheckKey() answered TOGGLE, on the input thread.                        *)
ShowText ==
    /\ showText' = ~showText /\ showTextEver' = (showTextEver \/ showText')
    /\ UNCHANGED <<screen, showMenu, itemCount, selected, chosen, running,
                   rootMenu, touched>>

MenuNext == \/ StartMenu \/ HighlightUp \/ HighlightDown \/ ScrollUp \/ ScrollDown
            \/ InvokeItem \/ GoBack \/ Touch \/ Timeout \/ Interrupted \/ ShowText

MenuSpec == MenuInit /\ [][MenuNext]_mvars

-----------------------------------------------------------------------------
(* Whatever keys, touches and menus came before, the index of the item     *)
(* that is highlighted or invoked is one of the items on display, and the  *)
(* screen and get_menu_selection() agree on it.                            *)
SelectionValid ==
    running => selected = menuSel /\ menuSel \in 0 .. menuItems - 1

(* The view starts at an item, so that the loop that draws the items never *)
(* reads beyond the ends of menu[], although the view outlives its menu.   *)
ViewValid == running => menuShowStart \in 0 .. menuItems - 1

(* An item that is returned exists in the caller's list.                   *)
ChosenValid == ~running /\ chosen >= 0 => chosen < itemCount

(* A key that moves the highlight leaves it on the screen, even if the     *)
(* user had scrolled it out of view.                                       *)
HighlightShown ==
    [][running /\ selected' # selected /\ running' =>
          menuSel' \in menuShowStart' .. menuShowStart' + MaxMenuRows - 1]_mvars

(* A touch on an item invokes that item, not the one which the view would  *)
(* have there without scrolling.                                           *)
TouchedItem == touched >= 0 => chosen = touched

=============================================================================
