------------------------------ MODULE Screens ------------------------------
(***************************************************************************)
(* What the panel shows: the launcher's menu, an application's menu over   *)
(* it, and a dialog over either (stark_ui, the launcher's part of          *)
(* app_manager.c, storage_ui.c).  The UI task handles events one by one,   *)
(* each damaging the areas it changed, and now and then renders what is    *)
(* damaged on the screen on top; a render may fail half way.               *)
(*                                                                         *)
(* The panel is a grid two cells wide: a row of a list and its scroll bar, *)
(* below a status bar of title and card icon.  Menu rows count from 0.     *)
(***************************************************************************)
EXTENDS Integers, Sequences, SequencesExt

CONSTANTS LauncherRows, \* rows of the launcher
          Headers,      \* those that name a category
          AppRows,      \* rows of the application's menu
          CapSets,      \* the launcher rows enabled by the capabilities there may be
          CardStates,   \* states of the storage service
          VisibleRows,  \* rows of a menu that fit below the status bar
          DamageMax,    \* UI_DAMAGE_MAX
          MaxEvents,    \* bound: events handled between two frames
          MaxFails      \* bound: renders that fail

\* A header is never enabled, and the window shows a row and its header (ui_menu_model.c).
ASSUME ScreensAssumption ==
    /\ LauncherRows \in Nat /\ AppRows \in Nat
    /\ VisibleRows \in Nat /\ VisibleRows >= 2
    /\ DamageMax \in Nat /\ DamageMax >= 1
    /\ Headers \subseteq Nat
    /\ \A on \in CapSets : on \subseteq (0 .. LauncherRows - 1) \ Headers

VARIABLES
    scrStack,   \* s_stack, bottom first
    scrMenus,   \* menu |-> its model: sel, top and has_sel
    scrOn,      \* the launcher rows not disabled
    scrValue,   \* the value shown in the first row of the application
    scrCard,    \* s_last of storage_ui.c
    scrDamage,  \* screen |-> its damage
    scrStatus,  \* s_status_damage
    scrPanel,   \* cell |-> what the panel shows there
    scrFails,   \* renders that failed
    scrEvents   \* events handled since the last frame

scrVars == <<scrStack, scrMenus, scrOn, scrValue, scrCard, scrDamage, scrStatus,
             scrPanel, scrFails, scrEvents>>

(***************************************************************************)
(* Boxes, half open, and the damage set (ui_damage.c).                     *)
(***************************************************************************)
Cells == (0 .. 1) \X (0 .. VisibleRows)
Box(x0, y0, x1, y1) == [x0 |-> x0, y0 |-> y0, x1 |-> x1, y1 |-> y1]
Inside(c, b) == b.x0 <= c[1] /\ c[1] < b.x1 /\ b.y0 <= c[2] /\ c[2] < b.y1
Covers(d, c) == \E i \in DOMAIN d : Inside(c, d[i])
Empty == Box(0, 0, 0, 0)
Content == Box(0, 1, 2, VisibleRows + 1)
StatusBar == Box(0, 0, 2, 1)
CardIcon == Box(1, 0, 2, 1)
DialogBox == Box(0, 2, 2, 3)

Least(a, b) == IF a < b THEN a ELSE b
Most(a, b) == IF a > b THEN a ELSE b
Around(a, b) == Box(Least(a.x0, b.x0), Least(a.y0, b.y0), Most(a.x1, b.x1), Most(a.y1, b.y1))
Area(b) == (b.x1 - b.x0) * (b.y1 - b.y0)
IsEmpty(b) == b.x1 <= b.x0 \/ b.y1 <= b.y0

\* joins(): they overlap, or share an edge but not only a corner.
Joins(a, b) ==
    LET over(a0, a1, b0, b1) == a0 < b1 /\ b0 < a1
        touch(a0, a1, b0, b1) == a0 <= b1 /\ b0 <= a1
    IN \/ over(a.x0, a.x1, b.x0, b.x1) /\ touch(a.y0, a.y1, b.y0, b.y1)
       \/ over(a.y0, a.y1, b.y0, b.y1) /\ touch(a.x0, a.x1, b.x0, b.x1)

\* absorb(): the first rect that joins the box grows it, until none does; then the box
\* goes last.
Swallow(s) ==
    LET hits == {i \in DOMAIN s.rects : Joins(s.rects[i], s.box)}
        first == Min(hits)
    IN IF hits = {} THEN s
       ELSE [rects |-> RemoveAt(s.rects, first), box |-> Around(s.rects[first], s.box)]
Absorb(d, b) ==
    LET after[k \in 0 .. Len(d)] ==
            IF k = 0 THEN [rects |-> d, box |-> b] ELSE Swallow(after[k - 1])
    IN Append(after[Len(d)].rects, after[Len(d)].box)

\* The first of the pairs whose union grows the area least becomes one box.
MergeCheapest(d) ==
    LET pairs == {p \in (DOMAIN d) \X (DOMAIN d) : p[1] < p[2]}
        growth(p) == Area(Around(d[p[1]], d[p[2]])) - Area(d[p[1]]) - Area(d[p[2]])
        before(p, q) == \/ growth(p) < growth(q)
                        \/ growth(p) = growth(q) /\ (p[1] < q[1] \/ (p[1] = q[1] /\ p[2] < q[2]))
        best == CHOOSE p \in pairs : \A q \in pairs \ {p} : before(p, q)
    IN Absorb(RemoveAt(RemoveAt(d, best[2]), best[1]), Around(d[best[1]], d[best[2]]))

\* ui_damage_add().
WithDamage(d, b) ==
    IF IsEmpty(b) THEN d
    ELSE LET all == Absorb(d, b) IN IF Len(all) <= DamageMax THEN all ELSE MergeCheapest(all)

(***************************************************************************)
(* The selection of a menu (ui_menu_model.c): n rows, those in on enabled. *)
(***************************************************************************)
Follow(n, on, sel, top) ==
    LET near == IF sel < top THEN sel ELSE IF sel >= top + VisibleRows THEN sel + 1 - VisibleRows ELSE top
        last == Least(near, n - VisibleRows)
    IN IF n <= VisibleRows THEN 0
       ELSE IF VisibleRows >= 2 /\ sel = last /\ last > 0 /\ last - 1 \notin on THEN last - 1
       ELSE last
Placed(n, on, sel, top) == [sel |-> sel, top |-> Follow(n, on, sel, top), has |-> TRUE]

MenuInit(n, on) ==
    IF on = {} THEN [sel |-> 0, top |-> 0, has |-> FALSE] ELSE Placed(n, on, Min(on), 0)

\* The next enabled row, round the ends; the row itself when there is no other.
MenuMove(n, on, m, d) ==
    LET others == on \ {m.sel}
        ahead(i) == ((i - m.sel) * d) % n
        next == CHOOSE i \in others : \A j \in others : ahead(i) <= ahead(j)
    IN IF m.has /\ others # {} THEN Placed(n, on, next, m.top) ELSE m

\* A window further, to the nearest enabled row from there on or else before it.
MenuPage(n, on, m, d) ==
    LET target == IF d > 0 THEN Least(m.sel + VisibleRows, n - 1) ELSE Most(m.sel - VisibleRows, 0)
        beyond == {i \in on : (i - target) * d >= 0}
        pick == IF d > 0 THEN IF beyond # {} THEN Min(beyond) ELSE Max(on)
                ELSE IF beyond # {} THEN Max(beyond) ELSE Min(on)
    IN IF m.has /\ on # {} /\ pick # m.sel THEN Placed(n, on, pick, m.top) ELSE m

(***************************************************************************)
(* The two menus, and what render_band() paints for the screen on top.     *)
(***************************************************************************)
Count(m) == IF m = "launcher" THEN LauncherRows ELSE AppRows
On(m) == IF m = "launcher" THEN scrOn ELSE 0 .. AppRows - 1
TooLong(m) == Count(m) > VisibleRows
RowRect(m, i) ==
    LET y == 1 + i - scrMenus[m].top IN Box(0, y, IF TooLong(m) THEN 1 ELSE 2, y + 1)

ScreenOnTop == Last(scrStack)
HasDialog == ScreenOnTop = "dialog"
Beneath == IF HasDialog THEN scrStack[Len(scrStack) - 1] ELSE ScreenOnTop
HasApp == Contains(scrStack, "app")

IconFor(state) == IF state \in {"unusable", "removed"} THEN "error" ELSE state

Shows(what, n, selected, on, value) ==
    [what |-> what, n |-> n, selected |-> selected, on |-> on, value |-> value]
Plain(what) == Shows(what, 0, FALSE, FALSE, 0)

MenuCell(m, c) ==
    LET t == scrMenus[m]
        i == t.top + c[2] - 1
    IN IF c[1] = 1 /\ TooLong(m) THEN Shows("bar", t.top, FALSE, FALSE, 0)
       ELSE IF i >= Count(m) THEN Plain("blank")
       ELSE Shows(m, i, t.has /\ t.sel = i, i \in On(m),
                  IF m = "app" /\ i = 0 THEN scrValue ELSE 0)

\* The title is the screen's under a dialog.
StatusCell(c) == Plain(IF Inside(c, CardIcon) THEN IconFor(scrCard) ELSE Beneath)
DialogCell(c) == Plain("dialog")

Picture(c) ==
    CASE Inside(c, StatusBar)                -> StatusCell(c)
      [] HasDialog /\ Inside(c, DialogBox)   -> DialogCell(c)
      [] OTHER                               -> MenuCell(Beneath, c)

(***************************************************************************)
(* The stack and the status bar.                                           *)
(***************************************************************************)
NoDamage == [s \in {"launcher", "app", "dialog"} |-> << >>]

\* ui_menu_init().
Opened(m) == MenuInit(Count(m), On(m))

ScreensInit ==
    /\ scrStack = <<"launcher">> /\ scrOn \in CapSets /\ scrValue = 0
    /\ scrMenus = [m \in {"launcher", "app"} |-> Opened(m)]
    /\ scrCard = "absent"
    /\ scrDamage = [NoDamage EXCEPT !["launcher"] = <<Content>>] /\ scrStatus = StatusBar
    /\ scrPanel = [c \in Cells |-> Plain("off")] /\ scrFails = 0 /\ scrEvents = 0

panelVars == <<scrPanel, scrFails>>

\* redraw_all(), for the screen that is now on top of s; what was damaged on a screen
\* that has gone is cleared when it is pushed again.
Redraw(s) ==
    /\ scrStack' = s /\ scrStatus' = StatusBar
    /\ scrDamage' = [x \in DOMAIN scrDamage |-> IF x = Last(s) THEN <<Content>>
                                               ELSE IF Contains(s, x) THEN scrDamage[x] ELSE << >>]

\* stark_ui_status_set_storage().
SetIcon(icon) ==
    scrStatus' = IF icon = IconFor(scrCard) THEN scrStatus
                 ELSE IF IsEmpty(scrStatus) THEN CardIcon ELSE Around(scrStatus, CardIcon)

\* ui_menu_refresh(): the model after some rows were enabled and others disabled.
Refreshed(m, on) ==
    LET n == LauncherRows
        next == MenuMove(n, on, m, 1)
    IN IF m.has /\ m.sel \in on THEN m
       ELSE IF m.has /\ next # m THEN next
       ELSE MenuInit(n, on)
Refresh(on) == scrMenus' = [scrMenus EXCEPT !["launcher"] = Refreshed(@, on)]

\* An application's screen that goes lets the launcher catch up.
LauncherCatchesUp(gone) == IF gone THEN Refresh(scrOn) ELSE UNCHANGED scrMenus

(***************************************************************************)
(* The events.                                                             *)
(***************************************************************************)
\* Slip: only the row now selected is painted again.
SelectSlip(m, t) ==
    /\ scrMenus' = [scrMenus EXCEPT ![m] = t]
    /\ scrDamage' = [scrDamage EXCEPT ![m] =
         IF t.top # scrMenus[m].top THEN WithDamage(@, Content) ELSE WithDamage(@, RowRect(m, t.sel))]
    /\ UNCHANGED <<scrStack, scrOn, scrValue, scrCard, scrStatus, panelVars>>

\* selection_changed(): the two rows, or everything when the window scrolled.
Select(m, t) ==
    /\ scrMenus' = [scrMenus EXCEPT ![m] = t]
    /\ scrDamage' = [scrDamage EXCEPT ![m] =
         IF t.top # scrMenus[m].top THEN WithDamage(@, Content)
         ELSE WithDamage(WithDamage(@, RowRect(m, scrMenus[m].sel)), RowRect(m, t.sel))]
    /\ UNCHANGED <<scrStack, scrOn, scrValue, scrCard, scrStatus, panelVars>>

KeyUpDown(d) ==
    LET m == ScreenOnTop
        t == MenuMove(Count(m), On(m), scrMenus[m], d)
    IN ~HasDialog /\ t # scrMenus[m] /\ Select(m, t)

\* LEFT and RIGHT page the launcher, and set the value of the application's first row.
KeyPage(d) ==
    LET t == MenuPage(LauncherRows, scrOn, scrMenus["launcher"], d)
    IN ScreenOnTop = "launcher" /\ t # scrMenus["launcher"] /\ Select("launcher", t)

KeyAdjust(d) ==
    /\ ScreenOnTop = "app" /\ scrMenus["app"].sel = 0
    /\ scrValue + d \in 0 .. 1 /\ scrValue' = scrValue + d
    /\ scrDamage' = [scrDamage EXCEPT !["app"] = WithDamage(@, RowRect("app", 0))]
    /\ UNCHANGED <<scrStack, scrMenus, scrOn, scrCard, scrStatus, panelVars>>

\* OK on a launcher row starts its application, on an application's row asks first.
KeyOk ==
    /\ \/ /\ ScreenOnTop = "launcher" /\ scrMenus["launcher"].has
          /\ scrMenus' = [scrMenus EXCEPT !["app"] = Opened("app")]
          /\ Redraw(<<"launcher", "app">>)
       \/ ScreenOnTop = "app" /\ Redraw(Append(scrStack, "dialog")) /\ UNCHANGED scrMenus
    /\ UNCHANGED <<scrOn, scrValue, scrCard, panelVars>>

\* stark_ui_pop(), by BACK or by an answer to the dialog.
Pop ==
    /\ Len(scrStack) > 1
    /\ LauncherCatchesUp(ScreenOnTop = "app") /\ Redraw(Front(scrStack))
    /\ UNCHANGED <<scrOn, scrValue, scrCard, panelVars>>

\* stark_ui_pop_to_root().
BackLong ==
    /\ Len(scrStack) > 1
    /\ LauncherCatchesUp(HasApp) /\ Redraw(<<"launcher">>)
    /\ UNCHANGED <<scrOn, scrValue, scrCard, panelVars>>

\* on_app_request(): the launcher, and an alert over it.
Fault ==
    /\ HasApp /\ LauncherCatchesUp(TRUE)
    /\ scrStack' = <<"launcher", "dialog">> /\ scrStatus' = StatusBar
    /\ scrDamage' = [NoDamage EXCEPT !["launcher"] = <<Content>>, !["dialog"] = <<Content>>]
    /\ UNCHANGED <<scrOn, scrValue, scrCard, panelVars>>

\* stark_app_set_caps(): with an application open the launcher is left alone.
SetCaps(on) ==
    /\ on # scrOn /\ scrOn' = on
    /\ IF HasApp THEN UNCHANGED <<scrMenus, scrDamage>>
       ELSE Refresh(on) /\ scrDamage' = [scrDamage EXCEPT !["launcher"] = WithDamage(@, Content)]
    /\ UNCHANGED <<scrStack, scrValue, scrCard, scrStatus, panelVars>>

\* on_storage(): the icon, and an alert unless a dialog is open already.
CardEvent(state) ==
    /\ state # scrCard /\ scrCard' = state
    /\ IF scrCard = "mounted" /\ state = "removed" /\ ~HasDialog
       THEN Redraw(Append(scrStack, "dialog"))
       ELSE SetIcon(IconFor(state)) /\ UNCHANGED <<scrStack, scrDamage>>
    /\ UNCHANGED <<scrMenus, scrOn, scrValue, panelVars>>

(***************************************************************************)
(* The frame (stark_ui_tick()).                                            *)
(***************************************************************************)
\* stark_display_render() gives up at a band: what the cells from row y on show, nobody knows.
Unknown == Plain("unknown")
FromBand(b, y) == {c \in Cells : Inside(c, b) /\ c[2] >= y}
Missed(areas) ==
    {{}} \cup
    (IF scrFails = MaxFails THEN {}
     ELSE {FromBand(areas[i], y) : i \in DOMAIN areas, y \in 0 .. VisibleRows})

UiTick ==
    LET areas == WithDamage(scrDamage[ScreenOnTop], scrStatus)
        covered == {c \in Cells : Covers(areas, c)}
    IN /\ scrEvents > 0 \/ areas # << >>
       /\ \E missed \in Missed(areas) :
            /\ scrPanel' = [c \in Cells |-> IF c \in missed THEN Unknown
                                        ELSE IF c \in covered THEN Picture(c) ELSE scrPanel[c]]
            /\ scrFails' = IF missed = {} THEN scrFails ELSE scrFails + 1
       /\ scrDamage' = [scrDamage EXCEPT ![ScreenOnTop] = << >>] /\ scrStatus' = Empty
       /\ scrEvents' = 0
       /\ UNCHANGED <<scrStack, scrMenus, scrOn, scrValue, scrCard>>

\* One event, to the screen on top or to who subscribed to it.
UiEvent ==
    /\ scrEvents < MaxEvents /\ scrEvents' = scrEvents + 1
    /\ \/ \E d \in {-1, 1} : KeyUpDown(d) \/ KeyPage(d) \/ KeyAdjust(d)
       \/ KeyOk \/ Pop \/ BackLong \/ Fault
       \/ \E on \in CapSets : SetCaps(on)
       \/ \E state \in CardStates : CardEvent(state)

ScreensNext == UiEvent \/ UiTick

(***************************************************************************)
(* Properties.                                                             *)
(***************************************************************************)
\* Every cell of the panel shows what it should, or is damaged, or was left unknown by a
\* render that failed; under a dialog what changed waits for the dialog to close.
PanelIsCurrent ==
    \A c \in Cells :
        \/ scrPanel[c] \in {Picture(c), Unknown}
        \/ Inside(c, scrStatus)
        \/ Covers(scrDamage[ScreenOnTop], c)
        \/ HasDialog /\ ~Inside(c, DialogBox) /\ Covers(scrDamage[Beneath], c)

\* The selected row is in the window, and so is the header over it (ui_menu_model.c:follow).
SelectionInView ==
    \A m \in DOMAIN scrMenus :
        LET t == scrMenus[m]
        IN t.has => /\ t.top <= t.sel /\ t.sel < t.top + VisibleRows /\ t.sel < Count(m)
                    /\ t.top > 0 => t.top + VisibleRows <= Count(m)
                    /\ m = "launcher" /\ t.sel = t.top => t.sel - 1 \notin Headers

\* "its rects never overlap, so no pixel is drawn twice" (ui_damage.h).
DamageIsDisjoint ==
    \A s \in DOMAIN scrDamage :
        /\ Len(scrDamage[s]) <= DamageMax
        /\ \A i, j \in DOMAIN scrDamage[s] : i # j => ~Joins(scrDamage[s][i], scrDamage[s][j])

\* What the user sees is current, and the selection is what he sees.
ScreenIsCurrent == PanelIsCurrent /\ SelectionInView /\ DamageIsDisjoint
=============================================================================
