------------------------------ MODULE UIHandle ------------------------------
(***************************************************************************)
(* The handles of platform/uia/UIHandle.cpp, as a script uses them: the       *)
(* snapshot of an element and its subtree, from a scan, that is clicked,      *)
(* searched, refreshed or left for its parent while the desktop goes on.      *)
(* The other callers of the input tools use them at the same time.           *)
(***************************************************************************)
EXTENDS UiTree, InputTools

CONSTANTS Script,        \* the caller that is the script
          Desktops,      \* the trees the desktop can be
          Queries, Types,
          InputCalls     \* the input calls of the other callers

ASSUME HandleAssumption ==
    /\ Script \in Callers /\ InputCalls \subseteq Calls
    /\ \A d \in Desktops : d \in Seq(ToSet(d))

VARIABLES desktop,
          focused,  \* the window that has the keyboard
          h,        \* the script's handle: the window that refresh scans, and the tree
          at        \* where the script is: in no operation, or polling for an element

vars == <<inputVars, desktop, focused, h, at>>

Handle(tree) == [hwnd |-> tree[1].hwnd, tree |-> tree]
NoHandle == [hwnd |-> NoOne, tree |-> NoTree]
Idle == [op |-> "idle"]

Init ==
    /\ InputInit
    /\ desktop \in Desktops
    /\ focused \in {desktop[k].hwnd : k \in Tops(desktop)}
    /\ h = NoHandle /\ at = Idle

(***************************************************************************)
(* The system: the application changes what it shows, the user the focus.    *)
(***************************************************************************)
DesktopChanges ==
    /\ desktop' \in Desktops \ {desktop}
    /\ UNCHANGED <<inputVars, focused, h, at>>

UserFocuses ==
    /\ focused' \in {desktop[k].hwnd : k \in Tops(desktop)} \ {focused}
    /\ UNCHANGED <<inputVars, desktop, h, at>>

(***************************************************************************)
(* The search for an element: in what was scanned before, then, if there is  *)
(* time, in a new scan every 100 ms.  What is found is clicked or is the new *)
(* handle.                                                                 *)
(***************************************************************************)
Ready == at = Idle /\ Free(Script)
Held == Ready /\ h # NoHandle

SearchKey(e) == IF e.autoId = <<>> THEN e.name ELSE e.autoId
Like(scan, e) == IF SearchKey(e) = <<>> THEN NoTree ELSE FindBestMatch(scan, SearchKey(e), AnyType, FALSE)

\* Mutant of SameOrLike: the name is tried before the runtime id.
LikeOrSame(scan, e) ==
    IF Like(scan, e) # NoTree THEN Like(scan, e) ELSE FindByRuntimeId(scan, e.id)

\* The element in a new scan: by its id, or else by its automation id or, if it has
\* none, its name.
SameOrLike(scan, e) ==
    IF FindByRuntimeId(scan, e.id) # NoTree THEN FindByRuntimeId(scan, e.id) ELSE Like(scan, e)

Fresh == SameOrLike(ScanWindowByHandle(desktop, h.hwnd), h.tree[1])
Renewed == IF Fresh = NoTree THEN h ELSE [h EXCEPT !.tree = Fresh]

\* click(): the Invoke pattern, or else focus and the mouse at the centre that the
\* snapshot has.
ClickOn(e) ==
    \/ e.invoke /\ FindByRuntimeId(desktop, e.id) # NoTree /\ UNCHANGED prog
    \/ \E path \in {"jump", "far"} :
          Call(Script, <<Do("focus", e.hwnd)>> \o Click(e.at, "left", path))

\* The handle that the operation began with is renewed, if it polled.
Found(tree, act, renewed) ==
    /\ at' = Idle
    /\ \/ act = "keep" /\ h' = Handle(tree) /\ UNCHANGED prog
       \/ act = "click" /\ h' = renewed /\ ClickOn(tree[1])

InHandle(handle, q, type) == FindDescendant(handle.tree, q, type, handle.tree[1].self)
InFocus(q, type) == FindBestMatch(ScanWindowByHandle(desktop, focused), q, type, FALSE)
InDesktop(q, type) == FindBestMatch(ScanDesktop(desktop), q, type, FALSE)

Select(q, type, act) ==
    /\ Held
    /\ LET found == InHandle(h, q, type) IN
       IF found # NoTree THEN Found(found, act, h)
       ELSE at' = [op |-> "select", q |-> q, type |-> type, act |-> act] /\ UNCHANGED <<h, prog>>
    /\ UNCHANGED <<owner, count, down, begun, desktop, focused>>

PollSelect ==
    /\ at.op = "select"
    /\ LET found == IF Fresh = NoTree THEN NoTree ELSE InHandle(Renewed, at.q, at.type) IN
       IF found # NoTree THEN Found(found, at.act, Renewed)
       ELSE h' = Renewed /\ UNCHANGED <<at, prog>>
    /\ UNCHANGED <<owner, count, down, begun, desktop, focused>>

\* UIAutomationScanner::select, without a handle; nobody gives it a windowTitle.
SelectGlobally(q, type) ==
    /\ Ready
    /\ LET near == InFocus(q, type)
           found == IF near # NoTree THEN near ELSE InDesktop(q, type) IN
       IF found # NoTree THEN Found(found, "keep", h)
       ELSE at' = [op |-> "selectUIA", q |-> q, type |-> type] /\ UNCHANGED <<h, prog>>
    /\ UNCHANGED <<owner, count, down, begun, desktop, focused>>

PollFocus ==
    /\ at.op = "selectUIA" /\ InFocus(at.q, at.type) # NoTree
    /\ Found(InFocus(at.q, at.type), "keep", h)
    /\ UNCHANGED <<owner, count, down, begun, desktop, focused>>

WaitForWindow(q) ==
    /\ Ready
    /\ at' = [op |-> "waitForWindow", q |-> q]
    /\ UNCHANGED <<inputVars, desktop, focused, h>>

\* In the last half second, what is found need be no window and have no name.
PollWindow ==
    /\ at.op = "waitForWindow" /\ ScanWindow(desktop, at.q) # NoTree
    /\ Found(ScanWindow(desktop, at.q), "keep", h)
    /\ UNCHANGED <<owner, count, down, begun, desktop, focused>>

\* The time is up: nil, or an exception, and the handle stays.
GiveUp ==
    /\ at # Idle /\ at' = Idle
    /\ UNCHANGED <<inputVars, desktop, focused, h>>

(***************************************************************************)
(* The other operations.                                                   *)
(***************************************************************************)
ClickHandle ==
    /\ Held /\ ClickOn(h.tree[1])
    /\ UNCHANGED <<owner, count, down, begun, desktop, focused, h, at>>

\* type() takes the focus as it is.
TypeOrKey ==
    /\ Held
    /\ \/ Call(Script, TypeText(<<"x", "y">>))
       \/ Call(Script, <<Do("focus", h.hwnd)>> \o KeyPress(<<"ctrl">>, <<"s">>))
    /\ UNCHANGED <<owner, count, down, begun, desktop, focused, h, at>>

Refresh ==
    /\ Held /\ h' = Renewed
    /\ UNCHANGED <<inputVars, desktop, focused, at>>

Moves(tree) ==
    /\ h' = IF tree = NoTree THEN h ELSE Handle(tree)
    /\ UNCHANGED <<inputVars, desktop, focused, at>>

Parent == Held /\ Moves(FindParent(ScanWindowByHandle(desktop, h.hwnd), h.tree[1].id))

Window == Held /\ Moves(ScanRootWindow(desktop, h.hwnd))

\* SetForegroundWindow, which the system may refuse.
Focus(c) ==
    /\ At(c, {"focus"}) /\ Go(c)
    /\ focused' \in {focused, Head(prog[c]).arg}
    /\ UNCHANGED <<owner, count, down, desktop, h, at>>

InputCall(c) ==
    /\ c # Script /\ \E call \in InputCalls : Call(c, call)
    /\ UNCHANGED <<owner, count, down, begun, desktop, focused, h, at>>

Step(c) == InputStep(c) /\ UNCHANGED <<desktop, focused, h, at>>

Operation ==
    \/ \E q \in Queries, type \in Types :
          \/ \E act \in {"keep", "click"} : Select(q, type, act)
          \/ SelectGlobally(q, type)
    \/ PollSelect \/ PollFocus
    \/ \E q \in Queries : WaitForWindow(q)
    \/ PollWindow \/ GiveUp
    \/ ClickHandle \/ TypeOrKey \/ Refresh \/ Parent \/ Window

Next ==
    \/ Operation
    \/ \E c \in Callers : InputCall(c) \/ Focus(c) \/ Step(c)
    \/ DesktopChanges \/ UserFocuses

Spec == Init /\ [][Next]_vars

(***************************************************************************)
(* Properties.                                                             *)
(***************************************************************************)
\* A refresh at any moment leaves the handle with its element as long as its
\* window has it, however it is named now and whatever else has its name; and
\* otherwise with one that has its name or automation id, perhaps as a part, or
\* with what it had (UIHandle.cpp:257-289).
RefreshKeepsElement ==
    h # NoHandle =>
        LET e == h.tree[1]
            new == Renewed.tree
            ids == {x.id : x \in ToSet(ScanWindowByHandle(desktop, h.hwnd))} IN
        IF e.id \in ids \ {NoId} THEN new[1].id = e.id
        ELSE new = h.tree \/ \E key \in {e.name, e.autoId} : IsNamedInPart(new[1], key)

\* What findBestMatch finds has the name or automation id that was asked for as a
\* whole, if an element of the tree has, unless it is a window
\* (UIAutomationScanner.cpp:640-703).
WholeBeatsPart ==
    \A q \in Queries, type \in Types :
        LET found == InDesktop(q, type) IN
        (\E e \in ToSet(ScanDesktop(desktop)) : Candidate(e, q, type, FALSE) /\ IsNamed(e, q)) =>
            found[1].type = "Window" \/ IsNamed(found[1], q)

\* "Exact Name/ID match + Window type > Exact Match > Substring Window > Substring
\* match" (UIAutomationScanner.h:57-58): no element that has only a part of the
\* name is found where another has all of it.
PriorityKept ==
    \A q \in Queries :
        LET found == InDesktop(q, AnyType) IN
        (\E e \in ToSet(ScanDesktop(desktop)) : Candidate(e, q, AnyType, FALSE) /\ IsNamed(e, q)) =>
            IsNamed(found[1], q)
=============================================================================
