----------------------------- MODULE MCUIHandle -----------------------------
\* Instances of UIHandle for TLC.
EXTENDS UIHandle

Element(depth, id, name, autoId, type, hwnd) ==
    [depth |-> depth, id |-> id, name |-> name, autoId |-> autoId, type |-> type,
     hwnd |-> hwnd, self |-> hwnd = "console", ready |-> type # "Text",
     invoke |-> type = "Button" /\ id # NoId, at |-> "centre"]

One == <<"One">>
OneDrive == <<"One", "Drive">>

Top == Element(0, 1, <<"Desktop">>, <<>>, "Pane", "desktop")
Console == Element(1, 2, <<"One">>, <<>>, "Window", "console")
Drive == Element(1, 3, OneDrive, <<>>, "Window", "drive")
Calc == Element(1, 4, <<"Calc">>, <<>>, "Window", "calc")
Pad == Element(2, 5, <<"Pad">>, <<>>, "Group", "calc")
Shown == Element(2, 6, OneDrive, One, "Text", "calc")
Key(id) == Element(3, id, One, <<"num1">>, "Button", "calc")
Sync == Element(2, 9, <<"One", "Sync">>, <<>>, "Hyperlink", "calc")
Link == Element(3, NoId, One, <<>>, "Hyperlink", "calc")

\* The keys of the calculator, with the drive behind it; its element anew, with
\* another one of its name before it; a page of links, and no key; the drive alone.
TheDesktops ==
    {<<Top, Console, Calc, Shown, Pad, Key(7), Drive>>,
     <<Top, Console, Calc, Pad, Key(8), Key(7), Drive>>,
     <<Top, Calc, Sync, Pad, Link>>,
     <<Top, Console, Drive>>}

TheQueries == {One, <<"Pad">>, <<"Calc">>}
TheTypes == {AnyType, "Button"}

TheCalls ==
    {DoubleClick("p", "near"), Drag("p", "q", "far"), Scroll("p", "jump"),
     KeyPress(<<"ctrl", "shift">>, <<"s">>)}
TheWords == {<<"ctrl", "shift">>, <<"s">>}
=============================================================================
