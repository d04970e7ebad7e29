------------------------------- MODULE UiTree -------------------------------
(***************************************************************************)
(* The element trees of platform/uia/UIAutomationScanner.cpp.  A tree is the *)
(* sequence of its elements in the order of the walk, each with its depth:   *)
(* the first is the root, and the subtree of an element is the element and   *)
(* what follows it until the depth is no greater.  No tree is so deep that    *)
(* walkElement, which follows 32 levels, would cut it.                       *)
(*                                                                         *)
(* An element has an id (the runtime id, NoId if it has none), a name and an *)
(* autoId (sequences of words), a type, the hwnd of its window, self (it is  *)
(* of this process), ready (enabled or focusable), invoke (the pattern is     *)
(* supported), the point at its centre and its depth.                       *)
(***************************************************************************)
EXTENDS Integers, Sequences, FiniteSets, FiniteSetsExt, SequencesExt

CONSTANTS NoId, AnyType

NoTree == <<>>

SubtreeAt(tree, k) ==
    LET last == Max({l \in k .. Len(tree) :
                        \A j \in k + 1 .. l : tree[j].depth > tree[k].depth})
    IN  SubSeq(tree, k, last)

FirstIn(tree, S) == IF S = {} THEN NoTree ELSE SubtreeAt(tree, Min(S))

ElementAbove(tree, k, depth) == Max({j \in 1 .. k : tree[j].depth = depth})

(***************************************************************************)
(* The finders.                                                            *)
(***************************************************************************)
HasPart(text, part) ==
    \E i \in 0 .. Len(text) - Len(part) : SubSeq(text, i + 1, i + Len(part)) = part
IsNamed(e, q) == q \in {e.name, e.autoId}
IsNamedInPart(e, q) == HasPart(e.name, q) \/ HasPart(e.autoId, q)

Candidate(e, q, type, own) ==
    (e.self => own) /\ type \in {AnyType, e.type} /\ IsNamedInPart(e, q)

\* Mutant of NamePoints: the substring is looked for first.
PartFirst(e, q) == IF IsNamedInPart(e, q) THEN 10 ELSE 50

NamePoints(e, q) == IF IsNamed(e, q) THEN 50 ELSE 10

Points(e, q, type) ==
    LET If(b, n) == IF b THEN n ELSE 0 IN
    NamePoints(e, q) + If(type # AnyType, 100) + If(e.type = "Window", 100) + If(e.ready, 5)

Enough == 150

\* The first of the best, but the walk ends at the first element that has enough.
FindBestMatch(tree, q, type, own) ==
    LET hits == {k \in DOMAIN tree : Candidate(tree[k], q, type, own)}
        points(k) == Points(tree[k], q, type)
        enough == {k \in hits : points(k) >= Enough}
        best == {k \in hits : \A l \in hits : points(l) <= points(k)}
    IN  FirstIn(tree, IF enough # {} THEN enough ELSE best)

FindByRuntimeId(tree, id) == FirstIn(tree, {k \in DOMAIN tree : id # NoId /\ tree[k].id = id})

\* Each child's subtree in turn: the best of the first that has one.
FindDescendant(tree, q, type, own) ==
    LET Best(k) == FindBestMatch(SubtreeAt(tree, k), q, type, own)
        hits == {k \in DOMAIN tree : tree[k].depth = tree[1].depth + 1 /\ Best(k) # NoTree}
    IN  IF hits = {} THEN NoTree ELSE Best(Min(hits))

FindParent(tree, id) ==
    LET hits == {k \in 2 .. Len(tree) : id # NoId /\ tree[k].id = id} IN
    IF hits = {} THEN NoTree
    ELSE SubtreeAt(tree, ElementAbove(tree, Min(hits), tree[Min(hits)].depth - 1))

(***************************************************************************)
(* The scans of a desktop: a tree whose root has depth 0, and its windows 1. *)
(***************************************************************************)
WindowOf(desktop, k) == ElementAbove(desktop, k, 1)
Tops(desktop) == {k \in DOMAIN desktop : desktop[k].depth = 1}

\* An element without a window of its own has that of its parent, so the first
\* element with a handle is the window.
ScanWindowByHandle(desktop, hwnd) ==
    FirstIn(desktop, {k \in DOMAIN desktop : desktop[k].hwnd = hwnd})

\* GetAncestor(GA_ROOT), and the scan of it.
ScanRootWindow(desktop, hwnd) ==
    LET hits == {k \in DOMAIN desktop : desktop[k].hwnd = hwnd /\ desktop[k].depth > 0} IN
    IF hits = {} THEN NoTree ELSE SubtreeAt(desktop, WindowOf(desktop, Min(hits)))

\* Without the windows of this process, the others in their order; the root is
\* given no runtime id.
ScanDesktop(desktop) ==
    LET kept == {k \in DOMAIN desktop :
                    desktop[k].depth = 0 \/ ~desktop[WindowOf(desktop, k)].self}
        nth(n) == CHOOSE k \in kept : Cardinality({j \in kept : j <= k}) = n
        seen(e) == IF e.depth = 0 THEN [e EXCEPT !.id = NoId] ELSE e
    IN  [n \in 1 .. Cardinality(kept) |-> seen(desktop[nth(n)])]

\* find_best_window: the whole title before its beginning before any part of it.
TitleScore(title, q) ==
    CASE title = q -> 3
      [] title # q /\ IsPrefix(q, title) -> 2
      [] ~IsPrefix(q, title) /\ HasPart(title, q) -> 1
      [] OTHER -> 0

ScanWindow(desktop, q) ==
    LET score(k) == TitleScore(desktop[k].name, q)
        best == {k \in Tops(desktop) :
                    score(k) > 0 /\ \A l \in Tops(desktop) : score(l) <= score(k)}
    IN  IF best # {} THEN FirstIn(desktop, best)
        ELSE FindBestMatch(ScanDesktop(desktop), q, "Window", FALSE)
=============================================================================
