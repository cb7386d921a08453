------------------------------- MODULE Screen --------------------------------
(***************************************************************************)
(* From what a device shows to what the model reads and may point at: the  *)
(* collector run in a page (cdp/collect.ts), the tree made of its answer   *)
(* or of a uiautomator dump (cdp/dom-walker.ts, adb/parse.ts), and the     *)
(* text rendering of that tree, see Rendering.                             *)
(*                                                                         *)
(* What is on a device is a function from positions to elements, as a tree *)
(* is in Rendering; the parent of one that is at the top is Top. Positions *)
(* are in document order, and all that is said of that order here is that  *)
(* a parent comes before its children. An element has one dimension, in    *)
(* half pixels from the top; width goes the same way. What it says is      *)
(* whether it says anything. The tags are those the code tells apart: a    *)
(* field is an <input> or a <textarea> that is typed into, a box an        *)
(* <input> that is not, a button stands for what else is clicked for its   *)
(* tag, its role or its handler, a labelFor is a <label> that names a      *)
(* control. Cursor and editing are as computed, so they include what an    *)
(* element has from those around it.                                       *)
(***************************************************************************)
EXTENDS Integers, FiniteSets, Rendering

CONSTANTS Documents,    \* what a device may show
          Height,       \* of the viewport
          Scrolls       \* how far it may be scrolled

Top == 0

Elements ==
    [tag : {"div", "field", "box", "select", "button", "label", "labelFor"},
     says : BOOLEAN, editing : BOOLEAN, skipped : BOOLEAN, gone : BOOLEAN, hidden : BOOLEAN,
     pointer : BOOLEAN, disabled : BOOLEAN, top : Int, height : Nat, parent : Nat]

Widgets ==
    [class : {"View", "EditText"}, says : BOOLEAN, clickable : BOOLEAN, enabled : BOOLEAN,
     top : Int, height : Nat, parent : Nat]

(* Finite, and each element after the one it is in.                        *)
ASSUME ScreenAssumption ==
    /\ Height \in Nat /\ 0 \in Scrolls /\ Scrolls \subseteq Nat
    /\ \A doc \in Documents :
          /\ doc.platform \in {"web", "android"}
          /\ doc.platform = "web" => doc.body \in [pointer : BOOLEAN]
          /\ IsFiniteSet(DOMAIN doc.elements) /\ DOMAIN doc.elements \subseteq Nat \ {Top}
          /\ \A i \in DOMAIN doc.elements :
                /\ doc.elements[i] \in IF doc.platform = "web" THEN Elements ELSE Widgets
                /\ doc.elements[i].parent \in DOMAIN doc.elements \cup {Top}
                /\ doc.elements[i].parent < i

VARIABLES
    document,   \* what is on the device
    scroll,     \* how far it is scrolled
    dump        \* the last dump: where it was taken, and its rendering

screenVars == <<document, scroll, dump>>

-------------------------------------------------------------------------------
(* The collector. *)

isEditable(el) == el.tag = "field" \/ el.editing

(* What each element of a tree is in.                                      *)
Ancestors(tree) ==
    LET above[i \in DOMAIN tree] ==
            LET parent == tree[i].parent
            IN  IF parent \notin DOMAIN tree THEN {} ELSE {parent} \cup above[parent]
    IN  above

(* There is an <input>, a <textarea> or a <select> in it.                  *)
Wraps(page, i) ==
    \E j \in DOMAIN page :
        i \in Ancestors(page)[j] /\ page[j].tag \in {"field", "box", "select"}

(* The elements collected are those in the body, which is not one of them. *)
Around(page, body, i) == IF page[i].parent = Top THEN body ELSE page[page[i].parent]

(* Mutant: every element showing a pointer is a target.                    *)
isPointedAt(page, body, i) == page[i].tag \in {"select", "box", "button"} \/ page[i].pointer

(* A label is a target only for a control that is elsewhere. A pointer     *)
(* cursor inherits: it belongs to the outermost showing it.                *)
isClickable(page, body, i) ==
    \/ page[i].tag \in {"select", "box", "button"}
    \/ page[i].tag = "labelFor" /\ ~Wraps(page, i)
    \/ /\ page[i].tag \notin {"label", "labelFor"}
       /\ page[i].pointer /\ ~Around(page, body, i).pointer

onScreen(el, at) == el.height > 0 /\ el.top + el.height > at /\ el.top < at + Height

worthReporting(page, body, i, at) ==
    /\ onScreen(page[i], at) /\ ~page[i].hidden
    /\ page[i].says \/ isEditable(page[i]) \/ isClickable(page, body, i)

NotVisited == -1

(* The entries, each in the list of the nearest one around it.             *)
Entries(page, body, into, at) ==
    [i \in {j \in DOMAIN page : into[j] # NotVisited /\ worthReporting(page, body, j, at)} |->
        [el |-> page[i], clickable |-> ~isEditable(page[i]) /\ isClickable(page, body, i),
         into |-> into[i]]]

(* Mutant: what hides an element hides what is in it.                      *)
visitWhole(page, body, at) ==
    LET into[i \in DOMAIN page] ==
            LET parent == page[i].parent
            IN  IF page[i].skipped \/ page[i].gone \/ page[i].hidden THEN NotVisited
                ELSE IF parent = Top THEN Top
                ELSE IF into[parent] # NotVisited /\ worthReporting(page, body, parent, at)
                     THEN parent ELSE into[parent]
    IN  Entries(page, body, into, at)

(* The list a visit puts its element in: the children of the nearest       *)
(* element around it that is reported, for the others hide nothing. There  *)
(* is no visit to what is skipped or gone, and to nothing in it.           *)
visit(page, body, at) ==
    LET into[i \in DOMAIN page] ==
            LET parent == page[i].parent
            IN  IF page[i].skipped \/ page[i].gone THEN NotVisited
                ELSE IF parent = Top THEN Top
                ELSE IF into[parent] # NotVisited /\ worthReporting(page, body, parent, at)
                     THEN parent ELSE into[parent]
    IN  Entries(page, body, into, at)

-------------------------------------------------------------------------------
(* The tree: nodes of uiautomator's shape. *)

Rounded(y) == (y + 1) \div 2

ClassOf(el) ==
    CASE el.tag \in {"field", "box"} -> "input"
      [] el.tag \notin {"field", "box"} /\ el.editing -> "contenteditable"
      [] OTHER -> "div"

nodeAt(entry, at) ==
    Node(ClassOf(entry.el), entry.el.says, entry.clickable, ~entry.el.disabled,
         Rounded(entry.el.top - at), Rounded(entry.el.top + entry.el.height - at), entry.into)

Least(S) == CHOOSE y \in S : \A z \in S : y <= z
Greatest(S) == CHOOSE y \in S : \A z \in S : z <= y

(* Mutant: the container is where the first of its roots is.               *)
boundsOfFirst(nodes, roots) == [y1 |-> nodes[Least(roots)].y1, y2 |-> nodes[Least(roots)].y2]

boundsOver(nodes, roots) ==
    [y1 |-> Least({nodes[i].y1 : i \in roots}), y2 |-> Greatest({nodes[i].y2 : i \in roots})]

Container(y1, y2) == Node("body", FALSE, FALSE, TRUE, y1, y2, Top - 1)

(* One root is the tree, several are gathered under a container, called    *)
(* body or hierarchy.                                                      *)
Gathered(nodes) ==
    LET roots == {i \in DOMAIN nodes : nodes[i].parent = Top}
        over == boundsOver(nodes, roots)
        container == IF roots = {} THEN Container(0, 0) ELSE Container(over.y1, over.y2)
    IN  IF Cardinality(roots) = 1 THEN nodes
        ELSE [i \in {Top} \cup DOMAIN nodes |-> IF i = Top THEN container ELSE nodes[i]]

toUiNode(page, body, at) ==
    LET entries == visit(page, body, at)
    IN  Gathered([i \in DOMAIN entries |-> nodeAt(entries[i], at)])

(* A widget of a dump, where it is on the screen.                          *)
parseNode(raw, at) ==
    Node(raw.class, raw.says, raw.clickable, raw.enabled,
         Rounded(raw.top - at), Rounded(raw.top + raw.height - at), raw.parent)

parseUiDump(hierarchy, at) == Gathered([i \in DOMAIN hierarchy |-> parseNode(hierarchy[i], at)])

dumpUi(doc, at) ==
    IF doc.platform = "web" THEN toUiNode(doc.elements, doc.body, at)
    ELSE parseUiDump(doc.elements, at)

-------------------------------------------------------------------------------

NoDump == [taken |-> FALSE]

ScreenInit == document \in Documents /\ scroll = 0 /\ dump = NoDump

Swipes ==
    /\ scroll' \in Scrolls \ {scroll}
    /\ UNCHANGED <<document, dump>>

(* A dump of the device that has no node is an error.                      *)
Dumps ==
    /\ document.platform = "web" \/ DOMAIN document.elements # {}
    /\ dump' = [taken |-> TRUE, at |-> scroll, text |-> serializeForLlm(dumpUi(document, scroll))]
    /\ UNCHANGED <<document, scroll>>

ScreenNext == Swipes \/ Dumps

ScreenSpec == ScreenInit /\ [][ScreenNext]_screenVars

-------------------------------------------------------------------------------
(* Properties, of all elements with the elements they are in. *)

Shown == document.elements
Body == document.body
Places == DOMAIN Shown

Above == Ancestors(Shown)

Drawn(el) == Rounded(el.top - dump.at) < Rounded(el.top + el.height - dump.at)

(* On a page: in view, painted and at least a pixel tall; so are, for      *)
(* text's sake, the elements it is in, as far as they are reported.        *)
Painted(p) ==
    LET all == Above[p] \cup {p}
    IN  IF document.platform # "web" THEN \A i \in all : Drawn(Shown[i])
        ELSE /\ ~Shown[p].hidden /\ onScreen(Shown[p], dump.at)
             /\ \A i \in all : ~Shown[i].skipped /\ ~Shown[i].gone
             /\ \A i \in all : worthReporting(Shown, Body, i, dump.at) => Drawn(Shown[i])

Controls(p) ==
    LET el == Shown[p]
    IN  IF document.platform # "web" THEN el.enabled /\ (el.clickable \/ el.class = "EditText")
        ELSE /\ ~el.disabled
             /\ \/ isEditable(el) \/ el.tag \in {"select", "box", "button"}
                \/ el.tag = "labelFor" /\ ~Wraps(Shown, p)

NumbersOf(p) == {r \in DOMAIN dump.text.refs : dump.text.refs[r] = p}

(* A control the user can see has one number in the text, and what has one *)
(* can be seen, whatever wraps it and wherever the screen is scrolled to.  *)
ControlsAreTargets ==
    dump.taken =>
        /\ \A p \in Places : Painted(p) /\ Controls(p) => Cardinality(NumbersOf(p)) = 1
        /\ \A p \in Places : NumbersOf(p) # {} => Painted(p)

(* What is said on the screen is on a line; a line is deeper than another  *)
(* just where its element is within that other's, and numbers rise from    *)
(* line to line: no wrapper that goes takes anything along or apart.       *)
WordsAreKept ==
    dump.taken =>
        LET lines == dump.text.lines
            refs == dump.text.refs
        IN  /\ \A p \in Places : Painted(p) /\ Shown[p].says => p \in DOMAIN lines
            /\ \A p \in Places \cap DOMAIN lines :
                  lines[p].depth = Cardinality(({Top} \cup Above[p]) \cap DOMAIN lines)
            /\ \A r, s \in DOMAIN refs : r < s => refs[r] < refs[s]

(* One control is one number: what is in a target and shows the cursor it  *)
(* has from there is a target too only if it is a control in its own right.*)
(* So is a label, which it is not with its control in it.                  *)
OneTargetPerControl ==
    dump.taken /\ document.platform = "web" =>
        /\ \A p, q \in Places :
               (/\ NumbersOf(p) # {} /\ NumbersOf(q) # {} /\ q \in Above[p]
                /\ \A i \in Above[p] : i = q \/ q \in Above[i] => Shown[i].pointer)
               => Controls(p)
        /\ \A p \in Places :
               Shown[p].tag \in {"label", "labelFor"} /\ NumbersOf(p) # {} => Controls(p)

===============================================================================
