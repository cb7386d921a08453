------------------------------- MODULE MCScreen -------------------------------
(* Documents of Screen for TLC: every tree of three elements out of      *)
(* fourteen kinds, as pages, and out of six, as dumps.                      *)
EXTENDS Screen

Plain == [tag |-> "div", says |-> FALSE, editing |-> FALSE, skipped |-> FALSE, gone |-> FALSE, hidden |-> FALSE,
          pointer |-> FALSE, disabled |-> FALSE, height |-> 4]

Boxes == {
    Plain, [Plain EXCEPT !.says = TRUE], [Plain EXCEPT !.tag = "button"],
    [Plain EXCEPT !.tag = "field"], [Plain EXCEPT !.editing = TRUE],
    [Plain EXCEPT !.tag = "labelFor", !.says = TRUE], [Plain EXCEPT !.tag = "select"],
    [Plain EXCEPT !.tag = "box", !.disabled = TRUE],
    [Plain EXCEPT !.hidden = TRUE, !.says = TRUE], [Plain EXCEPT !.gone = TRUE],
    [Plain EXCEPT !.pointer = TRUE], [Plain EXCEPT !.says = TRUE, !.height = 1],
    [Plain EXCEPT !.tag = "button", !.height = 0], [Plain EXCEPT !.skipped = TRUE]}

(* The cursor and editing inherit.                                          *)
Inside(e, around) ==
    [e EXCEPT !.pointer = @ \/ around.pointer, !.editing = @ \/ around.editing]

Element(e, top, parent) ==
    [tag |-> e.tag, says |-> e.says, editing |-> e.editing, skipped |-> e.skipped,
     gone |-> e.gone, hidden |-> e.hidden, pointer |-> e.pointer, disabled |-> e.disabled,
     top |-> top, height |-> e.height, parent |-> parent]

(* One inside another, two inside one, one beside two.                      *)
Page(body, shape, e, f, g) ==
    LET first == Inside(e, body)
        second == Inside(f, IF shape = "beside" THEN body ELSE first)
        third == Inside(g, IF shape = "both" THEN first ELSE second)
    IN  <<Element(first, 0, Top),
          IF shape = "beside" THEN Element(second, 4, Top) ELSE Element(second, 1, 1),
          CASE shape = "nested" -> Element(third, 2, 2)
            [] shape = "both" -> Element(third, 5, 1)
            [] shape = "beside" -> Element(third, 5, 2)>>

Views == {
    [class |-> "View", says |-> FALSE, clickable |-> FALSE, enabled |-> TRUE, height |-> 4],
    [class |-> "View", says |-> TRUE, clickable |-> FALSE, enabled |-> TRUE, height |-> 4],
    [class |-> "View", says |-> FALSE, clickable |-> TRUE, enabled |-> TRUE, height |-> 4],
    [class |-> "View", says |-> FALSE, clickable |-> TRUE, enabled |-> FALSE, height |-> 4],
    [class |-> "EditText", says |-> FALSE, clickable |-> FALSE, enabled |-> TRUE, height |-> 4],
    [class |-> "View", says |-> FALSE, clickable |-> TRUE, enabled |-> TRUE, height |-> 0]}

Widget(w, top, parent) ==
    [class |-> w.class, says |-> w.says, clickable |-> w.clickable, enabled |-> w.enabled,
     top |-> top, height |-> w.height, parent |-> parent]

Hierarchies ==
    UNION {{<<Widget(e, 0, Top), Widget(f, 0, 1), Widget(g, 0, 2)>>,
            <<Widget(e, 0, Top), Widget(f, 0, 1), Widget(g, 4, 1)>>,
            <<Widget(e, 0, Top), Widget(f, 4, Top), Widget(g, 4, 2)>>}
           : e \in Views, f \in Views, g \in Views}

WebPages ==
    {[platform |-> "web", body |-> [pointer |-> c],
      elements |-> Page([Plain EXCEPT !.pointer = c], shape, e, f, g)] :
     c \in BOOLEAN, shape \in {"nested", "both", "beside"}, e \in Boxes, f \in Boxes, g \in Boxes}

MCDocuments == WebPages \cup {[platform |-> "android", elements |-> h] : h \in Hierarchies}
===============================================================================
