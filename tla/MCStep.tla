-------------------------------- MODULE MCStep --------------------------------
(* Values of Step's constants for TLC.                                      *)
EXTENDS Step

View(says, clickable, y1, y2, parent) == Node("View", says, clickable, TRUE, y1, y2, parent)

(* A launch window that has drawn nothing, and a form with a title, a       *)
(* button of no height, a field and a button.                               *)
MCTrees == {
    <<View(FALSE, FALSE, 0, 10, 0), View(TRUE, FALSE, 0, 10, 1)>>,
    <<View(FALSE, FALSE, 0, 10, 0), View(TRUE, FALSE, 0, 2, 1), View(TRUE, TRUE, 2, 2, 1),
      Node("EditText", FALSE, FALSE, TRUE, 2, 6, 1), View(TRUE, TRUE, 6, 10, 1)>>}

Says(format, people) == [uiFormat |-> format, personas |-> people]

MCSettings == {
    [case |-> Says(None, None), scenario |-> Says("xml", <<"child", "elder">>)],
    [case |-> Says("text", <<"child">>), scenario |-> Says("xml", None)],
    [case |-> Says(None, <<>>), scenario |-> Says(None, <<"child">>)]}

Call(name, type, ref, complete) == [name |-> name, type |-> type, ref |-> ref, complete |-> complete]

MCResponses == {
    <<Call("tap", None, 1, TRUE)>>, <<Call("tap", None, 9, TRUE)>>,
    <<Call("input_text", None, 0, TRUE)>>,
    <<Call("tap", None, 0, TRUE), Call("swipe", None, -1, TRUE)>>,
    <<Call("wait", "swipe", -1, TRUE)>>, <<Call("click", None, 0, TRUE)>>,
    <<Call("finish", None, -1, TRUE)>>}
===============================================================================
