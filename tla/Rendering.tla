------------------------------ MODULE Rendering ------------------------------
(***************************************************************************)
(* The two renderings of a UI tree and what their refs stand for           *)
(* (core/schema.ts, core/serialize.ts).                                    *)
(*                                                                         *)
(* A tree is a function from positions, numbers in document order, to      *)
(* nodes; a node says at which position its parent is. What a recursive    *)
(* walk takes along to a node is then a function of its position, told     *)
(* from what it took to the parent, and what it does in turn is done in    *)
(* the order of positions. Of a node there is its class, whether it says   *)
(* anything, and where it is: of its bounds the vertical ones.             *)
(***************************************************************************)
EXTENDS Integers, FiniteSets

Node(class, says, clickable, enabled, y1, y2, parent) ==
    [class |-> class, says |-> says, clickable |-> clickable, enabled |-> enabled,
     y1 |-> y1, y2 |-> y2, parent |-> parent]

isEditableClass(node) == node.class \in {"input", "contenteditable", "EditText"}
isActionable(node) == (node.clickable \/ isEditableClass(node)) /\ node.enabled
hasZeroArea(node) == node.y2 <= node.y1
carriesInformation(node) == node.says \/ isActionable(node)

centerOf(node) == (node.y1 + node.y2) \div 2

isRedundantContainer(tree, i) ==
    /\ ~carriesInformation(tree[i])
    /\ Cardinality({j \in DOMAIN tree : tree[j].parent = i /\ ~hasZeroArea(tree[j])}) <= 1

Skipped == -1

(* The depth a node is walked at. A node without area is not, and nothing  *)
(* in it; a container that goes leaves its depth to what is in it.         *)
walk(tree) ==
    LET depth[i \in DOMAIN tree] ==
            LET parent == tree[i].parent
            IN  IF hasZeroArea(tree[i]) THEN Skipped
                ELSE IF parent \notin DOMAIN tree THEN 0
                ELSE IF depth[parent] = Skipped \/ isRedundantContainer(tree, parent)
                     THEN depth[parent] ELSE depth[parent] + 1
    IN  depth

walkWhole(tree) ==
    LET depth[i \in DOMAIN tree] ==
            IF tree[i].parent \notin DOMAIN tree THEN 0 ELSE depth[tree[i].parent] + 1
    IN  depth

NoRef == -1

(* A line for each node that is listed, with its number if it has one: how *)
(* many were numbered before. The table has the node of each number, as    *)
(* its position.                                                           *)
Numbered(tree, depth, listed, numbered) ==
    LET nextRef(i) == Cardinality({j \in numbered : j < i})
    IN  [lines |-> [i \in listed |-> [node |-> tree[i], depth |-> depth[i],
                                      ref |-> IF i \in numbered THEN nextRef(i) ELSE NoRef]],
         refs |-> [r \in {nextRef(i) : i \in numbered} |-> CHOOSE i \in numbered : nextRef(i) = r]]

serializeForLlm(tree) ==
    LET depth == walk(tree)
        listed == {i \in DOMAIN tree : depth[i] # Skipped /\ ~isRedundantContainer(tree, i)}
    IN  Numbered(tree, depth, listed, {i \in listed : isActionable(tree[i])})

serializeAsXml(tree) == Numbered(tree, walkWhole(tree), DOMAIN tree, DOMAIN tree)

serializeUi(tree, format) ==
    IF format = "text" THEN serializeForLlm(tree) ELSE serializeAsXml(tree)

===============================================================================
