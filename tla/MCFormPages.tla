----------------------------- MODULE MCFormPages ---------------------------
(* Small forms of every kind: fields that are their widgets, fields with   *)
(* widgets on one page and on two, groups of fields, signatures, documents *)
(* without a form; and damaged ones.                                       *)
EXTENDS FormPages

Of(T, ft, widget, kids, parent) ==
  [T |-> T, ft |-> ft, Widget |-> widget, Kids |-> kids, direct |-> TRUE, Parent |-> parent]
Field(T, ft) == Of(T, ft, TRUE, None, None)           \* a field that is its widget
Group(T, ft, kids) == Of(T, ft, FALSE, kids, None)    \* a field with kids
Kid(T, ft, parent) == Of(T, ft, TRUE, None, parent)
Widget(parent) == Kid(<<>>, "none", parent)
Link == Of(<<>>, "none", FALSE, None, None)
Document(objs, arr, fields, annots) ==
  [objs |-> objs, arr |-> arr, form |-> fields # <<>>, fields |-> fields, pages |-> [p \in DOMAIN annots |-> p], annots |-> annots,
   copies |-> NoMap, cache |-> Empty]

a == <<"a">>
b == <<"b">>

Merged == Document(<<Field(a, "Tx"), Field(b, "Sig"), Link>>, <<>>, <<1, 2>>, <<<<1, 3>>, <<2>>>>)
Radio == Document(<<Group(a, "Btn", 1), Widget(1), Widget(1)>>, <<<<2, 3>>>>, <<1>>, <<<<2>>, <<3>>>>)
Untyped == Document(<<Group(a, "none", 1), Widget(1), Widget(1)>>, <<<<2, 3>>>>, <<1>>, <<<<2, 3>>>>)
Hierarchy == Document(<<Group(a, "none", 1), Kid(b, "Tx", 1), Of(a, "Btn", FALSE, 2, 1), Widget(3), Field(b, "Tx")>>,
                      <<<<2, 3>>, <<4>>>>, <<1, 5>>, <<<<4, 5>>, <<2>>>>)
Unnamed == Document(<<Group(<<>>, "none", 1), Kid(a, "Tx", 1)>>, <<<<2>>>>, <<1>>, <<<<2>>>>)
Signed == Document(<<Group(a, "none", 1), Kid(b, "Sig", 1), Field(b, "Sig")>>, <<<<2>>>>, <<1, 3>>, <<<<2, 3>>>>)
Split == Document(<<Group(a, "Sig", 1), Widget(1), Field(b, "Sig")>>, <<<<2>>>>, <<1, 3>>, <<<<2, 3>>>>)
Formless == Document(<<Link>>, <<>>, <<>>, <<<<1>>, <<>>>>)
Sounds == {Merged, Radio, Untyped, Hierarchy, Unnamed, Signed, Split, Formless}

Orphaned == Document(<<Field(a, "Tx"), Field(a, "Tx"), Widget(1)>>, <<>>, <<1>>, <<<<1, 2>>, <<3>>>>)
OwnKid == Document(<<Group(a, "Btn", 1), Widget(1)>>, <<<<1, 2>>>>, <<1>>, <<<<2>>>>)
TwoParents == Document(<<Group(a, "Btn", 1), Group(b, "Btn", 2), Kid(a, "Btn", 1)>>, <<<<3>>, <<3>>>>, <<2, 1>>, <<<<3>>>>)
WrongParent == Document(<<Group(a, "Btn", 1), Widget(None), Kid(b, "Tx", 4), Field(b, "Tx")>>, <<<<2, 3>>>>, <<1, 4>>, <<<<2, 3, 4>>>>)
Loop == Document(<<Of(a, "Btn", FALSE, 1, 2), Of(b, "none", FALSE, 2, 1), Widget(2)>>, <<<<2>>, <<3, 1>>>>, <<1>>, <<<<3>>>>)
Twice == Document(<<Group(<<>>, "none", 1), Kid(a, "Tx", 1)>>, <<<<2, 2>>>>, <<1, 1>>, <<<<2>>>>)
Deep == Document(<<Group(a, "none", 1), Of(<<>>, "none", FALSE, 2, 1), Of(<<>>, "none", FALSE, 3, 2), Of(b, "Tx", FALSE, 4, 3), Widget(4)>>,
                 <<<<2>>, <<3>>, <<4>>, <<5>>>>, <<1>>, <<<<5>>>>)
Indirect == [Radio EXCEPT !.objs[1].direct = FALSE]
Damaged == {Indirect, Orphaned, OwnKid, TwoParents, WrongParent, Loop, Twice, Deep}

Forms == Sounds \cup Damaged
Another == Document(<<Field(a, "Tx"), Group(b, "Btn", 1), Widget(2), Widget(2), Link>>, <<<<3, 4>>>>, <<1, 2>>, <<<<1>>, <<3, 5, 4>>>>)
Pages == {"main", "source"} \X {1, 2}
Chosen == UNION {[1..n -> Pages] : n \in 1..3}
=============================================================================
