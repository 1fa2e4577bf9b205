------------------------------ MODULE AcroForm -----------------------------
(***************************************************************************)
(* The interactive form of a document                                      *)
(* (libqpdf/QPDFAcroFormDocumentHelper.cc, libqpdf/qpdf/AcroForm.hh): the  *)
(* tree of fields below /Fields, the widgets on the pages that show them,  *)
(* and what AcroForm keeps about them: which field an annotation is of,    *)
(* which annotations a field has, and which fields have a name.  The cache *)
(* is made by one traversal and then kept up to date call by call.         *)
(*                                                                         *)
(* The state of the document is one record, doc, and a method an operator  *)
(* on such records.  Objects, arrays and pages are numbered; there is one  *)
(* other document, Source, to take pages from.                             *)
(***************************************************************************)
EXTENDS Integers, FiniteSets, SequencesExt, Functions

CONSTANTS
  Documents,   \* documents as they are opened
  Source,      \* the other document
  MaxDepth,    \* levels of fields that are followed, 100
  Unwary       \* ancestors that are followed before loops are looked for, 10

ASSUME ConstantsAssumption == MaxDepth \in Nat /\ Unwary \in Nat \ {0}

None == 0        \* no object, no /Kids

VARIABLE doc    \* the document

(* The fields of doc:                                                      *)
(*  objs     dictionaries: T (<<>> for none), ft, Parent, whether it is a  *)
(*           Widget, and Kids, an index of arr; direct says that the array *)
(*           is in the dictionary and not an object                        *)
(*  arr      arrays of dictionaries                                        *)
(*  form     whether there is an /AcroForm with /Fields                    *)
(*  fields   /Fields                                                       *)
(*  pages    the pages of the document                                     *)
(*  annots   page -> /Annots                                               *)
(*  copies   what has been copied from Source                              *)
(*  cache    valid, of (annotation_to_field_), data (fields_), byName      *)
(*           (name_to_fields_, as pairs), bad and unnamed                  *)
NoMap == [i \in {} |-> None]
Empty == [valid |-> FALSE, of |-> NoMap, data |-> NoMap, byName |-> {}, bad |-> {}, unnamed |-> {}]
InvalidateCache(d) == [d EXCEPT !.cache = Empty]

-----------------------------------------------------------------------------
(* Fields and their ancestors.                                             *)
Node(d, i) == d.objs[i]
HasKids(d, i) == Node(d, i).Kids # None
Kids(d, i) == IF HasKids(d, i) THEN d.arr[Node(d, i).Kids] ELSE <<>>
Parent(d, i) == Node(d, i).Parent

(* A field and its ancestors; no object twice, once there have been many.  *)
RECURSIVE Line(_, _, _, _)
Line(d, i, n, seen) ==
  IF i = None \/ (n + 1 >= Unwary /\ i \in seen) THEN <<>>
  ELSE <<i>> \o Line(d, Parent(d, i), n + 1, IF n + 1 >= Unwary THEN seen \cup {i} ELSE seen)
LineOf(d, i) == Line(d, i, 0, {})

FT(d, i) ==
  LET typed == SelectSeq(LineOf(d, i), LAMBDA j : Node(d, j).ft # "none")
  IN IF typed = <<>> THEN "none" ELSE Node(d, typed[1]).ft
FullName(d, i) ==
  LET named == SelectSeq(LineOf(d, i), LAMBDA j : Node(d, j).T # <<>>)
  IN FoldRight(LAMBDA j, name : IF name = <<>> THEN Node(d, j).T ELSE name \o <<".">> \o Node(d, j).T, named, <<>>)
TopLevel(d, i) == LET last == Last(LineOf(d, i)) IN IF Parent(d, last) = None THEN last ELSE Parent(d, last)

IsField(d, i) == Node(d, i).T # <<>> \/ HasKids(d, i) \/ FT(d, i) # "none"
IsAnnotation(d, i) == ~HasKids(d, i) /\ Node(d, i).Widget

-----------------------------------------------------------------------------
(* The cache.                                                              *)
DataOf(d, i) == IF i \in DOMAIN d.cache.data THEN d.cache.data[i] ELSE [annotations |-> <<>>, name |-> <<>>]
Annotates(d, a, f) ==
  [d EXCEPT !.cache.of = (a :> f) @@ @,
            !.cache.data = (f :> [DataOf(d, f) EXCEPT !.annotations = Append(@, a)]) @@ @]
Names(d, f) ==
  LET name == FullName(d, f)
      old == DataOf(d, f).name
  IN [d EXCEPT !.cache.byName = (@ \ {<<old, f>>}) \cup {<<name, f>>},
               !.cache.data = (f :> [DataOf(d, f) EXCEPT !.name = name]) @@ @]
Known(d, i) == i \in DOMAIN d.cache.data \cup DOMAIN d.cache.of \cup d.cache.bad

(* What to do about the /Parent of a field that is not at the top: accept  *)
(* it, leave the field to its other parent, reject it, or correct it.      *)
Claim(d, f, parent, depth) ==
  LET others == ToSet(IF Parent(d, f) = None THEN <<>> ELSE Kids(d, Parent(d, f)))
  IN IF depth = 0 \/ Parent(d, f) = parent THEN "ours"
     ELSE IF f \in others THEN "other's" ELSE IF parent \in others THEN "loop" ELSE "corrected"

Corrected(d, f, parent, claim) == IF claim = "corrected" THEN [d EXCEPT !.objs[f].Parent = parent] ELSE d
Named(d, f) ==
  IF Node(d, f).T # <<>> THEN Names(d, f)
  ELSE IF IsAnnotation(d, f) THEN d ELSE [d EXCEPT !.cache.unnamed = @ \cup {f}]
MarkBad(d, f, bad) == [d EXCEPT !.cache.bad = IF bad THEN @ \cup {f} ELSE @]

(* ok says whether the field is one of its parent's; bad ones are not.     *)
RECURSIVE TraverseField(_, _, _, _)
TraverseField(d, f, parent, depth) ==
  LET yes(e) == [doc |-> e, ok |-> TRUE]
      no(e) == [doc |-> e, ok |-> FALSE]
      field == IsField(d, f)
      annotation == IsAnnotation(d, f)
      claim == Claim(d, f, parent, depth)
      below(e, kid) ==
        IF kid \in e.cache.bad THEN e
        ELSE LET t == TraverseField(e, kid, f, depth + 1) IN MarkBad(t.doc, kid, ~t.ok)
      traversed(shown) ==
        IF ~field \/ claim = "other's" THEN yes(shown)
        ELSE IF claim = "loop" THEN no(shown)
        ELSE yes(FoldLeft(below, Named(Corrected(shown, f, parent, claim), f), Kids(d, f)))
      entered(e) ==
        IF Known(e, f) \/ (~field /\ ~annotation) THEN no(e)
        ELSE traversed(IF annotation THEN Annotates(e, f, IF field THEN f ELSE parent) ELSE e)
  IN IF depth > MaxDepth \/ f = parent THEN no(d) ELSE entered(MarkBad(d, f, f \in d.cache.unnamed))
Traverse(d, f) == TraverseField(d, f, None, 0).doc

WidgetsOf(d, p) == SelectSeq(d.annots[p], LAMBDA a : Node(d, a).Widget)
Analyze(d) ==
  LET begun == [d EXCEPT !.cache.valid = TRUE]
      orphan(e, a) == IF a \in DOMAIN e.cache.of THEN e ELSE Annotates(e, a, a)
  IN IF d.cache.valid THEN d
     ELSE IF ~d.form THEN begun
     ELSE FoldLeft(LAMBDA e, p : FoldLeft(orphan, e, WidgetsOf(e, p)), FoldLeft(Traverse, begun, d.fields), d.pages)
Validate(d) == Analyze(InvalidateCache(d))

(* Queries; each of them analyzes first, which does nothing as a rule.     *)
FieldsNamed(d, name) == {n[2] : n \in {m \in Analyze(d).cache.byName : m[1] = name}}
FieldFor(d, a) ==
  LET in(of) == IF a \in DOMAIN of THEN of[a] ELSE None
  IN IF Node(d, a).Widget THEN in(Analyze(d).cache.of) ELSE None
FormFields(d) ==
  LET annotated(data) == {f \in DOMAIN data : data[f].annotations # <<>>} IN annotated(Analyze(d).cache.data)
\* Slip: the fields of the widgets and not the ones at the top.
FormFieldsForPage_Own(d, p) == {FieldFor(d, a) : a \in ToSet(WidgetsOf(d, p))} \ {None}
FormFieldsForPage(d, p) ==
  {TopLevel(d, FieldFor(d, a)) : a \in {w \in ToSet(WidgetsOf(d, p)) : FieldFor(d, w) # None}}

-----------------------------------------------------------------------------
(* Changes to the form.                                                    *)
\* Slip: the cache does not hear of the field.
AddFormField_Unseen(d, f) == [d EXCEPT !.form = TRUE, !.fields = Append(@, f)]
AddFormField(d, f) ==
  Traverse([d EXCEPT !.form = TRUE, !.fields = Append(@, f)], f)

(* The fields and what is below them, in the order in which they are met.  *)
RECURSIVE Below(_, _, _)
Below(d, queue, seen) ==
  IF queue = <<>> THEN <<>>
  ELSE LET f == Head(queue) IN
       IF f \in seen THEN Below(d, Tail(queue), seen)
       ELSE <<f>> \o Below(d, Tail(queue) \o Kids(d, f), seen \cup {f})

\* Slip: the name with the suffix is not looked up.
FreeSuffix_One(d, name, n) == IF FieldsNamed(d, name) = {} THEN <<>> ELSE <<"+1">>
(* What to append to a name so that no field has it.                       *)
RECURSIVE FreeSuffix(_, _, _)
FreeSuffix(d, name, n) ==
  LET suffix == IF n = 0 THEN <<>> ELSE <<"+" \o ToString(n)>>
  IN IF FieldsNamed(d, name \o suffix) = {} THEN suffix ELSE FreeSuffix(d, name, n + 1)
Rename(acc, f) ==
  LET old == FullName(acc.doc, f)
      suffix == IF old \in DOMAIN acc.renames THEN acc.renames[old] ELSE FreeSuffix(acc.doc, old, 0)
  IN IF Node(acc.doc, f).T = <<>> THEN acc
     ELSE [doc |-> [acc.doc EXCEPT !.objs[f].T = @ \o suffix], renames |-> (old :> suffix) @@ acc.renames]
AddAndRenameFormFields(d, fs) ==
  LET known == Analyze(d)
      apart == FoldLeft(Rename, [doc |-> known, renames |-> NoMap], Below(known, fs, {}))
  IN FoldLeft(AddFormField, apart.doc, fs)

(* A set of objects, by their numbers.                                     *)
InOrder(d, S) == SelectSeq([i \in DOMAIN d.objs |-> i], LAMBDA i : i \in S)
Forget(d, f) ==
  IF f \notin DOMAIN d.cache.data THEN d
  ELSE LET data == d.cache.data[f]
       IN [d EXCEPT !.cache.of = [a \in DOMAIN @ \ ToSet(data.annotations) |-> @[a]],
                    !.cache.byName = @ \ {<<data.name, f>>},
                    !.cache.data = [g \in DOMAIN @ \ {f} |-> @[g]]]
RemoveFormFields(d, fs) ==
  IF ~d.form THEN d
  ELSE LET forgotten == FoldLeft(Forget, d, InOrder(d, fs))
       IN [forgotten EXCEPT !.fields = SelectSeq(@, LAMBDA f : f \notin fs)]

SetFormFieldName(d, f, name) ==
  TraverseField([d EXCEPT !.objs[f].T = name], f, Parent(d, f), 0).doc

(* The type of a field may be gone with that of one before it.             *)
DisableSignature(acc, f) ==
  IF FT(acc.doc, f) = "Sig"
  THEN [doc |-> [acc.doc EXCEPT !.objs[f].ft = "none"], signatures |-> acc.signatures \cup {f}]
  ELSE acc
Signatures(d) ==
  LET known == Analyze(d)
  IN FoldLeft(DisableSignature, [doc |-> known, signatures |-> {}], InOrder(known, FormFields(known)))
DisableDigitalSignatures(d) == RemoveFormFields(Signatures(d).doc, Signatures(d).signatures)
=============================================================================
