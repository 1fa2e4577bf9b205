------------------------------ MODULE FormPages ----------------------------
(***************************************************************************)
(* Pages with form fields that are copied, within a document and from the  *)
(* other one (AcroForm::transformAnnotations and its callers in            *)
(* libqpdf/QPDFPageObjectHelper.cc), and the selection of pages by a job   *)
(* (QPDFJob::handlePageSpecs in libqpdf/QPDFJob.cc).                       *)
(*                                                                         *)
(* A copy of annotations is made with the fields they are of, from the top *)
(* level down, and every object is copied once in one transformation.      *)
(***************************************************************************)
EXTENDS AcroForm

CONSTANTS
  NewNames,    \* names that programs give to fields
  Selections,  \* what jobs select: sequences of <<document, page>>
  MaxCalls     \* bound on calls

VARIABLES
  src,    \* the other document, as AcroForm has it from the start
  past,   \* what programs have done
  calls,  \* how many calls they have made
  job     \* what a job has left to do, and what it has done

vars == <<doc, src, past, calls, job>>

-----------------------------------------------------------------------------
(* Copies.                                                                 *)
NewArray(d, items) == [d EXCEPT !.arr = Append(@, items)]
\* Slip: the copy has the array of the original.
ShallowCopy_Shared(d, i) == [d EXCEPT !.objs = Append(@, Node(d, i))]
(* A dictionary as it is, with an array of its own if the array is in it.  *)
ShallowCopy(d, i) ==
  LET node == Node(d, i)
      with == IF HasKids(d, i) /\ node.direct THEN NewArray(d, Kids(d, i)) ELSE d
  IN [with EXCEPT !.objs = Append(@, [node EXCEPT !.Kids = IF with = d THEN @ ELSE Len(with.arr)])]
MaybeCopyObject(t, i) ==
  IF i \in DOMAIN t.copy THEN t
  ELSE LET d == ShallowCopy(t.doc, i) IN [t EXCEPT !.doc = d, !.copy = (i :> Len(d.objs)) @@ @]

(* What copyForeignObject brings along: all that can be reached.           *)
RECURSIVE Closure(_, _)
Closure(d, S) ==
  LET next == (S \cup UNION {ToSet(Kids(d, i)) \cup {Parent(d, i)} : i \in S}) \ {None}
  IN IF next = S THEN S ELSE Closure(d, next)
Local(d, i) == IF i = None THEN None ELSE d.copies[i]
PlaceCopy(d, i) ==
  LET kids == [n \in DOMAIN Kids(src, i) |-> Local(d, Kids(src, i)[n])]
      with == IF HasKids(src, i) THEN NewArray(d, kids) ELSE d
  IN [with EXCEPT !.objs = Append(@, [Node(src, i) EXCEPT !.Parent = Local(d, @), !.Kids = IF @ = None THEN None ELSE Len(with.arr)])]
CopyForeignObject(d, i) ==
  LET place(new) ==
        LET number(k) == Len(d.objs) + CHOOSE n \in DOMAIN new : new[n] = k
        IN FoldLeft(PlaceCopy, [d EXCEPT !.copies = [k \in ToSet(new) |-> number(k)] @@ @], new)
  IN place(InOrder(src, Closure(src, {i}) \ DOMAIN d.copies))

-----------------------------------------------------------------------------
(* transformAnnotations, with what it has so far: the document, copy       *)
(* (orig_to_copy), and new_annots, new_fields and old_fields.              *)

(* The copy of a field, and those of its kids in its /Kids: also of a kid  *)
(* that was copied before, as maybe_copy_object assigns to its argument,   *)
(* which is the element of the array.                                      *)
RelinkField(t, f) ==
  LET parent == Parent(t.doc, f)
      linked == IF parent \in DOMAIN t.copy THEN [t EXCEPT !.doc.objs[f].Parent = t.copy[parent]] ELSE t
      copied == FoldLeft(MaybeCopyObject, linked, Kids(t.doc, f))
      mine == [n \in DOMAIN Kids(t.doc, f) |-> copied.copy[Kids(t.doc, f)[n]]]
  IN IF HasKids(t.doc, f) THEN [copied EXCEPT !.doc.arr[Node(t.doc, f).Kids] = mine] ELSE linked

RECURSIVE CopyField(_, _, _)
CopyField(t, queue, seen) ==
  IF queue = <<>> THEN t
  ELSE IF Head(queue) \in seen THEN CopyField(t, Tail(queue), seen)
  ELSE LET u == RelinkField(t, Head(queue))
           new == SelectSeq(Kids(u.doc, Head(queue)), LAMBDA k : k > Len(t.doc.objs))
       IN CopyField(u, Tail(queue) \o new, seen \cup {Head(queue)})

(* What is in the other document is first copied as it is.                 *)
From(t, foreign) == IF foreign THEN src ELSE t.doc
Here(t, foreign, i) == IF foreign THEN t.doc.copies[i] ELSE i
Bring(t, foreign, i) == IF foreign THEN [t EXCEPT !.doc = CopyForeignObject(@, i)] ELSE t

CopyTree(t, top) ==
  LET own == MaybeCopyObject(t, top)
  IN IF top \in DOMAIN t.copy THEN t ELSE CopyField(own, <<own.copy[top]>>, {})
WithTree(t, top, field) ==
  LET whole == MaybeCopyObject(CopyTree(t, top), field)
      new == whole.copy[top]
  IN [whole EXCEPT !.newFields = IF new \in ToSet(@) THEN @ ELSE Append(@, new)]
TransformField(t, foreign, field) ==
  LET top == TopLevel(From(t, foreign), field)
      old == IF foreign THEN t ELSE [t EXCEPT !.oldFields = @ \cup {top}]
      copied(u) == WithTree(u, Here(u, foreign, top), Here(u, foreign, field))
  IN IF field = None THEN t ELSE copied(Bring(Bring(old, foreign, top), foreign, field))
CopyAnnotation(t, foreign, a) ==
  LET own == MaybeCopyObject(t, Here(t, foreign, a))
  IN [own EXCEPT !.newAnnots = Append(@, own.copy[Here(t, foreign, a)])]
TransformAnnotation(t, foreign, a) ==
  CopyAnnotation(Bring(TransformField(t, foreign, FieldFor(From(t, foreign), a)), foreign, a), foreign, a)
TransformAnnotations(d, foreign, annots) ==
  FoldLeft(LAMBDA t, a : TransformAnnotation(t, foreign, a),
           [doc |-> d, copy |-> NoMap, newAnnots |-> <<>>, newFields |-> <<>>, oldFields |-> {}],
           annots)

(* fixCopiedAnnotations, copyAnnotations, flattenRotation.                 *)
FixCopiedAnnotations(d, foreign, to, annots) ==
  LET fixed(t) == [doc |-> AddAndRenameFormFields([t.doc EXCEPT !.annots[to] = t.newAnnots], t.newFields),
                   newFields |-> ToSet(t.newFields)]
  IN IF annots = <<>> THEN [doc |-> d, newFields |-> {}] ELSE fixed(TransformAnnotations(d, foreign, annots))
CopyAnnotations(d, foreign, to, annots) ==
  LET added(t) == [AddAndRenameFormFields(t.doc, t.newFields) EXCEPT !.annots[to] = @ \o t.newAnnots]
  IN added(TransformAnnotations(d, foreign, annots))
FlattenRotation(d, p) ==
  LET replaced(t) == FoldLeft(AddFormField, RemoveFormFields(t.doc, t.oldFields), t.newFields)
      flattened(t) == [doc |-> [replaced(t) EXCEPT !.annots[p] = t.newAnnots], oldFields |-> t.oldFields]
  IN flattened(TransformAnnotations(d, FALSE, d.annots[p]))

NewPage(d, annots) == [d EXCEPT !.annots = Append(@, annots), !.pages = Append(@, Len(d.annots) + 1)]

-----------------------------------------------------------------------------
(* Programs.  past is what they have done that bears on the properties:    *)
(* renamed, the fields that have got a name since the last analysis;       *)
(* removed, those that removeFormFields was called for, by flattenRotation *)
(* only if the field has widgets on other pages; sound, whether the        *)
(* document was; and the last call, with the pages that annotations came   *)
(* from and went to.                                                       *)
Fields(d) == ToSet(d.fields)
Call(d, call) == /\ calls < MaxCalls /\ calls' = calls + 1
                 /\ doc' = d /\ past' = call @@ past /\ UNCHANGED src
Copying(name, foreign, from, to) == [name |-> name, foreign |-> foreign, from |-> from, to |-> to]
Other(name) == Copying(name, FALSE, None, None)

(* A field of its own that is its widget, on a page.                       *)
WithField(p, n) ==
  [doc EXCEPT !.objs = Append(@, [T |-> <<n>>, ft |-> "Tx", Widget |-> TRUE, Kids |-> None, direct |-> TRUE, Parent |-> None]),
              !.annots[p] = Append(@, Len(doc.objs) + 1)]
AddField(p, n) == Call(AddFormField(WithField(p, n), Len(doc.objs) + 1), [call |-> Other("add")])
AddRenamed(p, n) == Call(AddAndRenameFormFields(WithField(p, n), <<Len(doc.objs) + 1>>), [call |-> Other("rename")])
RemoveField(f) == Call(RemoveFormFields(doc, {f}), [call |-> Other("remove"), removed |-> past.removed \cup {f}])
SetName(f, n) == Call(SetFormFieldName(doc, f, <<n>>), [call |-> Other("set"), renamed |-> past.renamed \cup {f}])
Refresh == Call(Validate(doc), [call |-> Other("validate"), renamed |-> {}])
DisableSignatures ==
  Call(DisableDigitalSignatures(doc), [call |-> Other("disable"), removed |-> past.removed \cup Signatures(doc).signatures])

CopyPage(p) ==
  \E d \in {NewPage(doc, doc.annots[p])} :
    Call(FixCopiedAnnotations(d, FALSE, Len(d.annots), doc.annots[p]).doc,
         [call |-> Copying("copy", FALSE, p, Len(d.annots))])
Imported(d, q) ==
  LET page(e) == NewPage(e, [k \in DOMAIN src.annots[q] |-> e.copies[src.annots[q][k]]])
  IN page(FoldLeft(CopyForeignObject, d, src.annots[q]))
ImportPage(q) ==
  \E d \in {Imported(doc, q)} :
    Call(FixCopiedAnnotations(d, TRUE, Len(d.annots), src.annots[q]).doc,
         [call |-> Copying("copy", TRUE, q, Len(d.annots))])
Overlay(p, foreign, q) ==
  Call(CopyAnnotations(doc, foreign, p, IF foreign THEN src.annots[q] ELSE doc.annots[q]),
       [call |-> Copying("overlay", foreign, q, p)])
Flatten(p) ==
  LET elsewhere == UNION {ToSet(WidgetsOf(doc, q)) : q \in ToSet(doc.pages) \ {p}}
  IN \E f \in {FlattenRotation(doc, p)} :
       Call(f.doc, [call |-> Copying("flatten", FALSE, p, p),
                    removed |-> past.removed \cup {t \in f.oldFields : \E a \in elsewhere : TopLevel(doc, a) = t}])

Program ==
  \/ \E p \in ToSet(doc.pages), n \in NewNames : AddField(p, n) \/ AddRenamed(p, n)
  \/ \E f \in Fields(doc) : RemoveField(f)
  \/ \E f \in Fields(doc), n \in NewNames : SetName(f, n)
  \/ Refresh \/ DisableSignatures
  \/ \E p \in ToSet(doc.pages) : CopyPage(p) \/ Flatten(p)
  \/ \E q \in ToSet(src.pages) : ImportPage(q)
  \/ \E p, q \in ToSet(doc.pages) : Overlay(p, FALSE, q)
  \/ \E p \in ToSet(doc.pages), q \in ToSet(src.pages) : Overlay(p, TRUE, q)

-----------------------------------------------------------------------------
(* A job: the pages are taken out, before the form is looked at, and the   *)
(* selected ones put in one by one; the first time a page of the document  *)
(* is used it is that page.                                                *)
NoJob == [phase |-> "none", todo |-> <<>>, pages |-> {}, copied |-> {}, referenced |-> {}]

SelectPage ==
  LET foreign == Head(job.todo)[1] = "source"
      page == Head(job.todo)[2]
      first == ~foreign /\ page \notin job.copied
      put == IF foreign THEN Imported(doc, page)
             ELSE IF first THEN [doc EXCEPT !.pages = Append(@, page)] ELSE NewPage(doc, doc.annots[page])
      fixed(d) == IF first THEN [doc |-> d, newFields |-> {}]
                  ELSE FixCopiedAnnotations(d, foreign, Last(d.pages), IF foreign THEN src.annots[page] ELSE doc.annots[page])
  IN /\ job.phase = "adding" /\ job.todo # <<>>
     /\ \E done \in {fixed(put)} :
          /\ doc' = done.doc
          /\ job' = [job EXCEPT !.todo = Tail(@), !.copied = IF foreign THEN @ ELSE @ \cup {page},
                                !.referenced = @ \cup done.newFields]
          /\ past' = [past EXCEPT !.call = IF first THEN Other("put") ELSE Copying("copy", foreign, page, Last(done.doc.pages))]
     /\ UNCHANGED <<src, calls>>

FinishSelection ==
  LET kept == job.pages \cap job.copied
      referenced == job.referenced \cup UNION {FormFieldsForPage(doc, p) : p \in kept}
      fields == SelectSeq(doc.fields, LAMBDA f : f \in referenced)
  IN /\ job.phase = "adding" /\ job.todo = <<>>
     /\ doc' = [doc EXCEPT !.fields = fields, !.form = fields # <<>>]
     /\ job' = [job EXCEPT !.phase = "done"]
     /\ past' = [past EXCEPT !.call = Other("finish")]
     /\ UNCHANGED <<src, calls>>

-----------------------------------------------------------------------------
(* What a form is, whatever qpdf has in its cache.                         *)
RECURSIVE Down(_, _)
Down(d, S) == LET next == S \cup UNION {ToSet(Kids(d, i)) : i \in S} IN IF next = S THEN S ELSE Down(d, next)
Reached(d) == Down(d, Fields(d))
Widgets(d) == UNION {ToSet(WidgetsOf(d, p)) : p \in ToSet(d.pages)}
(* Trees of fields and annotations, not too deep, with parents and kids    *)
(* that agree, whose arrays of kids are their own.                         *)
TreesAreSound(d) ==
  LET reached == Reached(d)
  IN /\ \A f \in Fields(d) : Parent(d, f) = None
     /\ \A i \in reached :
          /\ ToSet(Kids(d, i)) = {k \in reached : Parent(d, k) = i}
          /\ IsInjective(Kids(d, i)) /\ (HasKids(d, i) => Node(d, i).direct)
          /\ (IsField(d, i) \/ IsAnnotation(d, i)) /\ Len(LineOf(d, i)) <= MaxDepth + 1

Init ==
  /\ src = Validate(Source) /\ calls = 0
  /\ \E d \in Documents, selection \in Selections \cup {<<>>} :
       /\ \A k \in DOMAIN selection : selection[k][2] \in ToSet(IF selection[k][1] = "main" THEN d.pages ELSE src.pages)
       /\ doc = Validate(IF selection = <<>> THEN d ELSE [d EXCEPT !.pages = <<>>])
       /\ job = IF selection = <<>> THEN NoJob
                ELSE [NoJob EXCEPT !.phase = "adding", !.todo = selection, !.pages = ToSet(d.pages)]
       /\ past = [renamed |-> {}, removed |-> {}, call |-> Other("open"),
                  sound |-> TreesAreSound(d) /\ Widgets(d) \subseteq Reached(d)]
Next == (job.phase = "none" /\ Program /\ UNCHANGED job) \/ SelectPage \/ FinishSelection
Spec == Init /\ [][Next]_vars

-----------------------------------------------------------------------------
(* Properties, for documents whose forms are sound when they are opened.   *)

(* The maps from annotations to fields and back, and from names, agree     *)
(* with each other always; and on all that is in the form, they are what   *)
(* an analysis would find now: neither adding, copying, removing nor       *)
(* disabling leaves the cache behind the document.  This is not so of the  *)
(* names of fields that have been given one, nor of what is still there of *)
(* fields that have been removed (see README).                             *)
CacheAgrees ==
  LET c == doc.cache
      now == Validate(doc).cache
      form == Reached(doc) \ Down(doc, past.removed)
      shown(cache) == {<<a, cache.of[a]>> : a \in form \cap DOMAIN cache.of}
      names(cache) == {n \in cache.byName : n[2] \in form \ Down(doc, past.renamed)}
  IN /\ \A a \in DOMAIN c.of : a \in ToSet(DataOf(doc, c.of[a]).annotations)
     /\ \A f \in DOMAIN c.data : \A a \in ToSet(c.data[f].annotations) : a \in DOMAIN c.of /\ c.of[a] = f
     /\ \A f \in DOMAIN c.data : c.data[f].name # <<>> => <<c.data[f].name, f>> \in c.byName
     /\ past.sound => shown(c) = shown(now) /\ names(c) = names(now)

(* A form stays sound; the annotations of a page are on no other; every    *)
(* widget is below a field of the form, unless fields have been removed;   *)
(* and after a selection the form has the fields with widgets on the pages *)
(* that were selected, and no others.                                      *)
FormsStaySound ==
  past.sound =>
    /\ TreesAreSound(doc)
    /\ \A p, q \in ToSet(doc.pages) : p # q => ToSet(doc.annots[p]) \cap ToSet(doc.annots[q]) = {}
    /\ past.removed = {} => \A a \in Widgets(doc) : TopLevel(doc, a) \in Fields(doc)
    /\ job.phase = "done" => Fields(doc) = {TopLevel(doc, a) : a \in Widgets(doc)}

(* Fields that come with a copy, or are added to be renamed, get names that*)
(* no field of the form had, where a program has not given a name since    *)
(* the last analysis.                                                      *)
NamesOf(d, S) == {FullName(d, f) : f \in {g \in S : Node(d, g).T # <<>>}}
NamesApart ==
  [][LET new == Reached(doc)' \ Reached(doc)
     IN past.sound /\ past.renamed = {} /\ past'.call.name \in {"copy", "overlay", "rename"} =>
          NamesOf(doc', new) \cap NamesOf(doc, Reached(doc)) = {}]_vars

(* Copies of annotations are new objects, in trees of new fields like the  *)
(* original ones, of the same place in them, and together in one where     *)
(* those were; all that was in the document before stays as it is, and the *)
(* fields copied are in the form.                                          *)
RECURSIVE Shape(_, _)
Shape(d, i) == [ft |-> Node(d, i).ft, Widget |-> Node(d, i).Widget, unnamed |-> Node(d, i).T = <<>>,
                kids |-> [k \in DOMAIN Kids(d, i) |-> Shape(d, Kids(d, i)[k])]]
RECURSIVE Place(_, _)
Place(d, i) ==
  LET above == Parent(d, i)
  IN IF above = None THEN <<>> ELSE Place(d, above) \o <<{k \in DOMAIN Kids(d, above) : Kids(d, above)[k] = i}>>
Likeness(d, annots) ==
  [k \in DOMAIN annots |->
     <<Shape(d, TopLevel(d, annots[k])), Place(d, annots[k]),
       {n \in DOMAIN annots : TopLevel(d, annots[n]) = TopLevel(d, annots[k])}>>]
CopiesAlike ==
  [][LET call == past'.call
         from == IF call.foreign THEN src ELSE doc
         old == from.annots[call.from]
         all == doc'.annots[call.to]
         new == SubSeq(all, Len(all) - Len(old) + 1, Len(all))
         tops == {TopLevel(doc', a) : a \in ToSet(new)}
         inForm == \A a \in ToSet(old) : Node(from, a).Widget => TopLevel(from, a) \in Fields(from)
     IN past.sound /\ call.from # None /\ inForm =>
          /\ Likeness(doc', new) = Likeness(from, old)
          /\ Down(doc', tops) \cap DOMAIN doc.objs = {}
          /\ IsPrefix(doc.objs, doc'.objs) /\ IsPrefix(doc.arr, doc'.arr)
          /\ {t \in tops : \E a \in ToSet(new) : Node(doc', a).Widget /\ TopLevel(doc', a) = t} \subseteq Fields(doc')]_vars
=============================================================================
