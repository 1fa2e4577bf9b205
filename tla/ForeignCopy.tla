---------------------------- MODULE ForeignCopy ----------------------------
(***************************************************************************)
(* copyForeignObject (libqpdf/QPDF.cc): copying objects of one document,   *)
(* with everything they refer to, into another.  A first pass reserves an  *)
(* object here for each object there, a second one fills them in, so that  *)
(* references may go round in circles; pages stop the first pass, unless   *)
(* a page is what was asked for.                                           *)
(*                                                                         *)
(* The copy of foreign object o is named o; its contents are the objects   *)
(* whose copies it refers to.  The refs of an object are the indirect      *)
(* objects that its direct contents mention; they are visited in any       *)
(* order.  Left out: scalars, the data of streams, direct objects.         *)
(***************************************************************************)
EXTENDS Naturals, FiniteSets

CONSTANTS
  Objs,     \* the objects of the foreign document
  Nobody,   \* no object
  Graphs    \* the documents: kind and refs of every object

Kinds == {"plain", "page", "pages", "reserved"}

ASSUME ConstantsAssumption ==
  /\ IsFiniteSet(Objs) /\ Nobody \notin Objs
  /\ Graphs \subseteq [kind : [Objs -> Kinds], refs : [Objs -> SUBSET Objs]]

VARIABLES
  g,        \* the foreign document
  mapped,   \* object_map: the objects that have a copy
  filled,   \* those whose copy is no longer a reservation
  body,     \* the contents of the copies
  ask,      \* the object that the call in progress copies, or Nobody
  todo,     \* the objects reserve_objects has yet to visit
  toCopy,   \* to_copy
  stuck,    \* visiting was left non-empty by an exception
  asked     \* the objects that calls have copied

vars == <<g, mapped, filled, body, ask, todo, toCopy, stuck, asked>>

Init ==
  /\ g \in Graphs
  /\ mapped = {} /\ filled = {} /\ body = [o \in Objs |-> {}]
  /\ ask = Nobody /\ todo = {} /\ toCopy = {}
  /\ stuck = FALSE /\ asked = {}

Is(o, k) == g.kind[o] = k

-----------------------------------------------------------------------------
(* A call visits the object itself first.  A page that earlier calls met   *)
(* as a reference, and left null, is copied now.                           *)
Again_Never(o) == o \notin mapped   \* slip: what is mapped stays as it is
Again(o) == o \notin mapped \/ (Is(o, "page") /\ o \notin filled)

CopyForeignObject(o) ==
  /\ ask = Nobody /\ ~stuck /\ ~Is(o, "reserved")
  /\ ask' = o
  /\ IF ~Is(o, "pages") /\ Again(o)
     THEN /\ mapped' = mapped \cup {o}
          /\ toCopy' = toCopy \cup {o}
          /\ todo' = g.refs[o]
     ELSE todo' = {} /\ UNCHANGED <<mapped, toCopy>>
  /\ UNCHANGED <<g, filled, body, stuck, asked>>

(* reserve_objects for an object that is not the one asked for.            *)
Stops_NotMapped(o) == Is(o, "pages") \/ Is(o, "page")   \* slip: no loop check
Stops(o) == Is(o, "pages") \/ o \in mapped \/ Is(o, "page")

Reserve(o) ==
  /\ ask # Nobody /\ o \in todo /\ ~Is(o, "reserved")
  /\ mapped' = IF Is(o, "pages") THEN mapped ELSE mapped \cup {o}
  /\ IF Stops(o) THEN todo' = todo \ {o} /\ UNCHANGED toCopy
     ELSE todo' = (todo \ {o}) \cup g.refs[o] /\ toCopy' = toCopy \cup {o}
  /\ UNCHANGED <<g, filled, body, ask, stuck, asked>>

(* A foreign object that is reserved cannot be copied.  The objects under  *)
(* way stay in visiting, and every later call refuses to start like that.  *)
Stuck == TRUE
Fail(o) ==
  /\ ask # Nobody /\ o \in todo /\ Is(o, "reserved")
  /\ ask' = Nobody /\ todo' = {} /\ stuck' = Stuck
  /\ UNCHANGED <<g, mapped, filled, body, toCopy, asked>>

(* replace_indirect_object and replaceReserved: what is not mapped, which  *)
(* a /Pages object is not, becomes null.                                   *)
Known_Filled(o) == g.refs[o] \cap filled   \* slip: reservations are lost
Known(o) == g.refs[o] \cap mapped

Replace(o) ==
  /\ ask # Nobody /\ todo = {} /\ o \in toCopy
  /\ body' = [body EXCEPT ![o] = Known(o)]
  /\ filled' = filled \cup {o}
  /\ toCopy' = toCopy \ {o}
  /\ UNCHANGED <<g, mapped, ask, todo, stuck, asked>>

Return ==
  /\ ask # Nobody /\ todo = {} /\ toCopy = {}
  /\ ask' = Nobody
  /\ asked' = asked \cup {ask}
  /\ UNCHANGED <<g, mapped, filled, body, todo, toCopy, stuck>>

Work == Return \/ \E o \in Objs : Reserve(o) \/ Fail(o) \/ Replace(o)
Next == Work \/ \E o \in Objs : CopyForeignObject(o)

Spec == Init /\ [][Next]_vars /\ WF_vars(Work)

-----------------------------------------------------------------------------
TypeOK ==
  /\ g \in Graphs
  /\ mapped \subseteq Objs /\ filled \subseteq mapped
  /\ body \in [Objs -> SUBSET Objs]
  /\ ask \in Objs \cup {Nobody}
  /\ todo \subseteq Objs /\ toCopy \subseteq mapped
  /\ stuck \in BOOLEAN /\ asked \subseteq Objs

(* A copy that has been filled in refers to the copies of all that the     *)
(* object refers to, except /Pages objects.                                *)
Faithful ==
  \A o \in filled : body[o] = {r \in g.refs[o] : ~Is(r, "pages")}

(* Between calls nothing but a page is reserved and not filled in, unless  *)
(* a call failed.                                                          *)
NothingLeftReserved ==
  ask = Nobody /\ ~stuck =>
    toCopy = {} /\ \A o \in mapped \ filled : Is(o, "page")

(* Pages are copied when they are asked for, never as a by-product: the    *)
(* page tree of the other document does not come along with a page.        *)
PagesOnDemand ==
  \A o \in filled : Is(o, "page") => o \in asked \cup {ask}

(* What has been copied so far is right and no more than was asked for.    *)
CopiesRight == Faithful /\ NothingLeftReserved /\ PagesOnDemand

(* What object a needs: all that can be reached from it without going      *)
(* through another page or a /Pages object.                                *)
Needs(a) ==
  LET R[n \in Nat] ==
        IF n = 0 THEN {a}
        ELSE R[n - 1] \cup UNION {g.refs[x] : x \in
               {y \in R[n - 1] : ~Is(y, "pages") /\ (Is(y, "page") => y = a)}}
  IN R[Cardinality(Objs)]

(* A call that returns has copied the object asked for and everything that *)
(* it needs, up to the pages.                                              *)
Complete ==
  \A a \in asked : \A o \in Needs(a) :
    ~Is(o, "pages") /\ ~Is(a, "pages") =>
      o \in mapped /\ (o \in filled \/ (Is(o, "page") /\ o # a))

(* An object has one copy, which is filled in once.                        *)
CopiesStay ==
  [][/\ mapped \subseteq mapped' /\ filled \subseteq filled'
     /\ \A o \in filled : body'[o] = body[o] /\ o \notin toCopy']_vars

(* Every call ends, however the references go round.                       *)
CallsEnd == ask # Nobody ~> ask = Nobody
=============================================================================
