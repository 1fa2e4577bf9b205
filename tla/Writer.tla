------------------------------- MODULE Writer -------------------------------
(***************************************************************************)
(* QPDFWriter (libqpdf/QPDFWriter.cc): the settings, what is prepared for  *)
(* writing, and the writing of a file that is not linearized.  A queue     *)
(* holds the objects to be written; an object gets its number when it is   *)
(* first met as a reference, which is often in the middle of the text of   *)
(* another object.  An object that goes into an object stream puts that    *)
(* stream on the queue, and the stream gives numbers to all it will hold.  *)
(* In QDF mode the length of a stream is an object, and its number is set  *)
(* aside with that of the stream.                                          *)
(*                                                                         *)
(* An object is what it refers to.  Left out: text, offsets (Linearizer    *)
(* has them), encryption of data, versions, filters, PCLm and progress.    *)
(***************************************************************************)
EXTENDS Integers, Sequences, FiniteSets

CONSTANTS
  Objs,       \* object ids
  None,       \* no object
  Docs,       \* the documents
  PerStream   \* the most objects in an object stream; 100 in the code

IsDoc(d) ==
  /\ d.table \subseteq Objs                         \* the objects there are, and nulls for
  /\ d.table = 1..Cardinality(d.table)              \*   references to what there is not
  /\ d.refs \in [Objs -> Seq(d.table)]              \* their references, without /Length
  /\ d.trailer \in Seq(d.table) /\ d.trailer # <<>> \* those of the trailer, /Root first
  /\ d.streams \subseteq Objs
  /\ d.xrefs \subseteq d.streams                    \* streams of type /XRef
  /\ d.stored \in [Objs -> Objs \cup {None}]        \* the object stream of each
  /\ \A o \in Objs : d.stored[o] # None => /\ d.stored[d.stored[o]] = None
                                            /\ d.stored[o] \notin d.xrefs
  /\ d.fixed \subseteq Objs                         \* /Encrypt and signatures
  /\ d.pages \in Seq(Objs)
  /\ d.encrypted \in BOOLEAN                        \* the file written is to be

ASSUME ConstantsAssumption ==
  /\ Objs \subseteq Nat \ {0} /\ IsFiniteSet(Objs) /\ None \notin Objs
  /\ PerStream \in Nat \ {0}
  /\ \A d \in Docs : IsDoc(d)

VARIABLES
  doc,      \* the document
  cfg,      \* Config
  phase,
  held,     \* object_stream: the stream each object is to be written in
  num,      \* renumber
  next,     \* next_objid
  queue,    \* object_queue
  front,    \* object_queue_front
  todo,     \* references the writer has yet to enqueue before it writes
  rest,     \* the objects of the object stream being written, yet to come
  now,      \* the object being written
  text,     \* the references written for it
  file      \* what stands in the file under each number

docVars == <<doc, cfg, held>>
numVars == <<num, next, queue>>
outVars == <<rest, now, text, file>>
vars == <<docVars, phase, numVars, front, todo, outVars>>

-----------------------------------------------------------------------------
(* Config's setters.  In the permissive form that a program gets they do   *)
(* not complain of settings that exclude each other.                       *)
DefaultConfig == [linearize |-> FALSE, qdf |-> FALSE, direct |-> TRUE, unref |-> FALSE,
                  compress |-> TRUE, streams |-> "preserve"]

Qdf(c, b) == [c EXCEPT !.qdf = b, !.direct = @ /\ ~b]

Linearize(c, b) == IF c.qdf THEN c ELSE [c EXCEPT !.linearize = b]

Init ==
  /\ doc \in Docs
  /\ cfg = DefaultConfig /\ phase = "config"
  /\ held = [o \in Objs |-> None]
  /\ num = [o \in Objs |-> 0] /\ next = 1
  /\ queue = <<>> /\ front = 0 /\ todo = <<>>
  /\ rest = {} /\ now = None /\ text = <<>> /\ file = << >>

Setting ==
  /\ phase = "config"
  /\ \E b \in BOOLEAN :
       cfg' \in {Qdf(cfg, b), Linearize(cfg, b), [cfg EXCEPT !.unref = b],
                 [cfg EXCEPT !.compress = b]}
                \cup {[cfg EXCEPT !.streams = s] : s \in {"disable", "preserve", "generate"}}
  /\ UNCHANGED <<doc, held, phase, numVars, front, todo, outVars>>

-----------------------------------------------------------------------------
(* compressible(): the walk from the trailer, depth first, that finds the  *)
(* objects in use and those of them that may go into object streams, in    *)
(* order.  Each turn of its loop takes one reference.                      *)
Compressible(o) == o \notin doc.streams \cup doc.fixed

Visit[w \in [stack : Seq(Objs), seen : SUBSET Objs, found : Seq(Objs)]] ==
  IF w.stack = <<>> THEN w
  ELSE LET o == Head(w.stack) IN
       IF o \in w.seen THEN [w EXCEPT !.stack = Tail(@)]
       ELSE [stack |-> doc.refs[o] \o Tail(w.stack), seen |-> w.seen \cup {o},
             found |-> IF Compressible(o) THEN Append(w.found, o) ELSE w.found]

Walk[n \in Nat] ==
  IF n = 0 THEN [stack |-> doc.trailer, seen |-> {}, found |-> <<>>] ELSE Visit[Walk[n - 1]]

Turns ==
  Len(doc.trailer) + Cardinality(UNION {{o} \X DOMAIN doc.refs[o] : o \in doc.table})

Elements(s) == {s[i] : i \in DOMAIN s}
Eligible == Walk[Turns].found

(* preserveObjectStreams: what is not in use stays out of them.            *)
Kept_Any(o, eligible) == TRUE   \* a slip
Kept(o, eligible) == cfg.unref \/ o \in eligible
Preserved[eligible \in SUBSET Objs] ==
  [o \in Objs |-> IF Kept(o, eligible) THEN doc.stored[o] ELSE None]

(* generateObjectStreams: as many as needed, of about the same size; the   *)
(* streams are new null objects.                                           *)
CeilDiv(a, b) == (a + b - 1) \div b
NewObject(i) == Cardinality(doc.table) + i

Spread[eligible \in Seq(Objs)] ==
  LET count == CeilDiv(Len(eligible), PerStream)
      each == CeilDiv(Len(eligible), count)
  IN [o \in Objs |->
        IF \E i \in DOMAIN eligible : eligible[i] = o
        THEN NewObject(CeilDiv(CHOOSE i \in DOMAIN eligible : eligible[i] = o, each))
        ELSE None]

Chosen ==
  CASE cfg.streams = "disable" -> [o \in Objs |-> None]
    [] cfg.streams = "preserve" -> Preserved[Elements(Eligible)]
    [] cfg.streams = "generate" -> Spread[Eligible]

(* doWriteSetup: pages stay out of object streams in linearized files, and *)
(* so does the catalog, there and in encrypted files.                      *)
Root == Head(doc.trailer)
KeptOut ==
  (IF cfg.linearize THEN {doc.pages[i] : i \in DOMAIN doc.pages} ELSE {})
    \cup (IF cfg.linearize \/ doc.encrypted THEN {Root} ELSE {})

Freed[c \in [Objs -> Int \cup {None}]] == [o \in Objs |-> IF o \in KeptOut THEN None ELSE c[o]]
NewStreams[c \in [Objs -> Int \cup {None}]] == {c[o] : o \in Objs} \ {None}

(* A bound: Objs has ids for the new streams, which are in no stream.      *)
HasRoom(h) ==
  /\ h \in [Objs -> Objs \cup {None}]
  /\ \A o \in Objs : h[o] # None => h[h[o]] = None

Sorted(S) ==
  [i \in 1..Cardinality(S) |-> CHOOSE o \in S : Cardinality({p \in S : p < o}) = i - 1]

Setup ==
  /\ phase = "config"
  /\ LET chosen == Chosen IN
       /\ held' = Freed[chosen] /\ HasRoom(held')
       /\ IF cfg.linearize
          THEN cfg' = Qdf(cfg, FALSE) /\ phase' = "parts" /\ UNCHANGED todo
          ELSE /\ phase' = "enqueue" /\ UNCHANGED cfg
               /\ todo' = (IF cfg.unref
                           THEN Sorted(doc.table \cup NewStreams[chosen])
                           ELSE <<>>) \o doc.trailer
  /\ UNCHANGED <<doc, numVars, front, outVars>>

-----------------------------------------------------------------------------
Members(s) == {o \in Objs : held[o] = s}
Rank(o) == Cardinality({p \in Members(held[o]) : p < o})
Skipped(o) == cfg.qdf /\ o \in doc.xrefs
HasLength(o) == ~cfg.direct /\ o \in doc.streams /\ Members(o) = {}

(* A number for an object that is not in an object stream, for the objects *)
(* in it if it is one, and for its length.                                 *)
Renumbered(o, old) ==
  [p \in Objs |-> IF p = o THEN next
                  ELSE IF held[p] = o THEN next + 1 + Rank(p) ELSE old[p]]

Reserved_NoLength(o) == Cardinality(Members(o))   \* a slip
Reserved(o) == Cardinality(Members(o)) + (IF HasLength(o) THEN 1 ELSE 0)

Push(o, old) ==
  /\ queue' = Append(queue, o)
  /\ num' = Renumbered(o, old)
  /\ next' = next + 1 + Reserved(o)

Marked(o) == [num EXCEPT ![o] = -1]   \* met, no number yet

(* enqueue for an indirect object.                                         *)
Enqueue(o) ==
  IF num[o] # 0 \/ Skipped(o) THEN UNCHANGED numVars
  ELSE IF held[o] = None THEN Push(o, num)
  ELSE IF num[held[o]] = 0 THEN Push(held[o], Marked(o))
  ELSE num' = Marked(o) /\ UNCHANGED <<next, queue>>

(* enqueueObjectsStandard.                                                 *)
EnqueueObject ==
  /\ phase = "enqueue" /\ todo # <<>>
  /\ \E o \in Objs : o = Head(todo) /\ Enqueue(o)
  /\ todo' = Tail(todo)
  /\ UNCHANGED <<docVars, phase, front, outVars>>

StartWriting ==
  /\ phase = "enqueue" /\ todo = <<>>
  /\ phase' = "write"
  /\ UNCHANGED <<docVars, numVars, front, todo, outVars>>

-----------------------------------------------------------------------------
(* What is written of an object: a stream in an object stream is null, and *)
(* so is a stream generated.                                               *)
Refs(o) == IF o \notin doc.table \/ (held[o] # None /\ o \in doc.streams) THEN <<>> ELSE doc.refs[o]

First(S) == CHOOSE o \in S : \A p \in S : o <= p
Put(f, n, x) == [m \in DOMAIN f \cup {n} |-> IF m = n THEN x ELSE f[m]]
Current == queue[front]

WriteNext_NotLast ==   \* a slip: the last object of the queue is left
  /\ phase = "write" /\ now = None /\ front + 1 < Len(queue)
  /\ front' = front + 1
  /\ rest' = Members(queue[front + 1])
  /\ now' = IF rest' = {} THEN queue[front + 1] ELSE First(rest')
  /\ text' = <<>>
  /\ UNCHANGED <<docVars, phase, numVars, todo, file>>

(* writeObject takes the next object; writeObjectStream takes the objects  *)
(* in the stream first and the stream last.                                *)
WriteNext ==
  /\ phase = "write" /\ now = None /\ front < Len(queue)
  /\ front' = front + 1
  /\ rest' = Members(queue[front + 1])
  /\ now' = IF rest' = {} THEN queue[front + 1] ELSE First(rest')
  /\ text' = <<>>
  /\ UNCHANGED <<docVars, phase, numVars, todo, file>>

UnparseChild_Before ==   \* a slip: the number is taken before the object is queued
  /\ phase = "write" /\ now # None /\ Len(text) < Len(Refs(now))
  /\ LET child == Refs(now)[Len(text) + 1] IN
       /\ IF cfg.linearize THEN UNCHANGED numVars ELSE Enqueue(child)
       /\ text' = Append(text, num[child])
  /\ UNCHANGED <<docVars, phase, front, todo, rest, now, file>>

(* unparseChild puts the object that is referred to on the queue, unless   *)
(* the file is to be linearized, and writes its number.                    *)
UnparseChild ==
  /\ phase = "write" /\ now # None /\ Len(text) < Len(Refs(now))
  /\ LET child == Refs(now)[Len(text) + 1] IN
       /\ IF cfg.linearize THEN UNCHANGED numVars ELSE Enqueue(child)
       /\ text' = Append(text, num'[child])
  /\ UNCHANGED <<docVars, phase, front, todo, rest, now, file>>

Item == [of |-> now, refs |-> text,
         in |-> IF now = Current THEN 0 ELSE num[Current]]
Length == [of |-> None, refs |-> <<>>, in |-> 0]

CloseObject ==
  /\ phase = "write" /\ now # None /\ Len(text) = Len(Refs(now))
  /\ LET written == Put(file, num[now], Item) IN
       file' = IF HasLength(now) /\ held[now] = None
               THEN Put(written, num[now] + 1, Length) ELSE written
  /\ rest' = rest \ {now}
  /\ now' = IF now = Current THEN None
            ELSE IF rest' = {} THEN Current ELSE First(rest')
  /\ text' = <<>>
  /\ UNCHANGED <<docVars, phase, numVars, front, todo>>

(* The end of writeStandard: the encryption dictionary and the             *)
(* cross-reference stream, if there are object streams, take numbers, and  *)
(* the table is written for all numbers below next_objid.                  *)
AnyHeld == \E o \in Objs : held[o] # None
Specials == (IF doc.encrypted THEN 1 ELSE 0) + (IF AnyHeld THEN 1 ELSE 0)

CloseFile ==
  /\ phase = "write" /\ ~cfg.linearize /\ now = None /\ front = Len(queue)
  /\ next' = next + Specials
  /\ file' = [n \in DOMAIN file \cup next..(next' - 1) |->
                IF n \in DOMAIN file THEN file[n] ELSE Length]
  /\ phase' = "done"
  /\ UNCHANGED <<docVars, num, queue, front, todo, rest, now, text>>

Work ==
  Setup \/ EnqueueObject \/ StartWriting \/ WriteNext \/ UnparseChild \/ CloseObject \/ CloseFile

Next == Setting \/ Work

Spec == Init /\ [][Next]_vars /\ WF_vars(Work)

-----------------------------------------------------------------------------
Numbered == {o \in Objs : num[o] # 0}

(* No two things have one number: not two objects, nor an object and the   *)
(* length of a stream, however the numbers came about; all are used up     *)
(* when the next is given, and no object is left with the mark that it has *)
(* been met.                                                               *)
NumbersUnique ==
  /\ \A o \in Numbered : num[o] \in 1..(next - 1)
  /\ \A o, p \in Numbered : o # p => num[o] # num[p]
  /\ \A o, p \in Numbered : HasLength(o) /\ held[o] = None => num[p] # num[o] + 1

(* What is in use: what the trailer leads to, with the object streams that *)
(* it is to be in and what those extend.                                   *)
Leads(o) == Elements(Refs(o)) \cup ({held[o]} \ {None})
Further[S \in SUBSET Objs] == S \cup UNION {Leads(o) : o \in S}
InUse ==
  LET within[n \in Nat] == IF n = 0 THEN Elements(doc.trailer) ELSE Further[within[n - 1]]
  IN within[Cardinality(Objs)]

(* A file that is finished has something under every number below the size *)
(* of its table; all that is in use is in it, in the object stream it was  *)
(* meant for, and nothing else is, unless it was asked for all there is.   *)
Wanted == InUse \cup (IF cfg.unref /\ ~cfg.linearize THEN doc.table ELSE {})
Complete ==
  phase = "done" =>
    /\ DOMAIN file = 1..(next - 1)
    /\ {o \in Wanted : ~Skipped(o)} \subseteq Numbered
    /\ \A o \in Numbered :
         /\ file[num[o]].of = o
         /\ file[num[o]].in = IF held[o] = None THEN 0 ELSE num[held[o]]
    /\ cfg.unref \/ Numbered \subseteq InUse

(* Whenever objects are met and in whatever order, the file is a copy of   *)
(* the graph of objects.                                                   *)
Copy == INSTANCE GraphCopy WITH
  refs <- [o \in Objs |-> Refs(o)],
  number <- num,
  copy <- [n \in DOMAIN file |-> [of |-> file[n].of, refs |-> file[n].refs]]
ImplementsCopy == Copy!Spec

=============================================================================
