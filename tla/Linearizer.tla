----------------------------- MODULE Linearizer -----------------------------
(***************************************************************************)
(* QPDFWriter's writeLinearized (libqpdf/QPDFWriter.cc), on top of Writer.  *)
(* The objects are put into parts, numbered so that those needed for the   *)
(* first page come last, and the file is written twice: the first pass     *)
(* finds out where everything comes to stand, the second writes it, with   *)
(* the tables of offsets before what they point to.  Numbers that are not  *)
(* known in the first pass get room to grow.                               *)
(*                                                                         *)
(* Sizes and offsets are real ones, in bytes; the size of an object is     *)
(* given, for it is the same in both passes.                               *)
(***************************************************************************)
EXTENDS Writer

CONSTANTS Hints   \* the lengths a hint stream may have

IsLinearizable(d) ==
  /\ d.parent \in [Objs -> Objs \cup {None}] /\ d.thumb \in [Objs -> Objs \cup {None}]
  /\ d.keys \in [{"pages", "outlines", "open", "names"} -> SUBSET Objs]
  /\ d.info \subseteq Objs /\ d.encrypt \subseteq Objs
  /\ d.outlines \in Objs \cup {None} /\ d.useOutlines \in BOOLEAN
  /\ d.size \in [Objs -> Nat \ {0}]

ASSUME LinearizerAssumption ==
  /\ Hints \subseteq Nat \ {0}
  /\ \A d \in Docs : IsLinearizable(d)

VARIABLES
  users,    \* obj_user_to_objects
  plan,     \* the parts and what the hint tables say of them
  order,    \* the objects in the order of their numbers
  pass1,    \* what the first pass found
  tables,   \* the offsets written in the second pass
  again     \* the plan made from the finished file

linVars == <<users, plan, order, pass1, tables, again>>
allVars == <<vars, linVars>>

L == INSTANCE Linearization WITH d <- doc, h <- held

(* What has a number and is no object of the document.                     *)
LinDict == -1
FirstXref == -2
SecondXref == -3
Encryption == -4
Hint == -5

-----------------------------------------------------------------------------
(* optimize and parts; a document that does not fit the pattern is an      *)
(* error.                                                                  *)
Optimize ==
  /\ phase = "parts" /\ users = None
  /\ users' = L!Used
  /\ UNCHANGED <<vars, plan, order, pass1, tables, again>>

PlanParts ==
  /\ phase = "parts" /\ users # None
  /\ plan' = L!Plan(users)
  /\ phase' = IF plan'.ok THEN "number" ELSE "failed"
  /\ UNCHANGED <<docVars, numVars, front, todo, outVars, users, order, pass1, tables, again>>

OneIf(b, x) == IF b THEN <<x>> ELSE <<>>
InStreams(s) == L!Joined([i \in DOMAIN s |-> Sorted(Members(s[i]))], Len(s))

FirstHalf == plan.parts.p4 \o plan.parts.p6
SecondHalf == plan.parts.p7 \o plan.parts.p8 \o plan.parts.p9

NumberOrder ==
  SecondHalf \o OneIf(AnyHeld, SecondXref) \o InStreams(SecondHalf)
    \o <<LinDict>> \o OneIf(AnyHeld, FirstXref)
    \o plan.parts.p4 \o OneIf(doc.encrypted, Encryption) \o <<Hint>> \o plan.parts.p6
    \o InStreams(FirstHalf)

IdOf(x, s) == IF \E i \in DOMAIN s : s[i] = x THEN CHOOSE i \in DOMAIN s : s[i] = x ELSE 0
Id(x) == IdOf(x, order)

(* Each part is put on the queue, and has to take as many numbers as it    *)
(* has objects.                                                            *)
Parts == FirstHalf \o SecondHalf

Number ==
  /\ phase = "number"
  /\ IF \E i \in DOMAIN Parts : HasLength(Parts[i])
     THEN phase' = "failed" /\ UNCHANGED <<numVars, order>>
     ELSE /\ phase' = "measure"
          /\ order' = NumberOrder
          /\ num' = [o \in Objs |-> IdOf(o, order')]
          /\ next' = Len(order') + 1
          /\ queue' = Parts
  /\ UNCHANGED <<docVars, front, todo, outVars, users, plan, pass1, tables, again>>

-----------------------------------------------------------------------------
(* Sizes.                                                                  *)
BytesNeeded[n \in Nat] == IF n = 0 THEN 0 ELSE 1 + BytesNeeded[n \div 256]
Digits[n \in Nat] == IF n = 0 THEN 0 ELSE 1 + Digits[n \div 10]
Larger(a, b) == IF a > b THEN a ELSE b

Header == 15
FirstXrefAt == Header + 200 + 1
Lasting == 30             \* startxref and what follows

TableSize(n) == 120 + 20 * n
StreamSize(bytes) == 150 + Digits[bytes] + bytes
FieldSize(max) == Larger(BytesNeeded[max], BytesNeeded[Len(order)])

(* A row has a byte for the type, the offset and a byte for the index; to  *)
(* be compressed it gets another one.                                      *)
Rows(n, max) == n * (1 + FieldSize(max) + 1 + (IF cfg.compress THEN 1 ELSE 0))
Deflated(n) == {20, n + 6 + 5 * CeilDiv(n, 16384)}
DataSizes(n, max) == IF cfg.compress THEN Deflated(Rows(n, max)) ELSE {Rows(n, max)}

(* calculateXrefStreamPadding.                                             *)
Padding(bytes) == 16 + 5 * CeilDiv(bytes, 16384)

Flow ==
  plan.parts.p4 \o OneIf(doc.encrypted, Encryption) \o <<Hint>> \o plan.parts.p6 \o SecondHalf

SizeIn(x, hint) == CASE x = Hint -> hint [] x = Encryption -> 200 [] OTHER -> doc.size[x]

(* Where things are: the parts begin at start.                             *)
Ends0(start, hint) ==
  LET flow == Flow
      end[i \in 0..Len(flow)] == IF i = 0 THEN start ELSE end[i - 1] + SizeIn(flow[i], hint)
  IN [i \in 0..Len(flow) |-> end[i]]

Starts(ends) == [x \in {Flow[i] : i \in DOMAIN Flow} |-> ends[IdOf(x, Flow) - 1]]
End(ends, x) == ends[IdOf(x, Flow)]
LastOf(s) == s[Len(s)]
Finish(ends) == ends[Len(Flow)]

FirstCount == Len(order) - Id(LinDict) + 1
SecondCount == Id(LinDict)                     \* with the free entry 0

(* The first pass.  The first table is written without offsets, with four  *)
(* bytes for each, and padded; so is the second if it is a stream.         *)
Measure ==
  /\ phase = "measure"
  /\ LET xref1 == StreamSize(Rows(FirstCount, 2 ^ 25))
         start == FirstXrefAt + (IF AnyHeld THEN xref1 + Padding(xref1) + 1
                                 ELSE TableSize(FirstCount))
         ends == Ends0(start, 0)
         second == Finish(ends)
         xref2 == StreamSize(Rows(SecondCount, second))
     IN \E hint \in Hints :
          pass1' = [start |-> start, at |-> Starts(ends), second |-> second,
                    end6 |-> End(ends, LastOf(plan.parts.p6)), hint |-> hint,
                    secondEnd |-> second + (IF AnyHeld THEN xref2 + Padding(xref2) + 1
                                            ELSE TableSize(SecondCount))]
  /\ phase' = "tables"
  /\ UNCHANGED <<docVars, numVars, front, todo, outVars, users, plan, order, tables, again>>

(* writeXRefTable and writeXRefStream: offsets behind the hint stream have *)
(* moved; a field keeps the low bytes of what is written.                  *)
Moved_Behind(x) ==   \* a slip: what stands where the hint stream comes stays
  LET at == pass1.at[x] IN IF x # Hint /\ at > pass1.at[Hint] THEN at + pass1.hint ELSE at

Moved(x) ==
  LET at == pass1.at[x] IN
  IF x # Hint /\ at >= pass1.at[Hint] THEN at + pass1.hint ELSE at
Stored[bytes \in Nat] ==
  IF bytes = 0 THEN [n \in Nat |-> 0]
  ELSE [n \in Nat |-> 256 * Stored[bytes - 1][n \div 256] + (n % 256)]
InTable(n, max) == IF AnyHeld THEN Stored[FieldSize(max)][n] ELSE n

FirstThings == {x \in DOMAIN pass1.at : Id(x) > Id(LinDict)}

(* The second pass, up to part 4: the dictionary with the offsets, and the *)
(* first table, which has to fit.                                          *)
WriteFirstTable ==
  /\ phase = "tables"
  /\ LET max == pass1.at[LastOf(plan.parts.p6)] + pass1.hint IN
     /\ tables' =
          [length |-> pass1.secondEnd + Lasting + pass1.hint,
           hintAt |-> pass1.at[Hint], hint |-> pass1.hint,
           page |-> num[doc.pages[1]],
           end6 |-> pass1.end6 + pass1.hint,
           second |-> pass1.second + pass1.hint,
           at |-> [x \in FirstThings |-> InTable(Moved(x), max)]]
     /\ \E bytes \in IF AnyHeld THEN DataSizes(FirstCount, max) ELSE {0} :
          phase' = IF AnyHeld /\ FirstXrefAt + StreamSize(bytes) + 1 > pass1.start
                   THEN "failed" ELSE "write"
  /\ UNCHANGED <<docVars, numVars, front, todo, outVars, users, plan, order, pass1, again>>

(* The second table; the numbers of tables, hints and dictionaries are     *)
(* taken too.                                                              *)
Now == Ends0(pass1.start, pass1.hint)

WriteSecondTable ==
  /\ phase = "write" /\ cfg.linearize /\ now = None /\ front = Len(queue)
  /\ LET second == Finish(Now) IN
     /\ \E bytes \in IF AnyHeld THEN DataSizes(SecondCount, second) ELSE {0} :
          phase' = IF AnyHeld /\ second + StreamSize(bytes) + 1 > pass1.secondEnd + pass1.hint
                   THEN "failed" ELSE "done"
     /\ tables' = [tables EXCEPT !.at =
          [x \in DOMAIN Starts(Now) |->
             IF x \in FirstThings THEN @[x] ELSE InTable(Starts(Now)[x], second)]]
  /\ file' = [n \in 1..Len(order) |-> IF n \in DOMAIN file THEN file[n] ELSE Length]
  /\ UNCHANGED <<docVars, numVars, front, todo, rest, now, text, users, plan, order, pass1, again>>

-----------------------------------------------------------------------------
Linearized == phase = "done" /\ cfg.linearize

(* The document that is read back from the file, with new numbers.         *)
NumOf(o) == IF o = None THEN None ELSE num[o]
NumsOf(s) == [i \in DOMAIN s |-> num[s[i]]]
NumSet(S) == {num[o] : o \in S}
Numbers == 0..(2 * Cardinality(Objs) + 5)
OldOf(n) == IF n \in DOMAIN file THEN file[n].of ELSE None

ReadBack ==
  [refs |-> [n \in Numbers |-> IF OldOf(n) = None THEN <<>> ELSE file[n].refs],
   trailer |-> NumsOf(doc.trailer), pages |-> NumsOf(doc.pages),
   parent |-> [n \in Numbers |-> IF OldOf(n) = None THEN None ELSE NumOf(doc.parent[OldOf(n)])],
   thumb |-> [n \in Numbers |-> IF OldOf(n) = None THEN None ELSE NumOf(doc.thumb[OldOf(n)])],
   keys |-> [k \in L!Keys |-> NumSet(doc.keys[k])], info |-> NumSet(doc.info),
   encrypt |-> IF doc.encrypted THEN {Id(Encryption)} ELSE {},
   outlines |-> NumOf(doc.outlines), useOutlines |-> doc.useOutlines]

StreamBack ==
  [n \in Numbers |-> IF OldOf(n) # None /\ file[n].in # 0 THEN file[n].in ELSE None]

R == INSTANCE Linearization WITH
  Objs <- Numbers, d <- ReadBack, h <- StreamBack

(* checkLinearization: the parts are made again from the file.             *)
Reopen ==
  /\ Linearized /\ again = None /\ phase' = "reopened"
  /\ users' = R!Used
  /\ UNCHANGED <<docVars, numVars, front, todo, outVars, plan, order, pass1, tables, again>>

Recalculate ==
  /\ phase = "reopened" /\ phase' = "checked"
  /\ again' = R!Plan(users)
  /\ UNCHANGED <<docVars, numVars, front, todo, outVars, users, plan, order, pass1, tables>>

LInit == Init /\ plan = None /\ order = <<>> /\ pass1 = None /\ tables = None
         /\ again = None /\ users = None

LWork ==
  \/ Work /\ UNCHANGED linVars
  \/ Optimize \/ PlanParts \/ Number \/ Measure \/ WriteFirstTable \/ WriteSecondTable
  \/ Reopen \/ Recalculate

LNext == (Setting /\ UNCHANGED linVars) \/ LWork

LSpec == LInit /\ [][LNext]_allVars /\ WF_allVars(LWork)

-----------------------------------------------------------------------------
(* In a finished file every offset that was written before its target, in  *)
(* the tables, the dictionary and the trailer, is where the target is.     *)
InPlace ==
  Linearized =>
    /\ tables.at = Starts(Now)
    /\ tables.hintAt = Starts(Now)[Hint]
    /\ tables.end6 = End(Now, LastOf(plan.parts.p6))
    /\ tables.second = Finish(Now)
    /\ tables.page = num[doc.pages[1]]
    /\ file[tables.page].of = doc.pages[1]

(* Who works out from the finished file which objects belong to which page *)
(* and which are shared comes to what the hint tables say, though all      *)
(* numbers are others and the order within the parts depends on numbers.   *)
(* (A program may put a stream where an object in an object stream was;    *)
(* that is written as null, and what it used is not used in the file.)     *)
CheckAgrees ==
  phase = "checked" /\ (\A o \in doc.streams : held[o] = None) =>
    /\ again.ok
    /\ again.counts = plan.counts
    /\ again.shared = [i \in DOMAIN plan.shared |-> NumSet(plan.shared[i])]
    /\ again.outlines = NumsOf(plan.outlines)
    /\ again.parts.p6 = NumsOf(plan.parts.p6)

(* Whoever asks for a page by the hint tables gets all of the page, but    *)
(* for what the document as a whole uses too.                              *)
Common == {L!Holder(Root)} \cup users.info \cup users.encrypt
            \cup (UNION {users.key[k] : k \in L!Keys})
            \cup (UNION {users.thumb[i] : i \in DOMAIN doc.pages})
Run(i) ==
  IF i = 1 THEN {plan.parts.p6[j] : j \in DOMAIN plan.parts.p6}
  ELSE LET before[j \in 2..i] == IF j = 2 THEN 0 ELSE before[j - 1] + plan.counts[j - 1]
       IN {plan.parts.p7[j] : j \in (before[i] + 1)..(before[i] + plan.counts[i])}
HintsComplete ==
  phase = "number" =>
    \A i \in DOMAIN doc.pages :
      users.page[i] \subseteq
        Run(i) \cup Common \cup (IF i = 1 THEN {} ELSE plan.shared[i])

(* The hint tables say what a reader would find, and all of it.            *)
HintTablesRight == CheckAgrees /\ HintsComplete

(* Once it is asked for, writing ends.                                     *)
Ends == <>(phase \in {"done", "checked", "failed"})
=============================================================================
