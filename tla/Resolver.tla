------------------------------ MODULE Resolver ------------------------------
(***************************************************************************)
(* Reading an object of an open document (Objects::resolve and what it     *)
(* calls, libqpdf/QPDF_objects.cc).  Reading may need other objects, the   *)
(* /Length of a stream or the object stream that an object is kept in, so  *)
(* that calls nest; stack holds the calls under way, the innermost first.  *)
(* An object that is not where the cross-reference table says makes        *)
(* reconstruct_xref replace the table below the calls under way.           *)
(*                                                                         *)
(* A file is a record: present, the objects it really has as "n 0 obj",    *)
(* the offset of object n being n; streams, those of them that are         *)
(* streams; length, for each of these the object that holds its /Length,   *)
(* or 0 if that is direct; holds, for each stream the objects in it, if it *)
(* is an object stream that can be read, else {}; table, the               *)
(* cross-reference table, see Entry.  Left out: generations, everything    *)
(* about contents but whether it is an object's own.                       *)
(***************************************************************************)
EXTENDS Integers, Sequences, FiniteSets

CONSTANTS
  MaxId,    \* object ids are 1..MaxId
  Files,    \* the documents that may be open
  Recovery  \* the option attempt_recovery

Ids == 1..MaxId

(* Where the table says that an object is: at an offset, or in a stream.   *)
NoEntry == [kind |-> "none", at |-> 0]
Plain(o) == [kind |-> "plain", at |-> o]
Packed(s) == [kind |-> "packed", at |-> s]

(* What obj_cache holds for an id: a stream is "exact" if its /Length was  *)
(* used and "recovered" if its end was searched for; "wrong" is an object  *)
(* made of something else than what the file has under this id.            *)
Values == {"unresolved", "null", "value", "exact", "recovered", "wrong"}

Entries == {NoEntry} \cup {Plain(o) : o \in 0..MaxId} \cup {Packed(s) : s \in Ids}
IsFile(f) ==
  /\ f.present \subseteq Ids /\ f.streams \subseteq Ids
  /\ f.length \in [Ids -> 0..MaxId]
  /\ f.holds \in [Ids -> SUBSET Ids]
  /\ f.table \in [Ids -> Entries]

(* The table lists every object that the file has, at any place but 0.  An *)
(* object stream is not in another one, nor is its /Length in a stream or  *)
(* itself a stream, as the format demands.                                 *)
IsObjectStream(f, s) == f.holds[s] # {} \/ \E i \in Ids : f.table[i] = Packed(s)
Sound(f) ==
  /\ \A i \in f.present : f.table[i] \notin {NoEntry, Plain(0)}
  /\ \A s \in Ids :
       /\ f.holds[s] # {} => s \in f.present \cap f.streams
       /\ IsObjectStream(f, s) =>
            LET n == f.length[s] IN
            /\ f.table[s].kind # "packed"
            /\ n # 0 => n \notin f.streams /\ f.table[n].kind # "packed"

ASSUME ConstantsAssumption ==
  /\ MaxId \in Nat \ {0} /\ Recovery \in BOOLEAN
  /\ \A f \in Files : IsFile(f) /\ Sound(f)

VARIABLES
  file,           \* the file
  xref,           \* xref_table
  cache,          \* obj_cache
  resolving,      \* the ids that a ResolveRecorder is held for
  loaded,         \* resolved_object_streams
  reconstructed,  \* reconstructed_xref
  stack,          \* the calls under way: [id, pc, off]
  pos,            \* the object that the input source is positioned in
  walk,           \* the pass of resolveXRefTable under way: [at, may, round]
  fixed           \* fixed_dangling_refs

vars == <<file, xref, cache, resolving, loaded, reconstructed, stack, pos, walk, fixed>>

NoWalk == [at |-> 0, may |-> FALSE, round |-> 0]

Init ==
  /\ file \in Files
  /\ xref = file.table
  /\ cache = [i \in Ids |-> "unresolved"]
  /\ resolving = {} /\ loaded = {} /\ reconstructed = FALSE
  /\ stack = <<>> /\ pos = 0
  /\ walk = NoWalk /\ fixed = FALSE

Idle == stack = <<>>
Here == Head(stack)
Goto(pc) == stack' = <<[Here EXCEPT !.pc = pc]>> \o Tail(stack)
(* No call is nested this deep; it would be, were there no check for loops. *)
MaxDepth == MaxId + 2
Call(i, pc) ==
  /\ Len(stack) < MaxDepth
  /\ stack' = <<[id |-> i, pc |-> "start", off |-> 0],
                [Here EXCEPT !.pc = pc]>> \o Tail(stack)
At(pc) == ~Idle /\ Here.pc = pc

-----------------------------------------------------------------------------
(* resolve                                                                 *)

InLoop_Never(i) == FALSE   \* slip: no check for loops
InLoop(i) == i \in resolving

Start ==
  /\ At("start")
  /\ LET i == Here.id IN
     IF cache[i] # "unresolved"
     THEN /\ stack' = Tail(stack)
          /\ UNCHANGED <<cache, resolving>>
     ELSE IF InLoop(i)
     THEN /\ cache' = [cache EXCEPT ![i] = "null"]
          /\ stack' = Tail(stack)
          /\ UNCHANGED resolving
     ELSE /\ resolving' = resolving \cup {i}
          /\ stack' = <<[id |-> i, off |-> xref[i].at,
                         pc |-> CASE xref[i].kind = "plain" -> "read"
                                  [] xref[i].kind = "packed" -> "load"
                                  [] OTHER -> "end"]>> \o Tail(stack)
          /\ UNCHANGED cache
  /\ UNCHANGED <<file, xref, loaded, reconstructed, pos, walk, fixed>>

(* What is unresolved after all is null; the ResolveRecorder goes.         *)
End ==
  /\ At("end")
  /\ cache' = [cache EXCEPT ![Here.id] = IF @ = "unresolved" THEN "null" ELSE @]
  /\ resolving' = resolving \ {Here.id}
  /\ stack' = Tail(stack)
  /\ UNCHANGED <<file, xref, loaded, reconstructed, pos, walk, fixed>>

-----------------------------------------------------------------------------
(* readObjectAtOffset                                                      *)

(* The table becomes what the file has; packed entries stay, and so does   *)
(* what is in the cache.                                                   *)
Rebuilt == [i \in Ids |-> IF xref[i].kind = "packed" THEN xref[i]
                          ELSE IF i \in file.present THEN Plain(i) ELSE NoEntry]

(* With recovery an object that is not there, or is not the one expected,  *)
(* is looked for again in a new table, unless there has been one before.   *)
Misplaced ==
  /\ At("read") /\ Recovery
  /\ Here.off # 0 /\ (Here.off \notin file.present \/ Here.off # Here.id)
  /\ IF reconstructed
     THEN Goto("end") /\ UNCHANGED <<xref, reconstructed, fixed>>
     ELSE /\ xref' = Rebuilt
          /\ reconstructed' = TRUE /\ fixed' = FALSE
          /\ IF Rebuilt[Here.id].kind = "plain"
             THEN stack' = <<[Here EXCEPT !.off = Rebuilt[Here.id].at]>> \o Tail(stack)
             ELSE Goto("end")
  /\ UNCHANGED <<file, cache, resolving, loaded, pos, walk>>

Nothing ==
  /\ At("read")
  /\ Here.off = 0 \/ (~Recovery /\ Here.off \notin file.present)
  /\ Goto("end")
  /\ UNCHANGED <<file, xref, cache, resolving, loaded, reconstructed, pos, walk, fixed>>

Readable ==
  /\ At("read") /\ Here.off \in file.present
  /\ Recovery => Here.off = Here.id

(* What is read goes into the cache under the id that the file gives it.   *)
Read ==
  /\ Readable /\ Here.off \notin file.streams
  /\ cache' = [cache EXCEPT ![Here.off] = "value"]
  /\ pos' = Here.off
  /\ Goto("end")
  /\ UNCHANGED <<file, xref, resolving, loaded, reconstructed, walk, fixed>>

(* A stream: its /Length comes first, and reading that moves the input     *)
(* source.  A reference to an object that the table does not have is null. *)
ReadStream ==
  /\ Readable /\ Here.off \in file.streams
  /\ pos' = Here.off
  /\ LET n == file.length[Here.off] IN
     IF n # 0 /\ (cache[n] # "unresolved" \/ xref[n] # NoEntry)
     THEN Call(n, "length") ELSE Goto("length")
  /\ UNCHANGED <<file, xref, cache, resolving, loaded, reconstructed, walk, fixed>>

StreamOffset_Lost == pos   \* slip: the position is asked for afterwards
StreamOffset == Here.off

Length ==
  /\ At("length")
  /\ LET o == Here.off
         n == file.length[o]
     IN cache' = [cache EXCEPT ![o] =
                    IF StreamOffset # o THEN "wrong"
                    ELSE IF n = 0 \/ cache[n] = "value" THEN "exact"
                    ELSE IF Recovery THEN "recovered" ELSE @]
  /\ pos' = Here.off
  /\ Goto("end")
  /\ UNCHANGED <<file, xref, resolving, loaded, reconstructed, walk, fixed>>

-----------------------------------------------------------------------------
(* resolveObjectsInStream                                                  *)

Load ==
  /\ At("load")
  /\ LET s == Here.off IN
     IF s \in loaded
     THEN Goto("end") /\ UNCHANGED loaded
     ELSE /\ loaded' = loaded \cup {s}
          /\ IF cache[s] = "unresolved" /\ xref[s] = NoEntry
             THEN Goto("unpack") ELSE Call(s, "unpack")
  /\ UNCHANGED <<file, xref, cache, resolving, reconstructed, pos, walk, fixed>>

(* Only what the table says is in this stream is taken from it.            *)
Taken(s) == {i \in file.holds[s] : xref[i] = Packed(s)}

Unpack ==
  /\ At("unpack")
  /\ LET s == Here.off IN
     cache' = IF cache[s] \notin {"exact", "recovered"} THEN cache
              ELSE [i \in Ids |-> IF i \in Taken(s)
                                  THEN IF xref[i] = Packed(s) THEN "value" ELSE "wrong"
                                  ELSE cache[i]]
  /\ Goto("end")
  /\ UNCHANGED <<file, xref, resolving, loaded, reconstructed, pos, walk, fixed>>

Step == Start \/ End \/ Misplaced \/ Nothing \/ Read \/ ReadStream \/ Length
          \/ Load \/ Unpack

-----------------------------------------------------------------------------
(* Who calls resolve: a program that uses a handle, and resolveXRefTable,  *)
(* which gives up its pass when the table is replaced under it.            *)
Use(i) ==
  /\ Idle /\ walk = NoWalk
  /\ cache[i] = "unresolved" /\ xref[i] # NoEntry
  /\ stack' = <<[id |-> i, pc |-> "start", off |-> 0]>>
  /\ UNCHANGED <<file, xref, cache, resolving, loaded, reconstructed, pos, walk, fixed>>

FixDangling ==
  /\ Idle /\ walk = NoWalk /\ ~fixed
  /\ walk' = [at |-> 1, may |-> ~reconstructed, round |-> 1]
  /\ UNCHANGED <<file, xref, cache, resolving, loaded, reconstructed, stack, pos, fixed>>

Again == walk.may /\ reconstructed /\ walk.round = 1

Walk ==
  /\ Idle /\ walk # NoWalk
  /\ IF (walk.may /\ reconstructed) \/ walk.at > MaxId
     THEN /\ walk' = IF Again THEN [at |-> 1, may |-> FALSE, round |-> 2] ELSE NoWalk
          /\ fixed' = ~Again
          /\ UNCHANGED stack
     ELSE /\ walk' = [walk EXCEPT !.at = @ + 1]
          /\ IF xref[walk.at] # NoEntry /\ cache[walk.at] = "unresolved"
             THEN stack' = <<[id |-> walk.at, pc |-> "start", off |-> 0]>>
             ELSE UNCHANGED stack
          /\ UNCHANGED fixed
  /\ UNCHANGED <<file, xref, cache, resolving, loaded, reconstructed, pos>>

Work == Step \/ Walk
Next == Work \/ FixDangling \/ \E i \in Ids : Use(i)

(* A call runs to its end; nothing makes a program call.                   *)
Spec == Init /\ [][Next]_vars /\ WF_vars(Work)

-----------------------------------------------------------------------------
(* A recorder is held for exactly the calls under way, no object is being  *)
(* read twice at a time, and so calls never nest deeper than by one call   *)
(* for each object and one that finds that it is in a loop.                *)
Inside == {k \in DOMAIN stack : stack[k].pc # "start"}
RecordersMatch ==
  /\ resolving = {stack[k].id : k \in Inside}
  /\ \A j, k \in Inside : stack[j].id = stack[k].id => j = k
  /\ Len(stack) <= MaxId + 1

(* What an object is, whatever has been read before it and on whatever     *)
(* occasion.                                                               *)
IsPacked(f, i) == f.table[i].kind = "packed"
IsStream(f, i) == ~IsPacked(f, i) /\ i \in f.present \cap f.streams
IsValue(f, i) ==
  IF IsPacked(f, i) THEN i \in f.holds[f.table[i].at] ELSE i \in f.present \ f.streams
Expected(f, i) ==
  IF IsStream(f, i)
  THEN IF f.length[i] = 0 \/ IsValue(f, f.length[i]) THEN "exact" ELSE "recovered"
  ELSE IF IsValue(f, i) THEN "value" ELSE "null"

OrderDoesNotMatter ==
  Idle => \A i \in Ids : cache[i] \in {"unresolved", Expected(file, i)}

(* Once the dangling references are fixed every object in the table is in  *)
(* the cache: the next free object id is computed from the cache alone.    *)
FixedMeansResolved ==
  fixed /\ Idle => \A i \in Ids : xref[i] # NoEntry => cache[i] # "unresolved"

ResolvedAlike == OrderDoesNotMatter /\ FixedMeansResolved

(* Every call of resolve returns, whatever refers to whatever.             *)
CallsReturn == []<>(Idle /\ walk = NoWalk)
=============================================================================
