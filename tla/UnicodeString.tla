---------------------------- MODULE UnicodeString ----------------------------
(***************************************************************************)
(* UnicodeString of u_unistr.cc and u_unistr.h: a string keeps its text    *)
(* in a buffer of its own object, in a counted array on the heap that it   *)
(* may share with copies of it, or in an array of somebody else's.  A      *)
(* write clones the array first unless the string may write to it, and an  *)
(* allocation may fail, which leaves a string without a value (bogus).     *)
(*                                                                         *)
(* An action is one call; the library's strings never cross threads.  The  *)
(* steps of a call are operators on m, the fields and the memory, that     *)
(* give the set of its outcomes.  value is a history variable: what the    *)
(* caller of each string relies on, whatever happens to the others.        *)
(***************************************************************************)
EXTENDS Integers, Sequences, FiniteSetsExt

CONSTANTS
  String,        (* the objects                                            *)
  Array,         (* what malloc() may return                               *)
  Outside,       (* a writable array of the caller's                       *)
  Literal,       (* a constant text, with a NUL behind it                  *)
  LiteralUnits,
  OutsideUnits,  (* what the array holds before it is used                 *)
  Unit,
  StackSize,     (* US_STACKBUF_SIZE                                       *)
  GrowSize,      (* kGrowSize                                              *)
  MaxCapacity,   (* kMaxCapacity                                           *)
  Granule,       (* malloc() is asked for multiples of 16 bytes: 8 units   *)
  Header,        (* the counter before the units: 2 units                  *)
  MaxLength,     (* INT32_MAX                                              *)
  None

ASSUME BoundsAssumption ==
  /\ StackSize \in Nat \ {0} /\ MaxCapacity \in Nat /\ MaxLength \in Nat
  /\ StackSize < MaxCapacity
  /\ GrowSize \in Nat /\ Granule \in Nat \ {0} /\ Header \in 0 .. Granule - 1
  /\ Cardinality(Array) > Cardinality(String)

ASSUME UnitsAssumption ==
  /\ Unit \subseteq Nat /\ LiteralUnits \in Seq(Nat) /\ OutsideUnits \in Seq(Nat)

VARIABLES str, mem, value

vars == <<str, mem, value>>

Place == String \cup Array \cup {Outside, Literal}
Bogus == <<None>>

(* No two of them are the same memory.                                     *)
ASSUME PlacesAssumption ==
  /\ IsFiniteSet(String) /\ IsFiniteSet(Array) /\ String \cap Array = {}
  /\ Outside \notin String \cup Array /\ Literal \notin String \cup Array
  /\ Outside # Literal /\ None \notin Place

-----------------------------------------------------------------------------
(* The fields.                                                             *)
Fields(storage, array, length, capacity) ==
  [storage |-> storage, open |-> FALSE, array |-> array, start |-> 0,
   length |-> length, capacity |-> capacity]

Empty(s)    == Fields("short", s, 0, StackSize)
BogusFields == Fields("bogus", None, 0, 0)

IsBogus(m, s)    == m.str[s].storage = "bogus"
IsWritable(m, s) == ~m.str[s].open /\ ~IsBogus(m, s)
IsShared(m, s)   == m.str[s].storage = "long" /\ m.mem[m.str[s].array].refs > 1

IsBufferWritable(m, s) ==
  IsWritable(m, s) /\ m.str[s].storage # "readonly" /\ ~IsShared(m, s)

Uninitialized(n) == [i \in 1 .. n |-> None]

(* The stack buffer and the other fields are a union.                      *)
SetFields(m, s, fields) ==
  [m EXCEPT !.str[s] = fields,
            !.mem[s].units = IF fields.array = s THEN @ ELSE Uninitialized(StackSize)]

Resized(m, s, length) == [m EXCEPT !.str[s].length = length]

(* us_arrayCopy() in its two halves; what has been freed reads as None.    *)
Read(m, place, start, n) ==
  [i \in 1 .. n |-> IF start + i \in DOMAIN m.mem[place].units
                    THEN m.mem[place].units[start + i] ELSE None]

Written(m, place, start, text) ==
  [m EXCEPT !.mem[place].units =
     [i \in DOMAIN @ |-> IF i - start \in DOMAIN text THEN text[i - start] ELSE @[i]]]

Chars(m, s) == Read(m, m.str[s].array, m.str[s].start, m.str[s].length)

-----------------------------------------------------------------------------
(* Arrays on the heap.                                                     *)
Free == [units |-> <<>>, refs |-> 0]

Swept(m) ==
  [m EXCEPT !.mem = [p \in Place |-> IF p \in Array /\ m.mem[p].refs = 0
                                     THEN Free ELSE m.mem[p]]]

Uncounted(m, a) == [m EXCEPT !.mem[a].refs = @ - 1]

Released(m, s) ==
  IF m.str[s].storage = "long" THEN Swept(Uncounted(m, m.str[s].array)) ELSE m

ToBogus(m, s) == SetFields(Released(m, s), s, BogusFields)

AllocatedCapacity(n) ==
  ((Header + n + 1 + Granule - 1) \div Granule) * Granule - Header

GrowCapacity(n) ==
  LET grow == (n \div 4) + GrowSize
  IN  IF grow <= MaxCapacity - n THEN n + grow ELSE MaxCapacity

NewArray(m, s, n) ==
  LET a == CHOOSE x \in Array : m.mem[x] = Free
  IN  [SetFields(m, s, Fields("long", a, 0, n))
         EXCEPT !.mem[a] = [units |-> Uninitialized(n), refs |-> 1]]

Allocate(m, s, n) ==
  IF n <= StackSize THEN {SetFields(m, s, Empty(s))}
  ELSE {SetFields(m, s, BogusFields)} \cup
       {NewArray(m, s, AllocatedCapacity(c)) : c \in {n} \cap 0 .. MaxCapacity}

NeedsClone(m, s, n) ==
  m.str[s].storage = "readonly" \/ IsShared(m, s) \/ n > m.str[s].capacity

(* Mutant: the fields are not put back.                                    *)
CloneFailsAsItIs(m, x, s) == ToBogus(x, s)

(* The fields are put back for setToBogus() to release the old array.      *)
CloneFails(m, x, s) == ToBogus([x EXCEPT !.str[s] = m.str[s]], s)

(* m before, x after allocate(); what was in the stack buffer was saved.   *)
OldText(m, x, s, start, n) ==
  Read(IF m.str[s].storage = "short" THEN m ELSE x,
       m.str[s].array, m.str[s].start + start, n)

(* With delete, the array is freed here and not by the caller.             *)
CloneTo(m, x, s, copy, delete) ==
  LET kept   == IF copy THEN Min({m.str[s].length, x.str[s].capacity}) ELSE 0
      copied == Resized(Written(x, x.str[s].array, 0, OldText(m, x, s, 0, kept)),
                        s, kept)
  IN  IF m.str[s].storage # "long" THEN copied
      ELSE IF delete THEN Swept(Uncounted(copied, m.str[s].array))
      ELSE Uncounted(copied, m.str[s].array)

(* cloneArrayIfNeeded().                                                   *)
Clone(m, s, n, grow, copy, delete) ==
  LET first == IF n <= StackSize THEN Min({grow, StackSize}) ELSE grow
  IN  IF ~IsWritable(m, s) \/ ~NeedsClone(m, s, n) THEN {m}
      ELSE {IF IsBogus(x, s) THEN CloneFails(m, x, s)
                             ELSE CloneTo(m, x, s, copy, delete) :
              x \in UNION {IF IsBogus(y, s) /\ n < first THEN Allocate(y, s, n)
                                                         ELSE {y} :
                             y \in Allocate(m, s, first)}}

-----------------------------------------------------------------------------
(* Where the units come from that are appended or inserted: a part of a    *)
(* string or of the constant text, or a copy made of it.                   *)
Part(m, t, from) ==
  [place  |-> m.str[t].array, start |-> m.str[t].start + from,
   length |-> m.str[t].length - from, copy |-> <<>>]

LiteralPart(n) == [place |-> Literal, start |-> 0, length |-> n, copy |-> <<>>]
Nothing        == [place |-> None, start |-> 0, length |-> 0, copy |-> <<>>]

SourceChars(m, src) ==
  IF src.place = None THEN src.copy ELSE Read(m, src.place, src.start, src.length)

(* Mutant: a string that is its own source is taken for another one.       *)
NeverOverlaps(m, s, src) == FALSE

Overlaps(m, s, src) ==
  /\ IsBufferWritable(m, s) /\ src.place = m.str[s].array
  /\ m.str[s].start < src.start + src.length
  /\ src.start < m.str[s].start + m.str[s].length

(* The copy is a string of its own, whose allocation may fail, too.        *)
Copies(m, src) ==
  {[place |-> None, start |-> 0, length |-> src.length,
    copy |-> SourceChars(m, src)] : c \in {src.length} \cap 0 .. MaxCapacity}

(* What can be read while s is written: the source, or a copy of it.       *)
SafeSources(m, s, src) == IF Overlaps(m, s, src) THEN Copies(m, src) ELSE {src}

CopyFails(m, s, src) ==
  IF Overlaps(m, s, src) /\ src.length > StackSize THEN {ToBogus(m, s)} ELSE {}

AppendChars(m, s, src) ==
  LET old == m.str[s].length
      new == old + src.length
  IN  {IF IsBogus(x, s) THEN x
       ELSE Resized(Written(x, x.str[s].array, x.str[s].start + old,
                            SourceChars(x, src)), s, new) :
         x \in IF new <= m.str[s].capacity /\ IsBufferWritable(m, s) THEN {m}
               ELSE Clone(m, s, new, GrowCapacity(new), TRUE, TRUE)}

DoAppend(m, s, src) ==
  IF ~IsWritable(m, s) \/ src.length = 0 THEN {m}
  ELSE IF src.length > MaxLength - m.str[s].length THEN {ToBogus(m, s)}
  ELSE CopyFails(m, s, src)
         \cup UNION {AppendChars(m, s, x) : x \in SafeSources(m, s, src)}

(* The text before and behind, if it has another place, then the new one;  *)
(* the array is deleted in the end.                                        *)
ReplaceChars(m, s, src, start, length) ==
  LET old  == m.str[s].length
      tail == start + length
      new  == old - length + src.length
      Moved(x)  == Written(Written(x, x.str[s].array, x.str[s].start,
                                   OldText(m, x, s, 0, start)),
                           x.str[s].array, x.str[s].start + start + src.length,
                           OldText(m, x, s, tail, old - tail))
      Filled(x) == Written(x, x.str[s].array, x.str[s].start + start,
                           SourceChars(x, src))
  IN  {IF IsBogus(x, s) THEN x ELSE Swept(Resized(Filled(Moved(x)), s, new)) :
         x \in Clone(m, s, new, GrowCapacity(new), FALSE, FALSE)}

(* An alias of a text that may not be written loses its first or its last  *)
(* units without a copy.  Mutant first: the capacity is not lowered.       *)
WithoutPrefixOfText(m, s, n) ==
  [m EXCEPT !.str[s].start = @ + n, !.str[s].length = @ - n]

WithoutPrefix(m, s, n) ==
  [m EXCEPT !.str[s].start = @ + n, !.str[s].length = @ - n, !.str[s].capacity = @ - n]

WithoutSuffix(m, s, n) == [m EXCEPT !.str[s].length = n, !.str[s].capacity = n]

DoReplace(m, s, start, count, src) ==
  LET old    == m.str[s].length
      length == Min({count, old - start})
      trims  == m.str[s].storage = "readonly" /\ src.length = 0
  IN  IF ~IsWritable(m, s) THEN {m}
      ELSE IF trims /\ start = 0 THEN {WithoutPrefix(m, s, length)}
      ELSE IF trims /\ count >= old - start THEN {WithoutSuffix(m, s, start)}
      ELSE IF start = old THEN DoAppend(m, s, src)
      ELSE IF src.length > MaxLength - (old - length) THEN {ToBogus(m, s)}
      ELSE CopyFails(m, s, src)
             \cup UNION {ReplaceChars(m, s, x, start, length) :
                           x \in SafeSources(m, s, src)}

UnBogus(m, s) == IF IsBogus(m, s) THEN SetFields(m, s, Empty(s)) ELSE m

(* copyFrom(): only an array on the heap is shared.                        *)
CopyFrom(m, s, t) ==
  LET x == Released(m, s)
      f == m.str[t]
      Shared(y) == [SetFields(y, s, f) EXCEPT !.mem[f.array].refs = @ + 1]
      Filled(y) == IF IsBogus(y, s) THEN y
                   ELSE Resized(Written(y, y.str[s].array, 0, Chars(m, t)), s, f.length)
  IN  IF s = t THEN {m}
      ELSE IF IsBogus(m, t) THEN {ToBogus(m, s)}
      ELSE IF f.length = 0 THEN {SetFields(x, s, Empty(s))}
      ELSE IF f.storage = "long" THEN {Shared(x)}
      ELSE {Filled(y) : y \in IF f.storage = "short" THEN {SetFields(x, s, Empty(s))}
                              ELSE Allocate(x, s, f.length)}

(* Assignment from a value that is at its end; the same object may become  *)
(* bogus.                                                                  *)
MoveFrom(m, s, t) ==
  LET x == Released(m, s)
      f == m.str[t]
  IN  IF f.storage = "short"
      THEN Resized(Written(SetFields(x, s, Empty(s)), s, 0, Chars(m, t)), s, f.length)
      ELSE SetFields(SetFields(x, s, f), t, BogusFields)

-----------------------------------------------------------------------------
now == [str |-> str, mem |-> mem]

Becomes(m) == str' = m.str /\ mem' = m.mem

(* The call changes s alone, to text or to bogus if it has failed.         *)
Gives(s, outcomes, text) ==
  \E m \in outcomes :
    /\ Becomes(m)
    /\ value' = [value EXCEPT ![s] = IF IsBogus(m, s) THEN Bogus ELSE text]

Text(s) == IF str[s].open THEN <<>> ELSE value[s]

Init ==
  /\ str = [s \in String |-> Empty(s)]
  /\ mem = [p \in Place |->
              IF p \in Array THEN Free
              ELSE [units |-> CASE p = Outside -> OutsideUnits
                                [] p = Literal -> LiteralUnits \o <<0>>
                                [] OTHER       -> Uninitialized(StackSize),
                    refs  |-> 0]]
  /\ value = [s \in String |-> <<>>]

(* What the caller may give: a part of a string that has a value, or of    *)
(* the constant text.                                                      *)
Sources ==
  {[src |-> LiteralPart(n), text |-> SubSeq(LiteralUnits, 1, n)] :
     n \in 1 .. Len(LiteralUnits)}
  \cup UNION {{[src |-> Part(now, t, i), text |-> SubSeq(Text(t), i + 1, Len(Text(t)))] :
                 i \in 0 .. str[t].length} : t \in {x \in String : ~IsBogus(now, x)}}

(* Not while the buffer is open: that changes nothing.                     *)
Unlocked(s, text) == IF IsWritable(now, s) THEN text ELSE value[s]

AppendString(s) ==
  \E x \in Sources :
    Gives(s, DoAppend(now, s, x.src), Unlocked(s, Text(s) \o x.text))

Spliced(text, start, length, new) ==
  SubSeq(text, 1, start) \o new \o SubSeq(text, start + length + 1, Len(text))

Replace(s) ==
  \E x \in Sources, start \in 0 .. str[s].length, length \in {0, 1, MaxLength} :
    Gives(s, DoReplace(now, s, start, length, x.src),
          Unlocked(s, Spliced(Text(s), start, length, x.text)))

(* All of it is remove(), below.                                           *)
RemoveRange(s) ==
  \E start \in 0 .. str[s].length, length \in {1, MaxLength} :
    /\ start > 0 \/ length < MaxLength
    /\ Gives(s, DoReplace(now, s, start, length, Nothing),
             Unlocked(s, Spliced(Text(s), start, length, <<>>)))

SetTo(s) ==
  \E x \in Sources :
    /\ ~str[s].open
    /\ Gives(s, DoReplace(UnBogus(now, s), s, 0, str[s].length, x.src), x.text)

SetCharAt(s) ==
  \E i \in 1 .. str[s].length, c \in Unit :
    Gives(s, {IF IsBogus(m, s) THEN m
              ELSE Written(m, m.str[s].array, m.str[s].start + i - 1, <<c>>) :
                m \in Clone(now, s, str[s].capacity, str[s].capacity, TRUE, TRUE)},
          [Text(s) EXCEPT ![i] = c])

(* remove() and truncate().                                                *)
Truncate(s) ==
  \/ /\ Becomes(Resized(UnBogus(now, s), s, 0))
     /\ value' = [value EXCEPT ![s] = IF str[s].open THEN @ ELSE <<>>]
  \/ \E n \in 1 .. str[s].length - 1 :
       Gives(s, {Resized(now, s, n)}, SubSeq(Text(s), 1, n))

SetToBogus(s) == Gives(s, {ToBogus(now, s)}, Bogus)

(* getBuffer(minCapacity): as much of the text as fits is kept.            *)
GetBuffer(s) ==
  \E min \in -1 .. MaxCapacity :
    LET n == IF min = -1 THEN str[s].capacity ELSE min
    IN  /\ IsWritable(now, s)
        /\ \E m \in Clone(now, s, n, n, TRUE, TRUE) :
             Gives(s, {IF IsBogus(m, s) THEN m
                       ELSE [m EXCEPT !.str[s].open = TRUE, !.str[s].length = 0]},
                   SubSeq(Text(s), 1, Min({Len(Text(s)), m.str[s].length})))

(* The caller writes to the open buffer, or over what it has written.      *)
WriteUnit(s) ==
  \E i \in 1 .. Min({Len(value[s]) + 1, MaxLength}), c \in Unit :
    /\ str[s].open /\ i <= str[s].capacity
    /\ Gives(s, {Written(now, str[s].array, str[s].start + i - 1, <<c>>)},
             IF i > Len(value[s]) THEN Append(value[s], c)
                                  ELSE [value[s] EXCEPT ![i] = c])

ReleaseBuffer(s) ==
  \E n \in 0 .. Len(value[s]) :
    /\ str[s].open
    /\ Gives(s, {[Resized(now, s, Min({n, str[s].capacity})) EXCEPT !.str[s].open = FALSE]},
             SubSeq(value[s], 1, n))

Copy(s) ==
  \E t \in String :
    Gives(s, CopyFrom(now, s, t), IF s = t THEN value[s] ELSE Text(t))

Move(s) ==
  \E t \in String :
    /\ ~str[t].open
    /\ \E m \in {MoveFrom(now, s, t)} :
         /\ Becomes(m)
         /\ value' = [value EXCEPT ![s] = IF IsBogus(m, s) THEN Bogus ELSE value[t],
                                   ![t] = IF IsBogus(m, t) THEN Bogus ELSE @]

(* The object ends and another one begins: empty, or an alias, bogus if    *)
(* the arguments are no text.                                              *)
Construct(s, fields, text) ==
  Gives(s, {SetFields(Released(now, s), s, fields)}, text)

ConstructEmpty(s) == Construct(s, Empty(s), <<>>)

AliasLiteral(s) ==
  \E n \in -1 .. Len(LiteralUnits), isTerminated \in BOOLEAN :
    LET length == IF n = -1 THEN Len(LiteralUnits) ELSE n
    IN  Construct(s,
          IF (n = -1 /\ ~isTerminated) \/ (n \in 0 .. Len(LiteralUnits) - 1 /\ isTerminated)
          THEN BogusFields
          ELSE Fields("readonly", Literal, length,
                      IF isTerminated THEN length + 1 ELSE length),
          SubSeq(LiteralUnits, 1, length))

(* The caller fills its array, and gives it to one string at a time.       *)
AliasOutside(s) ==
  /\ \A t \in String \ {s} : str[t].array # Outside
  /\ \E n \in 0 .. Len(OutsideUnits) :
       Gives(s, {[SetFields(Released(now, s), s,
                            Fields("writable", Outside, n, Len(OutsideUnits)))
                    EXCEPT !.mem[Outside].units = OutsideUnits]},
             SubSeq(OutsideUnits, 1, n))

Call(s) ==
  \/ AppendString(s) \/ Replace(s) \/ RemoveRange(s) \/ SetTo(s) \/ SetCharAt(s)
  \/ Truncate(s) \/ SetToBogus(s)
  \/ GetBuffer(s) \/ WriteUnit(s) \/ ReleaseBuffer(s)
  \/ Copy(s) \/ Move(s)
  \/ ConstructEmpty(s) \/ AliasLiteral(s) \/ AliasOutside(s)

Next == \E s \in String : Call(s)

Spec == Init /\ [][Next]_vars

-----------------------------------------------------------------------------
(* Type invariant: a string lies within its array, which is its own        *)
(* buffer, one that has been allocated, or the caller's.                   *)
StringTypeOK ==
  \A s \in String :
    LET f == str[s]
    IN  /\ f.length \in 0 .. f.capacity
        /\ f.storage # "bogus" => f.start + f.capacity <= Len(mem[f.array].units)
        /\ CASE f.storage = "short"    -> f.array = s
             [] f.storage = "long"     -> f.array \in Array
             [] f.storage = "readonly" -> f.array = Literal
             [] f.storage = "writable" -> f.array = Outside
             [] f.storage = "bogus"    -> f = BogusFields

(* An array is counted once for each string that uses it, and is freed     *)
(* with the last: no call, whatever fails in it, leaks an array, frees it  *)
(* twice or leaves a string with one that is gone (addRef(), removeRef()). *)
CountIsOwners ==
  \A a \in Array :
    mem[a].refs = Cardinality({s \in String : str[s].storage = "long" /\ str[s].array = a})

(* Sharing cannot be seen: each string has the text that its own calls     *)
(* gave it, and an open buffer what its caller has written, whatever is    *)
(* done with the strings it shares arrays with; a constant text is never   *)
(* written to (cloneArrayIfNeeded()).                                      *)
KeepsValues ==
  /\ \A s \in String :
       IF IsBogus(now, s) THEN value[s] = Bogus
       ELSE value[s] = Read(now, str[s].array, str[s].start,
                            IF str[s].open THEN Len(value[s]) ELSE str[s].length)
  /\ mem[Literal].units = LiteralUnits \o <<0>>
=============================================================================
