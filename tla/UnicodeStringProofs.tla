------------------------ MODULE UnicodeStringProofs ------------------------
(***************************************************************************)
(* UnicodeString: every array is counted once for each string that uses    *)
(* it.  Each operator on the memory is shown to keep this for all strings  *)
(* but the one it works on, whose arrays are a set of their own meanwhile. *)
(* Then the texts: each operator spares the units of the other strings     *)
(* (Spares), which share arrays only where none of them may write (Joins), *)
(* and leaves the string it works on bogus or with the text that was asked *)
(* for, within its array (Fits, Made, Holds).                              *)
(***************************************************************************)
EXTENDS UnicodeString, FiniteSetTheorems, TLAPS

(* What the fields, the texts and the memory are made of.                  *)
Storages == {"short", "long", "readonly", "writable", "bogus"}

FieldSet ==
  [storage : Storages, open : BOOLEAN, array : Place \cup {None},
   start : Int, length : Int, capacity : Int]

Cell == Nat \cup {None}

Memory ==
  [str : [String -> FieldSet], mem : [Place -> [units : Seq(Cell), refs : Int]]]

(* The strings other than s that use a, and the arrays that s uses.        *)
Others(m, s, a) ==
  {t \in String \ {s} : m.str[t].storage = "long" /\ m.str[t].array = a}

Held(m, s) == IF m.str[s].storage = "long" THEN {m.str[s].array} ELSE {}

(* Each array is counted for its users but s, and for s if it is in held.  *)
Counts(m, s, held) ==
  \A a \in Array :
    m.mem[a].refs = Cardinality(Others(m, s, a)) + (IF a \in held THEN 1 ELSE 0)

(* The storage tells where the array is.                                   *)
Sane(f, s) ==
  /\ f.storage = "short"    => f.array = s
  /\ f.storage = "long"     => f.array \in Array
  /\ f.storage = "readonly" => f.array = Literal
  /\ f.storage = "writable" => f.array = Outside
  /\ f.storage = "bogus"    => f = BogusFields

SaneBut(m, s) == \A t \in String \ {s} : Sane(m.str[t], t)

Tidy(m) == \A a \in Array : m.mem[a].refs = 0 => m.mem[a] = Free

-----------------------------------------------------------------------------
(* The sets of places.                                                     *)
LEMMA Places ==
  /\ \A s \in String : s \in Place /\ s \notin Array /\ s # Literal /\ s # Outside /\ s # None
  /\ \A a \in Array : a \in Place /\ a # Literal /\ a # Outside /\ a # None
  /\ Literal \in Place /\ Outside \in Place /\ Literal # Outside
  /\ Literal # None /\ Outside # None
BY PlacesAssumption DEF Place

(* The fields that the operators write.                                    *)
LEMMA FieldsAreFields ==
  /\ BogusFields \in FieldSet
  /\ \A s \in String : Empty(s) \in FieldSet /\ Sane(Empty(s), s)
                        /\ Sane(BogusFields, s)
BY Places, BoundsAssumption DEF FieldSet, Storages, BogusFields, Empty, Fields, Sane

(* Uninitialized units are units.                                          *)
LEMMA UninitializedIsText ==
  ASSUME NEW n \in Nat
  PROVE  Uninitialized(n) \in Seq(Cell) /\ Len(Uninitialized(n)) = n
<1>1. \A i \in 1 .. n : None \in Cell
  BY DEF Cell
<1> QED BY <1>1 DEF Uninitialized

(* SetFields() changes the fields of s and its stack buffer.               *)
LEMMA SetFieldsFrame ==
  ASSUME NEW m \in Memory, NEW s \in String, NEW f \in FieldSet
  PROVE  /\ SetFields(m, s, f) \in Memory
         /\ SetFields(m, s, f).str[s] = f
         /\ \A t \in String \ {s} : SetFields(m, s, f).str[t] = m.str[t]
         /\ \A p \in Place : SetFields(m, s, f).mem[p].refs = m.mem[p].refs
         /\ \A p \in Place \ {s} : SetFields(m, s, f).mem[p] = m.mem[p]
         /\ SetFields(m, s, f).mem[s].units
              = IF f.array = s THEN m.mem[s].units ELSE Uninitialized(StackSize)
<1>1. Uninitialized(StackSize) \in Seq(Cell)
  BY UninitializedIsText, BoundsAssumption
<1>2. s \in Place
  BY Places
<1> QED BY <1>1, <1>2 DEF SetFields, Memory

(* An operator that leaves the other strings and the counters alone keeps  *)
(* the count of the others.                                                *)
LEMMA CountsAgree ==
  ASSUME NEW m \in Memory, NEW x \in Memory, NEW s \in String, NEW held,
         \A t \in String \ {s} : x.str[t] = m.str[t],
         \A a \in Array : x.mem[a].refs = m.mem[a].refs,
         Counts(m, s, held)
  PROVE  Counts(x, s, held)
<1>1. \A a \in Array : Others(x, s, a) = Others(m, s, a)
  BY DEF Others
<1> QED BY <1>1 DEF Counts

(* With SetFields(), s gives up what it held.                              *)
LEMMA SetFieldsCounts ==
  ASSUME NEW m \in Memory, NEW s \in String, NEW f \in FieldSet, NEW held,
         Counts(m, s, held), SaneBut(m, s)
  PROVE  /\ Counts(SetFields(m, s, f), s, held)
         /\ SaneBut(SetFields(m, s, f), s)
         /\ Tidy(m) => Tidy(SetFields(m, s, f))
<1> DEFINE x == SetFields(m, s, f)
<1>1. /\ x \in Memory
      /\ \A p \in Place : x.mem[p].refs = m.mem[p].refs
      /\ \A p \in Place \ {s} : x.mem[p] = m.mem[p]
  BY SetFieldsFrame
<1>2. \A t \in String \ {s} : x.str[t] = m.str[t]
  BY SetFieldsFrame
<1> HIDE DEF x
<1>3. \A a \in Array : a \in Place \ {s}
  BY Places
<1>4. Counts(x, s, held)
  BY <1>1, <1>2, <1>3, CountsAgree
<1>5. SaneBut(x, s)
  BY <1>2 DEF SaneBut
<1>6. Tidy(m) => Tidy(x)
  BY <1>1, <1>3 DEF Tidy
<1> QED BY <1>4, <1>5, <1>6 DEF x

(* setLength().                                                            *)
LEMMA ResizedFrame ==
  ASSUME NEW m \in Memory, NEW s \in String, NEW n \in Int
  PROVE  /\ Resized(m, s, n) \in Memory
         /\ Resized(m, s, n).str = [m.str EXCEPT ![s] = [m.str[s] EXCEPT !.length = n]]
         /\ Resized(m, s, n).mem = m.mem
<1> DEFINE f == m.str[s]
           g == [f EXCEPT !.length = n]
<1>1. f \in FieldSet /\ m.str \in [String -> FieldSet]
  BY DEF Memory
<1>2. Resized(m, s, n) = [m EXCEPT !.str = [@ EXCEPT ![s] = g]]
  BY DEF Resized
<1> HIDE DEF f
<1>3. g \in FieldSet
  BY <1>1 DEF FieldSet
<1> HIDE DEF g
<1>4. [m.str EXCEPT ![s] = g] \in [String -> FieldSet]
  BY <1>1, <1>3
<1> QED BY <1>2, <1>4 DEF Memory, f, g

(* One place of the memory is written.                                     *)
Put(m, p, c) == [m EXCEPT !.mem[p] = c]

(* Nothing else of the memory changes.                                     *)
LEMMA PlaceIsWritten ==
  ASSUME NEW m \in Memory, NEW p \in Place, NEW c \in [units : Seq(Cell), refs : Int]
  PROVE  /\ Put(m, p, c) \in Memory /\ Put(m, p, c).str = m.str /\ Put(m, p, c).mem[p] = c
         /\ \A q \in Place \ {p} : Put(m, p, c).mem[q] = m.mem[q]
<1> DEFINE x == Put(m, p, c)
<1>1. x.str = m.str /\ x.mem = [m.mem EXCEPT ![p] = c]
      /\ x = [str |-> x.str, mem |-> x.mem]
  <2>1. x = [m EXCEPT !.mem = [m.mem EXCEPT ![p] = c]]
    BY DEF Put
  <2>2. DOMAIN m = {"str", "mem"}
    BY DEF Memory
  <2> HIDE DEF x
  <2>3. x.str = m.str /\ x.mem = [m.mem EXCEPT ![p] = c]
    BY <2>1, <2>2
  <2>4. x = [str |-> m.str, mem |-> [m.mem EXCEPT ![p] = c]]
    BY <2>1 DEF Memory
  <2> QED BY <2>3, <2>4
<1> HIDE DEF x
<1>2. m.mem \in [Place -> [units : Seq(Cell), refs : Int]]
  BY DEF Memory
<1>3. x.mem \in [Place -> [units : Seq(Cell), refs : Int]]
      /\ x.mem[p] = c /\ \A q \in Place \ {p} : x.mem[q] = m.mem[q]
  BY <1>1, <1>2
<1>4. x \in Memory
  BY <1>1, <1>3 DEF Memory
<1> QED BY <1>1, <1>3, <1>4 DEF x

(* A text is written over units of an array.                               *)
LEMMA WrittenFrame ==
  ASSUME NEW m \in Memory, NEW p \in Place, NEW i \in Int, NEW text \in Seq(Cell)
  PROVE  /\ Written(m, p, i, text) \in Memory
         /\ Written(m, p, i, text).str = m.str
         /\ \A q \in Place \ {p} : Written(m, p, i, text).mem[q] = m.mem[q]
         /\ Written(m, p, i, text).mem[p].refs = m.mem[p].refs
         /\ Len(Written(m, p, i, text).mem[p].units) = Len(m.mem[p].units)
         /\ \A k \in 1 .. Len(m.mem[p].units) :
              Written(m, p, i, text).mem[p].units[k]
                = IF k - i \in 1 .. Len(text) THEN text[k - i] ELSE m.mem[p].units[k]
<1> DEFINE old == m.mem[p].units
           new == [k \in DOMAIN old |-> IF k - i \in DOMAIN text THEN text[k - i] ELSE old[k]]
<1>1. old \in Seq(Cell) /\ DOMAIN old = 1 .. Len(old) /\ Len(old) \in Nat
  BY DEF Memory
<1>2. \A k \in 1 .. Len(old) : old[k] \in Cell
  BY <1>1
<1>3. \A k \in 1 .. Len(text) : text[k] \in Cell
  OBVIOUS
<1>4. DOMAIN text = 1 .. Len(text)
  OBVIOUS
<1> HIDE DEF old
<1>5. new \in Seq(Cell) /\ Len(new) = Len(old)
      /\ \A k \in 1 .. Len(old) :
           new[k] = IF k - i \in 1 .. Len(text) THEN text[k - i] ELSE old[k]
  BY <1>1, <1>2, <1>3, <1>4
<1>6. Written(m, p, i, text) = [m EXCEPT !.mem[p] = [@ EXCEPT !.units = new]]
  BY DEF Written, old
<1> HIDE DEF new
<1> DEFINE c == [m.mem[p] EXCEPT !.units = new]
<1>7. c \in [units : Seq(Cell), refs : Int] /\ c.units = new /\ c.refs = m.mem[p].refs
  BY <1>5 DEF Memory
<1>8. Written(m, p, i, text) = Put(m, p, c)
  BY <1>6 DEF Put
<1> HIDE DEF c
<1> QED BY <1>5, <1>7, <1>8, PlaceIsWritten DEF old

(* What is read is a text of the length that was asked for.                *)
LEMMA ReadIsText ==
  ASSUME NEW m \in Memory, NEW p \in Place, NEW i \in Int, NEW n \in Nat
  PROVE  Read(m, p, i, n) \in Seq(Cell) /\ Len(Read(m, p, i, n)) = n
<1> DEFINE units == m.mem[p].units
<1>1. units \in Seq(Cell) /\ DOMAIN units = 1 .. Len(units)
  BY DEF Memory
<1>2. \A k \in DOMAIN units : units[k] \in Cell
  BY <1>1
<1>3. None \in Cell
  BY DEF Cell
<1>4. Read(m, p, i, n)
        = [k \in 1 .. n |-> IF i + k \in DOMAIN units THEN units[i + k] ELSE None]
  BY DEF Read
<1> HIDE DEF units
<1> QED BY <1>2, <1>3, <1>4

(* A negative number of units is none.                                     *)
LEMMA ReadOfNone ==
  ASSUME NEW m, NEW p, NEW i, NEW n \in Int, n <= 0
  PROVE  Read(m, p, i, n) = <<>>
BY DEF Read

(* removeRef() on an array that s holds.                                   *)
LEMMA UncountedFrame ==
  ASSUME NEW m \in Memory, NEW a \in Array
  PROVE  /\ Uncounted(m, a) \in Memory /\ Uncounted(m, a).str = m.str
         /\ \A p \in Place \ {a} : Uncounted(m, a).mem[p] = m.mem[p]
         /\ Uncounted(m, a).mem[a].refs = m.mem[a].refs - 1
         /\ Uncounted(m, a).mem[a].units = m.mem[a].units
<1> DEFINE c == [m.mem[a] EXCEPT !.refs = @ - 1]
<1>1. a \in Place
  BY Places
<1>2. c \in [units : Seq(Cell), refs : Int] /\ c.units = m.mem[a].units
      /\ c.refs = m.mem[a].refs - 1
  <2>1. m.mem[a] \in [units : Seq(Cell), refs : Int]
    BY <1>1 DEF Memory
  <2> QED BY <2>1
<1>3. Uncounted(m, a) = Put(m, a, c)
  BY DEF Uncounted, Put
<1> HIDE DEF c
<1> QED BY <1>1, <1>2, <1>3, PlaceIsWritten

(* One count less is one use of the array less.                            *)
LEMMA UncountedCounts ==
  ASSUME NEW m \in Memory, NEW s \in String, NEW held, NEW a \in Array, a \in held,
         Counts(m, s, held)
  PROVE  Counts(Uncounted(m, a), s, held \ {a})
<1> DEFINE x == Uncounted(m, a)
<1>1. x.str = m.str /\ (\A p \in Place \ {a} : x.mem[p] = m.mem[p])
      /\ x.mem[a].refs = m.mem[a].refs - 1
  BY UncountedFrame
<1> HIDE DEF x
<1>2. \A b \in Array : Others(x, s, b) = Others(m, s, b)
  BY <1>1 DEF Others
<1>3. \A b \in Array : IsFiniteSet(Others(m, s, b))
  <2>1. \A b \in Array : Others(m, s, b) \subseteq String
    BY DEF Others
  <2> QED BY <2>1, PlacesAssumption, FS_Subset
<1>4. \A b \in Array : Cardinality(Others(m, s, b)) \in Nat
  BY <1>3, FS_CardinalityType
<1>5. \A b \in Array : b \in Place
  BY Places
<1> QED BY <1>1, <1>2, <1>4, <1>5 DEF Counts, x

(* free(): an array that nobody counts any more is gone.                   *)
LEMMA SweptFrame ==
  ASSUME NEW m \in Memory
  PROVE  /\ Swept(m) \in Memory /\ Swept(m).str = m.str /\ Tidy(Swept(m))
         /\ \A p \in Place : Swept(m).mem[p].refs = m.mem[p].refs
         /\ \A p \in Place : p \notin Array \/ m.mem[p].refs # 0 => Swept(m).mem[p] = m.mem[p]
<1>1. Free \in [units : Seq(Cell), refs : Int] /\ Free.refs = 0
  BY DEF Free
<1>2. Swept(m) = [m EXCEPT !.mem = [p \in Place |->
                    IF p \in Array /\ m.mem[p].refs = 0 THEN Free ELSE m.mem[p]]]
  BY DEF Swept
<1> HIDE DEF Free
<1>3. \A a \in Array : a \in Place
  BY Places
<1>4. Swept(m).str = m.str
      /\ Swept(m).mem = [p \in Place |-> IF p \in Array /\ m.mem[p].refs = 0
                                         THEN Free ELSE m.mem[p]]
  BY <1>2 DEF Memory
<1>5. m.mem \in [Place -> [units : Seq(Cell), refs : Int]] /\ m.str \in [String -> FieldSet]
  BY DEF Memory
<1>6. Swept(m).mem \in [Place -> [units : Seq(Cell), refs : Int]]
  BY <1>1, <1>4, <1>5
<1>7. Swept(m) \in Memory
  <2>1. Swept(m) = [str |-> Swept(m).str, mem |-> Swept(m).mem]
    BY <1>2 DEF Memory
  <2> QED BY <1>4, <1>5, <1>6, <2>1 DEF Memory
<1>8. \A p \in Place : Swept(m).mem[p] = IF p \in Array /\ m.mem[p].refs = 0
                                         THEN Free ELSE m.mem[p]
  BY <1>4
<1> QED BY <1>1, <1>3, <1>4, <1>7, <1>8 DEF Tidy

-----------------------------------------------------------------------------
(* What holds while a call works on s, which has the arrays in held, and   *)
(* what holds between two calls.                                           *)
Working(m, s, held) == m \in Memory /\ Counts(m, s, held) /\ SaneBut(m, s)

Settled(m, s) == Working(m, s, Held(m, s)) /\ Sane(m.str[s], s)

(* Users can be counted.                                                   *)
LEMMA OthersAreFew ==
  ASSUME NEW m, NEW s, NEW a
  PROVE  IsFiniteSet(Others(m, s, a)) /\ Cardinality(Others(m, s, a)) \in Nat
<1>1. Others(m, s, a) \subseteq String
  BY DEF Others
<1>2. IsFiniteSet(Others(m, s, a))
  BY <1>1, PlacesAssumption, FS_Subset
<1> QED BY <1>2, FS_CardinalityType

(* An array that s has, or that another string uses, is counted.           *)
LEMMA HeldIsCounted ==
  ASSUME NEW m, NEW s, NEW held, Working(m, s, held), NEW a \in Array,
         a \in held \/ Others(m, s, a) # {}
  PROVE  m.mem[a].refs > 0
<1>1. m.mem[a].refs = Cardinality(Others(m, s, a)) + (IF a \in held THEN 1 ELSE 0)
  BY DEF Working, Counts
<1>2. Others(m, s, a) # {} => Cardinality(Others(m, s, a)) # 0
  BY OthersAreFew, FS_EmptySet
<1> QED BY <1>1, <1>2, OthersAreFew

(* SetFields() leaves s with what it held.                                 *)
LEMMA SetFieldsWorks ==
  ASSUME NEW m, NEW s \in String, NEW f \in FieldSet, NEW held, Working(m, s, held)
  PROVE  /\ Working(SetFields(m, s, f), s, held) /\ SetFields(m, s, f).str[s] = f
         /\ Tidy(m) => Tidy(SetFields(m, s, f))
<1>1. m \in Memory /\ Counts(m, s, held) /\ SaneBut(m, s)
  BY DEF Working
<1>2. SetFields(m, s, f) \in Memory /\ SetFields(m, s, f).str[s] = f
  BY <1>1, SetFieldsFrame
<1> QED BY <1>1, <1>2, SetFieldsCounts DEF Working

(* setLength() keeps the storage and the array.                            *)
LEMMA ResizedWorks ==
  ASSUME NEW m, NEW s \in String, NEW n \in Int, NEW held, Working(m, s, held)
  PROVE  /\ Working(Resized(m, s, n), s, held)
         /\ Resized(m, s, n).str[s] = [m.str[s] EXCEPT !.length = n]
         /\ Tidy(m) => Tidy(Resized(m, s, n))
<1> DEFINE x == Resized(m, s, n)
<1>1. m \in Memory /\ Counts(m, s, held) /\ SaneBut(m, s)
  BY DEF Working
<1>2. x \in Memory /\ x.str = [m.str EXCEPT ![s] = [m.str[s] EXCEPT !.length = n]]
      /\ x.mem = m.mem
  BY <1>1, ResizedFrame
<1> HIDE DEF x
<1>3. (\A t \in String \ {s} : x.str[t] = m.str[t])
      /\ x.str[s] = [m.str[s] EXCEPT !.length = n]
  BY <1>1, <1>2 DEF Memory
<1>4. Counts(x, s, held)
  BY <1>1, <1>2, <1>3, CountsAgree
<1> QED BY <1>1, <1>2, <1>3, <1>4 DEF Working, SaneBut, Tidy, x

(* us_arrayCopy() to the array of s, which is not an array without users.  *)
LEMMA WrittenWorks ==
  ASSUME NEW m, NEW s \in String, NEW held, Working(m, s, held),
         NEW p \in Place, NEW i \in Int, NEW text \in Seq(Cell)
  PROVE  /\ Working(Written(m, p, i, text), s, held)
         /\ Written(m, p, i, text).str = m.str
         /\ Tidy(m) /\ (p \in Array => m.mem[p].refs # 0) => Tidy(Written(m, p, i, text))
<1> DEFINE x == Written(m, p, i, text)
<1>1. m \in Memory /\ Counts(m, s, held) /\ SaneBut(m, s)
  BY DEF Working
<1>2. x \in Memory /\ x.str = m.str /\ (\A q \in Place \ {p} : x.mem[q] = m.mem[q])
      /\ x.mem[p].refs = m.mem[p].refs
  BY <1>1, WrittenFrame
<1> HIDE DEF x
<1>3. \A a \in Array : a \in Place
  BY Places
<1>4. Counts(x, s, held)
  BY <1>1, <1>2, <1>3, CountsAgree
<1> QED BY <1>1, <1>2, <1>3, <1>4 DEF Working, SaneBut, Tidy, x

(* removeRef() takes an array away from s.                                 *)
LEMMA UncountedWorks ==
  ASSUME NEW m, NEW s \in String, NEW held, Working(m, s, held),
         NEW a \in Array, a \in held
  PROVE  /\ Working(Uncounted(m, a), s, held \ {a}) /\ Uncounted(m, a).str = m.str
<1>1. m \in Memory /\ Counts(m, s, held) /\ SaneBut(m, s)
  BY DEF Working
<1>2. Uncounted(m, a) \in Memory /\ Uncounted(m, a).str = m.str
  BY <1>1, UncountedFrame
<1> QED BY <1>1, <1>2, UncountedCounts DEF Working, SaneBut

(* What is freed has no user.                                              *)
LEMMA SweptWorks ==
  ASSUME NEW m, NEW s \in String, NEW held, Working(m, s, held)
  PROVE  Working(Swept(m), s, held) /\ Swept(m).str = m.str /\ Tidy(Swept(m))
<1>1. m \in Memory /\ Counts(m, s, held) /\ SaneBut(m, s)
  BY DEF Working
<1>2. Swept(m) \in Memory /\ Swept(m).str = m.str /\ Tidy(Swept(m))
      /\ \A p \in Place : Swept(m).mem[p].refs = m.mem[p].refs
  BY <1>1, SweptFrame
<1>3. \A a \in Array : a \in Place
  BY Places
<1>4. Counts(Swept(m), s, held)
  BY <1>1, <1>2, <1>3, CountsAgree
<1> QED BY <1>1, <1>2, <1>4 DEF Working, SaneBut

(* releaseArray() leaves s without an array.                               *)
LEMMA ReleasedWorks ==
  ASSUME NEW m, NEW s \in String, Settled(m, s), Tidy(m)
  PROVE  Working(Released(m, s), s, {}) /\ Released(m, s).str = m.str /\ Tidy(Released(m, s))
<1>1. CASE m.str[s].storage = "long"
  <2> DEFINE a == m.str[s].array
  <2>1. a \in Array /\ Held(m, s) = {a} /\ Working(m, s, {a})
    BY <1>1 DEF Settled, Sane, Held
  <2>2. Working(Uncounted(m, a), s, {a} \ {a}) /\ Uncounted(m, a).str = m.str
    BY <2>1, UncountedWorks
  <2>3. {a} \ {a} = {}
    OBVIOUS
  <2>4. Released(m, s) = Swept(Uncounted(m, a))
    BY <1>1 DEF Released
  <2> QED BY <2>2, <2>3, <2>4, SweptWorks
<1>2. CASE m.str[s].storage # "long"
  BY <1>2 DEF Settled, Held, Released
<1> QED BY <1>1, <1>2

(* setToBogus().                                                           *)
LEMMA ToBogusSettles ==
  ASSUME NEW m, NEW s \in String, Settled(m, s), Tidy(m)
  PROVE  Settled(ToBogus(m, s), s) /\ Tidy(ToBogus(m, s)) /\ ToBogus(m, s).str[s] = BogusFields
<1>1. Working(Released(m, s), s, {}) /\ Tidy(Released(m, s))
  BY ReleasedWorks
<1>2. /\ Working(ToBogus(m, s), s, {}) /\ Tidy(ToBogus(m, s))
      /\ ToBogus(m, s).str[s] = BogusFields
  BY <1>1, SetFieldsWorks, FieldsAreFields DEF ToBogus
<1>3. Held(ToBogus(m, s), s) = {}
  BY <1>2 DEF Held, BogusFields, Fields
<1> QED BY <1>2, <1>3, FieldsAreFields DEF Settled

-----------------------------------------------------------------------------
(* There are more arrays than strings, so that one is free while s asks    *)
(* for one: each array in use has a user of its own, which is s for the    *)
(* one that s may hold.                                                    *)
LEMMA OneArrayIsFree ==
  ASSUME NEW m, NEW s \in String, NEW held, Working(m, s, held), Tidy(m),
         \A a, b \in held : a = b
  PROVE  \E a \in Array : m.mem[a] = Free
<1> DEFINE user(a) == IF a \in held THEN s ELSE CHOOSE t \in String : t \in Others(m, s, a)
           users   == [a \in Array |-> user(a)]
<1> SUFFICES ASSUME \A a \in Array : m.mem[a] # Free
             PROVE  FALSE
  OBVIOUS
<1>1. Counts(m, s, held)
  BY DEF Working
<1>2. \A a \in Array : m.mem[a].refs # 0
  BY DEF Tidy
<1>3. \A a \in Array : a \notin held => Others(m, s, a) # {}
  <2> SUFFICES ASSUME NEW a \in Array, a \notin held, Others(m, s, a) = {}
               PROVE  m.mem[a].refs = 0
    BY <1>2
  <2> QED BY <1>1, FS_EmptySet DEF Counts
<1>4. \A a \in Array : a \notin held => user(a) \in Others(m, s, a)
  BY <1>3 DEF Others
<1>5. \A a \in Array : user(a) \in String
  BY <1>4 DEF Others
<1>6. \A a, b \in Array : user(a) = user(b) => a = b
  <2> SUFFICES ASSUME NEW a \in Array, NEW b \in Array, user(a) = user(b)
               PROVE  a = b
    OBVIOUS
  <2>1. CASE a \in held /\ b \in held
    BY <2>1
  <2>2. CASE a \notin held /\ b \notin held
    BY <2>2, <1>4 DEF Others
  <2>3. CASE a \in held /\ b \notin held
    BY <2>3, <1>4 DEF Others
  <2>4. CASE a \notin held /\ b \in held
    BY <2>4, <1>4 DEF Others
  <2> QED BY <2>1, <2>2, <2>3, <2>4
<1> HIDE DEF user
<1>7. users \in [Array -> String]
  BY <1>5
<1>8. \A f \in [Array -> String] : \E a, b \in Array : a # b /\ f[a] = f[b]
  BY FS_PigeonHole, PlacesAssumption, BoundsAssumption
<1>9. PICK a \in Array, b \in Array : a # b /\ users[a] = users[b]
  BY <1>7, <1>8
<1> QED BY <1>6, <1>9

(* y is m after s was given a buffer, or none: what it has it did not hold *)
(* before.                                                                 *)
Got(y, s, held) ==
  /\ Working(y, s, held \cup Held(y, s)) /\ Tidy(y) /\ Sane(y.str[s], s)
  /\ Held(y, s) \cap held = {} /\ y.str[s].storage \in {"short", "long", "bogus"}

(* A new array is one that s did not hold, and that no other string uses.  *)
LEMMA NewArrayWorks ==
  ASSUME NEW m, NEW s \in String, NEW held, Working(m, s, held), Tidy(m),
         \A a, b \in held : a = b, NEW n \in Nat
  PROVE  Got(NewArray(m, s, n), s, held)
<1> DEFINE a == CHOOSE x \in Array : m.mem[x] = Free
           f == Fields("long", a, 0, n)
           x == SetFields(m, s, f)
           c == [units |-> Uninitialized(n), refs |-> 1]
           y == Put(x, a, c)
<1>1. a \in Array /\ m.mem[a] = Free
  BY OneArrayIsFree
<1> HIDE DEF a
<1>2. a \in Place /\ a # s /\ f \in FieldSet /\ f.storage = "long" /\ f.array = a
  BY <1>1, Places DEF FieldSet, Storages, Fields
<1> HIDE DEF f
<1>3. Working(x, s, held) /\ x.str[s] = f /\ Tidy(x)
  BY <1>2, SetFieldsWorks
<1>4. x \in Memory /\ Counts(x, s, held) /\ SaneBut(x, s)
  BY <1>3 DEF Working
<1>5. m \in Memory /\ x.mem[a] = Free
  <2>1. m \in Memory
    BY DEF Working
  <2>2. \A p \in Place \ {s} : x.mem[p] = m.mem[p]
    BY <1>2, <2>1, SetFieldsFrame
  <2> QED BY <1>1, <1>2, <2>1, <2>2
<1> HIDE DEF x
<1>6. c \in [units : Seq(Cell), refs : Int] /\ c.refs = 1
  BY UninitializedIsText
<1>7. NewArray(m, s, n) = y
  BY DEF NewArray, Put, x, f, a
<1> HIDE DEF c
<1>8. y \in Memory /\ y.str = x.str /\ y.mem[a] = c
      /\ \A p \in Place \ {a} : y.mem[p] = x.mem[p]
  BY <1>2, <1>4, <1>6, PlaceIsWritten
<1> HIDE DEF y
<1>9. a \notin held /\ Cardinality(Others(x, s, a)) = 0
  <2>1. x.mem[a].refs = 0
    BY <1>5 DEF Free
  <2> QED BY <1>1, <1>4, <2>1, OthersAreFew DEF Counts
<1>10. Held(y, s) = {a}
  BY <1>2, <1>3, <1>8 DEF Held
<1>11. \A b \in Array : Others(y, s, b) = Others(x, s, b)
  BY <1>8 DEF Others
<1>12. \A b \in Array : b \in Place
  BY Places
<1>13. Counts(y, s, held \cup {a})
  <2> SUFFICES ASSUME NEW b \in Array
               PROVE  y.mem[b].refs = Cardinality(Others(x, s, b))
                                        + (IF b \in held \cup {a} THEN 1 ELSE 0)
    BY <1>11 DEF Counts
  <2>1. CASE b = a
    BY <1>6, <1>8, <1>9, <2>1
  <2>2. CASE b # a
    BY <1>4, <1>8, <1>12, <2>2 DEF Counts
  <2> QED BY <2>1, <2>2
<1>14. Tidy(y)
  BY <1>3, <1>6, <1>8, <1>12 DEF Tidy
<1>15. SaneBut(y, s) /\ y.str[s].storage = "long" /\ Sane(y.str[s], s)
  BY <1>1, <1>2, <1>3, <1>4, <1>8 DEF SaneBut, Sane
<1> QED BY <1>7, <1>8, <1>9, <1>10, <1>13, <1>14, <1>15 DEF Working, Got

-----------------------------------------------------------------------------
(* The smaller of two numbers.                                             *)
LEMMA MinOfTwo ==
  ASSUME NEW a \in Int, NEW b \in Int
  PROVE  Min({a, b}) = IF a <= b THEN a ELSE b
<1> DEFINE least == IF a <= b THEN a ELSE b
<1>1. least \in {a, b} /\ \A y \in {a, b} : least <= y
  OBVIOUS
<1>2. \A x \in {a, b} : (\A y \in {a, b} : x <= y) => x = least
  OBVIOUS
<1> HIDE DEF least
<1>3. (CHOOSE x \in {a, b} : \A y \in {a, b} : x <= y) = least
  BY <1>1, <1>2
<1> QED BY <1>3 DEF Min, least

(* malloc() gives as many units as were asked for, and the NUL behind.     *)
LEMMA AllocatedIsEnough ==
  ASSUME NEW n \in Nat
  PROVE  AllocatedCapacity(n) \in Nat /\ AllocatedCapacity(n) > n
<1> DEFINE k == Header + n + 1 + Granule - 1
           q == k \div Granule
<1>1. k \in Nat /\ Granule \in Nat /\ Granule > 0 /\ Header \in Nat
  BY BoundsAssumption
<1> HIDE DEF k
<1>2. q \in Nat /\ k = q * Granule + (k % Granule) /\ k % Granule \in 0 .. Granule - 1
  BY <1>1
<1> HIDE DEF q
<1>3. q * Granule \in Nat
  BY <1>1, <1>2
<1>4. q * Granule >= k - (Granule - 1)
  BY <1>1, <1>2, <1>3
<1>5. q * Granule >= Header + n + 1
  BY <1>1, <1>4, <1>3 DEF k
<1>6. AllocatedCapacity(n) = q * Granule - Header
  BY DEF AllocatedCapacity, q, k
<1> QED BY <1>1, <1>3, <1>5, <1>6

(* allocate() gives s its own buffer or a new array, or fails.             *)
LEMMA AllocateWorks ==
  ASSUME NEW m, NEW s \in String, NEW held, Working(m, s, held), Tidy(m),
         \A a, b \in held : a = b, NEW n \in Int, NEW y \in Allocate(m, s, n)
  PROVE  Got(y, s, held)
<1>1. CASE y = SetFields(m, s, Empty(s)) \/ y = SetFields(m, s, BogusFields)
  <2>1. PICK f \in {Empty(s), BogusFields} : y = SetFields(m, s, f)
    BY <1>1
  <2>2. f \in FieldSet /\ Sane(f, s) /\ f.storage \in {"short", "bogus"}
    <3>1. Empty(s).storage = "short" /\ BogusFields.storage = "bogus"
      BY DEF Empty, BogusFields, Fields
    <3> QED BY <3>1, FieldsAreFields
  <2>3. Working(y, s, held) /\ y.str[s] = f /\ Tidy(y)
    BY <2>1, <2>2, SetFieldsWorks
  <2>4. Held(y, s) = {}
    BY <2>2, <2>3 DEF Held
  <2>5. held \cup {} = held
    OBVIOUS
  <2> QED BY <2>2, <2>3, <2>4, <2>5 DEF Got
<1>2. CASE \E c \in {n} \cap 0 .. MaxCapacity : y = NewArray(m, s, AllocatedCapacity(c))
  <2>1. PICK c \in 0 .. MaxCapacity : y = NewArray(m, s, AllocatedCapacity(c))
    BY <1>2
  <2>2. AllocatedCapacity(c) \in Nat
    BY BoundsAssumption, AllocatedIsEnough
  <2> QED BY <2>1, <2>2, NewArrayWorks
<1> QED BY <1>1, <1>2 DEF Allocate

(* Both attempts of cloneArrayIfNeeded().                                  *)
Attempts(m, s, first, n) ==
  UNION {IF IsBogus(y, s) /\ n < first THEN Allocate(y, s, n) ELSE {y} :
           y \in Allocate(m, s, first)}

(* allocate() is tried with two capacities: either may fail.               *)
LEMMA AttemptsWork ==
  ASSUME NEW m, NEW s \in String, NEW held, Working(m, s, held), Tidy(m),
         \A a, b \in held : a = b, NEW first \in Int, NEW n \in Int,
         NEW x \in Attempts(m, s, first, n)
  PROVE  Got(x, s, held)
<1>1. PICK y \in Allocate(m, s, first) :
             x \in IF IsBogus(y, s) /\ n < first THEN Allocate(y, s, n) ELSE {y}
  BY DEF Attempts
<1>2. Got(y, s, held)
  BY AllocateWorks
<1>3. CASE IsBogus(y, s) /\ x \in Allocate(y, s, n)
  <2>1. Held(y, s) = {}
    BY <1>3 DEF IsBogus, Held
  <2>2. held \cup {} = held
    OBVIOUS
  <2>3. Working(y, s, held) /\ Tidy(y)
    BY <1>2, <2>1, <2>2 DEF Got
  <2> QED BY <1>3, <2>3, AllocateWorks
<1>4. CASE x = y
  BY <1>2, <1>4
<1> QED BY <1>1, <1>3, <1>4

-----------------------------------------------------------------------------
(* The fields of s alone are written.                                      *)
PutFields(m, s, f) == [m EXCEPT !.str[s] = f]

(* What putting the fields back changes,                                   *)
LEMMA FieldsArePut ==
  ASSUME NEW m \in Memory, NEW s \in String, NEW f \in FieldSet
  PROVE  /\ PutFields(m, s, f) \in Memory /\ PutFields(m, s, f).mem = m.mem
         /\ PutFields(m, s, f).str[s] = f
         /\ \A t \in String \ {s} : PutFields(m, s, f).str[t] = m.str[t]
<1> DEFINE x == PutFields(m, s, f)
<1>1. x.mem = m.mem /\ x.str = [m.str EXCEPT ![s] = f]
      /\ x = [str |-> x.str, mem |-> x.mem]
  <2>1. x = [m EXCEPT !.str = [m.str EXCEPT ![s] = f]]
    BY DEF PutFields
  <2>2. DOMAIN m = {"str", "mem"}
    BY DEF Memory
  <2> HIDE DEF x
  <2>3. x.mem = m.mem /\ x.str = [m.str EXCEPT ![s] = f]
    BY <2>1, <2>2
  <2>4. x = [str |-> [m.str EXCEPT ![s] = f], mem |-> m.mem]
    BY <2>1 DEF Memory
  <2> QED BY <2>3, <2>4
<1> HIDE DEF x
<1>2. m.str \in [String -> FieldSet]
  BY DEF Memory
<1>3. /\ x.str \in [String -> FieldSet] /\ x.str[s] = f
      /\ \A t \in String \ {s} : x.str[t] = m.str[t]
  BY <1>1, <1>2
<1>4. x \in Memory
  BY <1>1, <1>3 DEF Memory
<1> QED BY <1>1, <1>3, <1>4 DEF x

(* and what it means for the counts.                                       *)
LEMMA FieldsPutWork ==
  ASSUME NEW m, NEW s \in String, NEW f \in FieldSet, NEW held, Working(m, s, held)
  PROVE  /\ Working(PutFields(m, s, f), s, held) /\ PutFields(m, s, f).str[s] = f
         /\ Tidy(m) => Tidy(PutFields(m, s, f))
<1> DEFINE x == PutFields(m, s, f)
<1>1. m \in Memory /\ Counts(m, s, held) /\ SaneBut(m, s)
  BY DEF Working
<1>2. /\ x \in Memory /\ x.mem = m.mem /\ x.str[s] = f
      /\ \A t \in String \ {s} : x.str[t] = m.str[t]
  BY <1>1, FieldsArePut
<1> HIDE DEF x
<1>3. Counts(x, s, held)
  BY <1>1, <1>2, CountsAgree
<1> QED BY <1>1, <1>2, <1>3 DEF Working, SaneBut, Tidy, x

(* If both attempts fail, the old array is released.                       *)
LEMMA CloneFailsSettles ==
  ASSUME NEW m, NEW s \in String, Settled(m, s), NEW x, Got(x, s, Held(m, s)), IsBogus(x, s)
  PROVE  /\ Settled(CloneFails(m, x, s), s) /\ Tidy(CloneFails(m, x, s))
         /\ IsBogus(CloneFails(m, x, s), s)
<1> DEFINE y == PutFields(x, s, m.str[s])
<1>1. m.str[s] \in FieldSet /\ Sane(m.str[s], s)
  BY DEF Settled, Working, Memory
<1>2. Working(x, s, Held(m, s)) /\ Tidy(x)
  <2>1. Held(x, s) = {}
    BY DEF IsBogus, Held
  <2>2. Held(m, s) \cup {} = Held(m, s)
    OBVIOUS
  <2> QED BY <2>1, <2>2 DEF Got
<1>3. Working(y, s, Held(m, s)) /\ y.str[s] = m.str[s] /\ Tidy(y)
  BY <1>1, <1>2, FieldsPutWork
<1>4. CloneFails(m, x, s) = ToBogus(y, s)
  BY DEF CloneFails, PutFields
<1> HIDE DEF y
<1>5. Held(y, s) = Held(m, s)
  BY <1>3 DEF Held
<1>6. Settled(y, s)
  BY <1>1, <1>3, <1>5 DEF Settled
<1>7. Settled(ToBogus(y, s), s) /\ Tidy(ToBogus(y, s)) /\ ToBogus(y, s).str[s] = BogusFields
  BY <1>3, <1>6, ToBogusSettles
<1> QED BY <1>4, <1>7 DEF IsBogus, BogusFields, Fields

(* A text of any number of units that is read from a place is a text.      *)
LEMMA ReadIsAlwaysText ==
  ASSUME NEW m \in Memory, NEW p \in Place, NEW i \in Int, NEW n \in Int
  PROVE  Read(m, p, i, n) \in Seq(Cell)
<1>1. CASE n \in Nat
  BY <1>1, ReadIsText
<1>2. CASE n <= 0
  <2>1. Read(m, p, i, n) = <<>>
    BY <1>2, ReadOfNone
  <2> QED BY <2>1
<1> QED BY <1>1, <1>2

(* Another length, and the array is as it should be.                       *)
LEMMA LengthIsNoMatter ==
  ASSUME NEW f \in FieldSet, NEW s \in String, Sane(f, s), f.storage # "bogus", NEW n \in Int,
         NEW g, g = [f EXCEPT !.length = n]
  PROVE  g.storage = f.storage /\ g.array = f.array /\ Sane(g, s) /\ g \in FieldSet
<1>1. g.storage = f.storage /\ g.array = f.array /\ g \in FieldSet
  BY DEF FieldSet
<1> QED BY <1>1 DEF Sane

(* The array of a string that has a value.                                 *)
LEMMA ArrayIsPlace ==
  ASSUME NEW f \in FieldSet, NEW s \in String, Sane(f, s), f.storage # "bogus"
  PROVE  f.array \in Place
BY Places DEF Sane, FieldSet, Storages

(* If the second half of cloneArrayIfNeeded() is reached, s has its new    *)
(* array and has given up the old one.                                     *)
LEMMA CloneToSettles ==
  ASSUME NEW m, NEW s \in String, Settled(m, s), ~IsBogus(m, s),
         NEW x, Got(x, s, Held(m, s)), ~IsBogus(x, s),
         NEW copy \in BOOLEAN, NEW delete \in BOOLEAN
  PROVE  /\ Settled(CloneTo(m, x, s, copy, delete), s)
         /\ delete => Tidy(CloneTo(m, x, s, copy, delete))
         /\ ~IsBogus(CloneTo(m, x, s, copy, delete), s)
<1> DEFINE kept == IF copy THEN Min({m.str[s].length, x.str[s].capacity}) ELSE 0
           text == OldText(m, x, s, 0, kept)
           w == Written(x, x.str[s].array, 0, text)
           c == Resized(w, s, kept)
           a == m.str[s].array
           r == CloneTo(m, x, s, copy, delete)
<1>1. m \in Memory /\ x \in Memory /\ m.str[s] \in FieldSet /\ x.str[s] \in FieldSet
      /\ Sane(m.str[s], s) /\ Sane(x.str[s], s)
  BY DEF Settled, Got, Working, Memory
<1>2. a \in Place /\ x.str[s].array \in Place
  BY <1>1, ArrayIsPlace DEF IsBogus
<1>3. kept \in Int
  BY <1>1, MinOfTwo DEF FieldSet
<1>4. text \in Seq(Cell)
  <2>1. m.str[s].start + 0 \in Int
    BY <1>1 DEF FieldSet
  <2> HIDE DEF kept
  <2> QED BY <1>1, <1>2, <1>3, <2>1, ReadIsAlwaysText DEF OldText
<1> HIDE DEF kept, text
<1> DEFINE held == Held(m, s) \cup Held(x, s)
<1>5. Working(x, s, held) /\ Tidy(x) /\ Held(m, s) \cap Held(x, s) = {}
  BY DEF Got
<1>6. x.str[s].array \in Array => x.mem[x.str[s].array].refs # 0
  <2> SUFFICES ASSUME x.str[s].array \in Array PROVE x.mem[x.str[s].array].refs # 0
    OBVIOUS
  <2>1. x.str[s].storage = "long"
    BY <1>1, Places DEF Sane, IsBogus, FieldSet, Storages
  <2>2. x.str[s].array \in held
    BY <2>1 DEF Held
  <2> QED BY <1>5, <2>2, HeldIsCounted
<1>7. Working(w, s, held) /\ w.str = x.str /\ Tidy(w)
  BY <1>2, <1>4, <1>5, <1>6, WrittenWorks
<1> HIDE DEF w
<1>8. Working(c, s, held) /\ c.str[s] = [x.str[s] EXCEPT !.length = kept] /\ Tidy(c)
  BY <1>3, <1>7, ResizedWorks
<1>9. c.str[s].storage = x.str[s].storage /\ c.str[s].array = x.str[s].array
      /\ Held(c, s) = Held(x, s) /\ Sane(c.str[s], s)
  <2>1. c.str[s].storage = x.str[s].storage /\ c.str[s].array = x.str[s].array
        /\ Sane(c.str[s], s)
    BY <1>1, <1>3, <1>8, LengthIsNoMatter DEF IsBogus
  <2> QED BY <2>1 DEF Held
<1> HIDE DEF c
<1>10. CASE m.str[s].storage # "long"
  <2>1. Held(m, s) = {} /\ {} \cup Held(x, s) = Held(x, s)
    BY <1>10 DEF Held
  <2>2. r = c
    BY <1>10 DEF CloneTo, c, w, text, kept
  <2> QED BY <1>8, <1>9, <2>1, <2>2 DEF Settled, IsBogus
<1>11. CASE m.str[s].storage = "long"
  <2>1. a \in Array /\ Held(m, s) = {a} /\ a \in held
    BY <1>1, <1>11 DEF Held, Sane
  <2>2. held \ {a} = Held(x, s)
    BY <1>5, <2>1
  <2>3. Working(Uncounted(c, a), s, Held(x, s)) /\ Uncounted(c, a).str = c.str
    <3> HIDE DEF a, held
    <3> QED BY <1>8, <2>1, <2>2, UncountedWorks
  <2>4. r = IF delete THEN Swept(Uncounted(c, a)) ELSE Uncounted(c, a)
    BY <1>11 DEF CloneTo, c, w, text, kept
  <2> HIDE DEF a, r
  <2>5. Working(r, s, Held(x, s)) /\ r.str = c.str /\ (delete => Tidy(r))
    BY <2>3, <2>4, SweptWorks
  <2>6. Held(r, s) = Held(x, s) /\ Sane(r.str[s], s) /\ ~IsBogus(r, s)
    BY <1>9, <2>5 DEF Held, IsBogus
  <2> QED BY <2>5, <2>6 DEF Settled, r
<1> QED BY <1>10, <1>11

(* cloneArrayIfNeeded() leaves nothing behind that is not counted; without *)
(* delete, an array that nobody uses may wait for the caller to free it.   *)
LEMMA CloneSettles ==
  ASSUME NEW m, NEW s \in String, Settled(m, s), Tidy(m), NEW n \in Int, NEW grow \in Int,
         NEW copy \in BOOLEAN, NEW delete \in BOOLEAN, NEW r \in Clone(m, s, n, grow, copy, delete)
  PROVE  Settled(r, s) /\ (delete \/ IsBogus(r, s) => Tidy(r))
<1> DEFINE first == IF n <= StackSize THEN Min({grow, StackSize}) ELSE grow
<1>1. first \in Int
  BY MinOfTwo, BoundsAssumption
<1>2. CASE r = m
  BY <1>2
<1>3. CASE /\ IsWritable(m, s)
           /\ \E x \in Attempts(m, s, first, n) :
                r = IF IsBogus(x, s) THEN CloneFails(m, x, s)
                                     ELSE CloneTo(m, x, s, copy, delete)
  <2>1. PICK x \in Attempts(m, s, first, n) :
               r = IF IsBogus(x, s) THEN CloneFails(m, x, s)
                                    ELSE CloneTo(m, x, s, copy, delete)
    BY <1>3
  <2>2. ~IsBogus(m, s) /\ Working(m, s, Held(m, s)) /\ \A a, b \in Held(m, s) : a = b
    BY <1>3 DEF IsWritable, Settled, Held
  <2> HIDE DEF first
  <2>3. Got(x, s, Held(m, s))
    BY <1>1, <2>2, AttemptsWork
  <2>4. CASE IsBogus(x, s)
    BY <2>1, <2>3, <2>4, CloneFailsSettles
  <2>5. CASE ~IsBogus(x, s)
    BY <2>1, <2>2, <2>3, <2>5, CloneToSettles
  <2> QED BY <2>4, <2>5
<1> QED BY <1>2, <1>3 DEF Clone, Attempts

-----------------------------------------------------------------------------
(* A source is a part of a place, or a text of its own.                    *)
SourceSet == [place : Place \cup {None}, start : Int, length : Int, copy : Seq(Cell)]

(* What is appended or inserted consists of units.                         *)
LEMMA SourceIsText ==
  ASSUME NEW m \in Memory, NEW src \in SourceSet
  PROVE  SourceChars(m, src) \in Seq(Cell)
<1>1. CASE src.place = None
  BY <1>1 DEF SourceChars, SourceSet
<1>2. CASE src.place # None
  <2>1. src.place \in Place /\ src.start \in Int /\ src.length \in Int
    BY <1>2 DEF SourceSet
  <2> QED BY <1>2, <2>1, ReadIsAlwaysText DEF SourceChars
<1> QED BY <1>1, <1>2

(* The copies are sources, too.                                            *)
LEMMA SafeSourcesAreSources ==
  ASSUME NEW m \in Memory, NEW s, NEW src \in SourceSet, NEW x \in SafeSources(m, s, src)
  PROVE  x \in SourceSet
<1>1. SourceChars(m, src) \in Seq(Cell)
  BY SourceIsText
<1> QED BY <1>1 DEF SafeSources, Copies, SourceSet

(* s takes another length.                                                 *)
LEMMA ResizedSettles ==
  ASSUME NEW m, NEW s \in String, Settled(m, s), ~IsBogus(m, s), NEW n \in Int
  PROVE  /\ Settled(Resized(m, s, n), s)
         /\ Resized(m, s, n).str[s] = [m.str[s] EXCEPT !.length = n]
         /\ Tidy(m) => Tidy(Resized(m, s, n))
<1> DEFINE r == Resized(m, s, n)
<1>1. m.str[s] \in FieldSet /\ Sane(m.str[s], s) /\ m.str[s].storage # "bogus"
      /\ Working(m, s, Held(m, s))
  BY DEF Settled, Working, Memory, IsBogus
<1>2. Working(r, s, Held(m, s)) /\ r.str[s] = [m.str[s] EXCEPT !.length = n]
      /\ (Tidy(m) => Tidy(r))
  BY <1>1, ResizedWorks
<1> HIDE DEF r
<1>3. r.str[s].storage = m.str[s].storage /\ r.str[s].array = m.str[s].array
      /\ Sane(r.str[s], s)
  BY <1>1, <1>2, LengthIsNoMatter
<1>4. Held(r, s) = Held(m, s)
  BY <1>3 DEF Held
<1> QED BY <1>2, <1>3, <1>4 DEF Settled, r

(* s writes into the array that it has.                                    *)
LEMMA WrittenSettles ==
  ASSUME NEW m, NEW s \in String, Settled(m, s), ~IsBogus(m, s), NEW p, p = m.str[s].array,
         NEW i \in Int, NEW text \in Seq(Cell)
  PROVE  /\ Settled(Written(m, p, i, text), s)
         /\ Written(m, p, i, text).str = m.str
         /\ Tidy(m) => Tidy(Written(m, p, i, text))
<1> DEFINE w == Written(m, p, i, text)
<1>1. m \in Memory /\ m.str[s] \in FieldSet /\ Sane(m.str[s], s) /\ m.str[s].storage # "bogus"
      /\ Working(m, s, Held(m, s))
  BY DEF Settled, Working, Memory, IsBogus
<1>2. p \in Place
  BY <1>1, ArrayIsPlace
<1>3. p \in Array => m.mem[p].refs # 0
  <2> SUFFICES ASSUME p \in Array PROVE m.mem[p].refs # 0
    OBVIOUS
  <2>1. m.str[s].storage = "long"
    BY <1>1, Places DEF Sane, FieldSet, Storages
  <2>2. p \in Held(m, s)
    BY <2>1 DEF Held
  <2> QED BY <1>1, <2>2, HeldIsCounted
<1>4. Working(w, s, Held(m, s)) /\ w.str = m.str /\ (Tidy(m) => Tidy(w))
  BY <1>1, <1>2, <1>3, WrittenWorks
<1> HIDE DEF w
<1>5. Held(w, s) = Held(m, s) /\ Sane(w.str[s], s)
  BY <1>1, <1>4 DEF Held
<1> QED BY <1>4, <1>5 DEF Settled, w

(* What a call leaves behind.                                              *)
Left(m, s) == Settled(m, s) /\ Tidy(m)

(* doAppend() without the check for an append to itself.                   *)
LEMMA AppendCharsSettles ==
  ASSUME NEW m, NEW s \in String, Left(m, s), IsWritable(m, s), NEW src \in SourceSet,
         NEW r \in AppendChars(m, s, src)
  PROVE  Left(r, s)
<1> DEFINE old == m.str[s].length
           new == old + src.length
<1>1. m \in Memory /\ m.str[s] \in FieldSet
  BY DEF Left, Settled, Working, Memory
<1>2. old \in Int /\ new \in Int /\ GrowCapacity(new) \in Int
  <2>1. old \in Int /\ new \in Int
    BY <1>1 DEF FieldSet, SourceSet
  <2> QED BY <2>1, BoundsAssumption DEF GrowCapacity
<1>3. PICK x \in {m} \cup Clone(m, s, new, GrowCapacity(new), TRUE, TRUE) :
             r = IF IsBogus(x, s) THEN x
                 ELSE Resized(Written(x, x.str[s].array, x.str[s].start + old,
                                      SourceChars(x, src)), s, new)
  BY DEF AppendChars
<1> HIDE DEF old, new
<1>4. Settled(x, s) /\ Tidy(x)
  BY <1>2, <1>3, CloneSettles DEF Left
<1>5. x \in Memory /\ x.str[s] \in FieldSet
  BY <1>4 DEF Settled, Working, Memory
<1>6. SourceChars(x, src) \in Seq(Cell) /\ x.str[s].start + old \in Int
  BY <1>2, <1>5, SourceIsText DEF FieldSet
<1>7. CASE ~IsBogus(x, s)
  <2> DEFINE w == Written(x, x.str[s].array, x.str[s].start + old, SourceChars(x, src))
  <2>1. Settled(w, s) /\ w.str = x.str /\ Tidy(w)
    BY <1>4, <1>6, <1>7, WrittenSettles
  <2>2. r = Resized(w, s, new)
    BY <1>3, <1>7
  <2> HIDE DEF w
  <2>3. ~IsBogus(w, s)
    BY <1>7, <2>1 DEF IsBogus
  <2> QED BY <1>2, <2>1, <2>2, <2>3, ResizedSettles DEF Left
<1> QED BY <1>3, <1>4, <1>7 DEF Left

(* If the copy of what is appended to itself cannot be made.               *)
LEMMA CopyFailsSettles ==
  ASSUME NEW m, NEW s \in String, Left(m, s), NEW src, NEW r \in CopyFails(m, s, src)
  PROVE  Left(r, s)
BY ToBogusSettles DEF CopyFails, Left

(* doAppend().                                                             *)
LEMMA AppendSettles ==
  ASSUME NEW m, NEW s \in String, Left(m, s), NEW src \in SourceSet,
         NEW r \in DoAppend(m, s, src)
  PROVE  Left(r, s)
<1>1. m \in Memory
  BY DEF Left, Settled, Working
<1>2. CASE r = m
  BY <1>2
<1>3. CASE r = ToBogus(m, s)
  BY <1>3, ToBogusSettles DEF Left
<1>4. CASE r \in CopyFails(m, s, src)
  BY <1>4, CopyFailsSettles
<1>5. CASE IsWritable(m, s) /\ \E x \in SafeSources(m, s, src) : r \in AppendChars(m, s, x)
  BY <1>1, <1>5, SafeSourcesAreSources, AppendCharsSettles
<1> QED BY <1>2, <1>3, <1>4, <1>5 DEF DoAppend

(* doReplace() after its checks.                                           *)
LEMMA ReplaceCharsSettles ==
  ASSUME NEW m, NEW s \in String, Left(m, s), IsWritable(m, s), NEW src \in SourceSet,
         NEW start \in Int, NEW length \in Int, NEW r \in ReplaceChars(m, s, src, start, length)
  PROVE  Left(r, s)
<1> DEFINE old == m.str[s].length
           tail == start + length
           new == old - length + src.length
<1>1. m \in Memory /\ m.str[s] \in FieldSet /\ Settled(m, s) /\ Tidy(m)
      /\ m.str[s].array \in Place
  BY ArrayIsPlace DEF Left, Settled, Working, Memory, IsWritable, IsBogus
<1>2. old \in Int /\ tail \in Int /\ new \in Int /\ GrowCapacity(new) \in Int
      /\ src.length \in Int /\ m.str[s].start \in Int
  <2>1. old \in Int /\ src.length \in Int /\ m.str[s].start \in Int
    BY <1>1 DEF FieldSet, SourceSet
  <2>2. tail \in Int /\ new \in Int
    BY <2>1
  <2> QED BY <2>1, <2>2, BoundsAssumption DEF GrowCapacity
<1>3. PICK x \in Clone(m, s, new, GrowCapacity(new), FALSE, FALSE) :
             r = IF IsBogus(x, s) THEN x
                 ELSE LET front == Written(x, x.str[s].array, x.str[s].start,
                                           OldText(m, x, s, 0, start))
                          moved == Written(front, x.str[s].array,
                                           x.str[s].start + start + src.length,
                                           OldText(m, x, s, tail, old - tail))
                          filled == Written(moved, moved.str[s].array,
                                            moved.str[s].start + start,
                                            SourceChars(moved, src))
                      IN  Swept(Resized(filled, s, new))
  BY DEF ReplaceChars
<1> HIDE DEF old, tail, new
<1>4. Settled(x, s) /\ (IsBogus(x, s) => Tidy(x))
  BY <1>1, <1>2, <1>3, CloneSettles
<1>5. CASE IsBogus(x, s)
  BY <1>3, <1>4, <1>5 DEF Left
<1>6. CASE ~IsBogus(x, s)
  <2> DEFINE a == x.str[s].array
             i == x.str[s].start
             front == Written(x, a, i, OldText(m, x, s, 0, start))
             moved == Written(front, a, i + start + src.length,
                              OldText(m, x, s, tail, old - tail))
             filled == Written(moved, moved.str[s].array, moved.str[s].start + start,
                               SourceChars(moved, src))
  <2>1. x \in Memory /\ i \in Int
    BY <1>4 DEF Settled, Working, Memory, FieldSet
  <2>2. OldText(m, x, s, 0, start) \in Seq(Cell) /\ OldText(m, x, s, tail, old - tail) \in Seq(Cell)
    <3>1. m.str[s].start + 0 \in Int /\ m.str[s].start + tail \in Int /\ old - tail \in Int
      BY <1>2
    <3> QED BY <1>1, <2>1, <3>1, ReadIsAlwaysText DEF OldText
  <2>3. Settled(front, s) /\ front.str = x.str
    BY <1>4, <1>6, <2>1, <2>2, WrittenSettles
  <2> HIDE DEF front
  <2>4. ~IsBogus(front, s) /\ front.str[s].array = a /\ i + start + src.length \in Int
    BY <1>2, <1>6, <2>1, <2>3 DEF IsBogus
  <2>5. Settled(moved, s) /\ moved.str = x.str
    <3> HIDE DEF a, i
    <3> QED BY <2>2, <2>3, <2>4, WrittenSettles
  <2> HIDE DEF moved
  <2>6. ~IsBogus(moved, s) /\ moved.str[s].start + start \in Int /\ moved \in Memory
    BY <1>6, <2>1, <2>5 DEF IsBogus, Settled, Working
  <2>7. SourceChars(moved, src) \in Seq(Cell)
    BY <2>6, SourceIsText
  <2>8. Settled(filled, s) /\ filled.str = moved.str
    BY <2>5, <2>6, <2>7, WrittenSettles
  <2>9. r = Swept(Resized(filled, s, new))
    BY <1>3, <1>6 DEF filled, moved, front
  <2> HIDE DEF filled
  <2> DEFINE last == Resized(filled, s, new)
  <2>10. Settled(last, s) /\ r = Swept(last)
    <3>1. ~IsBogus(filled, s)
      BY <2>6, <2>8 DEF IsBogus
    <3> QED BY <1>2, <2>8, <2>9, <3>1, ResizedSettles
  <2> HIDE DEF last
  <2>11. Working(r, s, Held(last, s)) /\ r.str = last.str /\ Tidy(r)
    BY <2>10, SweptWorks DEF Settled
  <2>12. Held(r, s) = Held(last, s) /\ Sane(r.str[s], s)
    BY <2>10, <2>11 DEF Held, Settled
  <2> QED BY <2>11, <2>12 DEF Left, Settled
<1> QED BY <1>5, <1>6

(* Other fields of s that name the same array.                             *)
LEMMA FieldsSettle ==
  ASSUME NEW m, NEW s \in String, Left(m, s), NEW f \in FieldSet, Sane(f, s),
         f.storage = m.str[s].storage, f.array = m.str[s].array
  PROVE  Left(PutFields(m, s, f), s)
<1> DEFINE x == PutFields(m, s, f)
<1>1. Working(x, s, Held(m, s)) /\ x.str[s] = f /\ Tidy(x)
  BY FieldsPutWork DEF Left, Settled
<1> HIDE DEF x
<1>2. Held(x, s) = Held(m, s)
  BY <1>1 DEF Held
<1> QED BY <1>1, <1>2 DEF Left, Settled, x

(* Fields of an alias of which units were taken away.                      *)
LEMMA TrimmedFields ==
  ASSUME NEW m, NEW s \in String, Left(m, s), NEW n \in Int, ~IsBogus(m, s)
  PROVE  Left(WithoutPrefix(m, s, n), s) /\ Left(WithoutSuffix(m, s, n), s)
<1> DEFINE f == m.str[s]
           g == [f EXCEPT !.start = @ + n, !.length = @ - n, !.capacity = @ - n]
           h == [f EXCEPT !.length = n, !.capacity = n]
<1>1. f \in FieldSet /\ Sane(f, s) /\ f.storage # "bogus"
  BY DEF Left, Settled, Working, Memory, IsBogus
<1>2. WithoutPrefix(m, s, n) = PutFields(m, s, g) /\ WithoutSuffix(m, s, n) = PutFields(m, s, h)
  BY DEF WithoutPrefix, WithoutSuffix, PutFields
<1> HIDE DEF f
<1>3. g \in FieldSet /\ g.storage = f.storage /\ g.array = f.array
      /\ h \in FieldSet /\ h.storage = f.storage /\ h.array = f.array
  <2>1. f.start + n \in Int /\ f.length - n \in Int /\ f.capacity - n \in Int
    BY <1>1 DEF FieldSet
  <2> DEFINE Trim(i, j, k) == [f EXCEPT !.start = i, !.length = j, !.capacity = k]
  <2>2. \A i, j, k \in Int :
          /\ Trim(i, j, k) \in FieldSet
          /\ Trim(i, j, k).storage = f.storage /\ Trim(i, j, k).array = f.array
    BY <1>1 DEF FieldSet
  <2>3. h \in FieldSet /\ h.storage = f.storage /\ h.array = f.array
    BY <1>1 DEF FieldSet
  <2> DEFINE start == f.start + n
             length == f.length - n
             capacity == f.capacity - n
  <2>4. g = Trim(start, length, capacity)
    OBVIOUS
  <2> HIDE DEF start, length, capacity, g, h, Trim
  <2>5. g \in FieldSet /\ g.storage = f.storage /\ g.array = f.array
    <3>1. start \in Int /\ length \in Int /\ capacity \in Int
      BY <2>1 DEF start, length, capacity
    <3> QED BY <2>2, <2>4, <3>1
  <2> QED BY <2>3, <2>5
<1> HIDE DEF g, h
<1>4. Sane(g, s) /\ Sane(h, s)
  BY <1>1, <1>3 DEF Sane
<1> QED BY <1>2, <1>3, <1>4, FieldsSettle DEF f

(* doReplace().                                                            *)
LEMMA ReplaceSettles ==
  ASSUME NEW m, NEW s \in String, Left(m, s), NEW src \in SourceSet,
         NEW start \in Int, NEW count \in Int, NEW r \in DoReplace(m, s, start, count, src)
  PROVE  Left(r, s)
<1> DEFINE old == m.str[s].length
           length == Min({count, old - start})
           trims == m.str[s].storage = "readonly" /\ src.length = 0
<1>1. m \in Memory /\ m.str[s] \in FieldSet
  BY DEF Left, Settled, Working, Memory
<1>2. length \in Int
  <2>1. old - start \in Int
    BY <1>1 DEF FieldSet
  <2> QED BY <2>1, MinOfTwo
<1>3. \/ r = m
      \/ IsWritable(m, s) /\ r = WithoutPrefix(m, s, length)
      \/ IsWritable(m, s) /\ r = WithoutSuffix(m, s, start)
      \/ r \in DoAppend(m, s, src)
      \/ r = ToBogus(m, s)
      \/ r \in CopyFails(m, s, src)
      \/ IsWritable(m, s) /\ \E x \in SafeSources(m, s, src) :
                               r \in ReplaceChars(m, s, x, start, length)
  BY DEF DoReplace
<1> HIDE DEF length
<1>4. CASE r = m
  BY <1>4
<1>5. CASE IsWritable(m, s) /\ (r = WithoutPrefix(m, s, length) \/ r = WithoutSuffix(m, s, start))
  BY <1>2, <1>5, TrimmedFields DEF IsWritable
<1>6. CASE r \in DoAppend(m, s, src)
  BY <1>6, AppendSettles
<1>7. CASE r = ToBogus(m, s)
  BY <1>7, ToBogusSettles DEF Left
<1>8. CASE r \in CopyFails(m, s, src)
  BY <1>8, CopyFailsSettles
<1>9. CASE IsWritable(m, s) /\ \E x \in SafeSources(m, s, src) :
                                 r \in ReplaceChars(m, s, x, start, length)
  BY <1>1, <1>2, <1>9, SafeSourcesAreSources, ReplaceCharsSettles
<1> QED BY <1>3, <1>4, <1>5, <1>6, <1>7, <1>8, <1>9

(* s has the fields f after it has given up its array.                     *)
LEMMA NewFieldsSettle ==
  ASSUME NEW m, NEW s \in String, Working(m, s, {}), Tidy(m), NEW f \in FieldSet, Sane(f, s),
         f.storage # "long"
  PROVE  Left(SetFields(m, s, f), s)
<1> DEFINE x == SetFields(m, s, f)
<1>1. Working(x, s, {}) /\ x.str[s] = f /\ Tidy(x)
  BY SetFieldsWorks
<1> HIDE DEF x
<1>2. Held(x, s) = {}
  BY <1>1 DEF Held
<1> QED BY <1>1, <1>2 DEF Left, Settled, x

(* copyFrom() adds a reference to the array that it shares.                *)
LEMMA SharedSettles ==
  ASSUME NEW m, NEW s \in String, Working(m, s, {}), Tidy(m),
         NEW f \in FieldSet, Sane(f, s), f.storage = "long", m.mem[f.array].refs # 0
  PROVE  Left([SetFields(m, s, f) EXCEPT !.mem[f.array].refs = @ + 1], s)
<1> DEFINE a == f.array
           x == SetFields(m, s, f)
           c == [x.mem[a] EXCEPT !.refs = @ + 1]
           y == Put(x, a, c)
<1>1. a \in Array /\ a \in Place /\ a # s
  BY Places DEF Sane
<1>2. Working(x, s, {}) /\ x.str[s] = f /\ Tidy(x)
  BY SetFieldsWorks
<1>3. y = [SetFields(m, s, f) EXCEPT !.mem[f.array].refs = @ + 1]
  BY DEF Put
<1> HIDE DEF x
<1>4. x \in Memory /\ Counts(x, s, {}) /\ SaneBut(x, s)
  BY <1>2 DEF Working
<1> HIDE DEF a
<1>5. c \in [units : Seq(Cell), refs : Int] /\ c.refs = x.mem[a].refs + 1
  <2>1. x.mem[a] \in [units : Seq(Cell), refs : Int]
    BY <1>1, <1>4 DEF Memory
  <2> QED BY <2>1
<1> HIDE DEF c
<1>6. y \in Memory /\ y.str = x.str /\ y.mem[a] = c
      /\ \A p \in Place \ {a} : y.mem[p] = x.mem[p]
  BY <1>1, <1>4, <1>5, PlaceIsWritten
<1> HIDE DEF y
<1>7. \A b \in Array : Others(y, s, b) = Others(x, s, b)
  BY <1>6 DEF Others
<1>8. \A b \in Array : b \in Place
  BY Places
<1>9. Held(y, s) = {a}
  BY <1>2, <1>6 DEF Held, a
<1>10. Counts(y, s, {a})
  <2> SUFFICES ASSUME NEW b \in Array
               PROVE  y.mem[b].refs = Cardinality(Others(x, s, b)) + (IF b \in {a} THEN 1 ELSE 0)
    BY <1>7 DEF Counts
  <2>1. x.mem[b].refs = Cardinality(Others(x, s, b)) /\ Cardinality(Others(x, s, b)) \in Nat
    BY <1>4, OthersAreFew DEF Counts
  <2>2. CASE b = a
    BY <1>5, <1>6, <2>1, <2>2
  <2>3. CASE b # a
    BY <1>6, <1>8, <2>1, <2>3
  <2> QED BY <2>2, <2>3
<1>11. Tidy(y)
  <2> SUFFICES ASSUME NEW b \in Array, y.mem[b].refs = 0 PROVE y.mem[b] = Free
    BY DEF Tidy
  <2>1. x.mem[a].refs = Cardinality(Others(x, s, a)) /\ Cardinality(Others(x, s, a)) \in Nat
    BY <1>1, <1>4, OthersAreFew DEF Counts
  <2>2. b # a
    BY <1>5, <1>6, <2>1
  <2> QED BY <1>2, <1>6, <1>8, <2>2 DEF Tidy
<1>12. SaneBut(y, s) /\ Sane(y.str[s], s)
  BY <1>2, <1>4, <1>6 DEF SaneBut
<1> QED BY <1>3, <1>6, <1>9, <1>10, <1>11, <1>12 DEF Left, Settled, Working

(* copyFrom().                                                             *)
LEMMA CopyFromSettles ==
  ASSUME NEW m, NEW s \in String, Left(m, s), NEW t \in String, NEW r \in CopyFrom(m, s, t)
  PROVE  Left(r, s)
<1> DEFINE x == Released(m, s)
           f == m.str[t]
<1>1. m \in Memory /\ f \in FieldSet /\ Settled(m, s) /\ Tidy(m)
  BY DEF Left, Settled, Working, Memory
<1>2. Working(x, s, {}) /\ x.str = m.str /\ Tidy(x)
  BY <1>1, ReleasedWorks
<1> HIDE DEF x
<1>3. s # t => Sane(f, t)
  BY <1>1 DEF Settled, Working, SaneBut
<1>4. CASE s = t
  BY <1>4 DEF CopyFrom
<1>5. CASE r = ToBogus(m, s)
  BY <1>1, <1>5, ToBogusSettles DEF Left
<1>6. CASE r = SetFields(x, s, Empty(s))
  <2>1. Empty(s) \in FieldSet /\ Sane(Empty(s), s) /\ Empty(s).storage # "long"
    BY FieldsAreFields DEF Empty, Fields
  <2> QED BY <1>2, <1>6, <2>1, NewFieldsSettle
<1>7. CASE s # t /\ f.storage = "long" /\ r = [SetFields(x, s, f) EXCEPT !.mem[f.array].refs = @ + 1]
  <2>1. Sane(f, s) /\ f.array \in Array
    BY <1>3, <1>7 DEF Sane
  <2>2. t \in Others(x, s, f.array)
    BY <1>2, <1>7 DEF Others
  <2>3. x.mem[f.array].refs # 0
    BY <1>2, <2>1, <2>2, HeldIsCounted
  <2> HIDE DEF f
  <2> QED BY <1>1, <1>2, <1>7, <2>1, <2>3, SharedSettles
<1>8. CASE s # t /\ ~IsBogus(m, t)
           /\ \E y \in IF f.storage = "short" THEN {SetFields(x, s, Empty(s))}
                       ELSE Allocate(x, s, f.length) :
                r = IF IsBogus(y, s) THEN y
                    ELSE Resized(Written(y, y.str[s].array, 0, Chars(m, t)), s, f.length)
  <2>1. PICK y \in IF f.storage = "short" THEN {SetFields(x, s, Empty(s))}
                   ELSE Allocate(x, s, f.length) :
               r = IF IsBogus(y, s) THEN y
                   ELSE Resized(Written(y, y.str[s].array, 0, Chars(m, t)), s, f.length)
    BY <1>8
  <2>2. f.length \in Int /\ f.start \in Int /\ f.array \in Place
    BY <1>1, <1>3, <1>8, ArrayIsPlace DEF FieldSet, IsBogus
  <2>3. Settled(y, s) /\ Tidy(y)
    <3>1. CASE y = SetFields(x, s, Empty(s))
      <4>1. Empty(s) \in FieldSet /\ Sane(Empty(s), s) /\ Empty(s).storage # "long"
        BY FieldsAreFields DEF Empty, Fields
      <4> QED BY <1>2, <3>1, <4>1, NewFieldsSettle DEF Left
    <3>2. CASE y \in Allocate(x, s, f.length)
      <4>1. Got(y, s, {})
        BY <1>2, <2>2, <3>2, AllocateWorks
      <4>2. {} \cup Held(y, s) = Held(y, s)
        OBVIOUS
      <4> QED BY <4>1, <4>2 DEF Got, Settled
    <3> QED BY <2>1, <3>1, <3>2
  <2>4. CASE IsBogus(y, s)
    BY <2>1, <2>3, <2>4 DEF Left
  <2>5. CASE ~IsBogus(y, s)
    <3>1. Chars(m, t) \in Seq(Cell)
      BY <1>1, <2>2, ReadIsAlwaysText DEF Chars
    <3> DEFINE w == Written(y, y.str[s].array, 0, Chars(m, t))
    <3>2. Settled(w, s) /\ w.str = y.str /\ Tidy(w)
      BY <2>3, <2>5, <3>1, WrittenSettles
    <3>3. r = Resized(w, s, f.length)
      BY <2>1, <2>5
    <3> HIDE DEF w
    <3>4. ~IsBogus(w, s)
      BY <2>5, <3>2 DEF IsBogus
    <3> QED BY <2>2, <3>2, <3>3, <3>4, ResizedSettles DEF Left
  <2> QED BY <2>4, <2>5
<1> QED BY <1>4, <1>5, <1>6, <1>7, <1>8 DEF CopyFrom, x

(* s takes over what t has, which is left without a value.                 *)
LEMMA TakenOverSettles ==
  ASSUME NEW m, NEW s \in String, NEW t \in String, s # t,
         Working(m, s, {}), Tidy(m), NEW f \in FieldSet, Sane(f, t), f.storage # "short",
         f = m.str[t]
  PROVE  Left(SetFields(SetFields(m, s, f), t, BogusFields), s)
<1> DEFINE x == SetFields(m, s, f)
           y == SetFields(x, t, BogusFields)
<1>1. m \in Memory /\ Counts(m, s, {}) /\ SaneBut(m, s)
  BY DEF Working
<1>2. /\ x \in Memory /\ x.str[s] = f /\ \A u \in String \ {s} : x.str[u] = m.str[u]
      /\ \A p \in Place : x.mem[p].refs = m.mem[p].refs
      /\ \A p \in Place \ {s} : x.mem[p] = m.mem[p]
  BY <1>1, SetFieldsFrame
<1> HIDE DEF x
<1>3. /\ y \in Memory /\ y.str[t] = BogusFields /\ \A u \in String \ {t} : y.str[u] = x.str[u]
      /\ \A p \in Place : y.mem[p].refs = x.mem[p].refs
      /\ \A p \in Place \ {t} : y.mem[p] = x.mem[p]
  <2>1. x \in Memory /\ BogusFields \in FieldSet
    BY <1>2, FieldsAreFields
  <2>2. y \in Memory /\ y.str[t] = BogusFields
    BY <2>1, SetFieldsFrame
  <2>3. \A u \in String \ {t} : y.str[u] = x.str[u]
    BY <2>1, SetFieldsFrame
  <2>4. \A p \in Place : y.mem[p].refs = x.mem[p].refs
    BY <2>1, SetFieldsFrame
  <2>5. \A p \in Place \ {t} : y.mem[p] = x.mem[p]
    BY <2>1, SetFieldsFrame
  <2> QED BY <2>2, <2>3, <2>4, <2>5
<1> HIDE DEF y
<1>4. Sane(f, s)
  BY DEF Sane
<1>5. \A a \in Array : a \in Place /\ a # s /\ a # t
  BY Places
<1>6. y.str[s] = f /\ BogusFields.storage = "bogus"
  BY <1>2, <1>3 DEF BogusFields, Fields
<1>7. \A u \in String \ {s} : u # t => y.str[u] = m.str[u]
  BY <1>2, <1>3
<1>8. SaneBut(y, s)
  BY <1>1, <1>3, <1>7, FieldsAreFields DEF SaneBut
<1>9. Counts(y, s, Held(y, s))
  <2> SUFFICES ASSUME NEW a \in Array
               PROVE  y.mem[a].refs = Cardinality(Others(y, s, a))
                                        + (IF a \in Held(y, s) THEN 1 ELSE 0)
    BY DEF Counts
  <2>1. y.mem[a].refs = Cardinality(Others(m, s, a))
    BY <1>1, <1>2, <1>3, <1>5, OthersAreFew DEF Counts
  <2>2. CASE a \in Held(y, s)
    <3>1. f.storage = "long" /\ f.array = a
      BY <1>6, <2>2 DEF Held
    <3>2. Others(m, s, a) = Others(y, s, a) \cup {t} /\ t \notin Others(y, s, a)
      BY <1>3, <1>6, <1>7, <3>1 DEF Others
    <3>3. Cardinality(Others(y, s, a) \cup {t}) = Cardinality(Others(y, s, a)) + 1
      BY <3>2, OthersAreFew, FS_AddElement
    <3> QED BY <2>1, <2>2, <3>2, <3>3
  <2>3. CASE a \notin Held(y, s)
    <3>1. ~(f.storage = "long" /\ f.array = a)
      BY <1>6, <2>3 DEF Held
    <3>2. Others(m, s, a) = Others(y, s, a)
      BY <1>3, <1>6, <1>7, <3>1 DEF Others
    <3> QED BY <2>1, <2>3, <3>2, OthersAreFew
  <2> QED BY <2>2, <2>3
<1>10. Tidy(y)
  BY <1>2, <1>3, <1>5 DEF Tidy
<1> QED BY <1>3, <1>4, <1>6, <1>8, <1>9, <1>10 DEF Left, Settled, Working, y, x

(* The assignment from a value that is at its end.                         *)
LEMMA MoveFromSettles ==
  ASSUME NEW m, NEW s \in String, Left(m, s), NEW t \in String
  PROVE  Left(MoveFrom(m, s, t), s)
<1> DEFINE x == Released(m, s)
           f == m.str[t]
<1>1. m \in Memory /\ f \in FieldSet /\ Settled(m, s) /\ Tidy(m) /\ Sane(f, t)
  BY DEF Left, Settled, Working, Memory, SaneBut
<1>2. Working(x, s, {}) /\ x.str = m.str /\ Tidy(x)
  BY <1>1, ReleasedWorks
<1> HIDE DEF x
<1>3. CASE f.storage = "short"
  <2> DEFINE y == SetFields(x, s, Empty(s))
             w == Written(y, s, 0, Chars(m, t))
  <2>1. Empty(s) \in FieldSet /\ Sane(Empty(s), s) /\ Empty(s).storage = "short"
        /\ Empty(s).array = s
    BY FieldsAreFields DEF Empty, Fields
  <2>2. Left(y, s) /\ y.str[s] = Empty(s)
    BY <1>2, <2>1, NewFieldsSettle, SetFieldsWorks
  <2>3. Chars(m, t) \in Seq(Cell) /\ f.length \in Int
    <3>1. f.array \in Place /\ f.start \in Int /\ f.length \in Int
      BY <1>1, <1>3, ArrayIsPlace DEF FieldSet
    <3> QED BY <1>1, <3>1, ReadIsAlwaysText DEF Chars
  <2> HIDE DEF y
  <2>4. Settled(w, s) /\ w.str = y.str /\ Tidy(w) /\ ~IsBogus(w, s)
    <3>1. ~IsBogus(y, s) /\ Settled(y, s) /\ s = y.str[s].array /\ Tidy(y)
      BY <2>1, <2>2 DEF IsBogus, Left
    <3>2. Settled(w, s) /\ w.str = y.str /\ Tidy(w)
      BY <2>3, <3>1, WrittenSettles
    <3> QED BY <3>1, <3>2 DEF IsBogus
  <2>5. MoveFrom(m, s, t) = Resized(w, s, f.length)
    BY <1>3 DEF MoveFrom, w, y, x
  <2> HIDE DEF w, f
  <2>6. Settled(Resized(w, s, f.length), s) /\ Tidy(Resized(w, s, f.length))
    BY <2>3, <2>4, ResizedSettles
  <2> QED BY <2>5, <2>6 DEF Left
<1>4. CASE f.storage # "short"
  <2>1. MoveFrom(m, s, t) = SetFields(SetFields(x, s, f), t, BogusFields)
    BY <1>4 DEF MoveFrom, x
  <2>2. CASE s # t
    <3>1. f = x.str[t]
      BY <1>2
    <3> HIDE DEF f
    <3> QED BY <1>1, <1>2, <1>4, <2>1, <2>2, <3>1, TakenOverSettles
  <2>3. CASE s = t
    <3>1. Working(SetFields(x, s, f), s, {}) /\ Tidy(SetFields(x, s, f))
      BY <1>1, <1>2, SetFieldsWorks
    <3>2. BogusFields.storage = "bogus"
      BY DEF BogusFields, Fields
    <3> QED BY <2>1, <2>3, <3>1, <3>2, FieldsAreFields, NewFieldsSettle
  <2> QED BY <2>2, <2>3
<1> QED BY <1>3, <1>4

-----------------------------------------------------------------------------
(* What holds between two calls, with the count that the code states.      *)
Users(m, a) == {s \in String : m.str[s].storage = "long" /\ m.str[s].array = a}

Accounted(m) ==
  /\ m \in Memory /\ Tidy(m) /\ \A s \in String : Sane(m.str[s], s)
  /\ \A a \in Array : m.mem[a].refs = Cardinality(Users(m, a))

(* It does not matter which string is looked at.                           *)
LEMMA AccountedForOne ==
  ASSUME NEW m, NEW s \in String
  PROVE  Accounted(m) <=> Left(m, s)
<1>1. \A a \in Array :
        Cardinality(Users(m, a)) = Cardinality(Others(m, s, a))
                                     + (IF a \in Held(m, s) THEN 1 ELSE 0)
  <2> SUFFICES ASSUME NEW a \in Array
               PROVE  Cardinality(Users(m, a)) = Cardinality(Others(m, s, a))
                                                   + (IF a \in Held(m, s) THEN 1 ELSE 0)
    OBVIOUS
  <2>1. IsFiniteSet(Others(m, s, a)) /\ s \notin Others(m, s, a)
    <3>1. s \notin Others(m, s, a)
      BY DEF Others
    <3> QED BY <3>1, OthersAreFew
  <2>2. a \in Held(m, s) => Users(m, a) = Others(m, s, a) \cup {s}
    BY DEF Held, Others, Users
  <2>3. a \notin Held(m, s) => Users(m, a) = Others(m, s, a)
    BY DEF Held, Others, Users
  <2>4. Cardinality(Others(m, s, a) \cup {s}) = Cardinality(Others(m, s, a)) + 1
    BY <2>1, FS_AddElement
  <2>5. Cardinality(Others(m, s, a)) \in Nat
    BY OthersAreFew
  <2>6. CASE a \in Held(m, s)
    BY <2>2, <2>4, <2>6
  <2>7. CASE a \notin Held(m, s)
    BY <2>3, <2>5, <2>7
  <2> QED BY <2>6, <2>7
<1>2. Counts(m, s, Held(m, s)) <=> \A a \in Array : m.mem[a].refs = Cardinality(Users(m, a))
  BY <1>1 DEF Counts
<1>3. (\A t \in String : Sane(m.str[t], t)) <=> SaneBut(m, s) /\ Sane(m.str[s], s)
  BY DEF SaneBut
<1> QED BY <1>2, <1>3 DEF Accounted, Left, Settled, Working

(* Units are cells.                                                        *)
LEMMA UnitsAreCells ==
  /\ LiteralUnits \in Seq(Cell) /\ OutsideUnits \in Seq(Cell)
  /\ \A c \in Unit : <<c>> \in Seq(Cell)
  /\ LiteralUnits \o <<0>> \in Seq(Cell)
<1>1. Nat \subseteq Cell
  BY DEF Cell
<1>2. \A u \in Seq(Nat) : u \in Seq(Cell)
  <2> SUFFICES ASSUME NEW u \in Seq(Nat) PROVE u \in Seq(Cell)
    OBVIOUS
  <2>1. \A i \in 1 .. Len(u) : u[i] \in Cell
    BY <1>1
  <2> QED BY <2>1
<1>3. \A c \in Unit : <<c>> \in Seq(Nat)
  BY UnitsAssumption
<1>4. LiteralUnits \o <<0>> \in Seq(Nat)
  BY UnitsAssumption
<1> QED BY <1>2, <1>3, <1>4, UnitsAssumption

(* The first state: no string uses an array.                               *)
LEMMA InitAccounted ==
  ASSUME Init
  PROVE  Accounted(now)
<1>1. \A s \in String : str[s] = Empty(s) /\ Empty(s) \in FieldSet /\ Sane(Empty(s), s)
      /\ Empty(s).storage = "short"
  BY FieldsAreFields DEF Init, Empty, Fields
<1>2. str \in [String -> FieldSet]
  BY <1>1 DEF Init
<1>3. \A p \in Place : mem[p] \in [units : Seq(Cell), refs : Int] /\ (p \in Array => mem[p] = Free)
  <2> SUFFICES ASSUME NEW p \in Place
               PROVE  mem[p] \in [units : Seq(Cell), refs : Int] /\ (p \in Array => mem[p] = Free)
    OBVIOUS
  <2> DEFINE u == CASE p = Outside -> OutsideUnits
                    [] p = Literal -> LiteralUnits \o <<0>>
                    [] OTHER       -> Uninitialized(StackSize)
  <2>1. Uninitialized(StackSize) \in Seq(Cell)
    BY UninitializedIsText, BoundsAssumption
  <2>2. u \in Seq(Cell)
    BY <2>1, UnitsAreCells
  <2>3. mem[p] = IF p \in Array THEN Free ELSE [units |-> u, refs |-> 0]
    BY DEF Init
  <2>4. Free \in [units : Seq(Cell), refs : Int]
    BY DEF Free
  <2> HIDE DEF u, Free
  <2> QED BY <2>2, <2>3, <2>4
<1>4. mem \in [Place -> [units : Seq(Cell), refs : Int]]
  BY <1>3 DEF Init
<1>5. now \in Memory
  BY <1>2, <1>4 DEF now, Memory
<1>6. \A a \in Array : mem[a].refs = 0 /\ mem[a] = Free
  BY <1>3, Places DEF Free
<1>7. \A a \in Array : Users(now, a) = {}
  BY <1>1 DEF Users, now
<1>8. Cardinality({}) = 0
  BY FS_EmptySet
<1> QED BY <1>1, <1>5, <1>6, <1>7, <1>8 DEF Accounted, Tidy, now

-----------------------------------------------------------------------------
(* The state after a step.                                                 *)
LEMMA BecomesNow ==
  ASSUME NEW m \in Memory, Becomes(m)
  PROVE  now' = m
BY DEF Becomes, now, Memory

(* A call with settled outcomes leaves all arrays counted.                 *)
LEMMA GivesAccounted ==
  ASSUME NEW s \in String, NEW outcomes, NEW text, Gives(s, outcomes, text),
         \A m \in outcomes : Left(m, s)
  PROVE  Accounted(now)'
<1>1. PICK m \in outcomes : Becomes(m)
  BY DEF Gives
<1>2. Left(m, s) /\ m \in Memory
  BY DEF Left, Settled, Working
<1>3. now' = m
  BY <1>1, <1>2, BecomesNow
<1>4. Accounted(m)
  BY <1>2, AccountedForOne
<1> QED BY <1>3, <1>4

(* What the caller may give is a part of a place.                          *)
LEMMA SourcesAreSources ==
  ASSUME Accounted(now), NEW x \in Sources
  PROVE  x.src \in SourceSet
<1>1. CASE \E n \in 1 .. Len(LiteralUnits) : x.src = LiteralPart(n)
  BY <1>1, Places DEF LiteralPart, SourceSet
<1>2. CASE \E t \in String : ~IsBogus(now, t) /\ \E i \in 0 .. str[t].length : x.src = Part(now, t, i)
  <2>1. PICK t \in String : ~IsBogus(now, t) /\ \E i \in 0 .. str[t].length : x.src = Part(now, t, i)
    BY <1>2
  <2>2. PICK i \in 0 .. str[t].length : x.src = Part(now, t, i)
    BY <2>1
  <2>3. str[t] \in FieldSet /\ str[t].array \in Place
    BY <2>1, ArrayIsPlace DEF Accounted, Memory, IsBogus, now
  <2>4. str[t].start + i \in Int /\ str[t].length - i \in Int /\ i \in Int
    BY <2>3 DEF FieldSet
  <2> QED BY <2>2, <2>3, <2>4 DEF Part, SourceSet, now
<1> QED BY <1>1, <1>2 DEF Sources

(* unBogus().                                                              *)
LEMMA UnBogusSettles ==
  ASSUME NEW m, NEW s \in String, Left(m, s)
  PROVE  Left(UnBogus(m, s), s) /\ ~IsBogus(UnBogus(m, s), s)
<1>1. CASE IsBogus(m, s)
  <2>1. Held(m, s) = {}
    BY <1>1 DEF Held, IsBogus
  <2>2. Working(m, s, {}) /\ Tidy(m)
    BY <2>1 DEF Left, Settled
  <2>3. Empty(s) \in FieldSet /\ Sane(Empty(s), s) /\ Empty(s).storage = "short"
    BY FieldsAreFields DEF Empty, Fields
  <2>4. Left(SetFields(m, s, Empty(s)), s) /\ SetFields(m, s, Empty(s)).str[s] = Empty(s)
    BY <2>2, <2>3, NewFieldsSettle, SetFieldsWorks
  <2>5. ~IsBogus(SetFields(m, s, Empty(s)), s)
    BY <2>3, <2>4 DEF IsBogus
  <2> QED BY <1>1, <2>4, <2>5 DEF UnBogus
<1>2. CASE ~IsBogus(m, s)
  BY <1>2 DEF UnBogus
<1> QED BY <1>1, <1>2

(* The calls that append and replace.                                      *)
LEMMA TextCallsAccounted ==
  ASSUME Accounted(now), NEW s \in String,
         AppendString(s) \/ Replace(s) \/ RemoveRange(s) \/ SetTo(s)
  PROVE  Accounted(now)'
<1>1. Left(now, s)
  BY AccountedForOne
<1>2. str[s].length \in Int
  BY DEF Accounted, Memory, FieldSet, now
<1>3. Nothing \in SourceSet
  BY DEF Nothing, SourceSet
<1>4. CASE AppendString(s)
  <2>1. PICK x \in Sources : Gives(s, DoAppend(now, s, x.src), Unlocked(s, Text(s) \o x.text))
    BY <1>4 DEF AppendString
  <2>2. x.src \in SourceSet
    BY SourcesAreSources
  <2> QED BY <1>1, <2>1, <2>2, AppendSettles, GivesAccounted
<1>5. CASE Replace(s)
  <2>1. PICK x \in Sources, start \in 0 .. str[s].length, length \in {0, 1, MaxLength} :
               Gives(s, DoReplace(now, s, start, length, x.src),
                     Unlocked(s, Spliced(Text(s), start, length, x.text)))
    BY <1>5 DEF Replace
  <2>2. x.src \in SourceSet /\ start \in Int /\ length \in Int
    BY SourcesAreSources, BoundsAssumption
  <2>3. \A r \in DoReplace(now, s, start, length, x.src) : Left(r, s)
    BY <1>1, <2>2, ReplaceSettles
  <2> QED BY <2>1, <2>3, GivesAccounted
<1>6. CASE RemoveRange(s)
  <2>1. PICK start \in 0 .. str[s].length, length \in {1, MaxLength} :
               Gives(s, DoReplace(now, s, start, length, Nothing),
                     Unlocked(s, Spliced(Text(s), start, length, <<>>)))
    BY <1>6 DEF RemoveRange
  <2>2. start \in Int /\ length \in Int
    BY BoundsAssumption
  <2>3. \A r \in DoReplace(now, s, start, length, Nothing) : Left(r, s)
    BY <1>1, <1>3, <2>2, ReplaceSettles
  <2> QED BY <2>1, <2>3, GivesAccounted
<1>7. CASE SetTo(s)
  <2>1. PICK x \in Sources :
               Gives(s, DoReplace(UnBogus(now, s), s, 0, str[s].length, x.src), x.text)
    BY <1>7 DEF SetTo
  <2>2. x.src \in SourceSet /\ Left(UnBogus(now, s), s)
    BY <1>1, SourcesAreSources, UnBogusSettles
  <2>3. \A r \in DoReplace(UnBogus(now, s), s, 0, str[s].length, x.src) : Left(r, s)
    BY <1>2, <2>2, ReplaceSettles
  <2> QED BY <2>1, <2>3, GivesAccounted
<1> QED BY <1>4, <1>5, <1>6, <1>7

(* setLength(0).                                                           *)
LEMMA EmptiedSettles ==
  ASSUME NEW m, NEW s \in String, Left(m, s), ~IsBogus(m, s)
  PROVE  Left(Resized(m, s, 0), s)
<1>1. \A n \in Int : Left(Resized(m, s, n), s)
  BY ResizedSettles DEF Left
<1> QED BY <1>1

(* getBuffer() opens the buffer, releaseBuffer() closes it.                *)
OpenFields(f, open, n) == [f EXCEPT !.open = open, !.length = n]

(* So does opening the buffer.                                             *)
LEMMA OpenedSettles ==
  ASSUME NEW m, NEW s \in String, Left(m, s), ~IsBogus(m, s), NEW open \in BOOLEAN, NEW n \in Int
  PROVE  Left(PutFields(m, s, OpenFields(m.str[s], open, n)), s)
<1> DEFINE f == m.str[s]
           g == OpenFields(f, open, n)
<1>1. f \in FieldSet /\ Sane(f, s) /\ f.storage # "bogus"
  BY DEF Left, Settled, Working, Memory, IsBogus
<1>2. f.storage = m.str[s].storage /\ f.array = m.str[s].array
  OBVIOUS
<1> HIDE DEF f
<1>3. g \in FieldSet /\ g.storage = f.storage /\ g.array = f.array
  BY <1>1 DEF FieldSet, OpenFields
<1> HIDE DEF g
<1>4. Sane(g, s)
  BY <1>1, <1>3 DEF Sane
<1>5. Left(PutFields(m, s, g), s)
  BY <1>2, <1>3, <1>4, FieldsSettle
<1> QED BY <1>5 DEF g, f

(* The calls that write units, change the length or give the buffer away.  *)
LEMMA BufferCallsAccounted ==
  ASSUME Accounted(now), NEW s \in String,
         SetCharAt(s) \/ Truncate(s) \/ GetBuffer(s) \/ WriteUnit(s) \/ ReleaseBuffer(s)
  PROVE  Accounted(now)'
<1>1. Left(now, s) /\ Settled(now, s) /\ Tidy(now)
  BY AccountedForOne DEF Left
<1>2. str[s] \in FieldSet /\ Sane(str[s], s) /\ now \in Memory
  BY DEF Accounted, Memory, now
<1>3. str[s].length \in Int /\ str[s].capacity \in Int /\ str[s].start \in Int
  BY <1>2 DEF FieldSet
<1>4. CASE SetCharAt(s)
  <2> DEFINE outcomes(i, c) ==
               {IF IsBogus(m, s) THEN m
                ELSE Written(m, m.str[s].array, m.str[s].start + i - 1, <<c>>) :
                  m \in Clone(now, s, str[s].capacity, str[s].capacity, TRUE, TRUE)}
  <2>1. PICK i \in 1 .. str[s].length, c \in Unit :
               Gives(s, outcomes(i, c), [Text(s) EXCEPT ![i] = c])
    BY <1>4 DEF SetCharAt
  <2>2. \A r \in outcomes(i, c) : Left(r, s)
    <3> SUFFICES ASSUME NEW m \in Clone(now, s, str[s].capacity, str[s].capacity, TRUE, TRUE)
                 PROVE  Left(IF IsBogus(m, s) THEN m
                             ELSE Written(m, m.str[s].array, m.str[s].start + i - 1, <<c>>), s)
      OBVIOUS
    <3>1. Settled(m, s) /\ Tidy(m)
      BY <1>1, <1>3, CloneSettles
    <3>2. m.str[s].start + i - 1 \in Int
      <4>1. m.str[s].start \in Int
        BY <3>1 DEF Settled, Working, Memory, FieldSet
      <4> QED BY <1>3, <4>1
    <3>3. <<c>> \in Seq(Cell)
      BY UnitsAreCells
    <3>4. ~IsBogus(m, s) => Left(Written(m, m.str[s].array, m.str[s].start + i - 1, <<c>>), s)
      BY <3>1, <3>2, <3>3, WrittenSettles DEF Left
    <3> QED BY <3>1, <3>4 DEF Left
  <2> HIDE DEF outcomes
  <2> QED BY <2>1, <2>2, GivesAccounted
<1>5. CASE Truncate(s)
  <2>1. CASE Becomes(Resized(UnBogus(now, s), s, 0))
    <3> DEFINE m == Resized(UnBogus(now, s), s, 0)
    <3>1. Left(UnBogus(now, s), s) /\ ~IsBogus(UnBogus(now, s), s)
      BY <1>1, UnBogusSettles
    <3>2. Left(m, s)
      BY <3>1, EmptiedSettles
    <3> HIDE DEF m
    <3>3. Accounted(m) /\ m \in Memory
      BY <3>2, AccountedForOne DEF Accounted
    <3>4. now' = m
      BY <2>1, <3>3, BecomesNow DEF m
    <3> QED BY <3>3, <3>4
  <2>2. CASE \E n \in 1 .. str[s].length - 1 :
               Gives(s, {Resized(now, s, n)}, SubSeq(Text(s), 1, n))
    <3>1. PICK n \in 1 .. str[s].length - 1 :
                 Gives(s, {Resized(now, s, n)}, SubSeq(Text(s), 1, n))
      BY <2>2
    <3>2. ~IsBogus(now, s)
      <4>1. BogusFields.length = 0
        BY DEF BogusFields, Fields
      <4>2. str[s].length # 0
        BY <1>3
      <4> QED BY <1>2, <4>1, <4>2 DEF IsBogus, Sane, now
    <3>3. n \in Int
      OBVIOUS
    <3>4. Left(Resized(now, s, n), s)
      BY <1>1, <3>2, <3>3, ResizedSettles DEF Left
    <3> QED BY <3>1, <3>4, GivesAccounted
  <2> QED BY <1>5, <2>1, <2>2 DEF Truncate
<1>6. CASE WriteUnit(s)
  <2>1. PICK i \in 1 .. Min({Len(value[s]) + 1, MaxLength}), c \in Unit :
             /\ str[s].open
             /\ \E text : Gives(s, {Written(now, str[s].array, str[s].start + i - 1, <<c>>)}, text)
    BY <1>6 DEF WriteUnit
  <2>2. PICK text : Gives(s, {Written(now, str[s].array, str[s].start + i - 1, <<c>>)}, text)
    BY <2>1
  <2>3. ~IsBogus(now, s)
    <3>1. BogusFields.open = FALSE
      BY DEF BogusFields, Fields
    <3> QED BY <1>2, <2>1, <3>1 DEF IsBogus, Sane, now
  <2>4. str[s].start + i - 1 \in Int /\ <<c>> \in Seq(Cell)
    BY <1>3, UnitsAreCells
  <2>5. Left(Written(now, str[s].array, str[s].start + i - 1, <<c>>), s)
    BY <1>1, <2>3, <2>4, WrittenSettles DEF Left, now
  <2> QED BY <2>2, <2>5, GivesAccounted
<1>7. CASE GetBuffer(s)
  <2> DEFINE opened(m) == [m EXCEPT !.str[s].open = TRUE, !.str[s].length = 0]
  <2>1. \A m : Left(m, s) /\ ~IsBogus(m, s) => Left(opened(m), s)
    <3> SUFFICES ASSUME NEW m, Left(m, s), ~IsBogus(m, s)
                 PROVE  Left(opened(m), s)
      OBVIOUS
    <3>1. \A open \in BOOLEAN, n \in Int : Left(PutFields(m, s, OpenFields(m.str[s], open, n)), s)
      BY OpenedSettles
    <3>2. opened(m) = PutFields(m, s, OpenFields(m.str[s], TRUE, 0))
      BY DEF PutFields, OpenFields
    <3>3. TRUE \in BOOLEAN /\ 0 \in Int
      OBVIOUS
    <3>4. Left(PutFields(m, s, OpenFields(m.str[s], TRUE, 0)), s)
      BY <3>1, <3>3, Zenon
    <3> HIDE DEF opened
    <3> QED BY <3>2, <3>4, Zenon
  <2>2. PICK min \in -1 .. MaxCapacity :
           LET n == IF min = -1 THEN str[s].capacity ELSE min
           IN  \E m \in Clone(now, s, n, n, TRUE, TRUE) :
                 \E text : Gives(s, {IF IsBogus(m, s) THEN m ELSE opened(m)}, text)
    BY <1>7 DEF GetBuffer
  <2> HIDE DEF opened
  <2> DEFINE n == IF min = -1 THEN str[s].capacity ELSE min
  <2>3. PICK m \in Clone(now, s, n, n, TRUE, TRUE) :
               \E text : Gives(s, {IF IsBogus(m, s) THEN m ELSE opened(m)}, text)
    BY <2>2
  <2>4. n \in Int
    BY <1>3
  <2> HIDE DEF n
  <2>5. Left(m, s)
    BY <1>1, <2>4, CloneSettles DEF Left
  <2> QED BY <2>1, <2>3, <2>5, GivesAccounted
<1>8. CASE ReleaseBuffer(s)
  <2> DEFINE closed(x) == [x EXCEPT !.str[s].open = FALSE]
  <2>1. PICK n \in 0 .. Len(value[s]) :
             /\ str[s].open
             /\ Gives(s, {closed(Resized(now, s, Min({n, str[s].capacity})))},
                      SubSeq(value[s], 1, n))
    BY <1>8 DEF ReleaseBuffer
  <2>2. ~IsBogus(now, s)
    <3>1. BogusFields.open = FALSE
      BY DEF BogusFields, Fields
    <3> QED BY <1>2, <2>1, <3>1 DEF IsBogus, Sane, now
  <2> DEFINE l == Min({n, str[s].capacity})
             x == Resized(now, s, l)
  <2>3. l \in Int
    BY <1>3, MinOfTwo
  <2> HIDE DEF l
  <2>4. Left(x, s) /\ ~IsBogus(x, s)
    <3>1. Left(x, s) /\ x.str[s] = [str[s] EXCEPT !.length = l]
      BY <1>1, <2>2, <2>3, ResizedSettles DEF Left, now
    <3> HIDE DEF x
    <3> QED BY <1>2, <2>2, <3>1 DEF IsBogus, FieldSet, now
  <2>5. Gives(s, {closed(x)}, SubSeq(value[s], 1, n))
    BY <2>1 DEF l
  <2> HIDE DEF x
  <2>6. Left(closed(x), s)
    <3>1. x.str[s].length \in Int /\ x \in Memory
      BY <2>4 DEF Left, Settled, Working, Memory, FieldSet
    <3>2. closed(x) = PutFields(x, s, OpenFields(x.str[s], FALSE, x.str[s].length))
      BY <3>1 DEF PutFields, OpenFields, Memory, FieldSet
    <3> HIDE DEF closed
    <3> QED BY <2>4, <3>1, <3>2, OpenedSettles
  <2> HIDE DEF closed
  <2> QED BY <2>5, <2>6, GivesAccounted
<1> QED BY <1>4, <1>5, <1>6, <1>7, <1>8

(* The calls that give s another array, or none.                           *)
LEMMA ArrayCallsAccounted ==
  ASSUME Accounted(now), NEW s \in String,
         SetToBogus(s) \/ Copy(s) \/ Move(s)
           \/ ConstructEmpty(s) \/ AliasLiteral(s) \/ AliasOutside(s)
  PROVE  Accounted(now)'
<1>1. Left(now, s) /\ Settled(now, s) /\ Tidy(now)
  BY AccountedForOne DEF Left
<1>2. Working(Released(now, s), s, {}) /\ Tidy(Released(now, s))
  BY <1>1, ReleasedWorks
<1>3. CASE SetToBogus(s)
  <2>1. Left(ToBogus(now, s), s)
    BY <1>1, ToBogusSettles DEF Left
  <2> QED BY <1>3, <2>1, GivesAccounted DEF SetToBogus
<1>4. CASE Copy(s)
  <2>1. PICK t \in String : Gives(s, CopyFrom(now, s, t), IF s = t THEN value[s] ELSE Text(t))
    BY <1>4 DEF Copy
  <2> QED BY <1>1, <2>1, CopyFromSettles, GivesAccounted
<1>5. CASE Move(s)
  <2>1. PICK t \in String : Becomes(MoveFrom(now, s, t))
    BY <1>5 DEF Move
  <2> DEFINE m == MoveFrom(now, s, t)
  <2>2. Left(m, s)
    BY <1>1, MoveFromSettles
  <2> HIDE DEF m
  <2>3. Accounted(m) /\ m \in Memory
    BY <2>2, AccountedForOne DEF Accounted
  <2>4. now' = m
    BY <2>1, <2>3, BecomesNow DEF m
  <2> QED BY <2>3, <2>4
<1>6. \A f \in FieldSet : Sane(f, s) /\ f.storage # "long"
                            => Left(SetFields(Released(now, s), s, f), s)
  BY <1>2, NewFieldsSettle
<1>7. \A f \in FieldSet : \A text :
        Sane(f, s) /\ f.storage # "long" /\ Construct(s, f, text) => Accounted(now)'
  <2> SUFFICES ASSUME NEW f \in FieldSet, NEW text, Sane(f, s), f.storage # "long",
                      Construct(s, f, text)
               PROVE  Accounted(now)'
    OBVIOUS
  <2>1. Left(SetFields(Released(now, s), s, f), s)
    BY <1>6
  <2> QED BY <2>1, GivesAccounted DEF Construct
<1>8. CASE ConstructEmpty(s)
  <2>1. Empty(s) \in FieldSet /\ Sane(Empty(s), s) /\ Empty(s).storage # "long"
    BY FieldsAreFields DEF Empty, Fields
  <2> QED BY <1>7, <1>8, <2>1 DEF ConstructEmpty
<1>9. CASE AliasLiteral(s)
  <2>1. PICK n \in -1 .. Len(LiteralUnits), isTerminated \in BOOLEAN :
          LET length == IF n = -1 THEN Len(LiteralUnits) ELSE n
          IN  \E f \in {BogusFields,
                        Fields("readonly", Literal, length,
                               IF isTerminated THEN length + 1 ELSE length)} :
                \E text : Construct(s, f, text)
    BY <1>9 DEF AliasLiteral
  <2>2. \A length \in Int, capacity \in Int :
          LET f == Fields("readonly", Literal, length, capacity)
          IN  f \in FieldSet /\ Sane(f, s) /\ f.storage # "long"
    BY Places DEF Fields, FieldSet, Storages, Sane
  <2>3. BogusFields \in FieldSet /\ Sane(BogusFields, s) /\ BogusFields.storage # "long"
    BY FieldsAreFields DEF BogusFields, Fields
  <2> DEFINE length == IF n = -1 THEN Len(LiteralUnits) ELSE n
             capacity == IF isTerminated THEN length + 1 ELSE length
  <2>4. length \in Int /\ capacity \in Int
    <3>1. Len(LiteralUnits) \in Nat
      BY UnitsAssumption
    <3> QED BY <3>1
  <2>5. \E f \in {BogusFields, Fields("readonly", Literal, length, capacity)} :
          \E text : Construct(s, f, text)
    BY <2>1
  <2> HIDE DEF length, capacity
  <2> QED BY <1>7, <2>2, <2>3, <2>4, <2>5
<1>10. CASE AliasOutside(s)
  <2> DEFINE y(f) == [SetFields(Released(now, s), s, f) EXCEPT !.mem[Outside].units = OutsideUnits]
  <2>1. PICK n \in 0 .. Len(OutsideUnits) :
          \E text : Gives(s, {y(Fields("writable", Outside, n, Len(OutsideUnits)))}, text)
    BY <1>10 DEF AliasOutside
  <2> DEFINE f == Fields("writable", Outside, n, Len(OutsideUnits))
  <2>2. f \in FieldSet /\ Sane(f, s) /\ f.storage # "long"
    <3>1. Len(OutsideUnits) \in Nat
      BY UnitsAssumption
    <3> QED BY <3>1, Places DEF Fields, FieldSet, Storages, Sane
  <2> HIDE DEF f
  <2> DEFINE x == SetFields(Released(now, s), s, f)
             c == [x.mem[Outside] EXCEPT !.units = OutsideUnits]
  <2>3. Left(x, s)
    BY <1>6, <2>2
  <2>4. y(f) = Put(x, Outside, c)
    BY DEF Put
  <2> HIDE DEF x
  <2>5. x \in Memory /\ Counts(x, s, Held(x, s)) /\ SaneBut(x, s) /\ Sane(x.str[s], s) /\ Tidy(x)
    BY <2>3 DEF Left, Settled, Working
  <2>6. c \in [units : Seq(Cell), refs : Int] /\ c.refs = x.mem[Outside].refs
    <3>1. x.mem[Outside] \in [units : Seq(Cell), refs : Int]
      BY <2>5, Places DEF Memory
    <3> QED BY <3>1, UnitsAreCells
  <2> HIDE DEF c
  <2>7. Put(x, Outside, c) \in Memory /\ Put(x, Outside, c).str = x.str
        /\ \A p \in Place \ {Outside} : Put(x, Outside, c).mem[p] = x.mem[p]
    BY <2>5, <2>6, Places, PlaceIsWritten
  <2> DEFINE z == Put(x, Outside, c)
  <2>8. z \in Memory /\ z.str = x.str /\ \A p \in Place \ {Outside} : z.mem[p] = x.mem[p]
    BY <2>7
  <2> HIDE DEF z
  <2>9. \A a \in Array : a \in Place \ {Outside}
    BY Places
  <2>10. Held(z, s) = Held(x, s)
    BY <2>8 DEF Held
  <2>11. Counts(z, s, Held(x, s))
    BY <2>5, <2>8, <2>9, CountsAgree
  <2>12. Left(z, s)
    BY <2>5, <2>8, <2>9, <2>10, <2>11 DEF Left, Settled, Working, SaneBut, Tidy
  <2>13. \E text : Gives(s, {z}, text)
    BY <2>1, <2>4 DEF z, f
  <2> QED BY <2>12, <2>13, GivesAccounted
<1> QED BY <1>3, <1>4, <1>5, <1>8, <1>9, <1>10

(* Every array is counted once for each string that uses it, and is freed  *)
(* with its last user, whatever calls are made on however many strings,    *)
(* and whatever allocations fail in them (addRef(), removeRef(),           *)
(* releaseArray(), cloneArrayIfNeeded(), copyFrom()).                      *)
THEOREM EveryArrayIsCounted == Spec => []CountIsOwners
<1>1. Init => Accounted(now)
  BY InitAccounted
<1>2. Accounted(now) /\ [Next]_vars => Accounted(now)'
  <2> SUFFICES ASSUME Accounted(now), [Next]_vars
               PROVE  Accounted(now)'
    OBVIOUS
  <2>1. CASE UNCHANGED vars
    <3>1. now' = now
      BY <2>1 DEF vars, now
    <3> QED BY <3>1
  <2>2. CASE Next
    <3>1. PICK s \in String : Call(s)
      BY <2>2 DEF Next
    <3> QED BY <3>1, TextCallsAccounted, BufferCallsAccounted, ArrayCallsAccounted DEF Call
  <2> QED BY <2>1, <2>2
<1>3. Accounted(now) => CountIsOwners
  BY DEF Accounted, Users, CountIsOwners, now
<1> QED BY <1>1, <1>2, <1>3, PTL DEF Spec

-----------------------------------------------------------------------------
(* The text of a string.  What a call does with s must spare the others:   *)
(* their fields, and the units of their arrays; and the sizes of the       *)
(* places that are no arrays on the heap.                                  *)
Layout(m) ==
  /\ \A t \in String : Len(m.mem[t].units) = StackSize
  /\ m.mem[Literal].units = LiteralUnits \o <<0>>
  /\ Len(m.mem[Outside].units) = Len(OutsideUnits)

Spares(m, x, s) ==
  /\ \A t \in String \ {s} :
       /\ x.str[t] = m.str[t]
       /\ m.str[t].storage # "bogus"
            => x.mem[m.str[t].array].units = m.mem[m.str[t].array].units
  /\ Layout(m) => Layout(x)

(* No other string has the array of s.                                     *)
Alone(m, s) ==
  \A t \in String \ {s} :
    m.str[t].storage # "bogus" => m.str[t].array # m.str[s].array

(* The places whose units stay while s is given another buffer.            *)
Stays(m, s, p) == p \in Place \ {s} /\ (p \in Array => m.mem[p].refs > 0)

(* One step after the other.                                               *)
LEMMA SparesAgain ==
  ASSUME NEW m, NEW x, NEW y, NEW s, Spares(m, x, s), Spares(x, y, s)
  PROVE  Spares(m, y, s)
BY DEF Spares

(* The array of another string stays.                                      *)
LEMMA OtherArrayStays ==
  ASSUME NEW m, NEW s \in String, NEW held, Working(m, s, held),
         NEW t \in String \ {s}, m.str[t].storage # "bogus"
  PROVE  Stays(m, s, m.str[t].array)
<1> DEFINE f == m.str[t]
<1>1. f \in FieldSet /\ Sane(f, t) /\ f.array \in Place
  <2>1. f \in FieldSet /\ Sane(f, t)
    BY DEF Working, Memory, SaneBut
  <2> QED BY <2>1, ArrayIsPlace
<1>2. f.array # s
  BY <1>1, Places DEF Sane, FieldSet, Storages
<1>3. f.array \in Array => f.storage = "long"
  BY <1>1, Places DEF Sane, FieldSet, Storages
<1>4. f.array \in Array => t \in Others(m, s, f.array)
  BY <1>3 DEF Others
<1>5. f.array \in Array => m.mem[f.array].refs > 0
  BY <1>4, HeldIsCounted
<1> QED BY <1>1, <1>2, <1>5 DEF Stays

(* So do the places that are no arrays on the heap.                        *)
LEMMA FixedPlacesStay ==
  ASSUME NEW m, NEW s \in String
  PROVE  /\ Stays(m, s, Literal) /\ Stays(m, s, Outside)
         /\ \A t \in String \ {s} : Stays(m, s, t)
BY Places DEF Stays

(* What keeps the units of all that stays spares the other strings.        *)
LEMMA SparesWhatStays ==
  ASSUME NEW m, NEW s \in String, NEW held, Working(m, s, held), NEW x,
         \A t \in String \ {s} : x.str[t] = m.str[t],
         \A p : Stays(m, s, p) => x.mem[p].units = m.mem[p].units,
         Len(x.mem[s].units) \in {StackSize, Len(m.mem[s].units)}
  PROVE  Spares(m, x, s)
<1>1. \A t \in String \ {s} :
        m.str[t].storage # "bogus" => x.mem[m.str[t].array].units = m.mem[m.str[t].array].units
  BY OtherArrayStays
<1>2. Layout(m) => Layout(x)
  <2> SUFFICES ASSUME Layout(m) PROVE Layout(x)
    OBVIOUS
  <2>1. x.mem[Literal].units = m.mem[Literal].units
    BY FixedPlacesStay
  <2>2. x.mem[Outside].units = m.mem[Outside].units
    BY FixedPlacesStay
  <2>3. \A t \in String \ {s} : x.mem[t].units = m.mem[t].units
    BY FixedPlacesStay
  <2>4. Len(x.mem[s].units) = StackSize
    BY DEF Layout
  <2> QED BY <2>1, <2>2, <2>3, <2>4 DEF Layout
<1> QED BY <1>1, <1>2 DEF Spares

(* The operators one by one.                                               *)
LEMMA SetFieldsSpares ==
  ASSUME NEW m, NEW s \in String, NEW f \in FieldSet, NEW held, Working(m, s, held)
  PROVE  /\ Spares(m, SetFields(m, s, f), s)
         /\ \A p \in Place \ {s} : SetFields(m, s, f).mem[p] = m.mem[p]
<1> DEFINE x == SetFields(m, s, f)
<1>1. m \in Memory
  BY DEF Working
<1>2. \A t \in String \ {s} : x.str[t] = m.str[t]
  BY <1>1, SetFieldsFrame
<1>3. \A p \in Place \ {s} : x.mem[p] = m.mem[p]
  BY <1>1, SetFieldsFrame
<1>4. x.mem[s].units = IF f.array = s THEN m.mem[s].units ELSE Uninitialized(StackSize)
  BY <1>1, SetFieldsFrame
<1>5. Len(Uninitialized(StackSize)) = StackSize
  BY UninitializedIsText, BoundsAssumption
<1> HIDE DEF x
<1>6. Len(x.mem[s].units) \in {StackSize, Len(m.mem[s].units)}
  BY <1>4, <1>5
<1>7. \A p : Stays(m, s, p) => x.mem[p].units = m.mem[p].units
  BY <1>3 DEF Stays
<1>8. Spares(m, x, s)
  BY <1>2, <1>6, <1>7, SparesWhatStays
<1> QED BY <1>3, <1>8 DEF x

(* putting fields back,                                                    *)
LEMMA FieldsPutSpare ==
  ASSUME NEW m, NEW s \in String, NEW f \in FieldSet, NEW held, Working(m, s, held)
  PROVE  Spares(m, PutFields(m, s, f), s) /\ PutFields(m, s, f).mem = m.mem
<1> DEFINE x == PutFields(m, s, f)
<1>1. m \in Memory
  BY DEF Working
<1>2. x.mem = m.mem /\ \A t \in String \ {s} : x.str[t] = m.str[t]
  BY <1>1, FieldsArePut
<1> HIDE DEF x
<1>3. Spares(m, x, s)
  BY <1>2, SparesWhatStays
<1> QED BY <1>2, <1>3 DEF x

(* another length,                                                         *)
LEMMA ResizedSpares ==
  ASSUME NEW m, NEW s \in String, NEW n \in Int, NEW held, Working(m, s, held)
  PROVE  Spares(m, Resized(m, s, n), s) /\ Resized(m, s, n).mem = m.mem
<1> DEFINE x == Resized(m, s, n)
<1>1. m \in Memory
  BY DEF Working
<1>2. x.str = [m.str EXCEPT ![s] = [m.str[s] EXCEPT !.length = n]] /\ x.mem = m.mem
  BY <1>1, ResizedFrame
<1> HIDE DEF x
<1>3. \A t \in String \ {s} : x.str[t] = m.str[t]
  BY <1>1, <1>2 DEF Memory
<1>4. Spares(m, x, s)
  BY <1>2, <1>3, SparesWhatStays
<1> QED BY <1>2, <1>4 DEF x

(* one count less,                                                         *)
LEMMA UncountedSpares ==
  ASSUME NEW m, NEW s \in String, NEW held, Working(m, s, held), NEW a \in Array
  PROVE  /\ Spares(m, Uncounted(m, a), s)
         /\ \A p \in Place : Uncounted(m, a).mem[p].units = m.mem[p].units
<1> DEFINE x == Uncounted(m, a)
<1>1. m \in Memory
  BY DEF Working
<1>2. x.str = m.str /\ (\A p \in Place \ {a} : x.mem[p] = m.mem[p])
      /\ x.mem[a].units = m.mem[a].units
  BY <1>1, UncountedFrame
<1> HIDE DEF x
<1>3. \A p \in Place : x.mem[p].units = m.mem[p].units
  BY <1>2
<1>4. Spares(m, x, s)
  BY <1>2, <1>3, Places, SparesWhatStays DEF Stays
<1> QED BY <1>3, <1>4 DEF x

(* freeing what nobody uses,                                               *)
LEMMA SweptSpares ==
  ASSUME NEW m, NEW s \in String, NEW held, Working(m, s, held)
  PROVE  /\ Spares(m, Swept(m), s)
         /\ \A p \in Place : p \notin Array \/ m.mem[p].refs # 0 => Swept(m).mem[p] = m.mem[p]
<1> DEFINE x == Swept(m)
<1>1. m \in Memory
  BY DEF Working
<1>2. x.str = m.str
      /\ \A p \in Place : p \notin Array \/ m.mem[p].refs # 0 => x.mem[p] = m.mem[p]
  BY <1>1, SweptFrame
<1> HIDE DEF x
<1>3. \A p : Stays(m, s, p) => x.mem[p].units = m.mem[p].units
  <2> SUFFICES ASSUME NEW p, Stays(m, s, p) PROVE x.mem[p].units = m.mem[p].units
    OBVIOUS
  <2>1. p \in Place /\ (p \notin Array \/ m.mem[p].refs # 0)
    BY DEF Stays
  <2> QED BY <1>2, <2>1
<1>4. x.mem[s] = m.mem[s]
  BY <1>2, Places
<1>5. Spares(m, x, s)
  BY <1>2, <1>3, <1>4, SparesWhatStays
<1> QED BY <1>2, <1>5 DEF x

(* releaseArray(),                                                         *)
LEMMA ReleasedSpares ==
  ASSUME NEW m, NEW s \in String, Settled(m, s), Tidy(m)
  PROVE  Spares(m, Released(m, s), s)
<1>1. CASE m.str[s].storage = "long"
  <2> DEFINE a == m.str[s].array
  <2>1. a \in Array /\ Held(m, s) = {a} /\ Working(m, s, {a})
    BY <1>1 DEF Settled, Sane, Held
  <2> HIDE DEF a
  <2>2. Spares(m, Uncounted(m, a), s)
    BY <2>1, UncountedSpares
  <2>3. Working(Uncounted(m, a), s, {a} \ {a})
    BY <2>1, UncountedWorks
  <2>4. Spares(Uncounted(m, a), Swept(Uncounted(m, a)), s)
    BY <2>3, SweptSpares
  <2>5. Released(m, s) = Swept(Uncounted(m, a))
    BY <1>1 DEF Released, a
  <2> QED BY <2>2, <2>4, <2>5, SparesAgain
<1>2. CASE m.str[s].storage # "long"
  BY <1>2 DEF Released, Spares
<1> QED BY <1>1, <1>2

(* and setToBogus().                                                       *)
LEMMA ToBogusSpares ==
  ASSUME NEW m, NEW s \in String, Settled(m, s), Tidy(m)
  PROVE  Spares(m, ToBogus(m, s), s)
<1>1. Working(Released(m, s), s, {}) /\ Spares(m, Released(m, s), s)
  BY ReleasedWorks, ReleasedSpares
<1>2. Spares(Released(m, s), ToBogus(m, s), s)
  BY <1>1, FieldsAreFields, SetFieldsSpares DEF ToBogus
<1> QED BY <1>1, <1>2, SparesAgain

-----------------------------------------------------------------------------
(* Which part of its array a string may use.                               *)
Area(m, s) ==
  LET f == m.str[s]
  IN  /\ f.start >= 0 /\ f.capacity >= 0
      /\ f.start + f.capacity <= Len(m.mem[f.array].units)

(* A string may write to its area: nobody else reads there.                *)
Writes(m, s) ==
  /\ m.str[s].storage \in {"short", "long", "writable"} /\ ~m.str[s].open
  /\ Alone(m, s) /\ Area(m, s)

(* All that stays is as it was and goes on staying.                        *)
AllStays(m, x, s) ==
  \A p : Stays(m, s, p) => x.mem[p].units = m.mem[p].units /\ Stays(x, s, p)

(* Setting fields is no exception,                                         *)
LEMMA SetFieldsStays ==
  ASSUME NEW m \in Memory, NEW s \in String, NEW f \in FieldSet
  PROVE  AllStays(m, SetFields(m, s, f), s)
<1> DEFINE x == SetFields(m, s, f)
<1>1. \A p \in Place \ {s} : x.mem[p] = m.mem[p]
  BY SetFieldsFrame
<1> HIDE DEF x
<1>2. AllStays(m, x, s)
  BY <1>1 DEF AllStays, Stays
<1> QED BY <1>2 DEF x

(* nor is allocating an array.                                             *)
LEMMA NewArrayStays ==
  ASSUME NEW m, NEW s \in String, NEW held, Working(m, s, held), Tidy(m),
         \A a, b \in held : a = b, NEW n \in Nat, Layout(m)
  PROVE  /\ AllStays(m, NewArray(m, s, n), s) /\ Spares(m, NewArray(m, s, n), s)
         /\ Writes(NewArray(m, s, n), s)
         /\ NewArray(m, s, n).str[s] = Fields("long", NewArray(m, s, n).str[s].array, 0, n)
<1> DEFINE a == CHOOSE x \in Array : m.mem[x] = Free
           f == Fields("long", a, 0, n)
           x == SetFields(m, s, f)
           c == [units |-> Uninitialized(n), refs |-> 1]
           y == Put(x, a, c)
<1>1. a \in Array /\ m.mem[a] = Free
  BY OneArrayIsFree
<1> HIDE DEF a
<1>2. a \in Place /\ a # s /\ f \in FieldSet
  BY <1>1, Places DEF FieldSet, Storages, Fields
<1>3. f.storage = "long" /\ f.array = a /\ f.start = 0 /\ f.capacity = n /\ ~f.open
  BY DEF Fields
<1>4. m \in Memory /\ Counts(m, s, held) /\ SaneBut(m, s)
  BY DEF Working
<1> HIDE DEF f
<1>5. x \in Memory /\ x.str[s] = f
      /\ (\A t \in String \ {s} : x.str[t] = m.str[t])
  BY <1>2, <1>4, SetFieldsFrame
<1>6. \A p \in Place \ {s} : x.mem[p] = m.mem[p]
  BY <1>2, <1>4, SetFieldsFrame
<1>7. x.mem[s].units = Uninitialized(StackSize)
  BY <1>2, <1>3, <1>4, SetFieldsFrame
<1> HIDE DEF x
<1>8. c \in [units : Seq(Cell), refs : Int] /\ Len(c.units) = n
  BY UninitializedIsText
<1>9. NewArray(m, s, n) = y
  BY DEF NewArray, Put, x, f, a
<1> HIDE DEF c
<1>10. y.str = x.str /\ y.mem[a] = c
      /\ \A p \in Place \ {a} : y.mem[p] = x.mem[p]
  BY <1>2, <1>5, <1>8, PlaceIsWritten
<1> HIDE DEF y
<1>11. m.mem[a].refs = 0
  BY <1>1 DEF Free
<1>12. \A p : Stays(m, s, p) => p \in Place \ {a, s}
  BY <1>1, <1>11 DEF Stays
<1>13. \A p \in Place \ {a, s} : y.mem[p] = m.mem[p]
  BY <1>6, <1>10
<1>14. AllStays(m, y, s)
  BY <1>12, <1>13 DEF AllStays, Stays
<1>15. y.mem[s].units = Uninitialized(StackSize) /\ Len(Uninitialized(StackSize)) = StackSize
  BY <1>2, <1>7, <1>10, Places, UninitializedIsText, BoundsAssumption
<1>16. Spares(m, y, s)
  <2>1. \A t \in String \ {s} : y.str[t] = m.str[t]
    BY <1>5, <1>10
  <2>2. \A p : Stays(m, s, p) => y.mem[p].units = m.mem[p].units
    BY <1>14 DEF AllStays
  <2> QED BY <1>15, <2>1, <2>2, SparesWhatStays
<1>17. Alone(y, s)
  <2> SUFFICES ASSUME NEW t \in String \ {s}, m.str[t].storage # "bogus"
               PROVE  m.str[t].array # a
    BY <1>3, <1>5, <1>10 DEF Alone
  <2>1. Stays(m, s, m.str[t].array)
    BY OtherArrayStays
  <2> QED BY <1>12, <2>1
<1>18. Area(y, s) /\ y.str[s] = f
  BY <1>3, <1>5, <1>8, <1>10 DEF Area
<1> QED BY <1>3, <1>9, <1>14, <1>16, <1>17, <1>18 DEF Writes, f

(* One after the other.                                                    *)
LEMMA StaysAgain ==
  ASSUME NEW m, NEW x, NEW y, NEW s, AllStays(m, x, s), AllStays(x, y, s)
  PROVE  AllStays(m, y, s)
BY DEF AllStays

(* The buffer of a string's own object is never another string's.          *)
LEMMA OwnBufferIsAlone ==
  ASSUME NEW m, NEW s \in String, m \in Memory, SaneBut(m, s), m.str[s].array = s
  PROVE  Alone(m, s)
<1> SUFFICES ASSUME NEW t \in String \ {s}, m.str[t].storage # "bogus"
             PROVE  m.str[t].array # s
  BY DEF Alone
<1>1. m.str[t] \in FieldSet /\ Sane(m.str[t], t)
  BY DEF Memory, SaneBut
<1> QED BY <1>1, Places DEF Sane, FieldSet, Storages

(* What a string is given by allocate() has room for n units.              *)
Roomy(m, s, n) ==
  /\ Writes(m, s) /\ m.str[s].storage \in {"short", "long"} /\ m.str[s].start = 0
  /\ m.str[s].capacity >= n

Obtained(n) == IF n <= StackSize THEN n ELSE AllocatedCapacity(n)

(* allocate() gives an array of its own with the room that was asked for. *)
LEMMA AllocateIsRoomy ==
  ASSUME NEW m, NEW s \in String, NEW held, Working(m, s, held), Tidy(m),
         \A a, b \in held : a = b, NEW n \in Int, Layout(m), NEW y \in Allocate(m, s, n)
  PROVE  /\ AllStays(m, y, s) /\ Spares(m, y, s)
         /\ IsBogus(y, s) \/ Roomy(y, s, Obtained(n))
<1>1. m \in Memory /\ SaneBut(m, s)
  BY DEF Working
<1>2. CASE y = SetFields(m, s, BogusFields)
  <2>1. y.str[s] = BogusFields
    BY <1>1, <1>2, FieldsAreFields, SetFieldsFrame
  <2>2. IsBogus(y, s)
    BY <2>1 DEF IsBogus, BogusFields, Fields
  <2>3. Spares(m, y, s)
    BY <1>2, FieldsAreFields, SetFieldsSpares
  <2>4. AllStays(m, y, s)
    BY <1>1, <1>2, FieldsAreFields, SetFieldsStays
  <2> QED BY <2>2, <2>3, <2>4
<1>3. CASE y = SetFields(m, s, Empty(s)) /\ n <= StackSize
  <2> DEFINE f == Empty(s)
  <2>1. f.storage = "short" /\ f.array = s /\ f.start = 0 /\ f.capacity = StackSize /\ ~f.open
    BY DEF Empty, Fields
  <2>2. f \in FieldSet
    BY FieldsAreFields
  <2> HIDE DEF f
  <2>3. y = SetFields(m, s, f)
    BY <1>3 DEF f
  <2>4. y.str[s] = f /\ y \in Memory
    BY <1>1, <2>2, <2>3, SetFieldsFrame
  <2>5. y.mem[s].units = m.mem[s].units
    BY <1>1, <2>1, <2>2, <2>3, SetFieldsFrame
  <2>6. Spares(m, y, s)
    BY <2>2, <2>3, SetFieldsSpares
  <2>7. AllStays(m, y, s)
    BY <1>1, <2>2, <2>3, SetFieldsStays
  <2>8. Len(y.mem[s].units) = StackSize
    BY <2>5 DEF Layout
  <2>9. SaneBut(y, s)
    BY <1>1, <2>6 DEF SaneBut, Spares
  <2>10. Alone(y, s)
    BY <2>1, <2>4, <2>9, OwnBufferIsAlone
  <2>11. Area(y, s)
    BY <2>1, <2>4, <2>8, BoundsAssumption DEF Area
  <2>12. Roomy(y, s, Obtained(n))
    BY <1>3, <2>1, <2>4, <2>10, <2>11 DEF Roomy, Writes, Obtained
  <2> QED BY <2>6, <2>7, <2>12
<1>4. CASE /\ ~(n <= StackSize)
           /\ \E c \in {n} \cap 0 .. MaxCapacity : y = NewArray(m, s, AllocatedCapacity(c))
  <2>1. n \in 0 .. MaxCapacity /\ y = NewArray(m, s, AllocatedCapacity(n))
    BY <1>4
  <2> DEFINE k == AllocatedCapacity(n)
  <2>2. k \in Nat /\ k = Obtained(n)
    BY <1>4, <2>1, BoundsAssumption, AllocatedIsEnough DEF Obtained
  <2> HIDE DEF k
  <2>3. y = NewArray(m, s, k)
    BY <2>1 DEF k
  <2>4. AllStays(m, y, s) /\ Spares(m, y, s) /\ Writes(y, s)
    BY <2>2, <2>3, NewArrayStays
  <2>5. y.str[s] = Fields("long", y.str[s].array, 0, k)
    BY <2>2, <2>3, NewArrayStays
  <2>6. y.str[s].storage = "long" /\ y.str[s].start = 0 /\ y.str[s].capacity = k
    BY <2>5 DEF Fields
  <2> QED BY <2>2, <2>4, <2>6 DEF Roomy
<1> QED BY <1>2, <1>3, <1>4 DEF Allocate

(* The second attempt of cloneArrayIfNeeded() is for what is needed.       *)
Enough(n, grow) ==
  n <= grow \/ (grow = MaxCapacity /\ n <= AllocatedCapacity(MaxCapacity))

First(n, grow) == IF n <= StackSize THEN Min({grow, StackSize}) ELSE grow

(* What allocate() rounds up is no less than what it was asked for.       *)
LEMMA ObtainedIsEnough ==
  ASSUME NEW n \in Int, NEW grow \in Int
  PROVE  /\ First(n, grow) \in Int /\ Obtained(n) >= n
         /\ Enough(n, grow) => Obtained(First(n, grow)) >= n
<1>1. \A k \in Int : Obtained(k) \in Int /\ Obtained(k) >= k
  <2> SUFFICES ASSUME NEW k \in Int PROVE Obtained(k) \in Int /\ Obtained(k) >= k
    OBVIOUS
  <2>1. k > StackSize => AllocatedCapacity(k) \in Nat /\ AllocatedCapacity(k) > k
    BY AllocatedIsEnough, BoundsAssumption
  <2> QED BY <2>1, BoundsAssumption DEF Obtained
<1>2. Min({grow, StackSize}) = IF grow <= StackSize THEN grow ELSE StackSize
  BY MinOfTwo, BoundsAssumption
<1> DEFINE first == First(n, grow)
<1>3. first \in Int
  BY <1>2, BoundsAssumption DEF First
<1>4. n <= grow => n <= first
  BY <1>2, BoundsAssumption DEF First
<1>5. n > grow /\ Enough(n, grow) => first = MaxCapacity /\ n <= Obtained(first)
  BY BoundsAssumption DEF First, Enough, Obtained
<1> HIDE DEF first
<1>6. Obtained(first) \in Int /\ Obtained(first) >= first
  BY <1>1, <1>3
<1>7. Enough(n, grow) => Obtained(first) >= n
  BY <1>3, <1>4, <1>5, <1>6
<1> QED BY <1>1, <1>3, <1>7 DEF first

(* The second attempt, with less room, is enough as well.                 *)
LEMMA AttemptsAreRoomy ==
  ASSUME NEW m, NEW s \in String, NEW held, Working(m, s, held), Tidy(m),
         \A a, b \in held : a = b, NEW grow \in Int, NEW n \in Int, Layout(m),
         NEW x \in Attempts(m, s, First(n, grow), n)
  PROVE  /\ AllStays(m, x, s) /\ Spares(m, x, s)
         /\ IsBogus(x, s) \/ (/\ Roomy(x, s, x.str[s].capacity)
                              /\ Enough(n, grow) => x.str[s].capacity >= n)
<1> DEFINE first == First(n, grow)
<1>1. first \in Int /\ Obtained(n) >= n /\ (Enough(n, grow) => Obtained(first) >= n)
  BY ObtainedIsEnough
<1>2. PICK y \in Allocate(m, s, first) :
             x \in IF IsBogus(y, s) /\ n < first THEN Allocate(y, s, n) ELSE {y}
  BY DEF Attempts
<1> HIDE DEF first
<1>3. Got(y, s, held)
  BY <1>1, <1>2, AllocateWorks
<1>4. AllStays(m, y, s) /\ Spares(m, y, s)
      /\ (IsBogus(y, s) \/ Roomy(y, s, Obtained(first)))
  BY <1>1, <1>2, AllocateIsRoomy
<1>5. Layout(y)
  BY <1>4 DEF Spares
<1>6. \A k \in Int : Obtained(k) \in Int
  <2> SUFFICES ASSUME NEW k \in Int PROVE Obtained(k) \in Int
    OBVIOUS
  <2>1. k > StackSize => AllocatedCapacity(k) \in Nat
    BY AllocatedIsEnough, BoundsAssumption
  <2> QED BY <2>1, BoundsAssumption DEF Obtained
<1>7. \A z, k : z \in Memory /\ k \in Int /\ Roomy(z, s, Obtained(k)) /\ Obtained(k) >= n
                  => Roomy(z, s, z.str[s].capacity) /\ z.str[s].capacity >= n
  <2> SUFFICES ASSUME NEW z \in Memory, NEW k \in Int, Roomy(z, s, Obtained(k))
               PROVE  /\ Roomy(z, s, z.str[s].capacity)
                      /\ Obtained(k) >= n => z.str[s].capacity >= n
    OBVIOUS
  <2>1. Obtained(k) \in Int /\ z.str[s].capacity \in Int
    BY <1>6 DEF Memory, FieldSet
  <2> QED BY <2>1 DEF Roomy
<1>8. \A z, k : z \in Memory /\ k \in Int /\ Roomy(z, s, Obtained(k))
                  => Roomy(z, s, z.str[s].capacity)
  <2> SUFFICES ASSUME NEW z \in Memory, NEW k \in Int, Roomy(z, s, Obtained(k))
               PROVE  Roomy(z, s, z.str[s].capacity)
    OBVIOUS
  <2>1. Obtained(k) \in Int /\ z.str[s].capacity \in Int
    BY <1>6 DEF Memory, FieldSet
  <2> QED BY <2>1 DEF Roomy
<1>9. CASE IsBogus(y, s) /\ x \in Allocate(y, s, n)
  <2>1. Held(y, s) = {}
    BY <1>9 DEF IsBogus, Held
  <2>2. held \cup {} = held
    OBVIOUS
  <2>3. Working(y, s, held) /\ Tidy(y)
    BY <1>3, <2>1, <2>2 DEF Got
  <2>4. AllStays(y, x, s) /\ Spares(y, x, s) /\ (IsBogus(x, s) \/ Roomy(x, s, Obtained(n)))
    BY <1>5, <1>9, <2>3, AllocateIsRoomy
  <2>5. Got(x, s, held)
    BY <1>9, <2>3, AllocateWorks
  <2>6. x \in Memory
    BY <2>5 DEF Got, Working
  <2> QED BY <1>1, <1>4, <1>7, <2>4, <2>6, StaysAgain, SparesAgain
<1>10. CASE x = y
  <2>1. y \in Memory
    BY <1>3 DEF Got, Working
  <2> QED BY <1>1, <1>4, <1>7, <1>8, <1>10, <2>1
<1> QED BY <1>2, <1>9, <1>10

-----------------------------------------------------------------------------
(* Nobody else reads where a string may write, or its caller, while the    *)
(* buffer is open.                                                         *)
Owns(m, s) ==
  m.str[s].storage \in {"short", "long", "writable"} /\ Alone(m, s) /\ Area(m, s)

(* A string that has its array alone spares the others, wherever it        *)
(* writes, and also while its buffer is open.                              *)
LEMMA OwnerSpares ==
  ASSUME NEW m \in Memory, NEW s \in String, Sane(m.str[s], s), SaneBut(m, s),
         Owns(m, s), NEW p, p = m.str[s].array, NEW i \in Int, NEW text \in Seq(Cell)
  PROVE  /\ Spares(m, Written(m, p, i, text), s) /\ Owns(Written(m, p, i, text), s)
         /\ Written(m, p, i, text).str = m.str
         /\ p \in Place /\ p # Literal
<1> DEFINE x == Written(m, p, i, text)
<1>1. m.str[s] \in FieldSet /\ m.str[s].storage \in {"short", "long", "writable"}
  BY DEF Memory, Owns
<1>2. p \in Place /\ p # Literal /\ m.str[s].storage # "bogus"
  <2>1. m.str[s].storage # "bogus"
    BY <1>1
  <2> QED BY <1>1, <2>1, Places, ArrayIsPlace DEF Sane
<1>3. x.str = m.str /\ (\A q \in Place \ {p} : x.mem[q] = m.mem[q])
  <2>1. p \in Place
    BY <1>2
  <2>2. x.str = m.str
    BY <2>1, WrittenFrame
  <2>3. \A q \in Place \ {p} : x.mem[q] = m.mem[q]
    BY <2>1, WrittenFrame
  <2> QED BY <2>2, <2>3
<1>4. Len(x.mem[p].units) = Len(m.mem[p].units)
  BY <1>2, WrittenFrame
<1> HIDE DEF x
<1>5. \A t \in String \ {s} :
        m.str[t].storage # "bogus" => x.mem[m.str[t].array].units = m.mem[m.str[t].array].units
  <2> SUFFICES ASSUME NEW t \in String \ {s}, m.str[t].storage # "bogus"
               PROVE  x.mem[m.str[t].array] = m.mem[m.str[t].array]
    OBVIOUS
  <2>1. m.str[t].array # p
    BY DEF Owns, Alone
  <2>2. m.str[t] \in FieldSet /\ Sane(m.str[t], t)
    BY DEF Memory, SaneBut
  <2>3. m.str[t].array \in Place
    BY <2>2, ArrayIsPlace
  <2> QED BY <1>3, <2>1, <2>3
<1>6. Layout(m) => Layout(x)
  <2> SUFFICES ASSUME Layout(m) PROVE Layout(x)
    OBVIOUS
  <2>1. \A q \in Place : Len(x.mem[q].units) = Len(m.mem[q].units)
    BY <1>3, <1>4
  <2>2. x.mem[Literal] = m.mem[Literal]
    BY <1>2, <1>3, Places
  <2> QED BY <2>1, <2>2, Places DEF Layout
<1>7. Spares(m, x, s)
  BY <1>3, <1>5, <1>6 DEF Spares
<1>8. Area(x, s)
  BY <1>3, <1>4 DEF Area, Owns
<1>9. Owns(x, s)
  BY <1>3, <1>8 DEF Owns, Alone
<1> QED BY <1>2, <1>3, <1>7, <1>9 DEF x

(* So it does when it may write itself.                                    *)
LEMMA WrittenSpares ==
  ASSUME NEW m \in Memory, NEW s \in String, Sane(m.str[s], s), SaneBut(m, s),
         Writes(m, s), NEW p, p = m.str[s].array, NEW i \in Int, NEW text \in Seq(Cell)
  PROVE  /\ Spares(m, Written(m, p, i, text), s) /\ Writes(Written(m, p, i, text), s)
         /\ p \in Place /\ p # Literal
<1> DEFINE x == Written(m, p, i, text)
<1>1. Owns(m, s) /\ ~m.str[s].open
  BY DEF Writes, Owns
<1>2. Spares(m, x, s) /\ Owns(x, s) /\ x.str = m.str /\ p \in Place /\ p # Literal
  BY <1>1, OwnerSpares
<1> HIDE DEF x
<1>3. Writes(x, s)
  BY <1>1, <1>2 DEF Writes, Owns
<1> QED BY <1>2, <1>3 DEF x

(* The units between two places of an array; what is read there.           *)
LEMMA ReadIs ==
  ASSUME NEW m, NEW p, NEW i \in Int, NEW n \in Nat, i >= 0,
         m.mem[p].units \in Seq(Cell), i + n <= Len(m.mem[p].units)
  PROVE  \A k \in 1 .. n : Read(m, p, i, n)[k] = m.mem[p].units[i + k]
BY DEF Read

(* Only the units are read.                                               *)
LEMMA SameUnitsReadSame ==
  ASSUME NEW m, NEW x, NEW p, x.mem[p].units = m.mem[p].units
  PROVE  \A i, n : Read(x, p, i, n) = Read(m, p, i, n)
BY DEF Read

(* Two texts of the same units are the same.                               *)
LEMMA SameText ==
  ASSUME NEW u \in Seq(Cell), NEW v \in Seq(Cell), Len(u) = Len(v),
         \A k \in 1 .. Len(u) : u[k] = v[k]
  PROVE  u = v
OBVIOUS

(* What is written can be read.                                            *)
LEMMA WrittenIsRead ==
  ASSUME NEW m \in Memory, NEW p \in Place, NEW i \in Int, NEW text \in Seq(Cell),
         i >= 0, i + Len(text) <= Len(m.mem[p].units)
  PROVE  Read(Written(m, p, i, text), p, i, Len(text)) = text
<1> DEFINE x == Written(m, p, i, text)
           n == Len(text)
           u == Read(x, p, i, n)
<1>1. x \in Memory /\ Len(x.mem[p].units) = Len(m.mem[p].units)
  BY WrittenFrame, ZenonT(30)
<1>2. \A k \in 1 .. Len(m.mem[p].units) :
        x.mem[p].units[k] = IF k - i \in 1 .. Len(text) THEN text[k - i] ELSE m.mem[p].units[k]
  BY WrittenFrame
<1>3. x.mem[p].units \in Seq(Cell) /\ m.mem[p].units \in Seq(Cell) /\ n \in Nat
  BY <1>1 DEF Memory
<1> HIDE DEF x
<1>4. u \in Seq(Cell) /\ Len(u) = n
  BY <1>1, <1>3, ReadIsText
<1>5. \A k \in 1 .. n : u[k] = x.mem[p].units[i + k]
  BY <1>1, <1>3, ReadIs
<1>6. \A k \in 1 .. n : u[k] = text[k]
  <2> SUFFICES ASSUME NEW k \in 1 .. n PROVE x.mem[p].units[i + k] = text[k]
    BY <1>5
  <2>1. i + k \in 1 .. Len(m.mem[p].units) /\ (i + k) - i = k
    BY <1>3
  <2> QED BY <1>2, <2>1
<1> HIDE DEF u
<1> QED BY <1>4, <1>6, SameText DEF u, x

-----------------------------------------------------------------------------
(* When both attempts fail, the others do not notice.                      *)
LEMMA CloneFailsSpares ==
  ASSUME NEW m, NEW s \in String, Settled(m, s), NEW x, Got(x, s, Held(m, s)), IsBogus(x, s),
         Spares(m, x, s)
  PROVE  Spares(m, CloneFails(m, x, s), s)
<1> DEFINE y == PutFields(x, s, m.str[s])
<1>1. m.str[s] \in FieldSet /\ Sane(m.str[s], s)
  BY DEF Settled, Working, Memory
<1>2. Working(x, s, Held(m, s)) /\ Tidy(x)
  <2>1. Held(x, s) = {}
    BY DEF IsBogus, Held
  <2>2. Held(m, s) \cup {} = Held(m, s)
    OBVIOUS
  <2> QED BY <2>1, <2>2 DEF Got
<1>3. Working(y, s, Held(m, s)) /\ y.str[s] = m.str[s] /\ Tidy(y)
  BY <1>1, <1>2, FieldsPutWork
<1>4. Spares(x, y, s)
  BY <1>1, <1>2, FieldsPutSpare
<1>5. CloneFails(m, x, s) = ToBogus(y, s)
  BY DEF CloneFails, PutFields
<1> HIDE DEF y
<1>6. Settled(y, s)
  BY <1>1, <1>3 DEF Settled, Held
<1>7. Spares(y, ToBogus(y, s), s)
  BY <1>3, <1>6, ToBogusSpares
<1> QED BY <1>4, <1>5, <1>7, SparesAgain

(* What s had is still there when it has been given a new array: it was    *)
(* saved, or it is not freed yet.                                          *)
LEMMA OldTextIsOld ==
  ASSUME NEW m, NEW s \in String, Settled(m, s), ~IsBogus(m, s), NEW x, AllStays(m, x, s)
  PROVE  \A i, n : OldText(m, x, s, i, n) = Read(m, m.str[s].array, m.str[s].start + i, n)
<1> DEFINE a == m.str[s].array
<1>1. m.str[s] \in FieldSet /\ Sane(m.str[s], s) /\ Working(m, s, Held(m, s))
  BY DEF Settled, Working, Memory
<1>2. CASE m.str[s].storage = "short"
  BY <1>2 DEF OldText
<1>3. CASE m.str[s].storage # "short"
  <2>1. a \in Place /\ a # s
    BY <1>1, <1>3, Places, ArrayIsPlace DEF Sane, IsBogus, FieldSet, Storages
  <2>2. a \in Array => m.mem[a].refs > 0
    <3> SUFFICES ASSUME a \in Array PROVE m.mem[a].refs > 0
      OBVIOUS
    <3>1. m.str[s].storage = "long"
      BY <1>1, Places DEF Sane, IsBogus, FieldSet, Storages
    <3>2. a \in Held(m, s)
      BY <3>1 DEF Held
    <3> QED BY <1>1, <3>2, HeldIsCounted
  <2>3. x.mem[a].units = m.mem[a].units
    BY <2>1, <2>2 DEF AllStays, Stays
  <2>4. \A i, n : Read(x, a, i, n) = Read(m, a, i, n)
    BY <2>3 DEF Read
  <2> QED BY <1>3, <2>4 DEF OldText
<1> QED BY <1>2, <1>3

(* The new array is not the old one.                                       *)
LEMMA NewArrayIsNew ==
  ASSUME NEW m, NEW s \in String, Settled(m, s), ~IsBogus(m, s),
         NEW x, Got(x, s, Held(m, s)), ~IsBogus(x, s)
  PROVE  m.str[s].storage # "short" => x.str[s].array # m.str[s].array
<1> SUFFICES ASSUME m.str[s].storage # "short", x.str[s].array = m.str[s].array PROVE FALSE
  OBVIOUS
<1>1. m.str[s] \in FieldSet /\ Sane(m.str[s], s)
  BY DEF Settled, Working, Memory
<1>2. Sane(x.str[s], s) /\ x.str[s].storage \in {"short", "long"}
  BY DEF Got, IsBogus
<1>3. m.str[s].storage = "long" /\ x.str[s].storage = "long"
  BY <1>1, <1>2, Places DEF Sane, IsBogus, FieldSet, Storages
<1>4. m.str[s].array \in Held(m, s) \cap Held(x, s)
  BY <1>3 DEF Held
<1> QED BY <1>4 DEF Got

(* The second half of cloneArrayIfNeeded(): s may write to the new array,  *)
(* which begins with the text that was kept.  Without delete, the old text *)
(* can still be read.                                                      *)
Kept(m, x, s, copy) ==
  IF copy THEN Min({m.str[s].length, x.str[s].capacity}) ELSE 0

(* The clone that has been allocated gets the text, and may be written.   *)
LEMMA CloneToWrites ==
  ASSUME NEW m, NEW s \in String, Settled(m, s), ~IsBogus(m, s), m.str[s].length >= 0,
         NEW x, Got(x, s, Held(m, s)), ~IsBogus(x, s),
         AllStays(m, x, s), Spares(m, x, s), Roomy(x, s, x.str[s].capacity),
         NEW copy \in BOOLEAN, NEW delete \in BOOLEAN,
         NEW r, r = CloneTo(m, x, s, copy, delete)
  PROVE  /\ Spares(m, r, s) /\ Writes(r, s)
         /\ r.str[s].capacity = x.str[s].capacity /\ r.str[s].start = 0
         /\ r.str[s].length = Kept(m, x, s, copy)
         /\ Read(r, r.str[s].array, 0, r.str[s].length)
              = Read(m, m.str[s].array, m.str[s].start, r.str[s].length)
         /\ ~delete => \A i, n : OldText(m, r, s, i, n)
                                    = Read(m, m.str[s].array, m.str[s].start + i, n)
<1> DEFINE kept == Kept(m, x, s, copy)
           text == OldText(m, x, s, 0, kept)
           b == x.str[s].array
           w == Written(x, b, 0, text)
           c == Resized(w, s, kept)
           a == m.str[s].array
           held == Held(m, s) \cup Held(x, s)
<1>1. m \in Memory /\ x \in Memory /\ m.str[s] \in FieldSet /\ x.str[s] \in FieldSet
      /\ Sane(m.str[s], s) /\ Sane(x.str[s], s) /\ SaneBut(x, s)
  BY DEF Settled, Got, Working, Memory
<1>2. /\ Working(x, s, held) /\ x.str[s].start = 0 /\ Writes(x, s)
      /\ x.str[s].storage \in {"short", "long"}
  BY DEF Got, Roomy
<1>3. kept \in Nat /\ kept <= x.str[s].capacity
  <2>1. m.str[s].length \in Nat /\ x.str[s].capacity \in Nat
    BY <1>1, <1>2 DEF FieldSet, Writes, Area
  <2> DEFINE size == m.str[s].length
             room == x.str[s].capacity
  <2>2. size \in Nat /\ room \in Nat /\ kept = IF copy THEN Min({size, room}) ELSE 0
    BY <2>1 DEF Kept
  <2> HIDE DEF size, room, kept
  <2>3. kept \in Nat /\ kept <= room
    BY <2>2, MinOfTwo
  <2> QED BY <2>3 DEF room
<1>4. text = Read(m, a, m.str[s].start, kept)
  <2>1. m.str[s].start + 0 = m.str[s].start
    BY <1>1 DEF FieldSet
  <2>2. \A i, n : OldText(m, x, s, i, n) = Read(m, m.str[s].array, m.str[s].start + i, n)
    BY OldTextIsOld
  <2> HIDE DEF kept
  <2> QED BY <2>1, <2>2
<1>5. a \in Place /\ b \in Place
  BY <1>1, ArrayIsPlace DEF IsBogus
<1>6. text \in Seq(Cell) /\ Len(text) = kept
  <2>1. m.str[s].start \in Int
    BY <1>1 DEF FieldSet
  <2> HIDE DEF kept, text
  <2> QED BY <1>1, <1>3, <1>4, <1>5, <2>1, ReadIsText
<1> HIDE DEF kept, text
<1>7. Read(w, b, 0, kept) = text
  <2>1. 0 + Len(text) <= Len(x.mem[b].units)
    <3>1. /\ x.str[s].start + x.str[s].capacity <= Len(x.mem[b].units)
          /\ x.str[s].capacity \in Int
      BY <1>1, <1>2 DEF Writes, Area, FieldSet
    <3>2. Len(x.mem[b].units) \in Nat
      BY <1>1, <1>5 DEF Memory
    <3> HIDE DEF b
    <3> QED BY <1>2, <1>3, <1>6, <3>1, <3>2
  <2>2. Read(Written(x, b, 0, text), b, 0, Len(text)) = text
    BY <1>1, <1>5, <1>6, <2>1, WrittenIsRead
  <2> QED BY <1>6, <2>2
<1>8. Spares(x, w, s) /\ Writes(w, s)
  BY <1>1, <1>2, <1>6, WrittenSpares
<1>9. Working(w, s, held) /\ w.str = x.str
  <2>1. Working(x, s, held) /\ b \in Place /\ 0 \in Int /\ text \in Seq(Cell)
    BY <1>2, <1>5, <1>6
  <2> HIDE DEF b, text, held
  <2> QED BY <2>1, WrittenWorks, ZenonT(30)
<1>10. \A p \in Place \ {b} : w.mem[p] = x.mem[p]
  <2>1. x \in Memory /\ b \in Place /\ text \in Seq(Cell)
    BY <1>1, <1>5, <1>6
  <2>2. 0 \in Int
    OBVIOUS
  <2> HIDE DEF b, text
  <2> QED BY <2>1, <2>2, WrittenFrame, ZenonT(30)
<1> HIDE DEF w
<1>11. Working(c, s, held) /\ c.str[s] = [x.str[s] EXCEPT !.length = kept]
  BY <1>3, <1>9, ResizedWorks
<1>12. Spares(w, c, s) /\ c.mem = w.mem
  BY <1>3, <1>9, ResizedSpares
<1> HIDE DEF c
<1>13. /\ c.str[s].storage = x.str[s].storage /\ c.str[s].array = b
       /\ c.str[s].open = x.str[s].open /\ c.str[s].start = x.str[s].start
       /\ c.str[s].capacity = x.str[s].capacity /\ c.str[s].length = kept
  BY <1>1, <1>11 DEF FieldSet
<1>14. Writes(c, s)
  <2>1. \A t \in String \ {s} : c.str[t] = w.str[t]
    BY <1>12 DEF Spares
  <2> QED BY <1>8, <1>9, <1>12, <1>13, <2>1 DEF Writes, Alone, Area
<1>15. Spares(m, c, s)
  BY <1>8, <1>12, SparesAgain
<1> DEFINE Result(y) == /\ Spares(m, y, s) /\ y.str = c.str
                        /\ y.mem[b].units = c.mem[b].units
<1>16. \A y : Result(y) =>
         /\ Writes(y, s)
         /\ y.str[s].capacity = x.str[s].capacity /\ y.str[s].start = 0
         /\ y.str[s].length = kept
         /\ Read(y, y.str[s].array, 0, y.str[s].length) = text
  <2> SUFFICES ASSUME NEW y, Result(y)
               PROVE  /\ Writes(y, s)
                      /\ y.str[s].capacity = x.str[s].capacity /\ y.str[s].start = 0
                      /\ y.str[s].length = kept
                      /\ Read(y, y.str[s].array, 0, y.str[s].length) = text
    OBVIOUS
  <2>1. Writes(y, s)
    BY <1>13, <1>14 DEF Writes, Alone, Area
  <2>2. Read(y, b, 0, kept) = text
    BY <1>7, <1>12 DEF Read
  <2> QED BY <1>2, <1>13, <2>1, <2>2
<1>17. ASSUME NEW y, a # b => y.mem[a].units = c.mem[a].units
       PROVE  \A i, n : OldText(m, y, s, i, n)
                          = Read(m, m.str[s].array, m.str[s].start + i, n)
  <2>1. CASE m.str[s].storage = "short"
    BY <2>1 DEF OldText
  <2>2. CASE m.str[s].storage # "short"
    <3>1. a # b
      BY <2>2, NewArrayIsNew
    <3>2. y.mem[a].units = x.mem[a].units
      BY <1>5, <1>10, <1>12, <1>17, <3>1
    <3>3. \A i, n : OldText(m, x, s, i, n) = Read(m, m.str[s].array, m.str[s].start + i, n)
      BY OldTextIsOld
    <3>4. \A i, n : Read(y, a, i, n) = Read(x, a, i, n)
      BY <3>2 DEF Read
    <3>5. \A i, n : OldText(m, y, s, i, n) = OldText(m, x, s, i, n)
      BY <2>2, <3>4 DEF OldText
    <3> QED BY <3>3, <3>5
  <2> QED BY <2>1, <2>2
<1>18. CASE m.str[s].storage # "long"
  <2>1. r = c
    BY <1>18 DEF CloneTo, c, w, text, kept, Kept
  <2>2. Result(c)
    BY <1>15
  <2>3. \A i, n : OldText(m, c, s, i, n) = Read(m, m.str[s].array, m.str[s].start + i, n)
    BY <1>17
  <2> HIDE DEF Result
  <2> QED BY <1>4, <1>15, <1>16, <2>1, <2>2, <2>3 DEF kept
<1>19. CASE m.str[s].storage = "long"
  <2> DEFINE u == Uncounted(c, a)
  <2>1. a \in Array /\ Held(m, s) = {a} /\ a \in held
    BY <1>1, <1>19 DEF Held, Sane
  <2>2. held \ {a} = Held(x, s)
    BY <2>1 DEF Got
  <2>3. Working(u, s, Held(x, s)) /\ u.str = c.str
    <3> HIDE DEF a, held
    <3> QED BY <1>11, <2>1, <2>2, UncountedWorks
  <2>4. Spares(c, u, s) /\ \A p \in Place : u.mem[p].units = c.mem[p].units
    <3> HIDE DEF a
    <3> QED BY <1>11, <2>1, UncountedSpares
  <2>5. r = IF delete THEN Swept(u) ELSE u
    BY <1>19 DEF CloneTo, c, w, text, kept, Kept
  <2> HIDE DEF u
  <2>6. Result(u)
    BY <1>5, <1>15, <2>3, <2>4, SparesAgain
  <2>7. Result(Swept(u))
    <3>1. Spares(u, Swept(u), s)
          /\ \A p \in Place : p \notin Array \/ u.mem[p].refs # 0 => Swept(u).mem[p] = u.mem[p]
      BY <2>3, SweptSpares
    <3>2. b \notin Array \/ u.mem[b].refs # 0
      <4> SUFFICES ASSUME b \in Array PROVE u.mem[b].refs > 0
        OBVIOUS
      <4>1. x.str[s].storage = "long"
        BY <1>1, <1>2, Places DEF Sane
      <4>2. b \in Held(x, s)
        BY <4>1 DEF Held
      <4> QED BY <2>3, <4>2, HeldIsCounted
    <3>3. Swept(u).mem[b] = u.mem[b]
      BY <1>5, <3>1, <3>2
    <3>4. Swept(u).str = u.str
      BY <2>3, SweptWorks
    <3> QED BY <2>6, <3>1, <3>3, <3>4, SparesAgain
  <2>8. \A i, n : OldText(m, u, s, i, n) = Read(m, m.str[s].array, m.str[s].start + i, n)
    BY <1>5, <1>17, <2>4
  <2>9. Result(r)
    BY <2>5, <2>6, <2>7
  <2>10. Spares(m, r, s)
    BY <2>9
  <2> HIDE DEF Result
  <2> QED BY <1>4, <1>16, <2>5, <2>8, <2>9, <2>10 DEF kept
<1> QED BY <1>18, <1>19

-----------------------------------------------------------------------------
(* Strings may share an array on the heap and the constant text, but not   *)
(* while the buffer of one is open.                                        *)
Compatible(f, g) ==
  f.storage # "bogus" /\ g.storage # "bogus" /\ f.array = g.array =>
    /\ f.storage = g.storage /\ f.storage \in {"long", "readonly"}
    /\ ~f.open /\ ~g.open

Joins(m, s) == \A t \in String \ {s} : Compatible(m.str[s], m.str[t])

(* A string lies within its array; an open one has no text.                *)
Fits(m, s) ==
  LET f == m.str[s]
  IN  /\ f.length >= 0 /\ f.length <= f.capacity /\ f.start >= 0
      /\ f.storage # "bogus" => Area(m, s)
      /\ f.open => f.length = 0 /\ f.storage \in {"short", "long", "writable"}

(* Who may write without cloning is alone.                                 *)
LEMMA UnsharedIsAlone ==
  ASSUME NEW m, NEW s \in String, Settled(m, s), Joins(m, s),
         m.str[s].storage \in {"short", "long", "writable"}, ~IsShared(m, s)
  PROVE  Alone(m, s)
<1> SUFFICES ASSUME NEW t \in String \ {s}, m.str[t].storage # "bogus",
                    m.str[t].array = m.str[s].array
             PROVE  FALSE
  BY DEF Alone
<1>1. m.str[s].storage = "long" /\ m.str[t].storage = "long"
  BY DEF Joins, Compatible
<1> DEFINE a == m.str[s].array
<1>2. a \in Array
  BY <1>1 DEF Settled, Sane
<1>3. m.mem[a].refs = Cardinality(Others(m, s, a)) + 1
  BY <1>1, <1>2 DEF Settled, Working, Counts, Held
<1>4. t \in Others(m, s, a)
  BY <1>1 DEF Others
<1>5. Cardinality(Others(m, s, a)) \in Nat /\ Cardinality(Others(m, s, a)) # 0
  BY <1>4, OthersAreFew, FS_EmptySet
<1>6. m.mem[a].refs > 1
  BY <1>3, <1>5
<1> QED BY <1>1, <1>6 DEF IsShared

(* cloneArrayIfNeeded() as it is called: with a copy of the text that      *)
(* fits, or without one but with the old text at hand.                     *)
Copied(m, r, s, n, grow) ==
  /\ Writes(r, s) /\ (Enough(n, grow) => r.str[s].capacity >= n)
  /\ r.str[s].length \in 0 .. m.str[s].length /\ r.str[s].length <= r.str[s].capacity
  /\ m.str[s].length <= r.str[s].capacity => r.str[s].length = m.str[s].length
  /\ Chars(r, s) = Read(m, m.str[s].array, m.str[s].start, r.str[s].length)

Uncovered(m, r, s, n, grow) ==
  /\ Writes(r, s) /\ (Enough(n, grow) => r.str[s].capacity >= n)
  /\ \A i, k : OldText(m, r, s, i, k) = Read(m, m.str[s].array, m.str[s].start + i, k)

(* So do all outcomes of cloneArrayIfNeeded() but the bogus ones.         *)
LEMMA CloneWrites ==
  ASSUME NEW m, NEW s \in String, Left(m, s), Layout(m), Joins(m, s), Fits(m, s),
         IsWritable(m, s), NEW n \in Int, NEW grow \in Int, NEW copy \in BOOLEAN,
         NEW delete \in BOOLEAN, NEW r \in Clone(m, s, n, grow, copy, delete)
  PROVE  /\ Spares(m, r, s)
         /\ IsBogus(r, s) \/ (/\ copy => Copied(m, r, s, n, grow)
                              /\ ~delete => Uncovered(m, r, s, n, grow))
<1>1. m \in Memory /\ m.str[s] \in FieldSet /\ Settled(m, s) /\ Tidy(m)
  BY DEF Left, Settled, Working, Memory
<1>2. CASE r = m /\ ~NeedsClone(m, s, n)
  <2>1. m.str[s].storage \in {"short", "long", "writable"} /\ ~IsShared(m, s) /\ ~m.str[s].open
        /\ n <= m.str[s].capacity
    BY <1>1, <1>2 DEF NeedsClone, FieldSet, Storages, IsWritable, IsBogus
  <2>2. Writes(m, s)
    BY <1>1, <2>1, UnsharedIsAlone DEF Writes, Fits
  <2>3. \A i, k : OldText(m, m, s, i, k) = Read(m, m.str[s].array, m.str[s].start + i, k)
    BY DEF OldText
  <2>4. Spares(m, m, s)
    BY DEF Spares
  <2>5. m.str[s].length \in 0 .. m.str[s].length /\ m.str[s].length <= m.str[s].capacity
        /\ m.str[s].capacity >= n
    BY <1>1, <2>1 DEF Fits, FieldSet
  <2>6. Copied(m, m, s, n, grow) /\ Uncovered(m, m, s, n, grow)
    BY <2>2, <2>3, <2>5 DEF Chars, Copied, Uncovered
  <2> QED BY <1>2, <2>4, <2>6
<1>3. CASE \E x \in Attempts(m, s, First(n, grow), n) :
             r = IF IsBogus(x, s) THEN CloneFails(m, x, s)
                                  ELSE CloneTo(m, x, s, copy, delete)
  <2>1. PICK x \in Attempts(m, s, First(n, grow), n) :
               r = IF IsBogus(x, s) THEN CloneFails(m, x, s)
                                    ELSE CloneTo(m, x, s, copy, delete)
    BY <1>3
  <2>2. ~IsBogus(m, s) /\ Working(m, s, Held(m, s)) /\ \A a, b \in Held(m, s) : a = b
    BY <1>1 DEF IsWritable, Settled, Held
  <2>3. First(n, grow) \in Int
    BY ObtainedIsEnough
  <2>4. Got(x, s, Held(m, s))
    BY <1>1, <2>2, <2>3, AttemptsWork
  <2>5. /\ AllStays(m, x, s) /\ Spares(m, x, s)
        /\ IsBogus(x, s) \/ (/\ Roomy(x, s, x.str[s].capacity)
                             /\ Enough(n, grow) => x.str[s].capacity >= n)
    BY <1>1, <2>2, AttemptsAreRoomy
  <2>6. CASE IsBogus(x, s)
    <3>1. Spares(m, r, s)
      BY <1>1, <2>1, <2>4, <2>5, <2>6, CloneFailsSpares
    <3>2. IsBogus(r, s)
      BY <1>1, <2>1, <2>4, <2>6, CloneFailsSettles
    <3> QED BY <3>1, <3>2
  <2>7. CASE ~IsBogus(x, s)
    <3>1. m.str[s].length >= 0 /\ r = CloneTo(m, x, s, copy, delete)
          /\ Roomy(x, s, x.str[s].capacity)
      BY <2>1, <2>5, <2>7 DEF Fits
    <3>2. /\ Spares(m, r, s) /\ Writes(r, s)
          /\ r.str[s].capacity = x.str[s].capacity /\ r.str[s].start = 0
          /\ r.str[s].length = Kept(m, x, s, copy)
          /\ Read(r, r.str[s].array, 0, r.str[s].length)
               = Read(m, m.str[s].array, m.str[s].start, r.str[s].length)
          /\ ~delete => \A i, k : OldText(m, r, s, i, k)
                                    = Read(m, m.str[s].array, m.str[s].start + i, k)
      BY <1>1, <2>2, <2>4, <2>5, <2>7, <3>1, CloneToWrites
    <3>3. x.str[s].capacity \in Int /\ x.str[s].capacity >= 0
      BY <2>4, <3>1 DEF Got, Working, Memory, FieldSet, Roomy, Writes, Area
    <3>4. m.str[s].length \in Int
      BY <1>1 DEF FieldSet
    <3>5. copy => Kept(m, x, s, copy) = IF m.str[s].length <= x.str[s].capacity
                                        THEN m.str[s].length ELSE x.str[s].capacity
      BY <3>3, <3>4, MinOfTwo DEF Kept
    <3>6. copy => /\ r.str[s].length \in 0 .. m.str[s].length
                  /\ r.str[s].length <= r.str[s].capacity
                  /\ m.str[s].length <= r.str[s].capacity
                       => r.str[s].length = m.str[s].length
      <4> SUFFICES ASSUME copy
                   PROVE  /\ r.str[s].length \in 0 .. m.str[s].length
                          /\ r.str[s].length <= r.str[s].capacity
                          /\ m.str[s].length <= r.str[s].capacity
                               => r.str[s].length = m.str[s].length
        OBVIOUS
      <4>1. r.str[s].length = IF m.str[s].length <= x.str[s].capacity
                              THEN m.str[s].length ELSE x.str[s].capacity
        BY <3>2, <3>5
      <4>2. r.str[s].capacity = x.str[s].capacity
        BY <3>2
      <4>3. \A l, c, k : l \in Int /\ c \in Int /\ l >= 0 /\ c >= 0
                           /\ k = (IF l <= c THEN l ELSE c)
              => k \in 0 .. l /\ k <= c /\ (l <= c => k = l)
        OBVIOUS
      <4>4. m.str[s].length >= 0
        BY <3>1
      <4> QED BY <3>3, <3>4, <4>1, <4>2, <4>3, <4>4
    <3>7. Chars(r, s) = Read(m, m.str[s].array, m.str[s].start, r.str[s].length)
      BY <3>2 DEF Chars
    <3>8. Enough(n, grow) => r.str[s].capacity >= n
      BY <2>5, <2>7, <3>2
    <3>9. copy => Copied(m, r, s, n, grow)
      BY <3>2, <3>6, <3>7, <3>8 DEF Copied
    <3>10. ~delete => Uncovered(m, r, s, n, grow)
      BY <3>2, <3>8 DEF Uncovered
    <3> QED BY <3>2, <3>9, <3>10
  <2> QED BY <2>6, <2>7
<1> QED BY <1>2, <1>3 DEF Clone, Attempts, First

-----------------------------------------------------------------------------
(* Another length leaves the area as it is.                                *)
LEMMA ResizedWrites ==
  ASSUME NEW m, NEW s \in String, Settled(m, s), Writes(m, s), NEW n \in Nat,
         n <= m.str[s].capacity
  PROVE  /\ Spares(m, Resized(m, s, n), s) /\ Writes(Resized(m, s, n), s)
         /\ Fits(Resized(m, s, n), s)
         /\ Chars(Resized(m, s, n), s) = Read(m, m.str[s].array, m.str[s].start, n)
         /\ Resized(m, s, n).str[s].length = n /\ Resized(m, s, n).mem = m.mem
<1> DEFINE x == Resized(m, s, n)
<1>1. m \in Memory /\ Working(m, s, Held(m, s)) /\ m.str[s] \in FieldSet
  BY DEF Settled, Working, Memory
<1>2. Spares(m, x, s) /\ x.mem = m.mem
  BY <1>1, ResizedSpares
<1>3. x.str[s] = [m.str[s] EXCEPT !.length = n]
  BY <1>1, ResizedWorks
<1> HIDE DEF x
<1>4. /\ x.str[s].storage = m.str[s].storage /\ x.str[s].array = m.str[s].array
      /\ x.str[s].open = m.str[s].open /\ x.str[s].start = m.str[s].start
      /\ x.str[s].capacity = m.str[s].capacity /\ x.str[s].length = n
  BY <1>1, <1>3 DEF FieldSet
<1>5. \A t \in String \ {s} : x.str[t] = m.str[t]
  BY <1>2 DEF Spares
<1>6. Area(x, s) /\ Alone(x, s)
  BY <1>2, <1>4, <1>5 DEF Writes, Alone, Area
<1>7. Writes(x, s)
  BY <1>4, <1>6 DEF Writes
<1>8. Fits(x, s)
  <2>1. x.str[s].start >= 0
    BY <1>6 DEF Area
  <2> QED BY <1>4, <1>6, <1>7, <2>1 DEF Fits, Writes
<1>9. Chars(x, s) = Read(m, m.str[s].array, m.str[s].start, n)
  BY <1>2, <1>4 DEF Chars, Read
<1> QED BY <1>2, <1>4, <1>7, <1>8, <1>9 DEF x

(* Two texts in a row.                                                     *)
LEMMA ConcatenatedText ==
  ASSUME NEW u \in Seq(Cell), NEW v \in Seq(Cell), NEW w \in Seq(Cell),
         Len(u) = Len(v) + Len(w), \A k \in 1 .. Len(v) : u[k] = v[k],
         \A k \in 1 .. Len(w) : u[Len(v) + k] = w[k]
  PROVE  u = v \o w
<1>1. v \o w \in Seq(Cell) /\ Len(v \o w) = Len(u)
  OBVIOUS
<1>2. \A k \in 1 .. Len(u) : u[k] = (v \o w)[k]
  <2> SUFFICES ASSUME NEW k \in 1 .. Len(u) PROVE u[k] = (v \o w)[k]
    OBVIOUS
  <2>1. CASE k <= Len(v)
    BY <2>1
  <2>2. CASE k > Len(v)
    <3> DEFINE j == k - Len(v)
    <3>1. j \in 1 .. Len(w) /\ k = Len(v) + j
      BY <2>2
    <3>2. u[k] = w[j] /\ (v \o w)[k] = w[j]
      BY <2>2, <3>1
    <3> QED BY <3>2
  <2> QED BY <2>1, <2>2
<1> QED BY <1>1, <1>2, SameText

(* What is written to an array, and what is read from it, unit by unit.    *)
WritesText(units, after, i, text) ==
  /\ Len(after) = Len(units)
  /\ \A k \in 1 .. Len(units) :
       after[k] = IF k - i \in 1 .. Len(text) THEN text[k - i] ELSE units[k]

ReadsText(units, i, text) == \A k \in 1 .. Len(text) : text[k] = units[i + k]

(* us_arrayCopy() to an array, unit by unit.                              *)
LEMMA WrittenWritesText ==
  ASSUME NEW m \in Memory, NEW p \in Place, NEW i \in Int, NEW text \in Seq(Cell)
  PROVE  WritesText(m.mem[p].units, Written(m, p, i, text).mem[p].units, i, text)
BY WrittenFrame DEF WritesText

(* The same from an array.                                                *)
LEMMA ReadReadsText ==
  ASSUME NEW m \in Memory, NEW p \in Place, NEW i \in Nat, NEW n \in Nat,
         i + n <= Len(m.mem[p].units)
  PROVE  /\ Read(m, p, i, n) \in Seq(Cell) /\ Len(Read(m, p, i, n)) = n
         /\ ReadsText(m.mem[p].units, i, Read(m, p, i, n))
<1>1. Read(m, p, i, n) \in Seq(Cell) /\ Len(Read(m, p, i, n)) = n
  BY ReadIsText
<1>2. \A k \in 1 .. n : Read(m, p, i, n)[k] = m.mem[p].units[i + k]
  <2>1. m.mem[p].units \in Seq(Cell)
    BY DEF Memory
  <2> SUFFICES ASSUME NEW k \in 1 .. n PROVE Read(m, p, i, n)[k] = m.mem[p].units[i + k]
    OBVIOUS
  <2>2. i + k \in DOMAIN m.mem[p].units
    BY <2>1
  <2> QED BY <2>2 DEF Read
<1> QED BY <1>1, <1>2 DEF ReadsText

(* A text behind another one, if the units in front are left alone.       *)
LEMMA AppendedUnits ==
  ASSUME NEW units \in Seq(Cell), NEW after \in Seq(Cell), NEW text \in Seq(Cell),
         NEW u \in Seq(Cell), NEW v \in Seq(Cell), NEW start \in Nat,
         start + Len(u) + Len(text) <= Len(units),
         WritesText(units, after, start + Len(u), text),
         ReadsText(units, start, u), ReadsText(after, start, v),
         Len(v) = Len(u) + Len(text)
  PROVE  v = u \o text
<1> DEFINE l == Len(text)
           old == Len(u)
           size == Len(units)
<1>1. l \in Nat /\ size \in Nat /\ old \in Nat
  OBVIOUS
<1>2. \A k \in 1 .. old : v[k] = u[k]
  <2> SUFFICES ASSUME NEW k \in 1 .. old PROVE v[k] = u[k]
    OBVIOUS
  <2>1. start + k \in 1 .. size /\ k \in 1 .. old + l /\ (start + k) - (start + old) \notin 1 .. l
    OBVIOUS
  <2> QED BY <2>1 DEF WritesText, ReadsText
<1>3. \A k \in 1 .. l : v[old + k] = text[k]
  <2> SUFFICES ASSUME NEW k \in 1 .. l PROVE v[old + k] = text[k]
    OBVIOUS
  <2>1. start + (old + k) \in 1 .. size /\ old + k \in 1 .. old + l
        /\ (start + (old + k)) - (start + old) = k
    OBVIOUS
  <2>2. v[old + k] = after[start + (old + k)]
    BY <2>1 DEF ReadsText
  <2> QED BY <2>1, <2>2 DEF WritesText
<1> QED BY <1>1, <1>2, <1>3, ConcatenatedText

(* The same for what is written to an array.                              *)
LEMMA WrittenBehind ==
  ASSUME NEW m \in Memory, NEW p \in Place, NEW start \in Nat, NEW old \in Nat,
         NEW text \in Seq(Cell), start + old + Len(text) <= Len(m.mem[p].units)
  PROVE  Read(Written(m, p, start + old, text), p, start, old + Len(text))
           = Read(m, p, start, old) \o text
<1> DEFINE i == start + old
           w == Written(m, p, i, text)
           n == old + Len(text)
           u == Read(m, p, start, old)
           v == Read(w, p, start, n)
           units == m.mem[p].units
           after == w.mem[p].units
<1>1. i \in Nat /\ n \in Nat /\ i \in Int
  OBVIOUS
<1>2. units \in Seq(Cell)
  BY DEF Memory
<1>3. w \in Memory /\ Len(after) = Len(units)
  <2> HIDE DEF i
  <2>1. Written(m, p, i, text) \in Memory
    BY <1>1, WrittenFrame
  <2>2. Len(Written(m, p, i, text).mem[p].units) = Len(m.mem[p].units)
    BY <1>1, WrittenFrame
  <2> QED BY <2>1, <2>2
<1>4. after \in Seq(Cell)
  BY <1>3 DEF Memory
<1>5. WritesText(units, after, i, text)
  BY <1>1, WrittenWritesText
<1>6. start + old <= Len(units) /\ start + n <= Len(after)
  BY <1>2, <1>3
<1>7. u \in Seq(Cell) /\ Len(u) = old /\ ReadsText(units, start, u)
  BY <1>6, ReadReadsText
<1> HIDE DEF w, n
<1>8. v \in Seq(Cell) /\ Len(v) = n /\ ReadsText(after, start, v)
  BY <1>1, <1>3, <1>6, ReadReadsText
<1> HIDE DEF u, v, units, after
<1>9. start + Len(u) + Len(text) <= Len(units) /\ Len(v) = Len(u) + Len(text)
  BY <1>7, <1>8 DEF n, units
<1>10. WritesText(units, after, start + Len(u), text)
  BY <1>5, <1>7
<1>11. v = u \o text
  BY <1>2, <1>4, <1>7, <1>8, <1>9, <1>10, AppendedUnits
<1> QED BY <1>11 DEF u, v, w, n

(* A text behind the text.                                                 *)
LEMMA AppendedText ==
  ASSUME NEW m, NEW s \in String, Settled(m, s), Writes(m, s), NEW text \in Seq(Cell),
         m.str[s].length >= 0, m.str[s].length + Len(text) <= m.str[s].capacity,
         NEW r, r = Resized(Written(m, m.str[s].array, m.str[s].start + m.str[s].length, text),
                            s, m.str[s].length + Len(text))
  PROVE  /\ Spares(m, r, s) /\ Writes(r, s) /\ Fits(r, s)
         /\ Chars(r, s) = Chars(m, s) \o text
         /\ r.str[s].length = m.str[s].length + Len(text)
<1> DEFINE f == m.str[s]
           p == f.array
           i == f.start + f.length
           n == f.length + Len(text)
           w == Written(m, p, i, text)
<1>1. m \in Memory /\ f \in FieldSet /\ Sane(f, s) /\ SaneBut(m, s)
  BY DEF Settled, Working, Memory
<1>2. /\ f.start \in Nat /\ f.length \in Nat /\ f.capacity \in Int /\ Len(text) \in Nat
      /\ i \in Int /\ n \in Nat /\ f.start + n <= Len(m.mem[p].units)
      /\ f.storage # "bogus"
  <2>1. f.start \in Int /\ f.length \in Int /\ f.capacity \in Int /\ Len(text) \in Nat
    BY <1>1 DEF FieldSet
  <2>2. f.storage # "bogus"
    BY DEF Writes
  <2>3. p \in Place
    BY <1>1, <2>2, ArrayIsPlace
  <2>4. Len(m.mem[p].units) \in Nat
    BY <1>1, <2>3 DEF Memory
  <2>5. f.start >= 0 /\ f.start + f.capacity <= Len(m.mem[p].units)
    BY DEF Writes, Area
  <2>6. f.length >= 0 /\ n <= f.capacity
    OBVIOUS
  <2> DEFINE l == Len(m.mem[p].units)
  <2>7. l \in Nat /\ f.start + f.capacity <= l
    BY <2>4, <2>5
  <2>8. i \in Int /\ n \in Nat
    BY <2>1, <2>6
  <2> HIDE DEF f, p, l
  <2>9. f.start + n <= l
    BY <2>1, <2>6, <2>7, <2>8
  <2> QED BY <2>1, <2>2, <2>5, <2>6, <2>8, <2>9 DEF l
<1>3. Spares(m, w, s) /\ Writes(w, s) /\ p \in Place
  BY <1>1, <1>2, WrittenSpares
<1>4. Settled(w, s) /\ w.str = m.str
  BY <1>2, WrittenSettles DEF IsBogus
<1>5. Read(w, p, f.start, n) = Chars(m, s) \o text
  <2>1. f.start + f.length + Len(text) <= Len(m.mem[p].units)
    BY <1>2
  <2>2. p \in Place /\ f.start \in Nat /\ f.length \in Nat /\ m \in Memory
    BY <1>1, <1>2, <1>3
  <2>3. Chars(m, s) = Read(m, p, f.start, f.length)
    BY DEF Chars
  <2> HIDE DEF f, p
  <2>4. Read(Written(m, p, f.start + f.length, text), p, f.start, f.length + Len(text))
          = Read(m, p, f.start, f.length) \o text
    BY <2>1, <2>2, WrittenBehind
  <2> QED BY <2>3, <2>4
<1> HIDE DEF w
<1>6. r = Resized(w, s, n)
  BY DEF w
<1>7. Spares(w, r, s) /\ Writes(r, s) /\ Fits(r, s) /\ r.str[s].length = n
      /\ Chars(r, s) = Read(w, w.str[s].array, w.str[s].start, n)
  <2>1. n \in Nat /\ n <= w.str[s].capacity
    BY <1>2, <1>4
  <2> HIDE DEF n
  <2> QED BY <1>3, <1>4, <1>6, <2>1, ResizedWrites
<1>8. Spares(m, r, s)
  BY <1>3, <1>7, SparesAgain
<1> QED BY <1>4, <1>5, <1>7, <1>8

-----------------------------------------------------------------------------
(* What a call finds, and what it leaves: s is bogus or has the text that  *)
(* was asked for, and the others do not notice.                            *)
Ready(m, s) == Left(m, s) /\ Layout(m) /\ Joins(m, s) /\ Fits(m, s)

Made(m, r, s, text) ==
  /\ Spares(m, r, s) /\ Fits(r, s) /\ Joins(r, s)
  /\ IsBogus(r, s) \/ (~r.str[s].open /\ Chars(r, s) = text)

(* The longest text that getGrowCapacity() makes room for.                 *)
Longest == AllocatedCapacity(MaxCapacity)

(* getGrowCapacity() is enough for any text that is not too long.         *)
LEMMA GrowCapacityIsEnough ==
  ASSUME NEW n \in Nat
  PROVE  GrowCapacity(n) \in Int /\ (n <= Longest => Enough(n, GrowCapacity(n)))
<1> DEFINE q == n \div 4
           grow == q + GrowSize
<1>1. q \in Nat /\ GrowSize \in Nat /\ MaxCapacity \in Nat
  BY BoundsAssumption
<1> HIDE DEF q
<1>2. GrowCapacity(n) = IF grow <= MaxCapacity - n THEN n + grow ELSE MaxCapacity
  BY DEF GrowCapacity, grow, q
<1> QED BY <1>1, <1>2 DEF Enough, Longest

(* A bogus string is all right.                                            *)
LEMMA BogusIsMade ==
  ASSUME NEW m, NEW r, NEW s \in String, Settled(r, s), IsBogus(r, s), Spares(m, r, s), NEW text
  PROVE  Made(m, r, s, text)
<1>1. r.str[s] = BogusFields
  BY DEF Settled, Sane, IsBogus
<1>2. /\ r.str[s].storage = "bogus" /\ ~r.str[s].open /\ r.str[s].length = 0
      /\ r.str[s].capacity = 0 /\ r.str[s].start = 0
  BY <1>1 DEF BogusFields, Fields
<1> QED BY <1>2 DEF Made, Fits, Joins, Compatible

(* Who may write shares with nobody.                                       *)
LEMMA WritesJoins ==
  ASSUME NEW m, NEW s \in String, Writes(m, s)
  PROVE  Joins(m, s)
BY DEF Writes, Alone, Joins, Compatible

(* cloneArrayIfNeeded() with a copy of the text.                          *)
LEMMA CloneCopies ==
  ASSUME NEW m, NEW s \in String, Ready(m, s), IsWritable(m, s),
         NEW n \in Int, NEW grow \in Int, NEW r \in Clone(m, s, n, grow, TRUE, TRUE)
  PROVE  /\ Spares(m, r, s) /\ Left(r, s)
         /\ IsBogus(r, s) \/ Copied(m, r, s, n, grow)
<1> DEFINE yes == TRUE
<1>1. yes \in BOOLEAN /\ yes
  OBVIOUS
<1>2. r \in Clone(m, s, n, grow, yes, yes)
  OBVIOUS
<1> HIDE DEF yes
<1>3. Left(m, s) /\ Layout(m) /\ Joins(m, s) /\ Fits(m, s) /\ Settled(m, s) /\ Tidy(m)
  BY DEF Ready, Left
<1>4. Settled(r, s) /\ (yes \/ IsBogus(r, s) => Tidy(r))
  BY <1>1, <1>2, <1>3, CloneSettles
<1>5. /\ Spares(m, r, s)
      /\ IsBogus(r, s) \/ (/\ yes => Copied(m, r, s, n, grow)
                           /\ ~yes => Uncovered(m, r, s, n, grow))
  BY <1>1, <1>2, <1>3, CloneWrites
<1> QED BY <1>1, <1>4, <1>5 DEF Left

(* cloneArrayIfNeeded() without one, as doReplace() calls it.             *)
LEMMA CloneUncovers ==
  ASSUME NEW m, NEW s \in String, Ready(m, s), IsWritable(m, s),
         NEW n \in Int, NEW grow \in Int, NEW r \in Clone(m, s, n, grow, FALSE, FALSE)
  PROVE  /\ Spares(m, r, s) /\ Settled(r, s) /\ (IsBogus(r, s) => Tidy(r))
         /\ IsBogus(r, s) \/ Uncovered(m, r, s, n, grow)
<1> DEFINE no == FALSE
<1>1. no \in BOOLEAN /\ ~no
  OBVIOUS
<1>2. r \in Clone(m, s, n, grow, no, no)
  OBVIOUS
<1> HIDE DEF no
<1>3. Left(m, s) /\ Layout(m) /\ Joins(m, s) /\ Fits(m, s) /\ Settled(m, s) /\ Tidy(m)
  BY DEF Ready, Left
<1>4. Settled(r, s) /\ (no \/ IsBogus(r, s) => Tidy(r))
  BY <1>1, <1>2, <1>3, CloneSettles
<1>5. /\ Spares(m, r, s)
      /\ IsBogus(r, s) \/ (/\ no => Copied(m, r, s, n, grow)
                           /\ ~no => Uncovered(m, r, s, n, grow))
  BY <1>1, <1>2, <1>3, CloneWrites
<1> QED BY <1>1, <1>4, <1>5

(* A source that does not change while s is written: a text of its own, no *)
(* text, the constant text, or that of another string.                     *)
Stable(m, s, src) ==
  \/ src.place = None \/ src.length <= 0 \/ src.place = Literal
  \/ \E t \in String \ {s} : ~IsBogus(m, t) /\ m.str[t].array = src.place

(* A source that is stable gives the same text afterwards.                *)
LEMMA StableChars ==
  ASSUME NEW m, NEW x, NEW s \in String, Layout(m), Spares(m, x, s),
         NEW src \in SourceSet, Stable(m, s, src)
  PROVE  SourceChars(x, src) = SourceChars(m, src)
<1>1. CASE src.place = None
  BY <1>1 DEF SourceChars
<1>2. CASE src.length <= 0
  <2>1. src.length \in Int
    BY DEF SourceSet
  <2>2. \A y : Read(y, src.place, src.start, src.length) = <<>>
    BY <1>2, <2>1, ReadOfNone
  <2> QED BY <2>2 DEF SourceChars
<1>3. CASE src.place = Literal
  <2>1. x.mem[Literal].units = m.mem[Literal].units
    BY DEF Layout, Spares
  <2> QED BY <1>3, <2>1 DEF SourceChars, Read
<1>4. CASE \E t \in String \ {s} : ~IsBogus(m, t) /\ m.str[t].array = src.place
  <2>1. x.mem[src.place].units = m.mem[src.place].units
    BY <1>4 DEF Spares, IsBogus
  <2> QED BY <2>1 DEF SourceChars, Read
<1> QED BY <1>1, <1>2, <1>3, <1>4 DEF Stable

(* A source with as many units as it says.                                 *)
Proper(m, s, src) ==
  /\ src \in SourceSet /\ src.length >= 0 /\ Len(SourceChars(m, src)) = src.length
  /\ Stable(m, s, src)

(* doAppend() without the check for an append to itself.                  *)
LEMMA AppendCharsMakes ==
  ASSUME NEW m, NEW s \in String, Ready(m, s), IsWritable(m, s), NEW src, Proper(m, s, src),
         NEW r \in AppendChars(m, s, src), r.str[s].length <= Longest
  PROVE  Made(m, r, s, Chars(m, s) \o SourceChars(m, src))
<1> DEFINE old == m.str[s].length
           new == old + src.length
           all == Chars(m, s) \o SourceChars(m, src)
<1>1. /\ m \in Memory /\ m.str[s] \in FieldSet /\ Settled(m, s) /\ Tidy(m) /\ Left(m, s)
      /\ Layout(m) /\ Fits(m, s) /\ Joins(m, s) /\ src \in SourceSet /\ Stable(m, s, src)
  BY DEF Ready, Left, Settled, Working, Memory, Proper
<1>2. old \in Nat /\ src.length \in Nat /\ new \in Nat /\ old <= m.str[s].capacity
      /\ m.str[s].capacity \in Int
  BY <1>1 DEF Fits, FieldSet, Proper, SourceSet
<1>3. PICK x \in IF new <= m.str[s].capacity /\ IsBufferWritable(m, s) THEN {m}
                 ELSE Clone(m, s, new, GrowCapacity(new), TRUE, TRUE) :
             r = IF IsBogus(x, s) THEN x
                 ELSE Resized(Written(x, x.str[s].array, x.str[s].start + old,
                                      SourceChars(x, src)), s, new)
  BY DEF AppendChars
<1> DEFINE Given == /\ Spares(m, x, s) /\ Settled(x, s)
                    /\ \/ IsBogus(x, s)
                       \/ /\ Writes(x, s) /\ new <= x.str[s].capacity
                          /\ x.str[s].length = old /\ Chars(x, s) = Chars(m, s)
<1>4. ASSUME x = m, new <= m.str[s].capacity, IsBufferWritable(m, s) PROVE Given
  <2>1. m.str[s].storage \in {"short", "long", "writable"} /\ ~IsShared(m, s) /\ ~m.str[s].open
    BY <1>1, <1>4 DEF FieldSet, Storages, IsBufferWritable, IsWritable, IsBogus
  <2>2. Writes(m, s)
    BY <1>1, <2>1, UnsharedIsAlone DEF Writes, Fits
  <2>3. Spares(m, m, s)
    BY DEF Spares
  <2> QED BY <1>1, <1>4, <2>2, <2>3
<1>5. ASSUME x \in Clone(m, s, new, GrowCapacity(new), TRUE, TRUE) PROVE Given
  <2> DEFINE grow == GrowCapacity(new)
  <2>1. grow \in Int /\ (new <= Longest => Enough(new, grow))
    BY <1>2, GrowCapacityIsEnough
  <2> HIDE DEF grow, new
  <2>2. x \in Clone(m, s, new, grow, TRUE, TRUE)
    BY <1>5 DEF grow
  <2>3. new \in Int
    BY <1>2
  <2>5. /\ Spares(m, x, s) /\ Left(x, s)
        /\ IsBogus(x, s) \/ Copied(m, x, s, new, grow)
    BY <2>1, <2>2, <2>3, CloneCopies
  <2>4. Settled(x, s)
    BY <2>5 DEF Left
  <2>6. CASE IsBogus(x, s)
    BY <2>4, <2>5, <2>6
  <2>7. CASE ~IsBogus(x, s)
    <3>1. x \in Memory /\ x.str[s] \in FieldSet
      BY <2>4 DEF Settled, Working, Memory
    <3>2. r.str[s].length = new
      <4> DEFINE w == Written(x, x.str[s].array, x.str[s].start + old, SourceChars(x, src))
      <4>1. r = Resized(w, s, new)
        BY <1>3, <2>7 DEF new
      <4>2. w \in Memory
        <5>1. x.str[s].array \in Place /\ x.str[s].start + old \in Int
              /\ SourceChars(x, src) \in Seq(Cell)
          <6>1. x.str[s].array \in Place
            BY <2>4, <2>7, <3>1, ArrayIsPlace DEF Settled, IsBogus
          <6>2. x.str[s].start + old \in Int
            BY <1>2, <3>1 DEF FieldSet
          <6>3. SourceChars(x, src) \in Seq(Cell)
            BY <1>1, <3>1, SourceIsText
          <6> QED BY <6>1, <6>2, <6>3
        <5> QED BY <3>1, <5>1, WrittenFrame
      <4> HIDE DEF w
      <4>3. r.str = [w.str EXCEPT ![s] = [w.str[s] EXCEPT !.length = new]]
        BY <2>3, <4>1, <4>2, ResizedFrame
      <4> QED BY <4>2, <4>3 DEF Memory, FieldSet
    <3>3. new <= x.str[s].capacity
      BY <2>1, <2>5, <2>7, <3>1, <3>2 DEF FieldSet, Copied
    <3>4. x.str[s].length = old
      BY <1>2, <2>5, <2>7, <3>1, <3>3 DEF FieldSet, new, Copied
    <3>5. Chars(x, s) = Chars(m, s)
      BY <2>5, <2>7, <3>4 DEF Chars, Copied
    <3>6. Writes(x, s)
      BY <2>5, <2>7 DEF Copied
    <3> QED BY <3>6,  <2>4, <2>5, <2>7, <3>3, <3>4, <3>5
  <2> QED BY <2>6, <2>7
<1>6. Given
  BY <1>3, <1>4, <1>5
<1>7. CASE IsBogus(x, s)
  BY <1>3, <1>6, <1>7, BogusIsMade
<1>8. CASE ~IsBogus(x, s)
  <2> DEFINE text == SourceChars(x, src)
  <2>1. text = SourceChars(m, src)
    BY <1>1, <1>6, StableChars
  <2>2. text \in Seq(Cell) /\ Len(text) = src.length
    BY <1>1, <2>1, SourceIsText DEF Proper
  <2> HIDE DEF text
  <2>3. Settled(x, s) /\ Writes(x, s) /\ x.str[s].length = old /\ Spares(m, x, s)
        /\ new <= x.str[s].capacity /\ Chars(x, s) = Chars(m, s)
    BY <1>6, <1>8
  <2>4. r = Resized(Written(x, x.str[s].array, x.str[s].start + x.str[s].length, text),
                    s, x.str[s].length + Len(text))
    BY <1>3, <1>8, <2>2, <2>3 DEF text
  <2>5. x.str[s].length >= 0 /\ x.str[s].length + Len(text) <= x.str[s].capacity
    BY <1>2, <2>2, <2>3
  <2>6. Spares(x, r, s) /\ Writes(r, s) /\ Fits(r, s) /\ Chars(r, s) = Chars(x, s) \o text
    BY <2>2, <2>3, <2>4, <2>5, AppendedText
  <2>7. Joins(r, s) /\ ~r.str[s].open
    BY <2>6, WritesJoins DEF Writes
  <2>8. Spares(m, r, s)
    BY <2>3, <2>6, SparesAgain
  <2> QED BY <2>1, <2>3, <2>6, <2>7, <2>8 DEF Made
<1> QED BY <1>7, <1>8

-----------------------------------------------------------------------------
(* A source that a caller may give: what is stable, or a part of the text  *)
(* of s itself.                                                            *)
Usable(m, s, src) ==
  /\ src \in SourceSet /\ src.length >= 0 /\ Len(SourceChars(m, src)) = src.length
  /\ \/ Stable(m, s, src)
     \/ /\ src.place = m.str[s].array /\ src.start >= m.str[s].start
        /\ src.start + src.length <= m.str[s].start + m.str[s].length

(* doAppend() and doReplace() copy a source that they would overwrite.     *)
LEMMA SafeSourcesAreProper ==
  ASSUME NEW m, NEW s \in String, Ready(m, s), IsWritable(m, s),
         NEW src, Usable(m, s, src), NEW x \in SafeSources(m, s, src)
  PROVE  Proper(m, s, x) /\ SourceChars(m, x) = SourceChars(m, src)
<1>1. /\ m \in Memory /\ m.str[s] \in FieldSet /\ Settled(m, s)
      /\ SaneBut(m, s) /\ Sane(m.str[s], s) /\ src \in SourceSet
  BY DEF Ready, Left, Settled, Working, Memory, Usable
<1>2. x \in SourceSet
  BY <1>1, SafeSourcesAreSources
<1>3. CASE Overlaps(m, s, src)
  <2>1. x = [place |-> None, start |-> 0, length |-> src.length, copy |-> SourceChars(m, src)]
    BY <1>3 DEF SafeSources, Copies
  <2>2. x.place = None /\ x.length = src.length /\ x.copy = SourceChars(m, src)
    BY <2>1
  <2>3. SourceChars(m, x) = SourceChars(m, src)
    BY <2>2 DEF SourceChars
  <2> QED BY <1>2, <2>2, <2>3 DEF Proper, Usable, Stable
<1>4. CASE ~Overlaps(m, s, src)
  <2>1. x = src
    BY <1>4 DEF SafeSources
  <2>2. Stable(m, s, src)
    <3> SUFFICES ASSUME ~Stable(m, s, src) PROVE FALSE
      OBVIOUS
    <3>1. src.length > 0 /\ src.place = m.str[s].array /\ src.start >= m.str[s].start
          /\ src.start + src.length <= m.str[s].start + m.str[s].length
      <4>1. src.length \in Int
        BY <1>1 DEF SourceSet
      <4> QED BY <4>1 DEF Usable, Stable
    <3>2. src.start \in Int /\ src.length \in Int /\ m.str[s].start \in Int
          /\ m.str[s].length \in Int
      BY <1>1 DEF SourceSet, FieldSet
    <3>3. m.str[s].start < src.start + src.length
          /\ src.start < m.str[s].start + m.str[s].length
      BY <3>1, <3>2
    <3>4. ~IsBufferWritable(m, s)
      BY <1>4, <3>1, <3>3 DEF Overlaps
    <3>5. CASE m.str[s].storage = "readonly"
      BY <1>1, <3>1, <3>5 DEF Sane, Stable
    <3>6. CASE IsShared(m, s)
      <4> DEFINE a == m.str[s].array
      <4>1. m.str[s].storage = "long" /\ m.mem[a].refs > 1 /\ a \in Array
        BY <1>1, <3>6 DEF IsShared, Sane
      <4>2. m.mem[a].refs = Cardinality(Others(m, s, a)) + 1
        BY <1>1, <4>1 DEF Settled, Working, Counts, Held
      <4>3. Cardinality(Others(m, s, a)) \in Nat
        BY OthersAreFew
      <4>4. Others(m, s, a) # {}
        <5> SUFFICES ASSUME Others(m, s, a) = {} PROVE FALSE
          OBVIOUS
        <5>1. Cardinality(Others(m, s, a)) = 0
          BY FS_EmptySet
        <5> HIDE DEF a
        <5> QED BY <4>1, <4>2, <5>1
      <4>5. PICK t \in String \ {s} : m.str[t].storage = "long" /\ m.str[t].array = a
        BY <4>4 DEF Others
      <4> QED BY <3>1, <4>5 DEF Stable, IsBogus
    <3> QED BY <3>4, <3>5, <3>6 DEF IsBufferWritable
  <2> QED BY <1>2, <2>1, <2>2 DEF Proper, Usable
<1> QED BY <1>3, <1>4

(* setToBogus() when the copy of the source fails, or a text is too long.  *)
LEMMA ToBogusMakes ==
  ASSUME NEW m, NEW s \in String, Left(m, s), NEW text
  PROVE  Made(m, ToBogus(m, s), s, text)
<1>1. Settled(m, s) /\ Tidy(m)
  BY DEF Left
<1>2. Settled(ToBogus(m, s), s) /\ ToBogus(m, s).str[s] = BogusFields
  BY <1>1, ToBogusSettles
<1>3. Spares(m, ToBogus(m, s), s)
  BY <1>1, ToBogusSpares
<1>4. IsBogus(ToBogus(m, s), s)
  BY <1>2 DEF IsBogus, BogusFields, Fields
<1> QED BY <1>2, <1>3, <1>4, BogusIsMade

(* Nothing is done.                                                        *)
LEMMA NothingIsMade ==
  ASSUME NEW m, NEW s \in String, Ready(m, s), IsWritable(m, s)
  PROVE  Made(m, m, s, Chars(m, s))
BY DEF Made, Ready, Spares, IsWritable

(* doAppend().                                                             *)
LEMMA CharsAreText ==
  ASSUME NEW m, NEW s \in String, Left(m, s), ~IsBogus(m, s), m.str[s].length >= 0
  PROVE  Chars(m, s) \in Seq(Cell) /\ Len(Chars(m, s)) = m.str[s].length
<1>1. m \in Memory /\ m.str[s] \in FieldSet /\ Sane(m.str[s], s)
  BY DEF Left, Settled, Working, Memory
<1>2. m.str[s].array \in Place /\ m.str[s].start \in Int /\ m.str[s].length \in Nat
  BY <1>1, ArrayIsPlace DEF FieldSet, IsBogus
<1> QED BY <1>1, <1>2, ReadIsText DEF Chars

(* doAppend() appends the text of its source, whatever that is.           *)
LEMMA DoAppendMakes ==
  ASSUME NEW m, NEW s \in String, Ready(m, s), IsWritable(m, s),
         NEW src, Usable(m, s, src), NEW r \in DoAppend(m, s, src), r.str[s].length <= Longest
  PROVE  Made(m, r, s, Chars(m, s) \o SourceChars(m, src))
<1>1. Left(m, s) /\ ~IsBogus(m, s) /\ m.str[s].length >= 0 /\ src \in SourceSet /\ m \in Memory
  BY DEF Ready, IsWritable, Fits, Usable, Left, Settled, Working
<1>2. CASE src.length = 0
  <2>1. r = m
    BY <1>2 DEF DoAppend
  <2>2. SourceChars(m, src) = <<>>
    <3>1. SourceChars(m, src) \in Seq(Cell) /\ Len(SourceChars(m, src)) = 0
      BY <1>1, <1>2, SourceIsText DEF Usable
    <3> QED BY <3>1
  <2>3. Chars(m, s) \o <<>> = Chars(m, s)
    BY <1>1, CharsAreText
  <2> QED BY <2>1, <2>2, <2>3, NothingIsMade
<1>3. CASE r = ToBogus(m, s)
  BY <1>1, <1>3, ToBogusMakes
<1>4. CASE \E x \in SafeSources(m, s, src) : r \in AppendChars(m, s, x)
  <2>1. PICK x \in SafeSources(m, s, src) : r \in AppendChars(m, s, x)
    BY <1>4
  <2>2. Proper(m, s, x) /\ SourceChars(m, x) = SourceChars(m, src)
    BY SafeSourcesAreProper
  <2>3. Made(m, r, s, Chars(m, s) \o SourceChars(m, x))
    BY <2>1, <2>2, AppendCharsMakes
  <2> QED BY <2>2, <2>3
<1> QED BY <1>2, <1>3, <1>4 DEF DoAppend, CopyFails

-----------------------------------------------------------------------------
(* Freeing what nobody uses does not touch what s uses.                    *)
LEMMA SweptMakes ==
  ASSUME NEW m, NEW s \in String, Settled(m, s), Writes(m, s), Fits(m, s)
  PROVE  /\ Spares(m, Swept(m), s) /\ Writes(Swept(m), s) /\ Fits(Swept(m), s)
         /\ Chars(Swept(m), s) = Chars(m, s) /\ Swept(m).str = m.str
<1> DEFINE x == Swept(m)
           a == m.str[s].array
<1>1. /\ m \in Memory /\ Working(m, s, Held(m, s)) /\ Sane(m.str[s], s) /\ m.str[s] \in FieldSet
      /\ m.str[s].storage # "bogus"
  BY DEF Settled, Working, Memory, Writes
<1>2. x.str = m.str /\ Spares(m, x, s)
      /\ \A p \in Place : p \notin Array \/ m.mem[p].refs # 0 => x.mem[p] = m.mem[p]
  BY <1>1, SweptSpares, SweptWorks
<1>3. a \in Place
  BY <1>1, ArrayIsPlace
<1>4. a \notin Array \/ m.mem[a].refs # 0
  <2> SUFFICES ASSUME a \in Array PROVE m.mem[a].refs > 0
    OBVIOUS
  <2>1. m.str[s].storage = "long"
    BY <1>1, Places DEF Sane, FieldSet, Storages
  <2>2. a \in Held(m, s)
    BY <2>1 DEF Held
  <2> QED BY <1>1, <2>2, HeldIsCounted
<1>5. x.mem[a] = m.mem[a]
  BY <1>2, <1>3, <1>4
<1> HIDE DEF x
<1>6. Writes(x, s) /\ Fits(x, s)
  BY <1>2, <1>5 DEF Writes, Alone, Area, Fits
<1>7. Chars(x, s) = Chars(m, s)
  BY <1>2, <1>5 DEF Chars, Read
<1> QED BY <1>2, <1>6, <1>7 DEF x

(* A part of what is read.                                                 *)
Parted(m, p, i, n, j, k) == SubSeq(Read(m, p, i, n), j + 1, k) = Read(m, p, i + j, k - j)

(* It is what is read of the part.                                         *)
LEMMA PartIsRead ==
  ASSUME NEW m, NEW p, NEW i \in Int, NEW n \in Nat, NEW j \in Nat, NEW k \in Nat,
         j <= k, k <= n
  PROVE  Parted(m, p, i, n, j, k)
<1> DEFINE unit(x) == IF i + x \in DOMAIN m.mem[p].units THEN m.mem[p].units[i + x] ELSE None
           u == Read(m, p, i, n)
<1>1. u = [x \in 1 .. n |-> unit(x)]
  BY DEF Read
<1>2. Read(m, p, i + j, k - j) = [x \in 1 .. k - j |-> unit(j + x)]
  <2>1. \A x \in Int : (i + j) + x = i + (j + x)
    OBVIOUS
  <2> QED BY <2>1 DEF Read
<1> HIDE DEF unit
<1>3. SubSeq(u, j + 1, k) = [x \in 1 .. (1 + k) - (j + 1) |-> u[(j + 1) + x - 1]]
  OBVIOUS
<1>4. (1 + k) - (j + 1) = k - j
  OBVIOUS
<1>5. \A x \in 1 .. k - j : u[(j + 1) + x - 1] = unit(j + x)
  <2> SUFFICES ASSUME NEW x \in 1 .. k - j PROVE u[(j + 1) + x - 1] = unit(j + x)
    OBVIOUS
  <2>1. (j + 1) + x - 1 = j + x /\ j + x \in 1 .. n
    OBVIOUS
  <2> HIDE DEF u
  <2> QED BY <1>1, <2>1
<1> HIDE DEF u
<1> QED BY <1>2, <1>3, <1>4, <1>5 DEF u, Parted

(* Three texts are written, the last before the second, within the array.  *)
ThreeTexts(a, b, c, d, start, u, v, w) ==
  /\ WritesText(a, b, start, u) /\ WritesText(b, c, start + Len(u) + Len(v), w)
  /\ WritesText(c, d, start + Len(u), v)
  /\ start + Len(u) + Len(v) + Len(w) <= Len(a)

Joined(u, v, w) == u \o v \o w

AddsUp(n, u, v, w) == n = Len(u) + Len(v) + Len(w)

(* The text before, a new one, and the text behind.                        *)
LEMMA SplicedUnits ==
  ASSUME NEW units \in Seq(Cell), NEW moved \in Seq(Cell), NEW more \in Seq(Cell),
         NEW after \in Seq(Cell), NEW u \in Seq(Cell), NEW v \in Seq(Cell), NEW w \in Seq(Cell),
         NEW text \in Seq(Cell), NEW start \in Nat,
         ThreeTexts(units, moved, more, after, start, u, v, w),
         ReadsText(after, start, text), Len(text) = Len(u) + Len(v) + Len(w)
  PROVE  text = Joined(u, v, w)
<1>0. /\ WritesText(units, moved, start, u)
      /\ WritesText(moved, more, start + Len(u) + Len(v), w)
      /\ WritesText(more, after, start + Len(u), v)
      /\ start + Len(u) + Len(v) + Len(w) <= Len(units)
  BY DEF ThreeTexts
<1> DEFINE a == Len(u)
           b == Len(v)
           c == Len(w)
           size == Len(units)
<1>1. a \in Nat /\ b \in Nat /\ c \in Nat /\ size \in Nat /\ Len(moved) = size
      /\ Len(more) = size /\ Len(after) = size
  BY <1>0 DEF WritesText
<1>2. \A k \in 1 .. a : text[k] = u[k]
  <2> SUFFICES ASSUME NEW k \in 1 .. a PROVE text[k] = u[k]
    OBVIOUS
  <2>1. start + k \in 1 .. size /\ k \in 1 .. a + b + c
        /\ (start + k) - (start + a) \notin 1 .. b
        /\ (start + k) - (start + a + b) \notin 1 .. c
        /\ (start + k) - start = k
    BY <1>0, <1>1
  <2>2. text[k] = after[start + k]
    BY <2>1 DEF ReadsText
  <2>3. after[start + k] = more[start + k]
    BY <1>0, <1>1, <2>1 DEF WritesText
  <2>4. more[start + k] = moved[start + k]
    BY <1>0, <1>1, <2>1 DEF WritesText
  <2>5. moved[start + k] = u[k]
    BY <1>0, <2>1 DEF WritesText
  <2> QED BY <2>2, <2>3, <2>4, <2>5
<1>3. \A k \in 1 .. b : text[a + k] = v[k]
  <2> SUFFICES ASSUME NEW k \in 1 .. b PROVE text[a + k] = v[k]
    OBVIOUS
  <2>1. start + (a + k) \in 1 .. size /\ a + k \in 1 .. a + b + c
        /\ (start + (a + k)) - (start + a) = k
    BY <1>0, <1>1
  <2>2. text[a + k] = after[start + (a + k)]
    BY <2>1 DEF ReadsText
  <2> QED BY <1>0, <1>1, <2>1, <2>2 DEF WritesText
<1>4. \A k \in 1 .. c : text[a + b + k] = w[k]
  <2> SUFFICES ASSUME NEW k \in 1 .. c PROVE text[a + b + k] = w[k]
    OBVIOUS
  <2>1. start + (a + b + k) \in 1 .. size /\ a + b + k \in 1 .. a + b + c
        /\ (start + (a + b + k)) - (start + a) \notin 1 .. b
        /\ (start + (a + b + k)) - (start + a + b) = k
    BY <1>0, <1>1
  <2>2. text[a + b + k] = after[start + (a + b + k)]
    BY <2>1 DEF ReadsText
  <2>3. after[start + (a + b + k)] = more[start + (a + b + k)]
    BY <1>0, <1>1, <2>1 DEF WritesText
  <2>4. more[start + (a + b + k)] = w[k]
    BY <1>0, <1>1, <2>1 DEF WritesText
  <2> QED BY <2>2, <2>3, <2>4
<1> DEFINE uv == u \o v
<1>5. uv \in Seq(Cell) /\ Len(uv) = a + b
  OBVIOUS
<1>6. \A k \in 1 .. Len(uv) : text[k] = uv[k]
  <2> SUFFICES ASSUME NEW k \in 1 .. a + b PROVE text[k] = uv[k]
    BY <1>5
  <2>1. CASE k <= a
    BY <1>2, <2>1
  <2>2. CASE k > a
    <3> DEFINE j == k - a
    <3>1. j \in 1 .. b /\ k = a + j
      BY <1>1, <2>2
    <3>2. uv[k] = v[j]
      BY <2>2, <3>1
    <3> QED BY <1>3, <3>1, <3>2
  <2> QED BY <1>1, <2>1, <2>2
<1> HIDE DEF uv
<1>7. Len(text) = Len(uv) + Len(w) /\ \A k \in 1 .. Len(w) : text[Len(uv) + k] = w[k]
  BY <1>4, <1>5
<1>8. text = uv \o w
  BY <1>5, <1>6, <1>7, ConcatenatedText
<1> QED BY <1>8 DEF uv, Joined

(* Several texts are written, one after the other.                         *)
LEMMA WrittenStaysReady ==
  ASSUME NEW m, NEW s \in String, Settled(m, s), Writes(m, s),
         NEW p, p = m.str[s].array, NEW i \in Int, NEW text \in Seq(Cell)
  PROVE  /\ Spares(m, Written(m, p, i, text), s) /\ Settled(Written(m, p, i, text), s)
         /\ Writes(Written(m, p, i, text), s) /\ Written(m, p, i, text).str = m.str
         /\ WritesText(m.mem[p].units, Written(m, p, i, text).mem[p].units, i, text)
         /\ p \in Place /\ m.mem[p].units \in Seq(Cell)
<1> DEFINE x == Written(m, p, i, text)
<1>1. m \in Memory /\ Sane(m.str[s], s) /\ SaneBut(m, s) /\ ~IsBogus(m, s)
  BY DEF Settled, Working, Writes, IsBogus
<1>2. Spares(m, x, s) /\ Writes(x, s) /\ p \in Place
  BY <1>1, WrittenSpares
<1>3. Settled(x, s) /\ x.str = m.str
  BY <1>1, WrittenSettles
<1>4. WritesText(m.mem[p].units, x.mem[p].units, i, text)
  BY <1>1, <1>2, WrittenWritesText
<1>5. m.mem[p].units \in Seq(Cell)
  BY <1>1, <1>2 DEF Memory
<1> QED BY <1>2, <1>3, <1>4, <1>5

(* Texts have lengths.                                                    *)
LEMMA LengthIsNatural ==
  ASSUME NEW u \in Seq(Cell)
  PROVE  Len(u) \in Nat
OBVIOUS

(* It is what the array holds.                                             *)
Splices(z, p, a, b, c, start, u, v, w, n) ==
  /\ z \in Memory /\ p \in Place /\ start \in Nat /\ n = Len(u) + Len(v) + Len(w)
  /\ a \in Seq(Cell) /\ b \in Seq(Cell) /\ c \in Seq(Cell)
  /\ ThreeTexts(a, b, c, z.mem[p].units, start, u, v, w)

(* What is read of three texts that were written.                         *)
LEMMA SplicedRead ==
  ASSUME NEW z, NEW p, NEW a, NEW b, NEW c, NEW start, NEW n,
         NEW u \in Seq(Cell), NEW v \in Seq(Cell), NEW w \in Seq(Cell),
         Splices(z, p, a, b, c, start, u, v, w, n)
  PROVE  Read(z, p, start, n) = Joined(u, v, w)
<1>0. /\ z \in Memory /\ p \in Place /\ start \in Nat
      /\ a \in Seq(Cell) /\ b \in Seq(Cell) /\ c \in Seq(Cell)
  BY DEF Splices
<1> DEFINE d == z.mem[p].units
<1>5. ThreeTexts(a, b, c, d, start, u, v, w)
  BY DEF Splices
<1> DEFINE text == Read(z, p, start, n)
<1>1. n \in Nat /\ n = Len(u) + Len(v) + Len(w)
  BY LengthIsNatural DEF Splices
<1>2. d \in Seq(Cell) /\ Len(d) = Len(a) /\ Len(a) \in Nat
  <2>1. d \in Seq(Cell) /\ Len(a) \in Nat
    BY <1>0, LengthIsNatural DEF Memory
  <2> QED BY <1>5, <2>1 DEF ThreeTexts, WritesText
<1>3. start + n <= Len(d)
  <2>1. start + Len(u) + Len(v) + Len(w) <= Len(a)
    BY <1>5 DEF ThreeTexts
  <2>2. Len(u) \in Nat /\ Len(v) \in Nat /\ Len(w) \in Nat
    BY LengthIsNatural
  <2> HIDE DEF d
  <2> QED BY <1>0, <1>1, <1>2, <2>1, <2>2
<1>4. text \in Seq(Cell) /\ Len(text) = n /\ ReadsText(d, start, text)
  <2> QED BY <1>0, <1>1, <1>2, <1>3, ReadReadsText
<1> HIDE DEF text, d
<1>6. Len(text) = Len(u) + Len(v) + Len(w)
  BY <1>1, <1>4
<1>7. text = Joined(u, v, w)
  BY <1>0, <1>2, <1>4, <1>5, <1>6, SplicedUnits
<1> QED BY <1>7 DEF text

(* The new length is set, and the old array is freed if nobody uses it.    *)
LEMMA ResizedAndSwept ==
  ASSUME NEW m, NEW s \in String, Settled(m, s), Writes(m, s), NEW n \in Nat,
         n <= m.str[s].capacity
  PROVE  /\ Spares(m, Swept(Resized(m, s, n)), s) /\ Writes(Swept(Resized(m, s, n)), s)
         /\ Fits(Swept(Resized(m, s, n)), s)
         /\ Chars(Swept(Resized(m, s, n)), s) = Read(m, m.str[s].array, m.str[s].start, n)
         /\ Swept(Resized(m, s, n)).str[s].length = n
<1> DEFINE q == Resized(m, s, n)
<1>1. /\ Spares(m, q, s) /\ Writes(q, s) /\ Fits(q, s) /\ q.str[s].length = n
      /\ Chars(q, s) = Read(m, m.str[s].array, m.str[s].start, n)
  BY ResizedWrites
<1>2. ~IsBogus(m, s) /\ n \in Int
  BY DEF Writes, IsBogus
<1>3. Settled(q, s)
  BY <1>2, ResizedSettles
<1> HIDE DEF q
<1>4. /\ Spares(q, Swept(q), s) /\ Writes(Swept(q), s) /\ Fits(Swept(q), s)
      /\ Chars(Swept(q), s) = Chars(q, s) /\ Swept(q).str = q.str
  BY <1>1, <1>3, SweptMakes
<1>5. Spares(m, Swept(q), s)
  BY <1>1, <1>4, SparesAgain
<1>6. Swept(q).str[s].length = n /\ Chars(Swept(q), s) = Read(m, m.str[s].array, m.str[s].start, n)
  BY <1>1, <1>4
<1> QED BY <1>4, <1>5, <1>6 DEF q

(* One text has been written where s has its own.                          *)
Wrote(m, x, s, i, text) ==
  LET p == m.str[s].array
  IN  /\ Spares(m, x, s) /\ Settled(x, s) /\ Writes(x, s) /\ x.str = m.str
      /\ WritesText(m.mem[p].units, x.mem[p].units, i, text)

(* A text is written to the own array.                                    *)
LEMMA WrittenWrote ==
  ASSUME NEW m, NEW s \in String, Settled(m, s), Writes(m, s), NEW i \in Int,
         NEW text \in Seq(Cell)
  PROVE  Wrote(m, Written(m, m.str[s].array, i, text), s, i, text)
<1> DEFINE p == m.str[s].array
           x == Written(m, p, i, text)
<1>1. /\ Spares(m, x, s) /\ Settled(x, s) /\ Writes(x, s) /\ x.str = m.str
      /\ WritesText(m.mem[p].units, x.mem[p].units, i, text)
  BY WrittenStaysReady
<1> HIDE DEF x
<1> QED BY <1>1 DEF Wrote, x

(* A text of three parts.                                                  *)
ThreeWrote(m, x, y, z, s, u, v, w) ==
  /\ Wrote(m, x, s, m.str[s].start, u)
  /\ Wrote(x, y, s, m.str[s].start + Len(u) + Len(v), w)
  /\ Wrote(y, z, s, m.str[s].start + Len(u), v)
  /\ Len(u) + Len(v) + Len(w) <= m.str[s].capacity

(* It can be read.                                                         *)
LEMMA SplicedText ==
  ASSUME NEW m, NEW s \in String, Settled(m, s), Writes(m, s),
         NEW u \in Seq(Cell), NEW v \in Seq(Cell), NEW w \in Seq(Cell),
         NEW x, NEW y, NEW z, ThreeWrote(m, x, y, z, s, u, v, w),
         NEW n, AddsUp(n, u, v, w)
  PROVE  /\ Spares(m, z, s) /\ Settled(z, s) /\ Writes(z, s) /\ z.str = m.str
         /\ Read(z, m.str[s].array, m.str[s].start, n) = Joined(u, v, w)
<1> DEFINE p == m.str[s].array
           start == m.str[s].start
<1>1. m \in Memory /\ m.str[s] \in FieldSet /\ start \in Nat /\ p \in Place
  <2>1. m \in Memory /\ m.str[s] \in FieldSet
    BY DEF Settled, Working, Memory
  <2>2. start \in Int /\ start >= 0
    BY <2>1 DEF FieldSet, Writes, Area
  <2>3. p \in Place
    BY <2>1, ArrayIsPlace DEF Writes, Settled
  <2> QED BY <2>1, <2>2, <2>3
<1>2. /\ Spares(m, x, s) /\ Settled(x, s) /\ x.str = m.str
      /\ WritesText(m.mem[p].units, x.mem[p].units, start, u)
  BY DEF ThreeWrote, Wrote
<1>3. /\ Spares(x, y, s) /\ Settled(y, s) /\ y.str = m.str
      /\ WritesText(x.mem[p].units, y.mem[p].units, start + Len(u) + Len(v), w)
  BY <1>2 DEF ThreeWrote, Wrote
<1>4. /\ Spares(y, z, s) /\ Settled(z, s) /\ Writes(z, s) /\ z.str = m.str
      /\ WritesText(y.mem[p].units, z.mem[p].units, start + Len(u), v)
  BY <1>3 DEF ThreeWrote, Wrote
<1>5. Spares(m, y, s)
  BY <1>2, <1>3, SparesAgain
<1>6. Spares(m, z, s)
  BY <1>4, <1>5, SparesAgain
<1>7. x \in Memory /\ y \in Memory /\ z \in Memory
  BY <1>2, <1>3, <1>4 DEF Settled, Working
<1> DEFINE a == m.mem[p].units
           b == x.mem[p].units
           c == y.mem[p].units
<1>8. a \in Seq(Cell) /\ b \in Seq(Cell) /\ c \in Seq(Cell)
  BY <1>1, <1>7 DEF Memory
<1>9. start + Len(u) + Len(v) + Len(w) <= Len(a)
  <2>1. start + m.str[s].capacity <= Len(a)
    BY DEF Writes, Area
  <2>2. m.str[s].capacity \in Int
    BY <1>1 DEF FieldSet
  <2>4. Len(u) + Len(v) + Len(w) <= m.str[s].capacity
    BY DEF ThreeWrote
  <2> HIDE DEF a, start
  <2>3. Len(a) \in Nat /\ Len(u) \in Nat /\ Len(v) \in Nat /\ Len(w) \in Nat
    BY <1>8, LengthIsNatural
  <2> QED BY <1>1, <2>1, <2>2, <2>3, <2>4
<1>10. ThreeTexts(a, b, c, z.mem[p].units, start, u, v, w)
  <2>1. WritesText(a, b, start, u)
    BY <1>2
  <2>2. WritesText(b, c, start + Len(u) + Len(v), w)
    BY <1>3
  <2>3. WritesText(c, z.mem[p].units, start + Len(u), v)
    BY <1>4
  <2> HIDE DEF a, b, c, start, p
  <2> QED BY <1>9, <2>1, <2>2, <2>3 DEF ThreeTexts
<1> HIDE DEF a, b, c, start, p
<1>11. start \in Nat /\ p \in Place /\ z \in Memory
  BY <1>1, <1>7
<1>12. Splices(z, p, a, b, c, start, u, v, w, n)
  BY <1>8, <1>10, <1>11 DEF Splices, AddsUp
<1>13. Read(z, p, start, n) = Joined(u, v, w)
  BY <1>12, SplicedRead
<1> QED BY <1>4, <1>6, <1>13 DEF p, start

(* The length that is set in the end.                                      *)
LEMMA SweptLength ==
  ASSUME NEW m, NEW s \in String, Settled(m, s), Writes(m, s), NEW n \in Int
  PROVE  Swept(Resized(m, s, n)).str[s].length = n
<1> DEFINE q == Resized(m, s, n)
<1>1. m \in Memory /\ q \in Memory /\ q.str = [m.str EXCEPT ![s] = [m.str[s] EXCEPT !.length = n]]
  BY ResizedFrame DEF Settled, Working
<1>2. q.str[s].length = n
  BY <1>1 DEF Memory, FieldSet
<1> HIDE DEF q
<1>3. Swept(q).str = q.str
  BY <1>1, SweptFrame
<1> QED BY <1>2, <1>3 DEF q

(* What doReplace() writes to the new array: the text before and behind,   *)
(* and what is inserted.                                                   *)
Moved(x, s, u, l, w) ==
  Written(Written(x, x.str[s].array, x.str[s].start, u),
          x.str[s].array, x.str[s].start + Len(u) + l, w)

Inserted(y, s, k, v) == Written(y, y.str[s].array, y.str[s].start + k, v)

Moves(x, y, s, u, l, w) ==
  /\ \E z : /\ Wrote(x, z, s, x.str[s].start, u)
            /\ Wrote(z, y, s, x.str[s].start + Len(u) + l, w)
  /\ Spares(x, y, s) /\ Settled(y, s) /\ Writes(y, s) /\ y.str = x.str

(* The text in front and the text behind are moved.                       *)
LEMMA MovedSpares ==
  ASSUME NEW x, NEW s \in String, Settled(x, s), Writes(x, s),
         NEW u \in Seq(Cell), NEW w \in Seq(Cell), NEW l \in Nat
  PROVE  Moves(x, Moved(x, s, u, l, w), s, u, l, w)
<1> DEFINE a == x.str[s].array
           i == x.str[s].start
           y == Written(x, a, i, u)
           k == i + Len(u) + l
           z == Written(y, a, k, w)
<1>1. x.str[s] \in FieldSet
  BY DEF Settled, Working, Memory
<1>2. i \in Int /\ Len(u) \in Nat
  BY <1>1, LengthIsNatural DEF FieldSet
<1>3. k \in Int
  <2> HIDE DEF i
  <2> QED BY <1>2
<1> HIDE DEF k
<1>4. Wrote(x, y, s, i, u)
  BY <1>2, WrittenWrote
<1> HIDE DEF y
<1>5. Spares(x, y, s) /\ Settled(y, s) /\ Writes(y, s) /\ y.str = x.str
  BY <1>4 DEF Wrote
<1>6. Wrote(y, z, s, k, w)
  <2>1. Wrote(y, Written(y, y.str[s].array, k, w), s, k, w)
    BY <1>3, <1>5, WrittenWrote
  <2> QED BY <1>5, <2>1
<1> HIDE DEF z
<1>7. Spares(y, z, s) /\ Settled(z, s) /\ Writes(z, s) /\ z.str = x.str
  BY <1>5, <1>6 DEF Wrote
<1>8. Spares(x, z, s)
  BY <1>5, <1>7, SparesAgain
<1>9. Moves(x, z, s, u, l, w)
  BY <1>4, <1>6, <1>7, <1>8 DEF Moves, k
<1> QED BY <1>9 DEF Moved, z, y, k

(* The three parts of the new text.                                        *)
Turns(x, r, s, text) ==
  /\ Spares(x, r, s) /\ Writes(r, s) /\ Fits(r, s) /\ Chars(r, s) = text

(* They are the text of s.                                                 *)
LEMMA InsertedText ==
  ASSUME NEW x, NEW s \in String, Settled(x, s), Writes(x, s),
         NEW u \in Seq(Cell), NEW v \in Seq(Cell), NEW w \in Seq(Cell),
         NEW y, Moves(x, y, s, u, Len(v), w), NEW n \in Nat, AddsUp(n, u, v, w),
         n <= x.str[s].capacity
  PROVE  Turns(x, Swept(Resized(Inserted(y, s, Len(u), v), s, n)), s, Joined(u, v, w))
<1> DEFINE i == x.str[s].start
           j == i + Len(u) + Len(v)
           k == i + Len(u)
           z == Inserted(y, s, Len(u), v)
<1>1. Len(u) \in Nat /\ Len(v) \in Nat /\ x.str[s] \in FieldSet /\ i \in Int
  BY LengthIsNatural DEF Settled, Working, Memory, FieldSet
<1>9. PICK y1 : Wrote(x, y1, s, i, u) /\ Wrote(y1, y, s, j, w)
  BY DEF Moves
<1>10. Spares(x, y, s) /\ Settled(y, s) /\ Writes(y, s) /\ y.str = x.str
  BY DEF Moves
<1> HIDE DEF j
<1>3. k \in Int
  <2> HIDE DEF i
  <2> QED BY <1>1
<1>4. Wrote(y, z, s, k, v)
  <2>1. y.str[s].start + Len(u) = k
    BY <1>10
  <2> HIDE DEF k
  <2>2. Wrote(y, Written(y, y.str[s].array, k, v), s, k, v)
    BY <1>3, <1>10, WrittenWrote
  <2> QED BY <2>1, <2>2 DEF Inserted
<1> HIDE DEF z
<1>5. ThreeWrote(x, y1, y, z, s, u, v, w)
  <2>1. Len(u) + Len(v) + Len(w) <= x.str[s].capacity
    BY DEF AddsUp
  <2> QED BY <1>9, <1>4, <2>1 DEF ThreeWrote, j, k, i
<1>6. /\ Spares(x, z, s) /\ Settled(z, s) /\ Writes(z, s) /\ z.str = x.str
      /\ Read(z, x.str[s].array, x.str[s].start, n) = Joined(u, v, w)
  BY <1>5, SplicedText
<1>7. n <= z.str[s].capacity
  BY <1>6
<1> DEFINE r == Swept(Resized(z, s, n))
<1>8. /\ Spares(z, r, s) /\ Writes(r, s) /\ Fits(r, s)
      /\ Chars(r, s) = Read(z, z.str[s].array, z.str[s].start, n)
  BY <1>6, <1>7, ResizedAndSwept
<1> HIDE DEF r
<1>11. Spares(x, r, s)
  BY <1>6, <1>8, SparesAgain
<1>12. Turns(x, r, s, Joined(u, v, w))
  BY <1>6, <1>8, <1>11 DEF Turns
<1> QED BY <1>12 DEF r, z

(* The text before a place and the text behind another one, as they are    *)
(* taken from the old array.                                               *)
Parts(m, s, start, tail, u, w) ==
  /\ u = SubSeq(Chars(m, s), 1, start) /\ u \in Seq(Cell) /\ Len(u) = start
  /\ w = SubSeq(Chars(m, s), tail + 1, Len(Chars(m, s))) /\ w \in Seq(Cell)
  /\ Len(w) = m.str[s].length - tail

(* What stood in front and behind are parts of the old text.              *)
LEMMA PartsOfText ==
  ASSUME NEW m, NEW s \in String, Left(m, s), ~IsBogus(m, s), m.str[s].length >= 0,
         NEW start \in Nat, NEW tail \in Nat, start <= tail, tail <= m.str[s].length
  PROVE  Parts(m, s, start, tail, Read(m, m.str[s].array, m.str[s].start + 0, start),
               Read(m, m.str[s].array, m.str[s].start + tail, m.str[s].length - tail))
<1> DEFINE p == m.str[s].array
           i == m.str[s].start
           n == m.str[s].length
           zero == 0
<1>1. m \in Memory /\ m.str[s] \in FieldSet /\ p \in Place
  BY ArrayIsPlace DEF Left, Settled, Working, Memory, IsBogus
<1>2. i \in Int /\ n \in Nat /\ tail <= n /\ start <= n /\ zero \in Nat /\ zero <= start
      /\ n - tail \in Nat /\ i + tail \in Int /\ i + zero \in Int /\ start - zero = start
      /\ n <= n /\ zero = 0
  BY <1>1 DEF FieldSet
<1>3. Chars(m, s) = Read(m, p, i, n) /\ Len(Chars(m, s)) = n
  BY CharsAreText DEF Chars
<1> HIDE DEF p, i, n, zero, Parts
<1>4. SubSeq(Read(m, p, i, n), zero + 1, start) = Read(m, p, i + zero, start - zero)
  <2>1. Parted(m, p, i, n, zero, start)
    BY <1>2, PartIsRead
  <2> QED BY <2>1 DEF Parted
<1>5. SubSeq(Read(m, p, i, n), tail + 1, n) = Read(m, p, i + tail, n - tail)
  <2>1. Parted(m, p, i, n, tail, n)
    BY <1>2, PartIsRead
  <2> QED BY <2>1 DEF Parted
<1>6. Read(m, p, i + zero, start) \in Seq(Cell) /\ Len(Read(m, p, i + zero, start)) = start
  BY <1>1, <1>2, ReadIsText
<1>7. Read(m, p, i + tail, n - tail) \in Seq(Cell) /\ Len(Read(m, p, i + tail, n - tail)) = n - tail
  BY <1>1, <1>2, ReadIsText
<1>8. SubSeq(Chars(m, s), 1, start) = Read(m, p, i + zero, start)
  BY <1>2, <1>3, <1>4
<1> QED BY <1>3, <1>5, <1>6, <1>7, <1>8 DEF p, i, n, zero, Parts

(* doReplace() in a new array, or in the old one.                          *)
LEMMA ReplaceCharsMakes ==
  ASSUME NEW m, NEW s \in String, Ready(m, s), IsWritable(m, s), NEW src, Proper(m, s, src),
         NEW start \in Nat, NEW length \in Nat, start + length <= m.str[s].length,
         NEW r \in ReplaceChars(m, s, src, start, length), r.str[s].length <= Longest
  PROVE  Made(m, r, s, Spliced(Chars(m, s), start, length, SourceChars(m, src)))
<1> DEFINE old == m.str[s].length
           tail == start + length
           new == old - length + src.length
           v == SourceChars(m, src)
           u == Read(m, m.str[s].array, m.str[s].start + 0, start)
           w == Read(m, m.str[s].array, m.str[s].start + tail, old - tail)
<1>1. /\ m \in Memory /\ m.str[s] \in FieldSet /\ Settled(m, s) /\ Tidy(m) /\ Left(m, s)
      /\ Layout(m) /\ Fits(m, s) /\ Joins(m, s) /\ src \in SourceSet /\ Stable(m, s, src)
      /\ ~IsBogus(m, s)
  BY DEF Ready, Left, Settled, Working, Memory, Proper, IsWritable
<1>2. /\ old \in Nat /\ src.length \in Nat /\ new \in Nat /\ tail \in Nat /\ tail <= old
      /\ start <= tail /\ old - tail \in Nat /\ new = start + src.length + (old - tail)
  <2>1. old \in Int /\ old >= 0
    BY <1>1 DEF Fits, FieldSet
  <2>2. src.length \in Int /\ src.length >= 0
    BY DEF Proper, SourceSet
  <2> QED BY <2>1, <2>2
<1>3. v \in Seq(Cell) /\ Len(v) = src.length
  BY <1>1, SourceIsText DEF Proper
<1>4. /\ u = SubSeq(Chars(m, s), 1, start) /\ u \in Seq(Cell) /\ Len(u) = start
      /\ w = SubSeq(Chars(m, s), tail + 1, Len(Chars(m, s))) /\ w \in Seq(Cell)
      /\ Len(w) = old - tail
  <2>1. Parts(m, s, start, tail, u, w)
    <3>1. m.str[s].length >= 0
      BY <1>2
    <3> HIDE DEF tail
    <3> QED BY <1>1, <1>2, <3>1, PartsOfText DEF tail
  <2> HIDE DEF u, w, tail, old
  <2> QED BY <2>1 DEF Parts, old
<1>5. Joined(u, v, w) = Spliced(Chars(m, s), start, length, v)
  BY <1>4 DEF Joined, Spliced
<1> HIDE DEF u, v, w
<1>6. AddsUp(new, u, v, w)
  BY <1>2, <1>3, <1>4 DEF AddsUp
<1>7. PICK x \in Clone(m, s, new, GrowCapacity(new), FALSE, FALSE) :
             r = IF IsBogus(x, s) THEN x
                 ELSE LET a == x.str[s].array
                          y == Written(Written(x, a, x.str[s].start, OldText(m, x, s, 0, start)),
                                       a, x.str[s].start + start + src.length,
                                       OldText(m, x, s, tail, old - tail))
                      IN  Swept(Resized(Written(y, y.str[s].array, y.str[s].start + start,
                                                SourceChars(y, src)), s, new))
  BY DEF ReplaceChars
<1> DEFINE grow == GrowCapacity(new)
<1>8. grow \in Int /\ (new <= Longest => Enough(new, grow))
  BY <1>2, GrowCapacityIsEnough
<1>9. x \in Clone(m, s, new, grow, FALSE, FALSE)
  OBVIOUS
<1> HIDE DEF grow, new
<1>10. new \in Int
  BY <1>2
<1>11. /\ Spares(m, x, s) /\ Settled(x, s) /\ (IsBogus(x, s) => Tidy(x))
       /\ IsBogus(x, s) \/ Uncovered(m, x, s, new, grow)
  BY <1>8, <1>9, <1>10, CloneUncovers
<1>12. CASE IsBogus(x, s)
  BY <1>7, <1>11, <1>12, BogusIsMade
<1>13. CASE ~IsBogus(x, s)
  <2>1. Uncovered(m, x, s, new, grow)
    BY <1>11, <1>13
  <2>2. Writes(x, s) /\ OldText(m, x, s, 0, start) = u
        /\ OldText(m, x, s, tail, old - tail) = w
    BY <2>1 DEF Uncovered, u, w
  <2> DEFINE y == Moved(x, s, u, Len(v), w)
  <2>3. r = Swept(Resized(Inserted(y, s, Len(u), SourceChars(y, src)), s, new))
    BY <1>3, <1>4, <1>7, <1>13, <2>2 DEF Moved, Inserted
  <2> HIDE DEF y
  <2>4. Moves(x, y, s, u, Len(v), w)
    BY <1>1, <1>3, <1>4, <1>11, <2>2, LengthIsNatural, MovedSpares DEF y
  <2>5. Spares(x, y, s) /\ Settled(y, s) /\ Writes(y, s)
    BY <2>4 DEF Moves
  <2>6. Spares(m, y, s)
    BY <1>11, <2>5, SparesAgain
  <2>7. SourceChars(y, src) = v
    BY <1>1, <2>6, StableChars DEF v
  <2>8. r = Swept(Resized(Inserted(y, s, Len(u), v), s, new))
    BY <2>3, <2>7
  <2>9. r.str[s].length = new
    <3> DEFINE z == Inserted(y, s, Len(u), v)
    <3>1. y.str[s].start + Len(u) \in Int
      <4>1. y.str[s].start \in Int
        BY <2>5 DEF Settled, Working, Memory, FieldSet
      <4> QED BY <1>4, <4>1
    <3>2. Wrote(y, z, s, y.str[s].start + Len(u), v)
      BY <1>3, <2>5, <3>1, WrittenWrote DEF Inserted
    <3>3. Settled(z, s) /\ Writes(z, s)
      BY <3>2 DEF Wrote
    <3> HIDE DEF z
    <3>4. Swept(Resized(z, s, new)).str[s].length = new
      BY <1>10, <3>3, SweptLength
    <3> QED BY <2>8, <3>4 DEF z
  <2>10. new <= x.str[s].capacity
    <3>1. Enough(new, grow)
      BY <1>8, <2>9
    <3>2. x.str[s].capacity \in Int
      BY <1>11 DEF Settled, Working, Memory, FieldSet
    <3> QED BY <1>10, <2>1, <3>1, <3>2 DEF Uncovered
  <2>11. new \in Nat
    BY <1>2
  <2>12. /\ Spares(x, r, s) /\ Writes(r, s) /\ Fits(r, s) /\ Chars(r, s) = Joined(u, v, w)
    <3>1. Turns(x, Swept(Resized(Inserted(y, s, Len(u), v), s, new)), s, Joined(u, v, w))
      BY <1>3, <1>4, <1>6, <1>11, <2>2, <2>4, <2>10, <2>11, InsertedText
    <3> QED BY <2>8, <3>1 DEF Turns
  <2>13. Spares(m, r, s)
    BY <1>11, <2>12, SparesAgain
  <2>14. Joins(r, s) /\ ~r.str[s].open
    BY <2>12, WritesJoins DEF Writes
  <2> QED BY <1>5, <2>12, <2>13, <2>14 DEF Made, v
<1> QED BY <1>12, <1>13

-----------------------------------------------------------------------------
(* Nothing is left behind the end.                                         *)
LEMMA NothingBehind ==
  ASSUME NEW text \in Seq(Cell), NEW k \in Nat, k > Len(text)
  PROVE  SubSeq(text, k, Len(text)) = <<>>
OBVIOUS

(* The whole text, and none of it, are parts of it.                        *)
LEMMA WholeText ==
  ASSUME NEW text \in Seq(Cell)
  PROVE  SubSeq(text, 1, Len(text)) = text /\ SubSeq(text, 1, 0) = <<>>
OBVIOUS

(* There is nothing to replace behind the end.                             *)
Within(text, start, count, new, n) ==
  /\ n \in Nat /\ start + n <= Len(text)
  /\ Spliced(text, start, n, new) = Spliced(text, start, count, new)

(* Texts in front and behind that are those of the old text.              *)
LEMMA SplicedWithin ==
  ASSUME NEW text \in Seq(Cell), NEW start \in Nat, start <= Len(text), NEW count \in Nat,
         NEW new
  PROVE  Within(text, start, count, new, Min({count, Len(text) - start}))
<1> DEFINE old == Len(text)
           length == Min({count, old - start})
<1>1. old \in Nat
  OBVIOUS
<1>2. length = IF count <= old - start THEN count ELSE old - start
  BY <1>1, MinOfTwo
<1> HIDE DEF length
<1>3. length \in Nat /\ start + length <= old
  BY <1>1, <1>2
<1>4. SubSeq(text, start + length + 1, old) = SubSeq(text, start + count + 1, old)
  <2>1. CASE count <= old - start
    BY <1>2, <2>1
  <2>2. CASE ~(count <= old - start)
    <3>1. start + count + 1 \in Nat /\ start + length + 1 \in Nat
          /\ start + count + 1 > old /\ start + length + 1 > old
      BY <1>1, <1>2, <2>2
    <3> QED BY <3>1, NothingBehind
  <2> QED BY <2>1, <2>2
<1>5. Spliced(text, start, length, new) = Spliced(text, start, count, new)
  BY <1>4 DEF Spliced
<1>6. Within(text, start, count, new, length)
  BY <1>3, <1>5 DEF Within
<1> QED BY <1>6 DEF length

(* Units are taken from an alias of the constant text by changing its      *)
(* fields alone.                                                           *)
Narrows(f, g) ==
  /\ g.storage = f.storage /\ g.array = f.array /\ g.open = f.open
  /\ g.length >= 0 /\ g.length <= g.capacity /\ g.start >= f.start
  /\ g.start + g.capacity <= f.start + f.capacity

(* Other fields of an alias show a part of its text.                      *)
LEMMA AliasMakes ==
  ASSUME NEW m, NEW s \in String, Ready(m, s), m.str[s].storage = "readonly",
         NEW g \in FieldSet, Narrows(m.str[s], g)
  PROVE  Made(m, PutFields(m, s, g), s, Read(m, m.str[s].array, g.start, g.length))
<1> DEFINE x == PutFields(m, s, g)
           f == m.str[s]
<1>1. /\ m \in Memory /\ f \in FieldSet /\ Sane(f, s) /\ Working(m, s, Held(m, s))
      /\ Fits(m, s) /\ Joins(m, s) /\ f.storage = "readonly"
  BY DEF Ready, Left, Settled, Working, Memory
<1>2. Spares(m, x, s) /\ x.mem = m.mem /\ x.str[s] = g
  BY <1>1, FieldsPutSpare, FieldsArePut
<1> HIDE DEF x
<1>3. /\ g.storage = f.storage /\ g.array = f.array /\ g.open = f.open /\ g.storage = "readonly"
      /\ g.length >= 0 /\ g.length <= g.capacity /\ g.start >= f.start
      /\ g.start + g.capacity <= f.start + f.capacity
  BY <1>1 DEF Narrows
<1>4. ~f.open /\ f.start >= 0 /\ f.start + f.capacity <= Len(m.mem[f.array].units)
  BY <1>1 DEF Fits, Area
<1>5. /\ g.start \in Int /\ g.capacity \in Int /\ g.length \in Int /\ f.start \in Int
      /\ f.capacity \in Int
  BY <1>1 DEF FieldSet
<1>6. Len(m.mem[f.array].units) \in Nat
  <2>1. f.array \in Place
    BY <1>1, ArrayIsPlace
  <2> QED BY <1>1, <2>1 DEF Memory
<1>7. g.start >= 0 /\ g.capacity >= 0 /\ g.start + g.capacity <= Len(m.mem[f.array].units)
  <2> DEFINE size == Len(m.mem[f.array].units)
  <2> HIDE DEF f, size
  <2>1. f.start >= 0 /\ f.start + f.capacity <= size /\ size \in Nat
    BY <1>4, <1>6 DEF size
  <2>2. g.start >= 0 /\ g.capacity >= 0 /\ g.start + g.capacity <= size
    BY <1>3, <1>5, <2>1
  <2> QED BY <2>2 DEF size
<1>8. Area(x, s) /\ Fits(x, s)
  BY <1>2, <1>3, <1>4, <1>7 DEF Area, Fits
<1>9. Joins(x, s)
  <2> SUFFICES ASSUME NEW t \in String \ {s} PROVE Compatible(g, m.str[t])
    BY <1>2 DEF Joins, Spares
  <2>1. Compatible(f, m.str[t])
    BY <1>1 DEF Joins
  <2> QED BY <1>3, <2>1 DEF Compatible
<1>10. Chars(x, s) = Read(m, f.array, g.start, g.length) /\ ~x.str[s].open
  BY <1>2, <1>3, <1>4 DEF Chars, Read
<1>11. Made(m, x, s, Read(m, f.array, g.start, g.length))
  BY <1>2, <1>8, <1>9, <1>10 DEF Made
<1> QED BY <1>11 DEF x, f

(* The fields without some of the first units, and with only some.         *)
Behind(f, n) == [f EXCEPT !.start = f.start + n, !.length = f.length - n,
                          !.capacity = f.capacity - n]
Before(f, n) == [f EXCEPT !.length = n, !.capacity = n]

(* Both are a part of the former area.                                    *)
LEMMA NarrowFields ==
  ASSUME NEW f \in FieldSet, f.length <= f.capacity, NEW n \in Nat, n <= f.length
  PROVE  /\ Behind(f, n) \in FieldSet /\ Narrows(f, Behind(f, n))
         /\ Before(f, n) \in FieldSet /\ Narrows(f, Before(f, n))
         /\ Behind(f, n).start = f.start + n /\ Behind(f, n).length = f.length - n
         /\ Before(f, n).start = f.start /\ Before(f, n).length = n
<1>1. f.start \in Int /\ f.length \in Int /\ f.capacity \in Int
  BY DEF FieldSet
<1>2. f.start + n \in Int /\ f.length - n \in Int /\ f.capacity - n \in Int
      /\ f.length - n >= 0 /\ f.length - n <= f.capacity - n /\ f.start + n >= f.start
      /\ (f.start + n) + (f.capacity - n) <= f.start + f.capacity
      /\ n >= 0 /\ n <= n /\ f.start >= f.start /\ f.start + n <= f.start + f.capacity
  BY <1>1
<1>4. LET g == Behind(f, n)
      IN  /\ g \in FieldSet /\ g.storage = f.storage /\ g.array = f.array /\ g.open = f.open
          /\ g.start = f.start + n /\ g.length = f.length - n /\ g.capacity = f.capacity - n
  <2> DEFINE a == f.start + n
             b == f.length - n
             c == f.capacity - n
  <2>1. a \in Int /\ b \in Int /\ c \in Int
    BY <1>2
  <2>2. Behind(f, n) = [f EXCEPT !.start = a, !.length = b, !.capacity = c]
    BY DEF Behind
  <2> HIDE DEF a, b, c
  <2> DEFINE e == Behind(f, n)
  <2> HIDE DEF e
  <2>4. e = [f EXCEPT !.start = a, !.length = b, !.capacity = c]
    BY <2>2 DEF e
  <2>3. LET g == e
        IN  /\ g \in FieldSet /\ g.storage = f.storage /\ g.array = f.array /\ g.open = f.open
            /\ g.start = a /\ g.length = b /\ g.capacity = c
    BY <2>1, <2>4 DEF FieldSet
  <2> QED BY <2>3 DEF a, b, c, e
<1>5. LET h == Before(f, n)
      IN  /\ h \in FieldSet /\ h.storage = f.storage /\ h.array = f.array /\ h.open = f.open
          /\ h.start = f.start /\ h.length = n /\ h.capacity = n
  <2>1. \A e : \A j \in Int :
          e = [f EXCEPT !.length = j, !.capacity = j]
            => /\ e \in FieldSet /\ e.storage = f.storage /\ e.array = f.array
               /\ e.open = f.open /\ e.start = f.start /\ e.length = j /\ e.capacity = j
    BY DEF FieldSet
  <2> DEFINE h == Before(f, n)
  <2>2. h = [f EXCEPT !.length = n, !.capacity = n] /\ n \in Int
    BY DEF Before
  <2> HIDE DEF h
  <2>3. /\ h \in FieldSet /\ h.storage = f.storage /\ h.array = f.array
        /\ h.open = f.open /\ h.start = f.start /\ h.length = n /\ h.capacity = n
    BY <2>1, <2>2
  <2> QED BY <2>3 DEF h
<1>6. Narrows(f, Behind(f, n))
  BY <1>2, <1>4 DEF Narrows
<1>7. Narrows(f, Before(f, n))
  BY <1>2, <1>5 DEF Narrows
<1> QED BY <1>4, <1>5, <1>6, <1>7

(* An alias loses its first or its last units.                            *)
LEMMA TrimmedMakes ==
  ASSUME NEW m, NEW s \in String, Ready(m, s), m.str[s].storage = "readonly",
         NEW n \in Nat, n <= m.str[s].length
  PROVE  /\ Made(m, WithoutPrefix(m, s, n), s,
                 SubSeq(Chars(m, s), n + 1, Len(Chars(m, s))))
         /\ Made(m, WithoutSuffix(m, s, n), s, SubSeq(Chars(m, s), 1, n))
<1> DEFINE f == m.str[s]
           p == f.array
           i == f.start
           l == f.length
           zero == 0
<1>1. f \in FieldSet /\ f.length <= f.capacity /\ n <= f.length /\ f.length >= 0
  BY DEF Ready, Fits, Left, Settled, Working, Memory
<1>2. i \in Int /\ l \in Nat /\ l <= l /\ zero \in Nat /\ zero <= n /\ n <= l /\ zero = 0
      /\ i + zero = i /\ n - zero = n
  BY <1>1 DEF FieldSet
<1>3. Chars(m, s) = Read(m, p, i, l) /\ Len(Chars(m, s)) = l
  <2>1. Left(m, s) /\ ~IsBogus(m, s) /\ m.str[s].length >= 0
    BY <1>1 DEF Ready, IsBogus
  <2> QED BY <2>1, CharsAreText DEF Chars
<1>4. WithoutPrefix(m, s, n) = PutFields(m, s, Behind(f, n))
  BY DEF WithoutPrefix, PutFields, Behind
<1>5. WithoutSuffix(m, s, n) = PutFields(m, s, Before(f, n))
  BY DEF WithoutSuffix, PutFields, Before
<1>6. /\ Behind(f, n) \in FieldSet /\ Narrows(f, Behind(f, n))
      /\ Before(f, n) \in FieldSet /\ Narrows(f, Before(f, n))
      /\ Behind(f, n).start = i + n /\ Behind(f, n).length = l - n
      /\ Before(f, n).start = i /\ Before(f, n).length = n
  BY <1>1, NarrowFields
<1>7. Made(m, PutFields(m, s, Behind(f, n)), s, Read(m, p, Behind(f, n).start, Behind(f, n).length))
  BY <1>6, AliasMakes
<1>8. Made(m, PutFields(m, s, Before(f, n)), s, Read(m, p, Before(f, n).start, Before(f, n).length))
  BY <1>6, AliasMakes
<1> HIDE DEF f, p, i, l, zero
<1>9. Parted(m, p, i, l, n, l) /\ Parted(m, p, i, l, zero, n)
  BY <1>2, PartIsRead
<1>10. SubSeq(Chars(m, s), n + 1, l) = Read(m, p, i + n, l - n)
  BY <1>3, <1>9 DEF Parted
<1>11. SubSeq(Chars(m, s), zero + 1, n) = Read(m, p, i + zero, n - zero)
  BY <1>3, <1>9 DEF Parted
<1>12. SubSeq(Chars(m, s), 1, n) = Read(m, p, i, n)
  BY <1>2, <1>11
<1> QED BY <1>3, <1>4, <1>5, <1>6, <1>7, <1>8, <1>10, <1>12

(* A source without a unit has no text.                                    *)
LEMMA NoUnitsNoText ==
  ASSUME NEW m, NEW s, NEW src, Usable(m, s, src), src.length = 0, m \in Memory
  PROVE  SourceChars(m, src) = <<>>
<1>1. SourceChars(m, src) \in Seq(Cell) /\ Len(SourceChars(m, src)) = 0
  BY SourceIsText DEF Usable
<1> QED BY <1>1

(* What is left of a text of which a part is removed, or to which something*)
(* is added at its end.                                                    *)
LEMMA SplicedAtTheEnds ==
  ASSUME NEW text \in Seq(Cell), NEW n \in Nat, n <= Len(text)
  PROVE  /\ Spliced(text, 0, n, <<>>) = SubSeq(text, n + 1, Len(text))
         /\ \A count \in Nat : count >= Len(text) - n
              => Spliced(text, n, count, <<>>) = SubSeq(text, 1, n)
         /\ \A count \in Nat, v \in Seq(Cell) : Spliced(text, Len(text), count, v) = text \o v
<1>1. Len(text) \in Nat /\ SubSeq(text, n + 1, Len(text)) \in Seq(Cell)
      /\ SubSeq(text, 1, n) \in Seq(Cell)
  OBVIOUS
<1>2. Spliced(text, 0, n, <<>>) = SubSeq(text, n + 1, Len(text))
  <2>1. SubSeq(text, 1, 0) = <<>> /\ 0 + n + 1 = n + 1
    BY WholeText
  <2> DEFINE w == SubSeq(text, n + 1, Len(text))
  <2>2. Spliced(text, 0, n, <<>>) = <<>> \o <<>> \o w
    BY <2>1 DEF Spliced
  <2> HIDE DEF w
  <2>3. w \in Seq(Cell)
    BY <1>1 DEF w
  <2>4. <<>> \o <<>> \o w = w
    BY <2>3
  <2> QED BY <2>2, <2>4 DEF w
<1>3. ASSUME NEW count \in Nat, count >= Len(text) - n
      PROVE  Spliced(text, n, count, <<>>) = SubSeq(text, 1, n)
  <2>1. n + count + 1 \in Nat /\ n + count + 1 > Len(text)
    BY <1>1, <1>3
  <2>2. SubSeq(text, n + count + 1, Len(text)) = <<>>
    BY <2>1, NothingBehind
  <2> DEFINE u == SubSeq(text, 1, n)
  <2>3. Spliced(text, n, count, <<>>) = u \o <<>> \o <<>>
    BY <2>2 DEF Spliced
  <2> HIDE DEF u
  <2>4. u \in Seq(Cell)
    BY <1>1 DEF u
  <2>5. u \o <<>> \o <<>> = u
    BY <2>4
  <2> QED BY <2>3, <2>5 DEF u
<1>4. ASSUME NEW count \in Nat, NEW v \in Seq(Cell)
      PROVE  Spliced(text, Len(text), count, v) = text \o v
  <2>1. Len(text) + count + 1 \in Nat /\ Len(text) + count + 1 > Len(text)
    BY <1>1
  <2>2. SubSeq(text, Len(text) + count + 1, Len(text)) = <<>>
    BY <2>1, NothingBehind
  <2>3. Spliced(text, Len(text), count, v) = text \o v \o <<>>
    BY <2>2, WholeText DEF Spliced
  <2>4. text \o v \o <<>> = text \o v
    OBVIOUS
  <2> QED BY <2>3, <2>4
<1> QED BY <1>2, <1>3, <1>4

(* doReplace(), with all that it may do.                                   *)
LEMMA DoReplaceMakes ==
  ASSUME NEW m, NEW s \in String, Ready(m, s), IsWritable(m, s),
         NEW src, Usable(m, s, src), NEW start \in Nat, start <= m.str[s].length,
         NEW count \in Nat, NEW r \in DoReplace(m, s, start, count, src),
         r.str[s].length <= Longest
  PROVE  Made(m, r, s, Spliced(Chars(m, s), start, count, SourceChars(m, src)))
<1> DEFINE old == m.str[s].length
           length == Min({count, old - start})
           trims == m.str[s].storage = "readonly" /\ src.length = 0
           text == Chars(m, s)
           v == SourceChars(m, src)
<1>1. /\ Left(m, s) /\ ~IsBogus(m, s) /\ old >= 0 /\ src \in SourceSet /\ m \in Memory
      /\ m.str[s] \in FieldSet
  BY DEF Ready, IsWritable, Fits, Usable, Left, Settled, Working, Memory
<1>2. text \in Seq(Cell) /\ Len(text) = old /\ old \in Nat
  <2>1. text \in Seq(Cell) /\ Len(text) = old
    BY <1>1, CharsAreText
  <2> QED BY <1>1, <2>1 DEF FieldSet
<1>3. v \in Seq(Cell)
  BY <1>1, SourceIsText
<1>4. length \in Nat /\ start + length <= old
      /\ Spliced(text, start, length, v) = Spliced(text, start, count, v)
  <2>1. start <= Len(text) /\ length = Min({count, Len(text) - start})
    BY <1>2
  <2> HIDE DEF text, v, length
  <2>2. Within(text, start, count, v, length)
    BY <1>2, <2>1, SplicedWithin
  <2> QED BY <1>2, <2>2 DEF Within
<1>5. trims => v = <<>>
  BY <1>1, NoUnitsNoText
<1> HIDE DEF text, v, length
<1>6. CASE trims /\ start = 0 /\ r = WithoutPrefix(m, s, length)
  <2>1. length <= m.str[s].length
    BY <1>4, <1>6
  <2>2. Made(m, r, s, SubSeq(text, length + 1, Len(text)))
    BY <1>4, <1>6, <2>1, TrimmedMakes DEF text
  <2>3. length <= Len(text)
    BY <1>2, <2>1
  <2>4. Spliced(text, 0, length, <<>>) = SubSeq(text, length + 1, Len(text))
    BY <1>2, <1>4, <2>3, SplicedAtTheEnds
  <2>5. Made(m, r, s, Spliced(text, start, count, v))
    BY <1>4, <1>5, <1>6, <2>2, <2>4
  <2> QED BY <2>5 DEF text, v
<1>7. CASE trims /\ count >= old - start /\ r = WithoutSuffix(m, s, start)
  <2>1. Made(m, r, s, SubSeq(text, 1, start))
    BY <1>7, TrimmedMakes DEF text
  <2>2. start <= Len(text) /\ count >= Len(text) - start
    BY <1>2, <1>7
  <2>3. Spliced(text, start, count, <<>>) = SubSeq(text, 1, start)
    BY <1>2, <2>2, SplicedAtTheEnds
  <2>4. Made(m, r, s, Spliced(text, start, count, v))
    BY <1>5, <1>7, <2>1, <2>3
  <2> QED BY <2>4 DEF text, v
<1>8. CASE start = old /\ r \in DoAppend(m, s, src)
  <2>1. Made(m, r, s, text \o v)
    BY <1>8, DoAppendMakes DEF text, v
  <2>2. Spliced(text, Len(text), count, v) = text \o v
    BY <1>2, <1>3, SplicedAtTheEnds
  <2>3. Made(m, r, s, Spliced(text, start, count, v))
    BY <1>2, <1>8, <2>1, <2>2
  <2> QED BY <2>3 DEF text, v
<1>9. CASE r = ToBogus(m, s)
  BY <1>1, <1>9, ToBogusMakes
<1>10. CASE \E x \in SafeSources(m, s, src) : r \in ReplaceChars(m, s, x, start, length)
  <2>1. PICK x \in SafeSources(m, s, src) : r \in ReplaceChars(m, s, x, start, length)
    BY <1>10
  <2>2. Proper(m, s, x) /\ SourceChars(m, x) = v
    BY SafeSourcesAreProper DEF v
  <2>3. Made(m, r, s, Spliced(text, start, length, v))
    BY <1>4, <2>1, <2>2, ReplaceCharsMakes DEF text
  <2>4. Made(m, r, s, Spliced(text, start, count, v))
    BY <1>4, <2>3
  <2> QED BY <2>4 DEF text, v
<1> QED BY <1>6, <1>7, <1>8, <1>9, <1>10 DEF DoReplace, CopyFails, length

-----------------------------------------------------------------------------
(* What is known of a string between the calls: it is bogus, or it has its *)
(* text, which is what its caller has written while the buffer is open.    *)
Holds(m, s, text) ==
  IF IsBogus(m, s) THEN text = Bogus
  ELSE LET f == m.str[s]
       IN  /\ text = Read(m, f.array, f.start, IF f.open THEN Len(text) ELSE f.length)
           /\ f.open => Len(text) <= f.capacity

Rest(m, texts) ==
  /\ Layout(m) /\ texts \in [String -> Seq(Cell)]
  /\ \A s \in String : Joins(m, s) /\ Fits(m, s) /\ Holds(m, s, texts[s])

Sound == Accounted(now) /\ Rest(now, value)

(* What a call on s has done.                                              *)
Finished(m, r, s, text) ==
  /\ Spares(m, r, s) /\ Fits(r, s) /\ Joins(r, s)
  /\ text \in Seq(Cell) /\ Holds(r, s, text)

(* Two strings share or not, whichever is looked at first.                 *)
LEMMA CompatibleBothWays ==
  ASSUME NEW f, NEW g, Compatible(f, g)
  PROVE  Compatible(g, f)
BY DEF Compatible

(* The others have what they had.                                          *)
LEMMA OthersHold ==
  ASSUME NEW m, NEW r, NEW s \in String, NEW texts, Rest(m, texts), NEW text,
         Finished(m, r, s, text)
  PROVE  Rest(r, [texts EXCEPT ![s] = text])
<1> DEFINE all == [texts EXCEPT ![s] = text]
<1>1. all \in [String -> Seq(Cell)] /\ all[s] = text /\ \A t \in String \ {s} : all[t] = texts[t]
  BY DEF Rest, Finished
<1> HIDE DEF all
<1>2. Layout(r)
  BY DEF Rest, Finished, Spares
<1>3. ASSUME NEW t \in String \ {s}
      PROVE  Joins(r, t) /\ Fits(r, t) /\ Holds(r, t, all[t])
  <2>1. /\ r.str[t] = m.str[t]
        /\ m.str[t].storage # "bogus"
             => r.mem[m.str[t].array].units = m.mem[m.str[t].array].units
    BY DEF Finished, Spares
  <2>2. Joins(m, t) /\ Fits(m, t) /\ Holds(m, t, texts[t])
    BY DEF Rest
  <2>3. Fits(r, t)
    BY <2>1, <2>2 DEF Fits, Area
  <2>4. Holds(r, t, texts[t])
    BY <2>1, <2>2 DEF Holds, IsBogus, Read
  <2>5. Joins(r, t)
    <3> SUFFICES ASSUME NEW u \in String \ {t} PROVE Compatible(r.str[t], r.str[u])
      BY DEF Joins
    <3>1. CASE u = s
      <4>1. Compatible(r.str[s], r.str[t])
        BY DEF Finished, Joins
      <4> QED BY <3>1, <4>1, CompatibleBothWays
    <3>2. CASE u # s
      <4>1. r.str[u] = m.str[u]
        BY <3>2 DEF Finished, Spares
      <4>2. Compatible(m.str[t], m.str[u])
        BY <2>2 DEF Joins
      <4> QED BY <2>1, <4>1, <4>2
    <3> QED BY <3>1, <3>2
  <2> QED BY <1>1, <2>3, <2>4, <2>5
<1>4. Joins(r, s) /\ Fits(r, s) /\ Holds(r, s, all[s])
  BY <1>1 DEF Finished
<1>5. Rest(r, all)
  BY <1>1, <1>2, <1>3, <1>4 DEF Rest
<1> QED BY <1>5 DEF all

(* Only the fields and the memory matter.                                  *)
LEMMA SameMemoryRests ==
  ASSUME NEW m, NEW r, NEW texts, Rest(m, texts), r.str = m.str, r.mem = m.mem
  PROVE  Rest(r, texts)
<1>1. Layout(r)
  BY DEF Rest, Layout
<1>2. ASSUME NEW s \in String PROVE Joins(r, s) /\ Fits(r, s) /\ Holds(r, s, texts[s])
  <2>1. Joins(m, s) /\ Fits(m, s) /\ Holds(m, s, texts[s])
    BY DEF Rest
  <2>2. Joins(r, s) /\ Fits(r, s)
    BY <2>1 DEF Joins, Fits, Area
  <2>3. Holds(r, s, texts[s])
    BY <2>1 DEF Holds, IsBogus, Read
  <2> QED BY <2>2, <2>3
<1> QED BY <1>1, <1>2 DEF Rest

(* No text is longer than the room that an array can have: what            *)
(* getGrowCapacity() asks for ends at kMaxCapacity, rounded up to Longest. *)
NoneIsTooLong == \A s \in String : str[s].length <= Longest

(* The outcomes of a call are looked at one by one.                        *)
Outcome(r, s, text) == Finished(now, r, s, IF IsBogus(r, s) THEN Bogus ELSE text)

(* A call whose outcomes are finished leaves everything as it should be.  *)
LEMMA GivesSound ==
  ASSUME Sound, NEW s \in String, NEW outcomes, NEW text, Gives(s, outcomes, text),
         Accounted(now)', NoneIsTooLong',
         \A r \in outcomes : r.str[s].length <= Longest => Outcome(r, s, text)
  PROVE  Sound'
<1>1. PICK r \in outcomes :
             /\ Becomes(r)
             /\ value' = [value EXCEPT ![s] = IF IsBogus(r, s) THEN Bogus ELSE text]
  BY DEF Gives
<1>2. str' = r.str /\ mem' = r.mem
  BY <1>1 DEF Becomes
<1>3. r.str[s].length <= Longest
  BY <1>2 DEF NoneIsTooLong
<1>4. Outcome(r, s, text)
  BY <1>3
<1> DEFINE new == IF IsBogus(r, s) THEN Bogus ELSE text
<1>5. Finished(now, r, s, new)
  BY <1>4 DEF Outcome
<1> HIDE DEF new
<1>6. Rest(r, [value EXCEPT ![s] = new])
  BY <1>5, OthersHold DEF Sound
<1>7. Rest(r, value')
  BY <1>1, <1>6 DEF new
<1>8. now'.str = r.str /\ now'.mem = r.mem
  BY <1>2 DEF now
<1>9. Rest(now', value')
  BY <1>7, <1>8, SameMemoryRests
<1> QED BY <1>9 DEF Sound

(* Texts are sequences of units.                                           *)
LEMMA BogusIsText ==
  Bogus \in Seq(Cell)
<1>1. None \in Cell
  BY DEF Cell
<1> QED BY <1>1 DEF Bogus

(* What has been made is held.                                             *)
LEMMA MadeIsOutcome ==
  ASSUME NEW r, NEW s \in String, NEW text \in Seq(Cell), Made(now, r, s, text)
  PROVE  Outcome(r, s, text)
<1>1. CASE IsBogus(r, s)
  BY <1>1, BogusIsText DEF Outcome, Finished, Made, Holds
<1>2. CASE ~IsBogus(r, s)
  <2>1. text = Read(r, r.str[s].array, r.str[s].start, r.str[s].length) /\ ~r.str[s].open
    BY <1>2 DEF Made, Chars
  <2> QED BY <1>2, <2>1 DEF Outcome, Finished, Made, Holds
<1> QED BY <1>1, <1>2

(* What each call finds.                                                   *)
LEMMA SoundIsReady ==
  ASSUME Sound, NEW s \in String
  PROVE  /\ Ready(now, s) /\ Left(now, s) /\ now \in Memory /\ str[s] \in FieldSet
         /\ value[s] \in Seq(Cell) /\ Holds(now, s, value[s])
         /\ Text(s) \in Seq(Cell) /\ Len(Text(s)) = (IF IsBogus(now, s) THEN 1 ELSE str[s].length)
         /\ ~IsBogus(now, s) => Text(s) = Chars(now, s)
<1>1. Left(now, s)
  BY AccountedForOne DEF Sound
<1>2. Layout(now) /\ Joins(now, s) /\ Fits(now, s) /\ Holds(now, s, value[s]) /\ value[s] \in Seq(Cell)
  BY DEF Sound, Rest
<1>3. now \in Memory /\ now.str[s] \in FieldSet /\ now.str[s] = str[s]
  BY <1>1 DEF Left, Settled, Working, Memory, now
<1>4. Ready(now, s)
  BY <1>1, <1>2 DEF Ready
<1>5. CASE IsBogus(now, s)
  <2>1. str[s] = BogusFields
    BY <1>1, <1>3, <1>5 DEF Left, Settled, Sane, IsBogus
  <2>2. ~str[s].open /\ value[s] = Bogus
    BY <1>2, <1>5, <2>1 DEF BogusFields, Fields, Holds
  <2>3. Text(s) = Bogus /\ Len(Bogus) = 1
    BY <2>2 DEF Text, Bogus
  <2> QED BY <1>1, <1>2, <1>3, <1>4, <1>5, <2>3, BogusIsText
<1>6. CASE ~IsBogus(now, s)
  <2>1. Text(s) = Chars(now, s)
    <3>1. CASE str[s].open
      <4>1. str[s].length = 0
        BY <1>2, <1>3, <3>1 DEF Fits
      <4>2. Chars(now, s) = <<>>
        BY <1>3, <4>1, ReadOfNone DEF Chars
      <4> QED BY <3>1, <4>2 DEF Text
    <3>2. CASE ~str[s].open
      <4>1. value[s] = Read(now, str[s].array, str[s].start, str[s].length)
        BY <1>2, <1>3, <1>6, <3>2 DEF Holds
      <4> QED BY <1>3, <3>2, <4>1 DEF Text, Chars
    <3> QED BY <3>1, <3>2
  <2>2. Chars(now, s) \in Seq(Cell) /\ Len(Chars(now, s)) = str[s].length
    BY <1>1, <1>2, <1>3, <1>6, CharsAreText DEF Fits
  <2> QED BY <1>1, <1>2, <1>3, <1>4, <1>6, <2>1, <2>2
<1> QED BY <1>5, <1>6

(* A call that is not allowed leaves the string as it is.                  *)
LEMMA UnchangedIsOutcome ==
  ASSUME Sound, NEW s \in String
  PROVE  Outcome(now, s, value[s])
<1>1. Joins(now, s) /\ Fits(now, s) /\ Holds(now, s, value[s]) /\ value[s] \in Seq(Cell)
  BY DEF Sound, Rest
<1>2. Spares(now, now, s)
  BY DEF Spares
<1>3. IsBogus(now, s) => value[s] = Bogus
  BY <1>1 DEF Holds
<1> QED BY <1>1, <1>2, <1>3 DEF Outcome, Finished

(* The constant text is where it was.                                      *)
LEMMA LiteralIsRead ==
  ASSUME NEW m, Layout(m), NEW n \in 0 .. Len(LiteralUnits)
  PROVE  /\ Read(m, Literal, 0, n) = SubSeq(LiteralUnits, 1, n)
         /\ SubSeq(LiteralUnits, 1, n) \in Seq(Cell) /\ Len(SubSeq(LiteralUnits, 1, n)) = n
<1> DEFINE u == Read(m, Literal, 0, n)
           v == SubSeq(LiteralUnits, 1, n)
           units == LiteralUnits \o <<0>>
           old == Len(LiteralUnits)
<1>1. LiteralUnits \in Seq(Cell) /\ old \in Nat
  BY UnitsAreCells
<1>2. v \in Seq(Cell) /\ Len(v) = n /\ \A k \in 1 .. n : v[k] = LiteralUnits[k]
  BY <1>1
<1>3. DOMAIN units = 1 .. old + 1 /\ \A k \in 1 .. old : units[k] = LiteralUnits[k]
  BY <1>1
<1>4. m.mem[Literal].units = units
  BY DEF Layout
<1> HIDE DEF units
<1>5. u = [k \in 1 .. n |-> LiteralUnits[k]]
  <2>1. u = [k \in 1 .. n |-> IF 0 + k \in DOMAIN units THEN units[0 + k] ELSE None]
    BY <1>4 DEF Read
  <2>2. \A k \in 1 .. n : 0 + k \in DOMAIN units /\ units[0 + k] = LiteralUnits[k]
    <3> SUFFICES ASSUME NEW k \in 1 .. n
                 PROVE  0 + k \in DOMAIN units /\ units[0 + k] = LiteralUnits[k]
      OBVIOUS
    <3>1. 0 + k = k /\ k \in 1 .. old /\ k \in 1 .. old + 1
      BY <1>1
    <3> QED BY <1>3, <3>1
  <2> HIDE DEF u
  <2> QED BY <2>1, <2>2
<1>6. v = [k \in 1 .. n |-> LiteralUnits[k]]
  <2>1. v = [k \in 1 .. n |-> v[k]]
    BY <1>2
  <2> HIDE DEF v
  <2> QED BY <1>2, <2>1
<1> QED BY <1>2, <1>5, <1>6

(* A source that a caller may give is what the caller thinks it is.        *)
LEMMA SourcesAreUsable ==
  ASSUME Sound, NEW s \in String, NEW x \in Sources
  PROVE  /\ Usable(now, s, x.src) /\ SourceChars(now, x.src) = x.text
         /\ x.text \in Seq(Cell)
<1>1. x.src \in SourceSet
  BY SourcesAreSources DEF Sound
<1>2. Layout(now)
  BY DEF Sound, Rest
<1>3. CASE \E n \in 1 .. Len(LiteralUnits) :
             x = [src |-> LiteralPart(n), text |-> SubSeq(LiteralUnits, 1, n)]
  <2>1. PICK n \in 1 .. Len(LiteralUnits) :
               x = [src |-> LiteralPart(n), text |-> SubSeq(LiteralUnits, 1, n)]
    BY <1>3
  <2>2. n \in 0 .. Len(LiteralUnits) /\ n >= 0
    BY UnitsAssumption
  <2>3. /\ x.src.place = Literal /\ x.src.start = 0 /\ x.src.length = n
        /\ x.text = SubSeq(LiteralUnits, 1, n)
    BY <2>1 DEF LiteralPart
  <2>4. Read(now, Literal, 0, n) = x.text /\ x.text \in Seq(Cell) /\ Len(x.text) = n
    BY <1>2, <2>2, <2>3, LiteralIsRead
  <2>5. SourceChars(now, x.src) = x.text
    BY <2>3, <2>4, Places DEF SourceChars
  <2> QED BY <1>1, <2>2, <2>3, <2>4, <2>5 DEF Usable, Stable
<1>4. CASE \E t \in String : ~IsBogus(now, t) /\ \E i \in 0 .. str[t].length :
             x = [src |-> Part(now, t, i), text |-> SubSeq(Text(t), i + 1, Len(Text(t)))]
  <2>1. PICK t \in String : ~IsBogus(now, t) /\ \E i \in 0 .. str[t].length :
               x = [src |-> Part(now, t, i), text |-> SubSeq(Text(t), i + 1, Len(Text(t)))]
    BY <1>4
  <2>2. PICK i \in 0 .. str[t].length :
               x = [src |-> Part(now, t, i), text |-> SubSeq(Text(t), i + 1, Len(Text(t)))]
    BY <2>1
  <2> DEFINE p == str[t].array
             start == str[t].start
             l == str[t].length
  <2>3. /\ now \in Memory /\ str[t] \in FieldSet /\ Left(now, t)
        /\ Text(t) = Chars(now, t) /\ Text(t) \in Seq(Cell) /\ Len(Text(t)) = l /\ Fits(now, t)
    <3>1. Ready(now, t) /\ Left(now, t) /\ now \in Memory /\ str[t] \in FieldSet
      BY SoundIsReady
    <3>2. Text(t) = Chars(now, t) /\ Text(t) \in Seq(Cell) /\ Len(Text(t)) = l
      BY <2>1, SoundIsReady
    <3> QED BY <3>1, <3>2 DEF Ready
  <2>4. p \in Place
    BY <2>1, <2>3, ArrayIsPlace DEF Left, Settled, IsBogus, now
  <2>5. l \in Nat /\ start \in Int /\ i \in Nat /\ i <= l /\ l <= l /\ l - i \in Nat
        /\ start + i \in Int /\ start + i >= start /\ (start + i) + (l - i) <= start + l
    BY <2>3 DEF FieldSet
  <2>6. /\ x.src.place = p /\ x.src.start = start + i /\ x.src.length = l - i
        /\ x.text = SubSeq(Text(t), i + 1, l)
    BY <2>2, <2>3 DEF Part, now
  <2>7. Chars(now, t) = Read(now, p, start, l)
    BY DEF Chars, now
  <2>8. now.str[t] = str[t] /\ now.str[s] = str[s]
    BY DEF now
  <2> HIDE DEF p, start, l
  <2>9. Parted(now, p, start, l, i, l)
    BY <2>5, PartIsRead
  <2>10. x.text = Read(now, p, start + i, l - i)
    BY <2>3, <2>6, <2>7, <2>9 DEF Parted
  <2>11. SourceChars(now, x.src) = x.text
    BY <2>4, <2>6, <2>10, Places, PlacesAssumption DEF SourceChars
  <2>12. x.text \in Seq(Cell) /\ Len(x.text) = l - i
    BY <2>3, <2>4, <2>5, <2>10, ReadIsText
  <2>13. x.src.length >= 0 /\ Len(SourceChars(now, x.src)) = x.src.length
    BY <2>5, <2>6, <2>11, <2>12
  <2>14. CASE t = s
    <3>1. /\ x.src.place = now.str[s].array /\ x.src.start >= now.str[s].start
          /\ x.src.start + x.src.length <= now.str[s].start + now.str[s].length
      BY <2>5, <2>6, <2>8, <2>14 DEF p, start, l
    <3> QED BY <1>1, <2>11, <2>12, <2>13, <3>1 DEF Usable
  <2>15. CASE t # s
    <3>1. Stable(now, s, x.src)
      BY <2>1, <2>6, <2>8, <2>15 DEF Stable, p
    <3> QED BY <1>1, <2>11, <2>12, <2>13, <3>1 DEF Usable
  <2> QED BY <2>14, <2>15
<1> QED BY <1>3, <1>4 DEF Sources

-----------------------------------------------------------------------------
(* What is appended or replaced, unless the buffer is open or s is bogus.  *)
LEMMA UnlockedIsOutcome ==
  ASSUME Sound, NEW s \in String, NEW r, NEW text \in Seq(Cell),
         IsWritable(now, s) => Made(now, r, s, text), ~IsWritable(now, s) => r = now
  PROVE  Outcome(r, s, Unlocked(s, text))
<1>1. CASE IsWritable(now, s)
  BY <1>1, MadeIsOutcome DEF Unlocked
<1>2. CASE ~IsWritable(now, s)
  BY <1>2, UnchangedIsOutcome DEF Unlocked
<1> QED BY <1>1, <1>2

(* A text with a part replaced is a text.                                  *)
LEMMA SplicedIsText ==
  ASSUME NEW text \in Seq(Cell), NEW start \in Nat, start <= Len(text), NEW count \in Nat,
         NEW new \in Seq(Cell)
  PROVE  Spliced(text, start, count, new) \in Seq(Cell)
<1>1. SubSeq(text, 1, start) \in Seq(Cell)
  OBVIOUS
<1>2. SubSeq(text, start + count + 1, Len(text)) \in Seq(Cell)
  <2>1. CASE start + count + 1 <= Len(text)
    BY <2>1
  <2>2. CASE start + count + 1 > Len(text)
    <3>1. SubSeq(text, start + count + 1, Len(text)) = <<>>
      BY <2>2, NothingBehind
    <3> QED BY <3>1
  <2> QED BY <2>1, <2>2
<1> DEFINE a == SubSeq(text, 1, start)
           b == SubSeq(text, start + count + 1, Len(text))
<1>3. a \in Seq(Cell) /\ b \in Seq(Cell) /\ Spliced(text, start, count, new) = a \o new \o b
  BY <1>1, <1>2 DEF Spliced
<1> HIDE DEF a, b
<1> QED BY <1>3

(* doAppend() as a call.                                                  *)
LEMMA AppendedIsOutcome ==
  ASSUME Sound, NEW s \in String, NEW src, Usable(now, s, src),
         NEW r \in DoAppend(now, s, src), r.str[s].length <= Longest
  PROVE  Outcome(r, s, Unlocked(s, Text(s) \o SourceChars(now, src)))
<1> DEFINE text == Text(s) \o SourceChars(now, src)
<1>1. Ready(now, s) /\ now \in Memory /\ Text(s) \in Seq(Cell)
      /\ (~IsBogus(now, s) => Text(s) = Chars(now, s))
  BY SoundIsReady
<1>2. SourceChars(now, src) \in Seq(Cell)
  BY <1>1, SourceIsText DEF Usable
<1>3. text \in Seq(Cell)
  BY <1>1, <1>2
<1>4. IsWritable(now, s) => Made(now, r, s, text)
  <2> SUFFICES ASSUME IsWritable(now, s) PROVE Made(now, r, s, text)
    OBVIOUS
  <2>1. Text(s) = Chars(now, s)
    BY <1>1 DEF IsWritable
  <2>2. Made(now, r, s, Chars(now, s) \o SourceChars(now, src))
    BY <1>1, DoAppendMakes
  <2> QED BY <2>1, <2>2
<1>5. ~IsWritable(now, s) => r = now
  BY DEF DoAppend
<1> HIDE DEF text
<1>6. Outcome(r, s, Unlocked(s, text))
  BY <1>3, <1>4, <1>5, UnlockedIsOutcome
<1> QED BY <1>6 DEF text

(* doReplace() as a call.                                                 *)
LEMMA ReplacedIsOutcome ==
  ASSUME Sound, NEW s \in String, NEW src, Usable(now, s, src),
         NEW start \in 0 .. str[s].length, NEW count \in Nat,
         NEW r \in DoReplace(now, s, start, count, src), r.str[s].length <= Longest
  PROVE  Outcome(r, s, Unlocked(s, Spliced(Text(s), start, count, SourceChars(now, src))))
<1> DEFINE v == SourceChars(now, src)
           text == Spliced(Text(s), start, count, v)
<1>1. Ready(now, s) /\ now \in Memory /\ Text(s) \in Seq(Cell) /\ str[s] \in FieldSet
      /\ now.str[s] = str[s]
      /\ Len(Text(s)) = (IF IsBogus(now, s) THEN 1 ELSE str[s].length)
      /\ (~IsBogus(now, s) => Text(s) = Chars(now, s))
  BY SoundIsReady DEF now
<1>2. v \in Seq(Cell)
  BY <1>1, SourceIsText DEF Usable
<1>3. start \in Nat /\ start <= str[s].length
  BY <1>1 DEF FieldSet
<1>4. start <= Len(Text(s))
  <2>1. CASE IsBogus(now, s)
    <3>1. str[s] = BogusFields
      BY <1>1, <2>1 DEF Ready, Left, Settled, Sane, IsBogus
    <3> QED BY <1>1, <1>3, <2>1, <3>1 DEF BogusFields, Fields
  <2>2. CASE ~IsBogus(now, s)
    BY <1>1, <1>3, <2>2
  <2> QED BY <2>1, <2>2
<1>5. text \in Seq(Cell)
  BY <1>1, <1>2, <1>3, <1>4, SplicedIsText
<1>6. IsWritable(now, s) => Made(now, r, s, text)
  <2> SUFFICES ASSUME IsWritable(now, s) PROVE Made(now, r, s, text)
    OBVIOUS
  <2>1. Text(s) = Chars(now, s)
    BY <1>1 DEF IsWritable
  <2>2. start <= now.str[s].length
    BY <1>1, <1>3
  <2>3. Made(now, r, s, Spliced(Chars(now, s), start, count, SourceChars(now, src)))
    BY <1>1, <1>3, <2>2, DoReplaceMakes
  <2> QED BY <2>1, <2>3
<1>7. ~IsWritable(now, s) => r = now
  BY DEF DoReplace
<1> HIDE DEF text
<1>8. Outcome(r, s, Unlocked(s, text))
  BY <1>5, <1>6, <1>7, UnlockedIsOutcome
<1> QED BY <1>8 DEF text, v

(* An object that begins: empty.                                           *)
LEMMA EmptyIsReady ==
  ASSUME NEW m, NEW s \in String, Settled(m, s), Layout(m), m.str[s] = Empty(s)
  PROVE  /\ Writes(m, s) /\ Joins(m, s) /\ Fits(m, s) /\ Chars(m, s) = <<>>
         /\ m.str[s].array = s /\ m.str[s].start = 0 /\ m.str[s].capacity = StackSize
         /\ ~m.str[s].open /\ m.str[s].storage = "short"
<1>1. /\ m.str[s].array = s /\ m.str[s].start = 0 /\ m.str[s].capacity = StackSize
      /\ ~m.str[s].open /\ m.str[s].storage = "short" /\ m.str[s].length = 0
  BY DEF Empty, Fields
<1>2. Alone(m, s)
  BY <1>1, OwnBufferIsAlone DEF Settled, Working
<1>3. Area(m, s)
  BY <1>1, BoundsAssumption DEF Layout, Area
<1>4. Writes(m, s)
  BY <1>1, <1>2, <1>3 DEF Writes
<1>5. Fits(m, s)
  BY <1>1, <1>3, BoundsAssumption DEF Fits
<1>6. Chars(m, s) = <<>>
  BY <1>1, ReadOfNone DEF Chars
<1> QED BY <1>1, <1>4, <1>5, <1>6, WritesJoins

(* unBogus() makes an empty string of a bogus one.                         *)
LEMMA UnBogusMakes ==
  ASSUME NEW m, NEW s \in String, Ready(m, s)
  PROVE  /\ Ready(UnBogus(m, s), s) /\ ~IsBogus(UnBogus(m, s), s) /\ Spares(m, UnBogus(m, s), s)
         /\ UnBogus(m, s).str[s].open = m.str[s].open
         /\ UnBogus(m, s).str[s].length = m.str[s].length
         /\ ~IsBogus(m, s) => UnBogus(m, s) = m
<1>1. Left(m, s) /\ Layout(m) /\ Working(m, s, Held(m, s)) /\ Sane(m.str[s], s)
  BY DEF Ready, Left, Settled
<1>2. Left(UnBogus(m, s), s) /\ ~IsBogus(UnBogus(m, s), s)
  BY <1>1, UnBogusSettles
<1>3. CASE IsBogus(m, s)
  <2> DEFINE x == SetFields(m, s, Empty(s))
  <2>1. UnBogus(m, s) = x
    BY <1>3 DEF UnBogus
  <2>2. Empty(s) \in FieldSet
    BY FieldsAreFields
  <2>3. Spares(m, x, s)
    BY <1>1, <2>2, SetFieldsSpares
  <2>4. x.str[s] = Empty(s)
    BY <1>1, <2>2, SetFieldsWorks
  <2> HIDE DEF x
  <2>5. Settled(x, s) /\ Layout(x) /\ Left(x, s)
    BY <1>1, <1>2, <2>1, <2>3 DEF Left, Spares
  <2>6. Joins(x, s) /\ Fits(x, s)
    BY <2>4, <2>5, EmptyIsReady
  <2>7. m.str[s] = BogusFields
    BY <1>1, <1>3 DEF Sane, IsBogus
  <2>8. x.str[s].open = m.str[s].open /\ x.str[s].length = m.str[s].length
    BY <2>4, <2>7 DEF Empty, BogusFields, Fields
  <2> QED BY <1>2, <1>3, <2>1, <2>3, <2>5, <2>6, <2>8 DEF Ready
<1>4. CASE ~IsBogus(m, s)
  <2>1. UnBogus(m, s) = m
    BY <1>4 DEF UnBogus
  <2> QED BY <1>4, <2>1 DEF Spares
<1> QED BY <1>3, <1>4

(* What the caller gives can still be used.                                *)
LEMMA UsableAgain ==
  ASSUME NEW m, NEW s \in String, Ready(m, s), NEW src, Usable(m, s, src)
  PROVE  /\ Usable(UnBogus(m, s), s, src)
         /\ SourceChars(UnBogus(m, s), src) = SourceChars(m, src)
<1> DEFINE x == UnBogus(m, s)
<1>1. /\ Layout(m) /\ Spares(m, x, s) /\ src \in SourceSet /\ (~IsBogus(m, s) => x = m)
      /\ Sane(m.str[s], s)
  BY UnBogusMakes DEF Ready, Usable, Left, Settled
<1> HIDE DEF x
<1>2. CASE IsBogus(m, s)
  <2>1. m.str[s].array = None
    BY <1>1, <1>2 DEF Sane, IsBogus, BogusFields, Fields
  <2>2. Stable(m, s, src)
    BY <2>1 DEF Usable, Stable
  <2>3. SourceChars(x, src) = SourceChars(m, src)
    BY <1>1, <2>2, StableChars
  <2>4. Stable(x, s, src)
    BY <1>1, <2>2 DEF Stable, Spares, IsBogus
  <2> QED BY <2>3, <2>4 DEF Usable, x
<1>3. CASE ~IsBogus(m, s)
  BY <1>1, <1>3 DEF x
<1> QED BY <1>2, <1>3

(* What is made of a string that spared the others spares them.            *)
LEMMA MadeAgain ==
  ASSUME NEW m, NEW x, NEW r, NEW s, NEW text, Spares(m, x, s), Made(x, r, s, text)
  PROVE  Made(m, r, s, text)
BY SparesAgain DEF Made

(* setTo() a text.                                                         *)
LEMMA SetToIsOutcome ==
  ASSUME Sound, NEW s \in String, NEW src, Usable(now, s, src), ~str[s].open,
         NEW r \in DoReplace(UnBogus(now, s), s, 0, str[s].length, src),
         r.str[s].length <= Longest
  PROVE  Outcome(r, s, SourceChars(now, src))
<1> DEFINE m == UnBogus(now, s)
           v == SourceChars(now, src)
           n == str[s].length
           zero == 0
           text == Chars(m, s)
<1>1. Ready(now, s) /\ now \in Memory /\ now.str[s] = str[s] /\ str[s] \in FieldSet
  BY SoundIsReady DEF now
<1>2. /\ Ready(m, s) /\ ~IsBogus(m, s) /\ Spares(now, m, s)
      /\ m.str[s].open = str[s].open /\ m.str[s].length = n
  BY <1>1, UnBogusMakes
<1>3. Usable(m, s, src) /\ SourceChars(m, src) = v
  BY <1>1, UsableAgain
<1>4. v \in Seq(Cell)
  BY <1>1, SourceIsText DEF Usable
<1> HIDE DEF m
<1>5. n >= 0
  BY <1>2 DEF Ready, Fits
<1>6. text \in Seq(Cell) /\ Len(text) = n
  BY <1>2, <1>5, CharsAreText DEF Ready
<1>7. n \in Nat /\ zero \in Nat /\ zero <= m.str[s].length
  BY <1>1, <1>2, <1>5 DEF FieldSet
<1>8. IsWritable(m, s)
  BY <1>2 DEF IsWritable
<1>9. r \in DoReplace(m, s, zero, n, src)
  BY DEF m
<1>10. Spliced(text, zero, n, v) = v
  <2> HIDE DEF text, v
  <2>1. SubSeq(text, 1, 0) = <<>> /\ SubSeq(text, 0 + n + 1, Len(text)) = <<>>
    <3>1. 0 + n + 1 \in Nat /\ 0 + n + 1 > Len(text)
      BY <1>6, <1>7
    <3> QED BY <1>6, <3>1, NothingBehind, WholeText
  <2>2. Spliced(text, zero, n, v) = <<>> \o v \o <<>>
    BY <2>1 DEF Spliced
  <2>3. <<>> \o v \o <<>> = v
    BY <1>4
  <2> QED BY <2>2, <2>3
<1> HIDE DEF zero, v, n, text
<1>11. Made(m, r, s, Spliced(text, zero, n, SourceChars(m, src)))
  BY <1>2, <1>3, <1>7, <1>8, <1>9, DoReplaceMakes DEF text
<1>12. Made(now, r, s, v)
  BY <1>2, <1>3, <1>10, <1>11, MadeAgain
<1>13. Outcome(r, s, v)
  BY <1>4, <1>12, MadeIsOutcome
<1> QED BY <1>13 DEF v

(* No text to be inserted.                                                 *)
LEMMA NothingIsUsable ==
  ASSUME NEW s
  PROVE  Usable(now, s, Nothing) /\ SourceChars(now, Nothing) = <<>>
<1>1. /\ Nothing.place = None /\ Nothing.length = 0 /\ Nothing.copy = <<>>
      /\ Nothing \in SourceSet
  BY DEF Nothing, SourceSet
<1>2. SourceChars(now, Nothing) = <<>> /\ Len(SourceChars(now, Nothing)) = 0
  BY <1>1 DEF SourceChars
<1> QED BY <1>1, <1>2 DEF Usable, Stable

(* The calls that append and replace.                                      *)
LEMMA TextCallsSound ==
  ASSUME Sound, NoneIsTooLong', NEW s \in String,
         AppendString(s) \/ Replace(s) \/ RemoveRange(s) \/ SetTo(s)
  PROVE  Sound'
<1>1. Accounted(now)'
  BY TextCallsAccounted DEF Sound
<1>2. 1 \in Nat /\ 0 \in Nat /\ MaxLength \in Nat
  BY BoundsAssumption
<1>3. CASE AppendString(s)
  <2>1. PICK x \in Sources : Gives(s, DoAppend(now, s, x.src), Unlocked(s, Text(s) \o x.text))
    BY <1>3 DEF AppendString
  <2>2. Usable(now, s, x.src) /\ SourceChars(now, x.src) = x.text
    BY SourcesAreUsable
  <2>3. \A r \in DoAppend(now, s, x.src) : r.str[s].length <= Longest
          => Outcome(r, s, Unlocked(s, Text(s) \o x.text))
    BY <2>2, AppendedIsOutcome
  <2> QED BY <1>1, <2>1, <2>3, GivesSound
<1>4. CASE Replace(s)
  <2>1. PICK x \in Sources, start \in 0 .. str[s].length, length \in {0, 1, MaxLength} :
               Gives(s, DoReplace(now, s, start, length, x.src),
                     Unlocked(s, Spliced(Text(s), start, length, x.text)))
    BY <1>4 DEF Replace
  <2>2. Usable(now, s, x.src) /\ SourceChars(now, x.src) = x.text
    BY SourcesAreUsable
  <2>3. length \in Nat
    BY <1>2
  <2>4. \A r \in DoReplace(now, s, start, length, x.src) : r.str[s].length <= Longest
          => Outcome(r, s, Unlocked(s, Spliced(Text(s), start, length, x.text)))
    BY <2>2, <2>3, ReplacedIsOutcome
  <2> QED BY <1>1, <2>1, <2>4, GivesSound
<1>5. CASE RemoveRange(s)
  <2>1. PICK start \in 0 .. str[s].length, length \in {1, MaxLength} :
               Gives(s, DoReplace(now, s, start, length, Nothing),
                     Unlocked(s, Spliced(Text(s), start, length, <<>>)))
    BY <1>5 DEF RemoveRange
  <2>2. Usable(now, s, Nothing) /\ SourceChars(now, Nothing) = <<>>
    BY NothingIsUsable
  <2>3. length \in Nat
    BY <1>2
  <2>4. \A r \in DoReplace(now, s, start, length, Nothing) : r.str[s].length <= Longest
          => Outcome(r, s, Unlocked(s, Spliced(Text(s), start, length, <<>>)))
    BY <2>2, <2>3, ReplacedIsOutcome
  <2> QED BY <1>1, <2>1, <2>4, GivesSound
<1>6. CASE SetTo(s)
  <2>1. PICK x \in Sources :
               /\ ~str[s].open
               /\ Gives(s, DoReplace(UnBogus(now, s), s, 0, str[s].length, x.src), x.text)
    BY <1>6 DEF SetTo
  <2>2. Usable(now, s, x.src) /\ SourceChars(now, x.src) = x.text
    BY SourcesAreUsable
  <2>3. \A r \in DoReplace(UnBogus(now, s), s, 0, str[s].length, x.src) :
          r.str[s].length <= Longest => Outcome(r, s, x.text)
    BY <2>1, <2>2, SetToIsOutcome
  <2> QED BY <1>1, <2>1, <2>3, GivesSound
<1> QED BY <1>3, <1>4, <1>5, <1>6

-----------------------------------------------------------------------------
(* One unit of a text is written, or one behind its end.                   *)
OneUnit(v, w, i, c) ==
  \/ i <= Len(v) /\ w = [v EXCEPT ![i] = c]
  \/ i = Len(v) + 1 /\ w = Append(v, c)

(* One unit is written over the text, or right behind it.                 *)
LEMMA UnitIsWritten ==
  ASSUME NEW m, m \in Memory, NEW p \in Place, NEW start \in Nat, NEW n \in Nat, NEW i \in 1 .. n + 1,
         NEW c \in Unit, NEW l \in Nat, l = (IF i <= n THEN n ELSE n + 1),
         start + l <= Len(m.mem[p].units)
  PROVE  OneUnit(Read(m, p, start, n), Read(Written(m, p, start + i - 1, <<c>>), p, start, l), i, c)
<1> DEFINE q == start + i - 1
           u == <<c>>
           x == Written(m, p, q, u)
           v == Read(m, p, start, n)
           w == Read(x, p, start, l)
           old == m.mem[p].units
           new == x.mem[p].units
<1>1. q \in Int /\ u \in Seq(Cell) /\ Len(u) = 1 /\ u[1] = c /\ c \in Cell
  <2>1. c \in Cell
    BY UnitsAssumption DEF Cell
  <2> QED BY <2>1
<1>2. /\ x \in Memory /\ Len(new) = Len(old)
      /\ \A k \in 1 .. Len(old) : new[k] = IF k - q \in 1 .. Len(u) THEN u[k - q] ELSE old[k]
  <2> HIDE DEF q, u
  <2> QED BY <1>1, WrittenFrame, ZenonT(30)
<1>3. old \in Seq(Cell) /\ Len(old) \in Nat
  BY DEF Memory
<1> HIDE DEF x, u, q
<1>4. \A k \in 1 .. l : new[start + k] = IF k = i THEN c ELSE old[start + k]
  <2> SUFFICES ASSUME NEW k \in 1 .. l
               PROVE  new[start + k] = IF k = i THEN c ELSE old[start + k]
    OBVIOUS
  <2> HIDE DEF old, new
  <2>1. start + k \in 1 .. Len(old)
    BY <1>3 DEF old
  <2>2. (start + k) - q = k - i + 1
    BY DEF q
  <2>3. CASE k = i
    <3>1. (start + k) - q = 1
      BY <2>2, <2>3
    <3> QED BY <1>1, <1>2, <2>1, <2>3, <3>1
  <2>4. CASE k # i
    <3>1. (start + k) - q \notin 1 .. Len(u)
      BY <1>1, <2>2, <2>4
    <3> QED BY <1>2, <2>1, <2>4, <3>1
  <2> QED BY <2>3, <2>4
<1>5. v \in Seq(Cell) /\ Len(v) = n
  BY ReadIsText
<1>6. w \in Seq(Cell) /\ Len(w) = l
  BY <1>2, ReadIsText
<1>7. \A k \in 1 .. n : v[k] = old[start + k]
  <2>1. start + n <= Len(old)
    BY <1>3
  <2> QED BY <1>3, <2>1, ReadIs
<1>8. \A k \in 1 .. l : w[k] = new[start + k]
  <2>1. new \in Seq(Cell) /\ start + l <= Len(new)
    BY <1>2 DEF Memory
  <2> QED BY <2>1, ReadIs
<1> HIDE DEF v, w, old, new
<1>9. CASE i <= n
  <2> DEFINE e == [v EXCEPT ![i] = c]
  <2>1. e \in Seq(Cell) /\ Len(e) = n /\ \A k \in 1 .. n : e[k] = IF k = i THEN c ELSE v[k]
    <3>1. DOMAIN v = 1 .. n /\ v = [k \in 1 .. n |-> v[k]] /\ \A k \in 1 .. n : v[k] \in Cell
      BY <1>5
    <3>2. e = [k \in 1 .. n |-> IF k = i THEN c ELSE v[k]]
      BY <3>1
    <3> HIDE DEF e
    <3> QED BY <1>1, <3>1, <3>2
  <2> HIDE DEF e
  <2>2. l = n
    BY <1>9
  <2>3. \A k \in 1 .. n : w[k] = e[k]
    BY <1>4, <1>7, <1>8, <2>1, <2>2
  <2>4. w = e
    BY <1>6, <2>1, <2>2, <2>3, SameText
  <2> QED BY <1>5, <1>9, <2>4 DEF OneUnit, x, v, w, e, q, u
<1>10. CASE i = n + 1
  <2> DEFINE e == Append(v, c)
  <2>1. e \in Seq(Cell) /\ Len(e) = n + 1 /\ \A k \in 1 .. n + 1 : e[k] = IF k = i THEN c ELSE v[k]
    BY <1>1, <1>5, <1>10
  <2> HIDE DEF e
  <2>2. l = n + 1
    BY <1>10
  <2>3. \A k \in 1 .. l : w[k] = e[k]
    <3> SUFFICES ASSUME NEW k \in 1 .. l PROVE w[k] = e[k]
      OBVIOUS
    <3>1. k # i => k \in 1 .. n
      BY <1>10, <2>2
    <3>2. k \in 1 .. n + 1
      BY <2>2
    <3>3. w[k] = IF k = i THEN c ELSE old[start + k]
      BY <1>4, <1>8
    <3> QED BY <1>7, <2>1, <3>1, <3>2, <3>3
  <2>4. w = e
    BY <1>6, <2>1, <2>2, <2>3, SameText
  <2> QED BY <1>5, <1>10, <2>4 DEF OneUnit, x, v, w, e, q, u
<1> QED BY <1>9, <1>10

(* The string that writes a unit where its own text is, or its caller      *)
(* while the buffer is open.                                               *)
UnitPut(m, s, i, c) == Written(m, m.str[s].array, m.str[s].start + i - 1, <<c>>)

ReadOf(m, s, n) == Read(m, m.str[s].array, m.str[s].start, n)

(* The same for a string that owns its array.                             *)
LEMMA UnitIsPut ==
  ASSUME NEW m, NEW s \in String, Settled(m, s), Owns(m, s), Fits(m, s),
         NEW n \in Nat, NEW i \in 1 .. n + 1, NEW c \in Unit,
         NEW l \in Nat, l = (IF i <= n THEN n ELSE n + 1), l <= m.str[s].capacity
  PROVE  /\ Spares(m, UnitPut(m, s, i, c), s) /\ UnitPut(m, s, i, c).str = m.str
         /\ Fits(UnitPut(m, s, i, c), s) /\ Joins(UnitPut(m, s, i, c), s)
         /\ OneUnit(ReadOf(m, s, n), ReadOf(UnitPut(m, s, i, c), s, l), i, c)
         /\ ReadOf(m, s, n) \in Seq(Cell) /\ Len(ReadOf(m, s, n)) = n
         /\ ReadOf(UnitPut(m, s, i, c), s, l) \in Seq(Cell)
         /\ Len(ReadOf(UnitPut(m, s, i, c), s, l)) = l
<1> DEFINE f == m.str[s]
           p == f.array
           q == f.start + i - 1
           u == <<c>>
           r == Written(m, p, q, u)
<1>1. /\ m \in Memory /\ f \in FieldSet /\ Sane(f, s) /\ SaneBut(m, s) /\ ~IsBogus(m, s)
  BY DEF Settled, Working, Memory, Owns, IsBogus
<1>2. f.start \in Nat /\ f.capacity \in Int /\ f.start + f.capacity <= Len(m.mem[p].units)
  <2>1. f.start >= 0 /\ f.start + f.capacity <= Len(m.mem[p].units)
    BY DEF Owns, Area
  <2> QED BY <1>1, <2>1 DEF FieldSet
<1>3. q \in Int /\ u \in Seq(Cell)
  BY <1>2, UnitsAreCells
<1> HIDE DEF q, u
<1>4. Spares(m, r, s) /\ Owns(r, s) /\ r.str = m.str /\ p \in Place
  BY <1>1, <1>3, OwnerSpares
<1>5. r \in Memory
  BY <1>1, <1>3, <1>4, WrittenFrame
<1>6. r = UnitPut(m, s, i, c)
  BY DEF UnitPut, q, u
<1>7. f.start + l <= Len(m.mem[p].units)
  <2>1. Len(m.mem[p].units) \in Nat
    BY <1>1, <1>4 DEF Memory
  <2> DEFINE all == Len(m.mem[p].units)
             capacity == f.capacity
             start == f.start
  <2>2. all \in Nat /\ start \in Nat /\ capacity \in Int /\ start + capacity <= all
    BY <1>2, <2>1
  <2>3. l <= capacity
    OBVIOUS
  <2> HIDE DEF all, capacity, start
  <2>4. start + l <= all
    BY <2>2, <2>3
  <2> QED BY <2>4 DEF all, start
<1>8. OneUnit(Read(m, p, f.start, n), Read(r, p, f.start, l), i, c)
  <2> DEFINE start == f.start
  <2>1. start \in Nat /\ start + l <= Len(m.mem[p].units)
    BY <1>2, <1>7
  <2> HIDE DEF start, p, f
  <2>2. OneUnit(Read(m, p, start, n), Read(Written(m, p, start + i - 1, <<c>>), p, start, l), i, c)
    BY <1>1, <1>4, <2>1, UnitIsWritten
  <2> QED BY <2>2 DEF start, q, u
<1>9. /\ Read(m, p, f.start, n) \in Seq(Cell) /\ Len(Read(m, p, f.start, n)) = n
      /\ Read(r, p, f.start, l) \in Seq(Cell) /\ Len(Read(r, p, f.start, l)) = l
  BY <1>1, <1>2, <1>4, <1>5, ReadIsText
<1> HIDE DEF r
<1>10. Fits(r, s)
  BY <1>4 DEF Fits, Owns
<1>11. Joins(r, s)
  BY <1>4 DEF Owns, Alone, Joins, Compatible
<1>12. ReadOf(m, s, n) = Read(m, p, f.start, n) /\ ReadOf(r, s, l) = Read(r, p, f.start, l)
  BY <1>4 DEF ReadOf
<1> HIDE DEF f, p
<1> QED BY <1>4, <1>6, <1>8, <1>9, <1>10, <1>11, <1>12

(* setCharAt() clones an array that is shared first.                       *)
LEMMA CharSetIsOutcome ==
  ASSUME Sound, NEW s \in String, NEW i \in 1 .. str[s].length, NEW c \in Unit,
         NEW m \in Clone(now, s, str[s].capacity, str[s].capacity, TRUE, TRUE)
  PROVE  Outcome(IF IsBogus(m, s) THEN m ELSE UnitPut(m, s, i, c), s, [Text(s) EXCEPT ![i] = c])
<1> DEFINE n == str[s].length
           cap == str[s].capacity
           text == [Text(s) EXCEPT ![i] = c]
<1>1. Ready(now, s) /\ Text(s) \in Seq(Cell) /\ str[s] \in FieldSet /\ now.str[s] = str[s]
      /\ (~IsBogus(now, s) => Text(s) = Chars(now, s) /\ Len(Text(s)) = str[s].length)
  BY SoundIsReady DEF now
<1>2. n \in Nat /\ cap \in Int /\ n <= cap /\ n > 0
  <2>1. n \in Int /\ cap \in Int
    BY <1>1 DEF FieldSet
  <2>2. n >= 0 /\ n <= cap
    BY <1>1 DEF Ready, Fits
  <2> QED BY <2>1, <2>2
<1>3. IsWritable(now, s)
  <2>1. ~str[s].open
    BY <1>1, <1>2 DEF Ready, Fits
  <2>2. ~IsBogus(now, s)
    <3>1. IsBogus(now, s) => str[s] = BogusFields
      BY <1>1 DEF Ready, Left, Settled, Sane, IsBogus
    <3> QED BY <1>2, <3>1 DEF BogusFields, Fields
  <2> QED BY <1>1, <2>1, <2>2 DEF IsWritable
<1>4. text \in Seq(Cell) /\ Text(s) = Chars(now, s) /\ Len(Text(s)) = n
  <2>1. Text(s) = Chars(now, s) /\ Len(Text(s)) = n
    BY <1>1, <1>3 DEF IsWritable
  <2>2. c \in Cell
    BY UnitsAssumption DEF Cell
  <2> QED BY <1>1, <2>1, <2>2
<1> HIDE DEF cap
<1>5. m \in Clone(now, s, cap, cap, TRUE, TRUE)
  BY DEF cap
<1>6. Spares(now, m, s) /\ Left(m, s) /\ (IsBogus(m, s) \/ Copied(now, m, s, cap, cap))
  BY <1>1, <1>2, <1>3, <1>5, CloneCopies
<1>7. CASE IsBogus(m, s)
  <2>1. Made(now, m, s, text)
    BY <1>6, <1>7, BogusIsMade DEF Left
  <2> HIDE DEF text
  <2>2. Outcome(m, s, text)
    BY <1>4, <2>1, MadeIsOutcome
  <2> QED BY <1>7, <2>2 DEF text
<1>8. CASE ~IsBogus(m, s)
  <2> DEFINE r == UnitPut(m, s, i, c)
  <2>1. Copied(now, m, s, cap, cap) /\ Enough(cap, cap)
    BY <1>2, <1>6, <1>8 DEF Enough
  <2>2. /\ Writes(m, s) /\ m.str[s].capacity >= cap /\ m.str[s].length <= m.str[s].capacity
        /\ n <= m.str[s].capacity => m.str[s].length = n
        /\ Chars(m, s) = Read(now, str[s].array, str[s].start, m.str[s].length)
    BY <1>1, <2>1 DEF Copied
  <2>3. m.str[s] \in FieldSet /\ m.str[s].capacity \in Int /\ Settled(m, s)
    BY <1>6 DEF Left, Settled, Working, Memory, FieldSet
  <2>4. m.str[s].length = n /\ n <= m.str[s].capacity
    BY <1>2, <2>2, <2>3
  <2>5. Chars(m, s) = Text(s)
    BY <1>1, <1>4, <2>2, <2>4 DEF Chars
  <2>6. Owns(m, s) /\ ~m.str[s].open
    BY <2>2 DEF Writes, Owns
  <2>7. Fits(m, s)
    BY <1>2, <2>4, <2>6 DEF Owns, Area, Fits
  <2> HIDE DEF n
  <2>8. i \in 1 .. n + 1 /\ i <= n
    <3>1. i \in 1 .. n
      BY DEF n
    <3> QED BY <1>2, <3>1
  <2> HIDE DEF text
  <2>9. Spares(m, r, s) /\ r.str = m.str /\ Fits(r, s) /\ Joins(r, s)
        /\ OneUnit(ReadOf(m, s, n), ReadOf(r, s, n), i, c)
        /\ Len(ReadOf(m, s, n)) = n
    BY <1>2, <2>3, <2>4, <2>6, <2>7, <2>8, UnitIsPut, SMTT(20)
  <2> HIDE DEF r
  <2>10. ReadOf(m, s, n) = Text(s) /\ ReadOf(r, s, n) = Chars(r, s)
    BY <2>4, <2>5, <2>9 DEF ReadOf, Chars
  <2>11. Chars(r, s) = text
    BY <1>2, <2>8, <2>9, <2>10 DEF OneUnit, text
  <2>12. Made(now, r, s, text)
    <3>1. Made(m, r, s, text)
      BY <2>6, <2>9, <2>11 DEF Made
    <3> QED BY <1>6, <3>1, MadeAgain
  <2> HIDE DEF text
  <2>13. Outcome(r, s, text)
    BY <1>4, <2>12, MadeIsOutcome
  <2> QED BY <1>8, <2>13 DEF text, r
<1> QED BY <1>7, <1>8

(* While the buffer is open, nobody else has it.                           *)
LEMMA OpenIsAlone ==
  ASSUME NEW m, NEW s \in String, Ready(m, s), m.str[s].open
  PROVE  Owns(m, s) /\ ~IsBogus(m, s)
<1>1. Fits(m, s) /\ Joins(m, s)
  BY DEF Ready
<1>2. m.str[s].storage \in {"short", "long", "writable"} /\ m.str[s].storage # "bogus"
  BY <1>1 DEF Fits
<1>3. Area(m, s)
  BY <1>1, <1>2 DEF Fits
<1>4. Alone(m, s)
  BY <1>1, <1>2 DEF Joins, Compatible, Alone
<1> QED BY <1>2, <1>3, <1>4 DEF Owns, IsBogus

(* A string that has become bogus is a possible outcome of any call.      *)
LEMMA BogusIsOutcome ==
  ASSUME NEW s \in String, NEW r, Settled(r, s), IsBogus(r, s), Spares(now, r, s), NEW text
  PROVE  Outcome(r, s, text)
<1>1. Made(now, r, s, <<>>)
  BY BogusIsMade
<1> QED BY <1>1, BogusIsText DEF Outcome, Finished, Made, Holds

(* The caller writes to the open buffer.                                   *)
LEMMA UnitIsOutcome ==
  ASSUME Sound, NEW s \in String, str[s].open, NEW i \in 1 .. Len(value[s]) + 1,
         i <= str[s].capacity, NEW c \in Unit
  PROVE  Outcome(UnitPut(now, s, i, c), s,
                 IF i > Len(value[s]) THEN Append(value[s], c) ELSE [value[s] EXCEPT ![i] = c])
<1> DEFINE v == value[s]
           n == Len(v)
           l == IF i <= n THEN n ELSE n + 1
           r == UnitPut(now, s, i, c)
           text == IF i > n THEN Append(v, c) ELSE [v EXCEPT ![i] = c]
<1>1. Ready(now, s) /\ v \in Seq(Cell) /\ Holds(now, s, v) /\ now.str[s] = str[s]
      /\ str[s] \in FieldSet
  BY SoundIsReady DEF now
<1>2. Owns(now, s) /\ ~IsBogus(now, s) /\ Settled(now, s) /\ Fits(now, s)
  BY <1>1, OpenIsAlone DEF Ready, Left
<1>3. v = Read(now, str[s].array, str[s].start, Len(v)) /\ Len(v) <= str[s].capacity
  BY <1>1, <1>2 DEF Holds
<1>4. n \in Nat /\ l \in Nat /\ str[s].capacity \in Int
  BY <1>1 DEF FieldSet
<1>5. l <= str[s].capacity
  BY <1>3, <1>4
<1>6. v = ReadOf(now, s, n)
  BY <1>1, <1>3 DEF ReadOf
<1> HIDE DEF v
<1>7. i \in 1 .. n + 1
  BY DEF v
<1> HIDE DEF n
<1>8. l = (IF i <= n THEN n ELSE n + 1) /\ l <= now.str[s].capacity
  BY <1>1, <1>5
<1> HIDE DEF l
<1>9. /\ Spares(now, r, s) /\ r.str = now.str /\ Fits(r, s) /\ Joins(r, s)
      /\ OneUnit(ReadOf(now, s, n), ReadOf(r, s, l), i, c)
      /\ ReadOf(r, s, l) \in Seq(Cell) /\ Len(ReadOf(r, s, l)) = l
  BY <1>2, <1>4, <1>7, <1>8, UnitIsPut, SMTT(20)
<1> HIDE DEF r
<1>10. ReadOf(r, s, l) = text
  <2>1. OneUnit(v, ReadOf(r, s, l), i, c) /\ Len(v) = n
    BY <1>6, <1>9 DEF n
  <2>2. i <= n => ~(i > n)
    BY <1>4, <1>7
  <2>3. i = n + 1 => i > n
    BY <1>4, <1>7
  <2> QED BY <2>1, <2>2, <2>3 DEF OneUnit
<1> HIDE DEF text
<1>11. ~IsBogus(r, s) /\ r.str[s].open /\ r.str[s].capacity = str[s].capacity
  BY <1>1, <1>2, <1>9 DEF IsBogus
<1>12. Holds(r, s, text)
  <2>1. text = Read(r, r.str[s].array, r.str[s].start, Len(text))
    BY <1>9, <1>10 DEF ReadOf
  <2>2. Len(text) <= r.str[s].capacity
    BY <1>5, <1>9, <1>10, <1>11
  <2> QED BY <1>11, <2>1, <2>2 DEF Holds
<1>13. Outcome(r, s, text)
  BY <1>9, <1>10, <1>11, <1>12 DEF Outcome, Finished
<1> QED BY <1>13 DEF r, text, n, v

(* A smaller length.                                                       *)
LEMMA ShortenedFits ==
  ASSUME NEW m, NEW s \in String, Ready(m, s), ~IsBogus(m, s),
         NEW n \in Nat, n <= m.str[s].length
  PROVE  /\ Spares(m, Resized(m, s, n), s) /\ Resized(m, s, n).mem = m.mem
         /\ Fits(Resized(m, s, n), s) /\ Joins(Resized(m, s, n), s)
         /\ Resized(m, s, n).str[s].storage = m.str[s].storage
         /\ Resized(m, s, n).str[s].array = m.str[s].array
         /\ Resized(m, s, n).str[s].start = m.str[s].start
         /\ Resized(m, s, n).str[s].open = m.str[s].open
         /\ Resized(m, s, n).str[s].capacity = m.str[s].capacity
         /\ Resized(m, s, n).str[s].length = n
<1> DEFINE x == Resized(m, s, n)
           f == m.str[s]
<1>1. /\ m \in Memory /\ Working(m, s, Held(m, s)) /\ f \in FieldSet /\ Settled(m, s)
      /\ Fits(m, s) /\ Joins(m, s) /\ f.storage # "bogus"
  BY DEF Ready, Left, Settled, Working, Memory, IsBogus
<1>2. Spares(m, x, s) /\ x.mem = m.mem
  BY <1>1, ResizedSpares
<1>3. x.str[s] = [f EXCEPT !.length = n]
  BY <1>1, ResizedWorks
<1> HIDE DEF x
<1>4. /\ x.str[s].storage = f.storage /\ x.str[s].array = f.array
      /\ x.str[s].open = f.open /\ x.str[s].start = f.start
      /\ x.str[s].capacity = f.capacity /\ x.str[s].length = n
  BY <1>1, <1>3 DEF FieldSet
<1>5. Joins(x, s)
  <2> SUFFICES ASSUME NEW t \in String \ {s} PROVE Compatible(x.str[s], x.str[t])
    BY DEF Joins
  <2>1. x.str[t] = m.str[t] /\ Compatible(m.str[s], m.str[t])
    BY <1>1, <1>2 DEF Spares, Joins
  <2> QED BY <1>4, <2>1 DEF Compatible
<1>6. Area(m, s) /\ f.length \in Int /\ f.capacity \in Int /\ f.length <= f.capacity
      /\ (f.open => f.length = 0 /\ f.storage \in {"short", "long", "writable"}) /\ f.start >= 0
  BY <1>1 DEF Fits, FieldSet
<1>7. Area(x, s)
  BY <1>2, <1>4, <1>6 DEF Area
<1>8. n >= 0 /\ n <= f.capacity /\ (f.open => n = 0)
  BY <1>6
<1>9. Fits(x, s)
  BY <1>4, <1>6, <1>7, <1>8 DEF Fits
<1> QED BY <1>2, <1>4, <1>5, <1>9 DEF x

(* truncate().                                                             *)
LEMMA ShortenedMakes ==
  ASSUME NEW m, NEW s \in String, Ready(m, s), IsWritable(m, s),
         NEW n \in Nat, n <= m.str[s].length
  PROVE  Made(m, Resized(m, s, n), s, SubSeq(Chars(m, s), 1, n))
<1> DEFINE x == Resized(m, s, n)
           p == m.str[s].array
           i == m.str[s].start
           l == m.str[s].length
           zero == 0
<1>1. ~IsBogus(m, s) /\ ~m.str[s].open /\ m.str[s] \in FieldSet
  BY DEF IsWritable, Ready, Left, Settled, Working, Memory
<1>2. /\ Spares(m, x, s) /\ x.mem = m.mem /\ Fits(x, s) /\ Joins(x, s)
      /\ x.str[s].array = p /\ x.str[s].start = i /\ x.str[s].length = n
      /\ x.str[s].open = m.str[s].open
  BY <1>1, ShortenedFits
<1> HIDE DEF x
<1>3. Chars(x, s) = Read(m, p, i, n)
  BY <1>2 DEF Chars, Read
<1>4. i \in Int /\ l \in Nat /\ zero \in Nat /\ zero <= n /\ n <= l
  BY <1>1 DEF FieldSet
<1>5. Chars(m, s) = Read(m, p, i, l)
  BY DEF Chars
<1> HIDE DEF p, i, l
<1> HIDE DEF zero
<1>6. Parted(m, p, i, l, zero, n)
  BY <1>4, PartIsRead
<1>7. SubSeq(Read(m, p, i, l), 1, n) = Read(m, p, i, n)
  <2>1. zero + 1 = 1 /\ i + zero = i /\ n - zero = n
    BY <1>4 DEF zero
  <2> QED BY <1>6, <2>1 DEF Parted
<1>8. Chars(x, s) = SubSeq(Chars(m, s), 1, n)
  BY <1>3, <1>5, <1>7
<1>9. Made(m, x, s, SubSeq(Chars(m, s), 1, n))
  BY <1>1, <1>2, <1>8 DEF Made
<1> QED BY <1>9 DEF x

(* A step with one known outcome.                                          *)
LEMMA BecomesSound ==
  ASSUME Sound, NEW s \in String, NEW r, NEW text, Becomes(r),
         value' = [value EXCEPT ![s] = text], Accounted(now)', Finished(now, r, s, text)
  PROVE  Sound'
<1>1. now'.str = r.str /\ now'.mem = r.mem
  BY DEF Becomes, now
<1>2. Rest(r, value')
  BY OthersHold DEF Sound
<1>3. Rest(now', value')
  BY <1>1, <1>2, SameMemoryRests
<1> QED BY <1>3 DEF Sound

(* remove() empties a string, also one that is bogus, but no open one.     *)
LEMMA EmptiedIsFinished ==
  ASSUME Sound, NEW s \in String
  PROVE  Finished(now, Resized(UnBogus(now, s), s, 0), s, IF str[s].open THEN value[s] ELSE <<>>)
<1> DEFINE m == UnBogus(now, s)
           zero == 0
           r == Resized(m, s, zero)
<1>1. /\ Ready(now, s) /\ value[s] \in Seq(Cell) /\ Holds(now, s, value[s])
      /\ now.str[s] = str[s]
  BY SoundIsReady DEF now
<1>2. /\ Ready(m, s) /\ ~IsBogus(m, s) /\ Spares(now, m, s) /\ m.str[s].open = str[s].open
      /\ (~IsBogus(now, s) => m = now)
  BY <1>1, UnBogusMakes
<1> HIDE DEF m
<1>3. zero \in Nat /\ zero <= m.str[s].length
  BY <1>2 DEF Ready, Fits
<1> HIDE DEF zero
<1>4. /\ Spares(m, r, s) /\ r.mem = m.mem /\ Fits(r, s) /\ Joins(r, s)
      /\ r.str[s].storage = m.str[s].storage /\ r.str[s].array = m.str[s].array
      /\ r.str[s].start = m.str[s].start /\ r.str[s].open = m.str[s].open
      /\ r.str[s].capacity = m.str[s].capacity /\ r.str[s].length = zero
  BY <1>2, <1>3, ShortenedFits
<1>5. r = Resized(UnBogus(now, s), s, 0)
  BY DEF m, zero
<1> HIDE DEF r
<1>6. ~IsBogus(r, s)
  BY <1>2, <1>4 DEF IsBogus
<1>7. Spares(now, r, s)
  BY <1>2, <1>4, SparesAgain
<1>8. CASE str[s].open
  <2>1. ~IsBogus(now, s) /\ m = now
    BY <1>1, <1>2, <1>8, OpenIsAlone
  <2>2. Holds(r, s, value[s])
    <3>1. value[s] = Read(now, str[s].array, str[s].start, Len(value[s]))
          /\ Len(value[s]) <= str[s].capacity
      BY <1>1, <1>8, <2>1 DEF Holds
    <3>2. value[s] = Read(r, r.str[s].array, r.str[s].start, Len(value[s]))
      <4>1. /\ r.str[s].array = str[s].array /\ r.str[s].start = str[s].start
            /\ r.mem = now.mem
        BY <1>1, <1>4, <2>1
      <4> QED BY <3>1, <4>1 DEF Read
    <3> QED BY <1>1, <1>4, <1>6, <1>8, <2>1, <3>1, <3>2 DEF Holds
  <2>3. Finished(now, r, s, value[s])
    BY <1>1, <1>4, <1>7, <2>2 DEF Finished
  <2> QED BY <1>5, <1>8, <2>3
<1>9. CASE ~str[s].open
  <2>1. Read(r, r.str[s].array, r.str[s].start, r.str[s].length) = <<>>
    BY <1>4, ReadOfNone DEF zero
  <2>2. Holds(r, s, <<>>)
    BY <1>2, <1>4, <1>6, <1>9, <2>1 DEF Holds
  <2>3. Finished(now, r, s, <<>>)
    BY <1>4, <1>7, <2>2 DEF Finished
  <2> QED BY <1>5, <1>9, <2>3
<1> QED BY <1>8, <1>9

(* remove() and truncate().                                               *)
LEMMA TruncateSound ==
  ASSUME Sound, NoneIsTooLong', NEW s \in String, Truncate(s)
  PROVE  Sound'
<1>1. Accounted(now)'
  BY BufferCallsAccounted DEF Sound
<1>2. CASE /\ Becomes(Resized(UnBogus(now, s), s, 0))
           /\ value' = [value EXCEPT ![s] = IF str[s].open THEN @ ELSE <<>>]
  <2> DEFINE text == IF str[s].open THEN value[s] ELSE <<>>
             r == Resized(UnBogus(now, s), s, 0)
  <2>1. Finished(now, r, s, text)
    BY EmptiedIsFinished
  <2>2. value' = [value EXCEPT ![s] = text] /\ Becomes(r)
    BY <1>2
  <2> HIDE DEF text, r
  <2> QED BY <1>1, <2>1, <2>2, BecomesSound
<1>3. CASE \E n \in 1 .. str[s].length - 1 :
             Gives(s, {Resized(now, s, n)}, SubSeq(Text(s), 1, n))
  <2>1. PICK n \in 1 .. str[s].length - 1 :
               Gives(s, {Resized(now, s, n)}, SubSeq(Text(s), 1, n))
    BY <1>3
  <2>2. /\ Ready(now, s) /\ Text(s) \in Seq(Cell) /\ str[s] \in FieldSet /\ now.str[s] = str[s]
        /\ ~IsBogus(now, s) => Text(s) = Chars(now, s) /\ Len(Text(s)) = str[s].length
    BY SoundIsReady DEF now
  <2>3. str[s].length \in Int /\ str[s].length > 0 /\ n \in Nat /\ n <= str[s].length
    <3>1. str[s].length \in Int
      BY <2>2 DEF FieldSet
    <3> QED BY <3>1
  <2>4. IsWritable(now, s)
    <3>1. ~str[s].open
      BY <2>2, <2>3 DEF Ready, Fits
    <3>2. IsBogus(now, s) => str[s] = BogusFields
      BY <2>2 DEF Ready, Left, Settled, Sane, IsBogus
    <3> QED BY <2>2, <2>3, <3>1, <3>2 DEF IsWritable, BogusFields, Fields
  <2> DEFINE r == Resized(now, s, n)
             text == SubSeq(Text(s), 1, n)
  <2>5. Text(s) = Chars(now, s) /\ Len(Text(s)) = str[s].length
    BY <2>2, <2>4 DEF IsWritable
  <2>6. Made(now, r, s, text)
    <3>1. n <= now.str[s].length
      BY <2>2, <2>3
    <3> QED BY <2>2, <2>3, <2>4, <2>5, <3>1, ShortenedMakes
  <2>7. text \in Seq(Cell)
    BY <2>2, <2>3, <2>5
  <2> HIDE DEF r, text
  <2>8. Outcome(r, s, text)
    BY <2>6, <2>7, MadeIsOutcome
  <2>9. Gives(s, {r}, text)
    BY <2>1 DEF r, text
  <2> QED BY <1>1, <2>8, <2>9, GivesSound
<1> QED BY <1>2, <1>3 DEF Truncate

(* releaseBuffer() and getBuffer() change the fields alone.                *)
LEMMA OpenFieldsAre ==
  ASSUME NEW f \in FieldSet, NEW open \in BOOLEAN, NEW n \in Int
  PROVE  /\ OpenFields(f, open, n) \in FieldSet
         /\ OpenFields(f, open, n).storage = f.storage
         /\ OpenFields(f, open, n).array = f.array
         /\ OpenFields(f, open, n).start = f.start
         /\ OpenFields(f, open, n).capacity = f.capacity
         /\ OpenFields(f, open, n).open = open
         /\ OpenFields(f, open, n).length = n
<1> DEFINE g == OpenFields(f, open, n)
<1>1. g = [f EXCEPT !.open = open, !.length = n]
  BY DEF OpenFields
<1> HIDE DEF g
<1>2. /\ g \in FieldSet /\ g.storage = f.storage /\ g.array = f.array /\ g.start = f.start
      /\ g.capacity = f.capacity /\ g.open = open /\ g.length = n
  BY <1>1 DEF FieldSet
<1> QED BY <1>2 DEF g

Opened(m, x, s, open, n) ==
  /\ Spares(m, x, s) /\ x.mem = m.mem /\ Fits(x, s) /\ Joins(x, s) /\ ~IsBogus(x, s)
  /\ x.str[s].array = m.str[s].array /\ x.str[s].start = m.str[s].start
  /\ x.str[s].open = open /\ x.str[s].length = n
  /\ x.str[s].capacity = m.str[s].capacity

(* An open buffer has no text.                                            *)
LEMMA OpenedFits ==
  ASSUME NEW m, NEW s \in String, Settled(m, s), Owns(m, s), NEW open \in BOOLEAN,
         NEW n \in Nat, n <= m.str[s].capacity, open => n = 0
  PROVE  Opened(m, PutFields(m, s, OpenFields(m.str[s], open, n)), s, open, n)
<1> DEFINE f == m.str[s]
           g == OpenFields(f, open, n)
           x == PutFields(m, s, g)
<1>1. m \in Memory /\ f \in FieldSet /\ Working(m, s, Held(m, s))
  BY DEF Settled, Working, Memory
<1>2. /\ g \in FieldSet /\ g.storage = f.storage /\ g.array = f.array /\ g.start = f.start
      /\ g.capacity = f.capacity /\ g.open = open /\ g.length = n
  BY <1>1, OpenFieldsAre
<1> HIDE DEF g
<1>3. Spares(m, x, s) /\ x.mem = m.mem /\ x.str[s] = g
  BY <1>1, <1>2, FieldsPutSpare, FieldsArePut
<1>4. x = PutFields(m, s, OpenFields(m.str[s], open, n))
  BY DEF g
<1> HIDE DEF x
<1>5. /\ f.storage \in {"short", "long", "writable"} /\ f.storage # "bogus" /\ f.start >= 0
      /\ f.capacity >= 0 /\ f.start + f.capacity <= Len(m.mem[f.array].units)
  BY DEF Owns, Area
<1>6. Area(x, s)
  BY <1>2, <1>3, <1>5 DEF Area
<1>7. Fits(x, s)
  BY <1>2, <1>3, <1>5, <1>6 DEF Fits
<1>8. Joins(x, s)
  BY <1>2, <1>3 DEF Joins, Compatible, Owns, Alone, Spares
<1>9. ~IsBogus(x, s)
  BY <1>2, <1>3, <1>5 DEF IsBogus
<1>10. Opened(m, x, s, open, n)
  BY <1>2, <1>3, <1>7, <1>8, <1>9 DEF Opened
<1> QED BY <1>4, <1>10

(* The length may be any that fits.                                        *)
Lengthened(m, x, s, n) ==
  /\ Spares(m, x, s) /\ Settled(x, s) /\ Owns(x, s) /\ x.mem = m.mem
  /\ x.str[s].array = m.str[s].array /\ x.str[s].start = m.str[s].start
  /\ x.str[s].capacity = m.str[s].capacity /\ x.str[s].length = n

(* A length says nothing of who owns an array.                            *)
LEMMA ResizedOwns ==
  ASSUME NEW m, NEW s \in String, Settled(m, s), Owns(m, s), NEW n \in Int
  PROVE  Lengthened(m, Resized(m, s, n), s, n)
<1> DEFINE x == Resized(m, s, n)
           f == m.str[s]
<1>1. m \in Memory /\ Working(m, s, Held(m, s)) /\ f \in FieldSet /\ ~IsBogus(m, s)
  BY DEF Settled, Working, Memory, Owns, IsBogus
<1>2. Spares(m, x, s) /\ x.mem = m.mem
  BY <1>1, ResizedSpares
<1>3. Settled(x, s) /\ x.str[s] = [f EXCEPT !.length = n]
  BY <1>1, ResizedSettles
<1> HIDE DEF x
<1>4. /\ x.str[s].storage = f.storage /\ x.str[s].array = f.array
      /\ x.str[s].start = f.start /\ x.str[s].capacity = f.capacity /\ x.str[s].length = n
  BY <1>1, <1>3 DEF FieldSet
<1>5. Area(x, s) /\ Alone(x, s)
  BY <1>2, <1>4 DEF Owns, Alone, Area, Spares
<1>6. Owns(x, s)
  BY <1>4, <1>5 DEF Owns
<1>7. Lengthened(m, x, s, n)
  BY <1>2, <1>3, <1>4, <1>6 DEF Lengthened
<1> QED BY <1>7 DEF x

(* releaseBuffer() makes what the caller has written the text.             *)
LEMMA ReleasedIsOutcome ==
  ASSUME Sound, NEW s \in String, str[s].open, NEW n \in 0 .. Len(value[s])
  PROVE  /\ Min({n, str[s].capacity}) = n /\ n \in Int
         /\ Resized(now, s, n).str[s].length = n
         /\ Outcome(PutFields(Resized(now, s, n), s,
                              OpenFields(Resized(now, s, n).str[s], FALSE, n)),
                    s, SubSeq(value[s], 1, n))
<1> DEFINE v == value[s]
           l == Len(v)
           p == str[s].array
           i == str[s].start
           no == FALSE
           zero == 0
           x == Resized(now, s, n)
           r == PutFields(x, s, OpenFields(x.str[s], no, n))
           text == SubSeq(v, 1, n)
<1>1. /\ Ready(now, s) /\ v \in Seq(Cell) /\ Holds(now, s, v) /\ now.str[s] = str[s]
      /\ str[s] \in FieldSet
  BY SoundIsReady DEF now
<1>2. Owns(now, s) /\ ~IsBogus(now, s) /\ Settled(now, s)
  BY <1>1, OpenIsAlone DEF Ready, Left
<1>3. v = Read(now, p, i, l) /\ l <= str[s].capacity
  BY <1>1, <1>2 DEF Holds
<1>4. n \in Nat /\ n <= l /\ l \in Nat /\ str[s].capacity \in Int /\ i \in Int
      /\ n <= str[s].capacity
  <2>1. l \in Nat /\ str[s].capacity \in Int /\ i \in Int
    BY <1>1 DEF FieldSet
  <2> QED BY <1>3, <2>1
<1>5. Min({n, str[s].capacity}) = n
  BY <1>4, MinOfTwo
<1>7. r = PutFields(x, s, OpenFields(x.str[s], FALSE, n))
  OBVIOUS
<1> HIDE DEF x
<1>19. Lengthened(now, x, s, n)
  BY <1>2, <1>4, ResizedOwns DEF x
<1>20. /\ Spares(now, x, s) /\ Settled(x, s) /\ Owns(x, s) /\ x.mem = now.mem
       /\ x.str[s].array = now.str[s].array /\ x.str[s].start = now.str[s].start
       /\ x.str[s].capacity = now.str[s].capacity /\ x.str[s].length = n
  BY <1>19 DEF Lengthened
<1>6. no \in BOOLEAN /\ ~no /\ (no => n = 0) /\ n <= x.str[s].capacity
  BY <1>1, <1>4, <1>20
<1> HIDE DEF no
<1>21. Opened(x, r, s, no, n)
  BY <1>4, <1>6, <1>20, OpenedFits
<1> HIDE DEF r
<1>22. Spares(now, r, s)
  BY <1>20, <1>21, SparesAgain DEF Opened
<1>8. /\ Spares(now, r, s) /\ r.mem = now.mem /\ Fits(r, s) /\ Joins(r, s) /\ ~IsBogus(r, s)
      /\ r.str[s].array = now.str[s].array /\ r.str[s].start = now.str[s].start
      /\ r.str[s].open = no /\ r.str[s].length = n
  BY <1>20, <1>21, <1>22 DEF Opened
<1>9. zero \in Nat /\ zero <= n
  BY <1>4
<1>10. text \in Seq(Cell)
  BY <1>1, <1>4
<1> HIDE DEF v, l, zero
<1>11. Parted(now, p, i, l, zero, n)
  BY <1>4, <1>9, PartIsRead
<1>12. text = Read(now, p, i, n)
  <2>1. zero + 1 = 1 /\ i + zero = i /\ n - zero = n
    BY <1>4 DEF zero
  <2> QED BY <1>3, <1>11, <2>1 DEF Parted
<1>13. Chars(r, s) = text
  BY <1>1, <1>8, <1>12 DEF Chars, Read
<1>14. Made(now, r, s, text)
  BY <1>6, <1>8, <1>13 DEF Made
<1> HIDE DEF text
<1>15. Outcome(r, s, text)
  BY <1>10, <1>14, MadeIsOutcome
<1>16. Outcome(r, s, SubSeq(value[s], 1, n))
  BY <1>15 DEF text, v
<1>17. n \in Int
  BY <1>4
<1>18. Outcome(PutFields(x, s, OpenFields(x.str[s], FALSE, n)), s, SubSeq(value[s], 1, n))
  BY <1>7, <1>16, Zenon
<1> QED BY <1>5, <1>17, <1>18, <1>20, Zenon DEF x

(* The beginning of a text is a text.                                     *)
LEMMA BeginningIsText ==
  ASSUME NEW u \in Seq(Cell), NEW k \in Nat, k <= Len(u)
  PROVE  SubSeq(u, 1, k) \in Seq(Cell) /\ Len(SubSeq(u, 1, k)) = k
OBVIOUS

(* getBuffer() keeps what fits into the buffer.                            *)
LEMMA OpenedIsOutcome ==
  ASSUME Sound, NEW s \in String, IsWritable(now, s), NEW n \in Int,
         NEW m \in Clone(now, s, n, n, TRUE, TRUE)
  PROVE  Outcome(IF IsBogus(m, s) THEN m ELSE PutFields(m, s, OpenFields(m.str[s], TRUE, 0)), s,
                 SubSeq(Text(s), 1, Min({Len(Text(s)), m.str[s].length})))
<1> DEFINE k == m.str[s].length
           v == Text(s)
           text == SubSeq(v, 1, Min({Len(v), k}))
           p == str[s].array
           i == str[s].start
           l == str[s].length
           yes == TRUE
           zero == 0
<1>1. /\ Ready(now, s) /\ v \in Seq(Cell) /\ now.str[s] = str[s] /\ str[s] \in FieldSet
      /\ ~IsBogus(now, s) => v = Chars(now, s) /\ Len(v) = l
  BY SoundIsReady DEF now
<1>2. Spares(now, m, s) /\ Left(m, s) /\ (IsBogus(m, s) \/ Copied(now, m, s, n, n))
  BY <1>1, CloneCopies
<1>3. CASE IsBogus(m, s)
  BY <1>2, <1>3, BogusIsOutcome DEF Left
<1>4. CASE ~IsBogus(m, s)
  <2> DEFINE r == PutFields(m, s, OpenFields(m.str[s], yes, zero))
  <2>1. v = Chars(now, s) /\ Len(v) = l
    BY <1>1 DEF IsWritable
  <2>2. /\ Writes(m, s) /\ k \in 0 .. l /\ k <= m.str[s].capacity
        /\ Chars(m, s) = Read(now, p, i, k)
    BY <1>1, <1>2, <1>4 DEF Copied
  <2>3. m.str[s] \in FieldSet /\ Settled(m, s) /\ m.str[s].capacity \in Int
    BY <1>2 DEF Left, Settled, Working, Memory, FieldSet
  <2>4. Owns(m, s)
    BY <2>2 DEF Writes, Owns
  <2>5. l \in Nat /\ k \in Nat /\ k <= l /\ i \in Int
    <3>1. l \in Int /\ i \in Int
      BY <1>1 DEF FieldSet
    <3> QED BY <2>2, <3>1
  <2>6. yes \in BOOLEAN /\ yes /\ zero \in Nat /\ (yes => zero = 0) /\ zero <= m.str[s].capacity
        /\ zero <= k
    BY <2>2, <2>3, <2>5
  <2>7. r = PutFields(m, s, OpenFields(m.str[s], TRUE, 0))
    OBVIOUS
  <2>8. text = SubSeq(v, 1, k)
    <3>1. Min({Len(v), k}) = k
      BY <2>1, <2>5, MinOfTwo
    <3> QED BY <3>1
  <2>9. text \in Seq(Cell) /\ Len(text) = k
    <3> HIDE DEF v, text, k, l
    <3> QED BY <1>1, <2>1, <2>5, <2>8, BeginningIsText
  <2> HIDE DEF yes, zero, text, v
  <2>18. Opened(m, r, s, yes, zero)
    BY <2>3, <2>4, <2>6, OpenedFits
  <2>10. /\ Spares(m, r, s) /\ r.mem = m.mem /\ Fits(r, s) /\ Joins(r, s) /\ ~IsBogus(r, s)
         /\ r.str[s].array = m.str[s].array /\ r.str[s].start = m.str[s].start
         /\ r.str[s].open = yes /\ r.str[s].capacity = m.str[s].capacity
    BY <2>18 DEF Opened
  <2> HIDE DEF r, p, i, l
  <2>11. v = Read(now, p, i, l)
    BY <1>1, <2>1 DEF Chars, p, i, l
  <2>12. Parted(now, p, i, l, zero, k)
    BY <2>5, <2>6, PartIsRead
  <2>13. text = Chars(m, s)
    <3>1. zero + 1 = 1 /\ i + zero = i /\ k - zero = k
      BY <2>5 DEF zero
    <3> QED BY <2>2, <2>8, <2>11, <2>12, <3>1 DEF Parted
  <2>14. text = Read(r, r.str[s].array, r.str[s].start, Len(text))
    BY <2>9, <2>10, <2>13 DEF Chars, Read
  <2>15. Holds(r, s, text)
    BY <2>2, <2>6, <2>9, <2>10, <2>14 DEF Holds
  <2>16. Spares(now, r, s)
    BY <1>2, <2>10, SparesAgain
  <2>17. Outcome(r, s, text)
    BY <2>9, <2>10, <2>15, <2>16 DEF Outcome, Finished
  <2> QED BY <1>4, <2>7, <2>17 DEF text, v
<1> QED BY <1>3, <1>4

(* The calls that write units, change the length or give the buffer away.  *)
LEMMA BufferCallsSound ==
  ASSUME Sound, NoneIsTooLong', NEW s \in String,
         SetCharAt(s) \/ Truncate(s) \/ GetBuffer(s) \/ WriteUnit(s) \/ ReleaseBuffer(s)
  PROVE  Sound'
<1>1. Accounted(now)'
  BY BufferCallsAccounted DEF Sound
<1>2. /\ Ready(now, s) /\ now.str[s] = str[s] /\ str[s] \in FieldSet /\ now \in Memory
      /\ value[s] \in Seq(Cell)
  BY SoundIsReady DEF now
<1>3. CASE SetCharAt(s)
  <2> DEFINE outcomes(i, c) ==
               {IF IsBogus(m, s) THEN m
                ELSE Written(m, m.str[s].array, m.str[s].start + i - 1, <<c>>) :
                  m \in Clone(now, s, str[s].capacity, str[s].capacity, TRUE, TRUE)}
  <2>1. PICK i \in 1 .. str[s].length, c \in Unit :
               Gives(s, outcomes(i, c), [Text(s) EXCEPT ![i] = c])
    BY <1>3 DEF SetCharAt
  <2>2. \A r \in outcomes(i, c) : Outcome(r, s, [Text(s) EXCEPT ![i] = c])
    <3> SUFFICES ASSUME NEW m \in Clone(now, s, str[s].capacity, str[s].capacity, TRUE, TRUE)
                 PROVE  Outcome(IF IsBogus(m, s) THEN m ELSE UnitPut(m, s, i, c), s,
                                [Text(s) EXCEPT ![i] = c])
      BY DEF UnitPut
    <3> QED BY CharSetIsOutcome
  <2> HIDE DEF outcomes
  <2> QED BY <1>1, <2>1, <2>2, GivesSound
<1>4. CASE WriteUnit(s)
  <2>1. PICK i \in 1 .. Min({Len(value[s]) + 1, MaxLength}), c \in Unit :
             /\ str[s].open /\ i <= str[s].capacity
             /\ Gives(s, {Written(now, str[s].array, str[s].start + i - 1, <<c>>)},
                      IF i > Len(value[s]) THEN Append(value[s], c)
                                           ELSE [value[s] EXCEPT ![i] = c])
    BY <1>4 DEF WriteUnit
  <2> DEFINE text == IF i > Len(value[s]) THEN Append(value[s], c) ELSE [value[s] EXCEPT ![i] = c]
  <2>2. Gives(s, {UnitPut(now, s, i, c)}, text)
    BY <1>2, <2>1 DEF UnitPut
  <2>3. i \in 1 .. Len(value[s]) + 1
    <3>1. Len(value[s]) + 1 \in Int /\ MaxLength \in Int
      BY <1>2, BoundsAssumption
    <3> QED BY <3>1, MinOfTwo
  <2>4. Outcome(UnitPut(now, s, i, c), s, text)
    BY <2>1, <2>3, UnitIsOutcome
  <2> HIDE DEF text
  <2> QED BY <1>1, <2>2, <2>4, GivesSound
<1>5. CASE GetBuffer(s)
  <2> DEFINE opened(m) == [m EXCEPT !.str[s].open = TRUE, !.str[s].length = 0]
             text(m) == SubSeq(Text(s), 1, Min({Len(Text(s)), m.str[s].length}))
  <2>1. PICK min \in -1 .. MaxCapacity :
           LET n == IF min = -1 THEN str[s].capacity ELSE min
           IN  /\ IsWritable(now, s)
               /\ \E m \in Clone(now, s, n, n, TRUE, TRUE) :
                    Gives(s, {IF IsBogus(m, s) THEN m ELSE opened(m)}, text(m))
    BY <1>5 DEF GetBuffer
  <2>2. \A m : opened(m) = PutFields(m, s, OpenFields(m.str[s], TRUE, 0))
    BY DEF PutFields, OpenFields
  <2> DEFINE n == IF min = -1 THEN str[s].capacity ELSE min
  <2>3. IsWritable(now, s) /\ n \in Int
    BY <1>2, <2>1 DEF FieldSet
  <2> HIDE DEF opened, text
  <2>4. PICK m \in Clone(now, s, n, n, TRUE, TRUE) :
               Gives(s, {IF IsBogus(m, s) THEN m ELSE opened(m)}, text(m))
    BY <2>1
  <2> HIDE DEF n
  <2>5. Outcome(IF IsBogus(m, s) THEN m ELSE PutFields(m, s, OpenFields(m.str[s], TRUE, 0)), s,
                text(m))
    BY <2>3, OpenedIsOutcome DEF text
  <2>6. Outcome(IF IsBogus(m, s) THEN m ELSE opened(m), s, text(m))
    BY <2>2, <2>5, Zenon
  <2> QED BY <1>1, <2>4, <2>6, GivesSound
<1>6. CASE ReleaseBuffer(s)
  <2> DEFINE closed(x) == [x EXCEPT !.str[s].open = FALSE]
  <2>1. PICK n \in 0 .. Len(value[s]) :
             /\ str[s].open
             /\ Gives(s, {closed(Resized(now, s, Min({n, str[s].capacity})))},
                      SubSeq(value[s], 1, n))
    BY <1>6 DEF ReleaseBuffer
  <2> DEFINE x == Resized(now, s, n)
             text == SubSeq(value[s], 1, n)
  <2>2. /\ Min({n, str[s].capacity}) = n /\ n \in Int /\ x.str[s].length = n
        /\ Outcome(PutFields(x, s, OpenFields(x.str[s], FALSE, n)), s, text)
    BY <2>1, ReleasedIsOutcome
  <2>3. x \in Memory
    <3>1. Working(now, s, Held(now, s)) /\ Sane(str[s], s)
      BY <1>2 DEF Ready, Left, Settled
    <3> QED BY <2>2, <3>1, ResizedFrame DEF Working
  <2> HIDE DEF x
  <2>4. closed(x) = PutFields(x, s, OpenFields(x.str[s], FALSE, n))
    BY <2>2, <2>3 DEF PutFields, OpenFields, Memory, FieldSet
  <2> HIDE DEF closed, text
  <2>5. Outcome(closed(x), s, text)
    BY <2>2, <2>4
  <2>6. Gives(s, {closed(x)}, text)
    BY <2>1, <2>2 DEF x, text
  <2> QED BY <1>1, <2>5, <2>6, GivesSound
<1> QED BY <1>3, <1>4, <1>5, <1>6, TruncateSound

-----------------------------------------------------------------------------
(* s gives up its array and has the fields f instead.                      *)
Begun(m, y, s, f) ==
  Spares(m, y, s) /\ y.str[s] = f /\ y \in Memory /\ Working(y, s, {}) /\ Tidy(y)

(* The former array is released, and there are new fields.                *)
LEMMA NewFieldsBegin ==
  ASSUME NEW m, NEW s \in String, Left(m, s), NEW f \in FieldSet
  PROVE  /\ Begun(m, SetFields(Released(m, s), s, f), s, f)
         /\ Spares(m, Released(m, s), s) /\ Released(m, s).str = m.str
         /\ Released(m, s) \in Memory
         /\ Working(Released(m, s), s, {}) /\ Tidy(Released(m, s))
<1> DEFINE x == Released(m, s)
           y == SetFields(x, s, f)
<1>1. Settled(m, s) /\ Tidy(m)
  BY DEF Left
<1>2. Spares(m, x, s) /\ Working(x, s, {}) /\ x.str = m.str /\ Tidy(x)
  BY <1>1, ReleasedSpares, ReleasedWorks
<1> HIDE DEF x
<1>3. Spares(x, y, s) /\ Working(y, s, {}) /\ y.str[s] = f /\ Tidy(y)
  BY <1>2, SetFieldsSpares, SetFieldsWorks
<1> HIDE DEF y
<1>4. Begun(m, y, s, f)
  BY <1>2, <1>3, SparesAgain DEF Begun, Working
<1> QED BY <1>2, <1>4 DEF x, y, Working

(* The object begins, empty.                                               *)
LEMMA EmptyIsMade ==
  ASSUME NEW m, NEW s \in String, Left(m, s), Layout(m)
  PROVE  /\ Made(m, SetFields(Released(m, s), s, Empty(s)), s, <<>>)
         /\ Left(SetFields(Released(m, s), s, Empty(s)), s)
         /\ Spares(m, SetFields(Released(m, s), s, Empty(s)), s)
         /\ Writes(SetFields(Released(m, s), s, Empty(s)), s)
         /\ SetFields(Released(m, s), s, Empty(s)).str[s] = Empty(s)
<1> DEFINE x == Released(m, s)
           y == SetFields(x, s, Empty(s))
<1>1. Empty(s) \in FieldSet /\ Sane(Empty(s), s) /\ Empty(s).storage # "long"
  BY FieldsAreFields DEF Empty, Fields
<1>2. Begun(m, y, s, Empty(s)) /\ Working(x, s, {}) /\ Tidy(x)
  BY <1>1, NewFieldsBegin
<1> HIDE DEF x
<1>3. Left(y, s)
  BY <1>1, <1>2, NewFieldsSettle
<1> HIDE DEF y
<1>4. Settled(y, s) /\ Layout(y) /\ y.str[s] = Empty(s) /\ Spares(m, y, s)
  BY <1>2, <1>3 DEF Begun, Left, Spares
<1>5. Writes(y, s) /\ Joins(y, s) /\ Fits(y, s) /\ Chars(y, s) = <<>> /\ ~y.str[s].open
  BY <1>4, EmptyIsReady
<1>6. Made(m, y, s, <<>>)
  BY <1>4, <1>5 DEF Made
<1> QED BY <1>3, <1>4, <1>5, <1>6 DEF x, y

(* A text is copied to a buffer that has room for it.                      *)
FilledWith(y, s, text) == Resized(Written(y, y.str[s].array, 0, text), s, Len(text))

(* A buffer of its own is filled with a text.                             *)
LEMMA FilledMakes ==
  ASSUME NEW y, NEW s \in String, Settled(y, s), Writes(y, s), y.str[s].start = 0,
         NEW text \in Seq(Cell), Len(text) <= y.str[s].capacity
  PROVE  Made(y, FilledWith(y, s, text), s, text)
<1> DEFINE p == y.str[s].array
           zero == 0
           w == Written(y, p, zero, text)
           n == Len(text)
           r == Resized(w, s, n)
<1>1. zero \in Int /\ zero >= 0 /\ n \in Nat /\ y \in Memory /\ y.str[s] \in FieldSet
  BY DEF Settled, Working, Memory
<1>2. r = FilledWith(y, s, text)
  BY DEF FilledWith
<1>3. zero + n <= Len(y.mem[p].units)
  <2>1. y.str[s].start + y.str[s].capacity <= Len(y.mem[p].units)
    BY DEF Writes, Area
  <2>2. p \in Place
    BY <1>1, WrittenStaysReady
  <2>3. Len(y.mem[p].units) \in Nat
    BY <1>1, <2>2 DEF Memory
  <2>4. y.str[s].capacity \in Int
    BY <1>1 DEF FieldSet
  <2> HIDE DEF p, n
  <2> QED BY <1>1, <2>1, <2>3, <2>4 DEF n
<1>4. zero = y.str[s].start
  OBVIOUS
<1> HIDE DEF zero, n
<1>5. /\ Spares(y, w, s) /\ Settled(w, s) /\ Writes(w, s) /\ w.str = y.str /\ p \in Place
  BY <1>1, WrittenStaysReady
<1>6. Read(w, p, zero, n) = text
  BY <1>1, <1>3, <1>5, WrittenIsRead DEF n
<1> HIDE DEF w
<1>7. n <= w.str[s].capacity
  BY <1>5 DEF n
<1>8. /\ Spares(w, r, s) /\ Writes(r, s) /\ Fits(r, s)
      /\ Chars(r, s) = Read(w, w.str[s].array, w.str[s].start, n)
  BY <1>1, <1>5, <1>7, ResizedWrites
<1> HIDE DEF r
<1>9. Chars(r, s) = text
  BY <1>4, <1>5, <1>6, <1>8
<1>10. Made(y, r, s, text)
  BY <1>5, <1>8, <1>9, SparesAgain, WritesJoins DEF Made, Writes
<1> QED BY <1>2, <1>10

(* copyFrom() copies what may not be shared.                               *)
Buffered(m, y, s, n) ==
  /\ Settled(y, s) /\ Spares(m, y, s)
  /\ IsBogus(y, s) \/ (Writes(y, s) /\ y.str[s].start = 0 /\ n <= y.str[s].capacity)

(* Buffers that copyFrom() and moveFrom() fill.                           *)
LEMMA BuffersBegin ==
  ASSUME NEW m, NEW s \in String, Left(m, s), Layout(m), NEW n \in Int
  PROVE  /\ n <= StackSize => Buffered(m, SetFields(Released(m, s), s, Empty(s)), s, n)
         /\ \A y \in Allocate(Released(m, s), s, n) : Buffered(m, y, s, n)
<1> DEFINE x == Released(m, s)
<1>1. ASSUME n <= StackSize PROVE Buffered(m, SetFields(x, s, Empty(s)), s, n)
  <2> DEFINE y == SetFields(x, s, Empty(s))
  <2>1. Left(y, s) /\ Spares(m, y, s) /\ Writes(y, s) /\ y.str[s] = Empty(s)
    BY EmptyIsMade
  <2> HIDE DEF y
  <2>2. y.str[s].start = 0 /\ y.str[s].capacity = StackSize
    BY <2>1 DEF Empty, Fields
  <2>3. Buffered(m, y, s, n)
    BY <1>1, <2>1, <2>2 DEF Buffered, Left
  <2> QED BY <2>3 DEF y
<1>2. ASSUME NEW y \in Allocate(x, s, n) PROVE Buffered(m, y, s, n)
  <2>1. BogusFields \in FieldSet
    BY FieldsAreFields
  <2>2. Spares(m, x, s) /\ Working(x, s, {}) /\ Tidy(x)
    BY <2>1, NewFieldsBegin
  <2> HIDE DEF x
  <2>3. Layout(x)
    BY <2>2 DEF Spares
  <2>4. Got(y, s, {})
    BY <1>2, <2>2, AllocateWorks
  <2>5. Settled(y, s)
    <3>1. {} \cup Held(y, s) = Held(y, s)
      OBVIOUS
    <3> QED BY <2>4, <3>1 DEF Got, Settled
  <2>6. Spares(x, y, s) /\ (IsBogus(y, s) \/ Roomy(y, s, Obtained(n)))
    BY <1>2, <2>2, <2>3, AllocateIsRoomy
  <2>7. Obtained(n) >= n
    BY ObtainedIsEnough
  <2>8. IsBogus(y, s) \/ (Writes(y, s) /\ y.str[s].start = 0 /\ n <= y.str[s].capacity)
    <3> SUFFICES ASSUME ~IsBogus(y, s)
                 PROVE  Writes(y, s) /\ y.str[s].start = 0 /\ n <= y.str[s].capacity
      OBVIOUS
    <3>1. Writes(y, s) /\ y.str[s].start = 0 /\ y.str[s].capacity >= Obtained(n)
      BY <2>6 DEF Roomy
    <3>2. Obtained(n) \in Int /\ y.str[s].capacity \in Int
      <4>1. y.str[s].capacity \in Int
        BY <2>5 DEF Settled, Working, Memory, FieldSet
      <4>2. n > StackSize => AllocatedCapacity(n) \in Nat
        BY AllocatedIsEnough, BoundsAssumption
      <4> QED BY <4>1, <4>2, BoundsAssumption DEF Obtained
    <3> QED BY <2>7, <3>1, <3>2
  <2> QED BY <2>2, <2>5, <2>6, <2>8, SparesAgain DEF Buffered
<1> QED BY <1>1, <1>2

(* Filling one is an outcome if there was room.                           *)
LEMMA FilledIsOutcome ==
  ASSUME Sound, NEW s \in String, NEW text \in Seq(Cell), NEW y, Buffered(now, y, s, Len(text))
  PROVE  Outcome(IF IsBogus(y, s) THEN y ELSE FilledWith(y, s, text), s, text)
<1>1. Settled(y, s) /\ Spares(now, y, s)
  BY DEF Buffered
<1>2. CASE IsBogus(y, s)
  BY <1>1, <1>2, BogusIsOutcome
<1>3. CASE ~IsBogus(y, s)
  <2>1. Writes(y, s) /\ y.str[s].start = 0 /\ Len(text) <= y.str[s].capacity
    BY <1>3 DEF Buffered
  <2>2. Made(y, FilledWith(y, s, text), s, text)
    BY <1>1, <2>1, FilledMakes
  <2>3. Made(now, FilledWith(y, s, text), s, text)
    BY <1>1, <2>2, MadeAgain
  <2> QED BY <1>3, <2>3, MadeIsOutcome
<1> QED BY <1>2, <1>3

(* An array on the heap is shared, and counted once more.                  *)
LEMMA SharedIsOutcome ==
  ASSUME Sound, NEW s \in String, NEW t \in String, s # t, str[t].storage = "long", ~str[t].open
  PROVE  Outcome([SetFields(Released(now, s), s, str[t]) EXCEPT !.mem[str[t].array].refs = @ + 1],
                 s, Text(t))
<1> DEFINE f == str[t]
           a == f.array
           y == SetFields(Released(now, s), s, f)
           c == [y.mem[a] EXCEPT !.refs = @ + 1]
           r == Put(y, a, c)
<1>1. /\ Left(now, s) /\ now \in Memory /\ Layout(now) /\ now.str[s] = str[s]
      /\ \A u \in String : Joins(now, u) /\ Fits(now, u) /\ now.str[u] = str[u]
  BY SoundIsReady DEF Sound, Rest, now
<1>2. ~IsBogus(now, t) /\ f \in FieldSet /\ Sane(f, t)
  <2>1. f \in FieldSet
    BY SoundIsReady
  <2>2. now.str[t] = f /\ now.str[t].storage # "bogus"
    BY <1>1
  <2>3. Sane(now.str[t], t)
    BY <1>1 DEF Left, Settled, Working, SaneBut
  <2> QED BY <2>1, <2>2, <2>3 DEF IsBogus
<1>3. Text(t) = Chars(now, t) /\ Text(t) \in Seq(Cell)
  BY <1>2, SoundIsReady
<1>4. a \in Array /\ a \in Place
  BY <1>2, Places DEF Sane
<1>5. r = [SetFields(Released(now, s), s, f) EXCEPT !.mem[f.array].refs = @ + 1]
  BY DEF Put
<1>6. Begun(now, y, s, f)
  BY <1>1, <1>2, NewFieldsBegin
<1> HIDE DEF y
<1>7. Spares(now, y, s) /\ y.str[s] = f /\ y \in Memory
  BY <1>6 DEF Begun
<1>8. c \in [units : Seq(Cell), refs : Int] /\ c.units = y.mem[a].units
  <2>1. y.mem[a] \in [units : Seq(Cell), refs : Int]
    BY <1>4, <1>7 DEF Memory
  <2> HIDE DEF a
  <2> QED BY <2>1
<1> HIDE DEF c, a
<1>9. r \in Memory /\ r.str = y.str /\ r.mem[a] = c /\ \A p \in Place \ {a} : r.mem[p] = y.mem[p]
  BY <1>4, <1>7, <1>8, PlaceIsWritten
<1> HIDE DEF r
<1>10. \A p \in Place : r.mem[p].units = y.mem[p].units
  BY <1>8, <1>9
<1>11. Spares(y, r, s)
  <2>1. \A u \in String \ {s} : y.str[u].storage # "bogus" =>
          r.mem[y.str[u].array].units = y.mem[y.str[u].array].units
    <3> SUFFICES ASSUME NEW u \in String \ {s}, y.str[u].storage # "bogus"
                 PROVE  y.str[u].array \in Place
      BY <1>10
    <3>1. y.str[u] \in FieldSet /\ Sane(y.str[u], u)
      BY <1>6, <1>7 DEF Begun, Working, Memory, SaneBut
    <3> QED BY <3>1, ArrayIsPlace
  <2>2. Layout(y) => Layout(r)
    BY <1>10, Places DEF Layout
  <2> QED BY <1>9, <2>1, <2>2 DEF Spares
<1>12. Spares(now, r, s)
  BY <1>7, <1>11, SparesAgain
<1>13. /\ r.str[s] = f /\ r.str[t] = f /\ now.str[t] = f
       /\ r.mem[a].units = now.mem[a].units
  BY <1>1, <1>2, <1>7, <1>9, <1>12 DEF Spares, IsBogus, a
<1>14. Fits(r, s)
  <2>1. Fits(now, t)
    BY <1>1
  <2> QED BY <1>13, <2>1 DEF Fits, Area, a
<1>15. Joins(r, s)
  <2> SUFFICES ASSUME NEW u \in String \ {s} PROVE Compatible(f, r.str[u])
    BY <1>13 DEF Joins
  <2>1. CASE u = t
    BY <1>13, <2>1 DEF Compatible
  <2>2. CASE u # t
    <3>1. r.str[u] = now.str[u]
      BY <1>12 DEF Spares
    <3>2. Compatible(now.str[t], now.str[u])
      BY <1>1, <2>2 DEF Joins
    <3> QED BY <1>13, <3>1, <3>2
  <2> QED BY <2>1, <2>2
<1>16. Chars(r, s) = Text(t) /\ ~r.str[s].open
  BY <1>3, <1>13 DEF Chars, Read, a
<1>17. Made(now, r, s, Text(t))
  BY <1>12, <1>14, <1>15, <1>16 DEF Made
<1> QED BY <1>3, <1>5, <1>17, MadeIsOutcome

(* copyFrom().                                                             *)
LEMMA CopyIsOutcome ==
  ASSUME Sound, NEW s \in String, NEW t \in String, NEW r \in CopyFrom(now, s, t)
  PROVE  Outcome(r, s, IF s = t THEN value[s] ELSE Text(t))
<1> DEFINE f == str[t]
           x == Released(now, s)
<1>1. /\ Left(now, s) /\ Layout(now) /\ now.str[t] = f /\ now.str[s] = str[s] /\ f \in FieldSet
      /\ Fits(now, t) /\ Sane(f, t) /\ Text(t) \in Seq(Cell)
      /\ ~IsBogus(now, t) => Text(t) = Chars(now, t) /\ Len(Text(t)) = f.length
  <2>1. Left(now, s) /\ Left(now, t) /\ f \in FieldSet /\ Text(t) \in Seq(Cell)
        /\ (~IsBogus(now, t) => Text(t) = Chars(now, t) /\ Len(Text(t)) = f.length)
    BY SoundIsReady
  <2>2. Layout(now) /\ Fits(now, t)
    BY DEF Sound, Rest
  <2>3. now.str[t] = f /\ now.str[s] = str[s]
    BY DEF now
  <2>4. Sane(f, t)
    BY <2>1, <2>3 DEF Left, Settled
  <2> QED BY <2>1, <2>2, <2>3, <2>4
<1>2. CASE s = t /\ r = now
  BY <1>2, UnchangedIsOutcome
<1>3. CASE s # t /\ IsBogus(now, t) /\ r = ToBogus(now, s)
  <2>1. Settled(r, s) /\ r.str[s] = BogusFields /\ Spares(now, r, s)
    BY <1>1, <1>3, ToBogusSettles, ToBogusSpares DEF Left
  <2>2. IsBogus(r, s)
    BY <2>1 DEF IsBogus, BogusFields, Fields
  <2> QED BY <2>1, <2>2, BogusIsOutcome
<1>4. CASE s # t /\ ~IsBogus(now, t) /\ f.length = 0 /\ r = SetFields(x, s, Empty(s))
  <2>1. Made(now, r, s, <<>>)
    BY <1>1, <1>4, EmptyIsMade
  <2>2. Text(t) = <<>>
    BY <1>1, <1>4
  <2>3. Made(now, r, s, Text(t))
    BY <2>1, <2>2
  <2> QED BY <1>1, <1>4, <2>3, MadeIsOutcome
<1>5. CASE /\ s # t /\ f.length # 0 /\ f.storage = "long"
           /\ r = [SetFields(x, s, f) EXCEPT !.mem[f.array].refs = @ + 1]
  <2>1. ~str[t].open
    BY <1>1, <1>5 DEF Fits
  <2>2. Outcome([SetFields(Released(now, s), s, str[t]) EXCEPT !.mem[str[t].array].refs = @ + 1],
                s, Text(t))
    BY <1>5, <2>1, SharedIsOutcome
  <2> QED BY <1>5, <2>2
<1>6. CASE s # t /\ ~IsBogus(now, t)
           /\ \E y \in IF f.storage = "short" THEN {SetFields(x, s, Empty(s))}
                       ELSE Allocate(x, s, f.length) :
                r = IF IsBogus(y, s) THEN y
                    ELSE Resized(Written(y, y.str[s].array, 0, Chars(now, t)), s, f.length)
  <2>1. PICK y \in IF f.storage = "short" THEN {SetFields(x, s, Empty(s))}
                   ELSE Allocate(x, s, f.length) :
               r = IF IsBogus(y, s) THEN y
                   ELSE Resized(Written(y, y.str[s].array, 0, Chars(now, t)), s, f.length)
    BY <1>6
  <2> DEFINE n == f.length
  <2>2. n \in Int
    BY <1>1 DEF FieldSet
  <2>3. f.storage = "short" => n <= StackSize
    <3> SUFFICES ASSUME f.storage = "short" PROVE n <= StackSize
      OBVIOUS
    <3>1. f.array = t /\ Len(now.mem[t].units) = StackSize
      BY <1>1 DEF Sane, Layout
    <3>2. f.length <= f.capacity /\ f.start >= 0 /\ f.start + f.capacity <= StackSize
      BY <1>1, <3>1 DEF Fits, Area
    <3>3. f.length \in Int /\ f.capacity \in Int /\ f.start \in Int /\ StackSize \in Int
      BY <1>1, BoundsAssumption DEF FieldSet
    <3> HIDE DEF f
    <3> QED BY <3>2, <3>3
  <2> HIDE DEF n
  <2>4. Buffered(now, y, s, n)
    <3>1. CASE f.storage = "short"
      <4>1. y = SetFields(Released(now, s), s, Empty(s))
        BY <2>1, <3>1
      <4> QED BY <1>1, <2>2, <2>3, <3>1, <4>1, BuffersBegin
    <3>2. CASE f.storage # "short"
      <4>1. y \in Allocate(Released(now, s), s, n)
        BY <2>1, <3>2 DEF n
      <4> QED BY <1>1, <2>2, <4>1, BuffersBegin
    <3> QED BY <3>1, <3>2
  <2>5. Text(t) = Chars(now, t) /\ Len(Text(t)) = n
    BY <1>1, <1>6 DEF n
  <2>6. Outcome(IF IsBogus(y, s) THEN y ELSE FilledWith(y, s, Text(t)), s, Text(t))
    BY <1>1, <2>4, <2>5, FilledIsOutcome
  <2>7. r = IF IsBogus(y, s) THEN y ELSE FilledWith(y, s, Text(t))
    BY <2>1, <2>5 DEF FilledWith, n
  <2> QED BY <1>6, <2>6, <2>7
<1> QED BY <1>1, <1>2, <1>3, <1>4, <1>5, <1>6 DEF CopyFrom

(* An alias of the constant text.                                          *)
LEMMA AliasIsOutcome ==
  ASSUME Sound, NEW s \in String, NEW n \in 0 .. Len(LiteralUnits), NEW capacity \in Int,
         n <= capacity, capacity <= Len(LiteralUnits) + 1
  PROVE  Outcome(SetFields(Released(now, s), s, Fields("readonly", Literal, n, capacity)), s,
                 SubSeq(LiteralUnits, 1, n))
<1> DEFINE f == Fields("readonly", Literal, n, capacity)
           y == SetFields(Released(now, s), s, f)
           text == SubSeq(LiteralUnits, 1, n)
<1>1. /\ Left(now, s) /\ Layout(now)
      /\ \A u \in String : Fits(now, u) /\ Sane(now.str[u], u) /\ now.str[u] \in FieldSet
  <2>1. Left(now, s) /\ Layout(now)
    BY SoundIsReady DEF Sound, Rest
  <2> QED BY <2>1 DEF Sound, Rest, Accounted, Memory
<1>2. /\ f.storage = "readonly" /\ f.array = Literal /\ f.start = 0 /\ f.length = n
      /\ f.capacity = capacity /\ ~f.open
  BY DEF Fields
<1>3. f \in FieldSet
  BY Places DEF Fields, FieldSet, Storages
<1> HIDE DEF f
<1>4. Begun(now, y, s, f)
  BY <1>1, <1>3, NewFieldsBegin
<1> HIDE DEF y
<1>5. Spares(now, y, s) /\ y.str[s] = f /\ Layout(y)
  BY <1>1, <1>4 DEF Begun, Spares
<1>6. Len(y.mem[Literal].units) = Len(LiteralUnits) + 1 /\ Len(LiteralUnits) \in Nat
  BY <1>5, UnitsAssumption DEF Layout
<1>7. Area(y, s)
  <2>1. 0 + capacity <= Len(y.mem[Literal].units) /\ capacity >= 0
    BY <1>6
  <2> QED BY <1>2, <1>5, <2>1 DEF Area
<1>8. Fits(y, s)
  <2>1. n >= 0
    OBVIOUS
  <2> QED BY <1>2, <1>5, <1>7, <2>1 DEF Fits
<1>9. Joins(y, s)
  <2> SUFFICES ASSUME NEW u \in String \ {s} PROVE Compatible(f, y.str[u])
    BY <1>5 DEF Joins
  <2>1. y.str[u] = now.str[u]
    BY <1>5 DEF Spares
  <2>2. now.str[u].storage # "bogus" /\ now.str[u].array = Literal => now.str[u].storage = "readonly"
    BY <1>1, Places DEF Sane, FieldSet, Storages
  <2>3. now.str[u].storage = "readonly" => ~now.str[u].open
    BY <1>1 DEF Fits
  <2> QED BY <1>2, <2>1, <2>2, <2>3 DEF Compatible
<1>10. Chars(y, s) = text /\ text \in Seq(Cell)
  BY <1>2, <1>5, LiteralIsRead DEF Chars
<1>11. Made(now, y, s, text)
  BY <1>2, <1>5, <1>8, <1>9, <1>10 DEF Made
<1> HIDE DEF text
<1>12. Outcome(y, s, text)
  BY <1>10, <1>11, MadeIsOutcome
<1> QED BY <1>12 DEF y, f, text

(* An alias of the caller's array, which no other string has.              *)
LEMMA OutsideIsOutcome ==
  ASSUME Sound, NEW s \in String, NEW n \in 0 .. Len(OutsideUnits),
         \A t \in String \ {s} : str[t].array # Outside
  PROVE  Outcome([SetFields(Released(now, s), s, Fields("writable", Outside, n, Len(OutsideUnits)))
                    EXCEPT !.mem[Outside].units = OutsideUnits], s,
                 SubSeq(OutsideUnits, 1, n))
<1> DEFINE size == Len(OutsideUnits)
           f == Fields("writable", Outside, n, size)
           y == SetFields(Released(now, s), s, f)
           c == [y.mem[Outside] EXCEPT !.units = OutsideUnits]
           r == Put(y, Outside, c)
           text == SubSeq(OutsideUnits, 1, n)
<1>1. Left(now, s) /\ Layout(now) /\ \A t \in String : now.str[t] = str[t]
  BY SoundIsReady DEF Sound, Rest, now
<1>2. size \in Nat /\ n \in Nat /\ n <= size /\ OutsideUnits \in Seq(Cell)
  BY UnitsAssumption, UnitsAreCells
<1>3. /\ f.storage = "writable" /\ f.array = Outside /\ f.start = 0 /\ f.length = n
      /\ f.capacity = size /\ ~f.open
  BY DEF Fields
<1>4. f \in FieldSet
  BY <1>2, Places DEF Fields, FieldSet, Storages
<1>5. r = [SetFields(Released(now, s), s, Fields("writable", Outside, n, Len(OutsideUnits)))
             EXCEPT !.mem[Outside].units = OutsideUnits]
  BY DEF Put
<1> HIDE DEF f
<1>6. Begun(now, y, s, f)
  BY <1>1, <1>4, NewFieldsBegin
<1> HIDE DEF y
<1>7. Spares(now, y, s) /\ y.str[s] = f /\ y \in Memory
  BY <1>6 DEF Begun
<1>8. c \in [units : Seq(Cell), refs : Int] /\ c.units = OutsideUnits
  <2>1. y.mem[Outside] \in [units : Seq(Cell), refs : Int]
    BY <1>7, Places DEF Memory
  <2> QED BY <1>2, <2>1
<1> HIDE DEF c
<1>9. r.str = y.str /\ r.mem[Outside] = c /\ \A p \in Place \ {Outside} : r.mem[p] = y.mem[p]
  BY <1>7, <1>8, Places, PlaceIsWritten
<1> HIDE DEF r
<1>10. ASSUME NEW t \in String \ {s}
       PROVE  /\ r.str[t] = now.str[t] /\ now.str[t].array # Outside
              /\ now.str[t].storage # "bogus"
                   => r.mem[now.str[t].array].units = now.mem[now.str[t].array].units
  <2>1. r.str[t] = now.str[t] /\ now.str[t].array # Outside
    BY <1>1, <1>7, <1>9 DEF Spares
  <2>2. now.str[t] \in FieldSet /\ Sane(now.str[t], t)
    BY <1>1 DEF Left, Settled, Working, Memory, SaneBut
  <2>3. ASSUME now.str[t].storage # "bogus"
        PROVE  r.mem[now.str[t].array].units = now.mem[now.str[t].array].units
    <3>1. now.str[t].array \in Place \ {Outside}
      BY <2>1, <2>2, <2>3, ArrayIsPlace
    <3> QED BY <1>7, <1>9, <2>3, <3>1 DEF Spares
  <2> QED BY <2>1, <2>3
<1>11. Layout(r)
  <2>1. Layout(y)
    BY <1>1, <1>7 DEF Spares
  <2> QED BY <1>8, <1>9, <2>1, Places DEF Layout
<1>12. Spares(now, r, s)
  BY <1>10, <1>11 DEF Spares
<1>13. r.str[s] = f
  BY <1>7, <1>9
<1>14. Area(r, s)
  BY <1>2, <1>3, <1>8, <1>9, <1>13 DEF Area
<1>15. Fits(r, s)
  BY <1>2, <1>3, <1>13, <1>14 DEF Fits
<1>16. Joins(r, s)
  BY <1>3, <1>10, <1>13 DEF Joins, Compatible
<1>17. Chars(r, s) = text /\ text \in Seq(Cell)
  <2>1. text = [k \in 1 .. n |-> OutsideUnits[k]] /\ text \in Seq(Cell)
    BY <1>2
  <2>2. Read(r, Outside, 0, n) = [k \in 1 .. n |-> OutsideUnits[k]]
    <3>1. Read(r, Outside, 0, n)
            = [k \in 1 .. n |-> IF 0 + k \in DOMAIN OutsideUnits THEN OutsideUnits[0 + k] ELSE None]
      BY <1>8, <1>9 DEF Read
    <3>2. \A k \in 1 .. n : 0 + k \in DOMAIN OutsideUnits /\ 0 + k = k
      BY <1>2
    <3> QED BY <3>1, <3>2
  <2> QED BY <1>3, <1>13, <2>1, <2>2 DEF Chars
<1>18. Made(now, r, s, text)
  BY <1>3, <1>12, <1>13, <1>15, <1>16, <1>17 DEF Made
<1> HIDE DEF text
<1>19. Outcome(r, s, text)
  BY <1>17, <1>18, MadeIsOutcome
<1> QED BY <1>5, <1>19 DEF text

(* s takes over what t has: the two change together.                       *)
LEMMA TakenOverRests ==
  ASSUME Sound, NEW s \in String, NEW t \in String, s # t, ~str[t].open, str[t].storage # "short"
  PROVE  Rest(SetFields(SetFields(Released(now, s), s, str[t]), t, BogusFields),
              [value EXCEPT ![s] = value[t], ![t] = Bogus])
<1> DEFINE f == str[t]
           y == SetFields(Released(now, s), s, f)
           r == SetFields(y, t, BogusFields)
           v == [value EXCEPT ![s] = value[t], ![t] = Bogus]
<1>1. /\ Left(now, s) /\ Layout(now) /\ value \in [String -> Seq(Cell)]
      /\ \A u \in String : /\ Joins(now, u) /\ Fits(now, u) /\ Holds(now, u, value[u])
                           /\ now.str[u] = str[u] /\ str[u] \in FieldSet /\ Sane(str[u], u)
  <2>1. Left(now, s) /\ Layout(now) /\ value \in [String -> Seq(Cell)]
    BY SoundIsReady DEF Sound, Rest
  <2>2. \A u \in String : /\ Joins(now, u) /\ Fits(now, u) /\ Holds(now, u, value[u])
                          /\ now.str[u] = str[u]
    BY DEF Sound, Rest, now
  <2>3. \A u \in String : str[u] \in FieldSet /\ Sane(str[u], u)
    BY DEF Sound, Accounted, Memory, now
  <2> QED BY <2>1, <2>2, <2>3
<1>2. /\ v \in [String -> Seq(Cell)] /\ v[s] = value[t] /\ v[t] = Bogus
      /\ \A u \in String : u # s /\ u # t => v[u] = value[u]
  BY <1>1, BogusIsText
<1> HIDE DEF v
<1>3. Begun(now, y, s, f)
  BY <1>1, NewFieldsBegin
<1> HIDE DEF y
<1>4. Spares(now, y, s) /\ y.str[s] = f /\ y \in Memory /\ Layout(y)
  BY <1>1, <1>3 DEF Begun, Spares
<1>5. /\ r.str[t] = BogusFields
      /\ \A u \in String \ {t} : r.str[u] = y.str[u]
      /\ \A p \in Place \ {t} : r.mem[p] = y.mem[p]
      /\ r.mem[t].units \in {y.mem[t].units, Uninitialized(StackSize)}
  <2>1. BogusFields \in FieldSet
    BY FieldsAreFields
  <2>2. r.str[t] = BogusFields
    BY <1>4, <2>1, SetFieldsFrame
  <2>3. \A u \in String \ {t} : r.str[u] = y.str[u]
    BY <1>4, <2>1, SetFieldsFrame
  <2>4. \A p \in Place \ {t} : r.mem[p] = y.mem[p]
    BY <1>4, <2>1, SetFieldsFrame
  <2>5. r.mem[t].units = IF BogusFields.array = t THEN y.mem[t].units ELSE Uninitialized(StackSize)
    BY <1>4, <2>1, SetFieldsFrame
  <2> QED BY <2>2, <2>3, <2>4, <2>5
<1> HIDE DEF r
<1>6. Layout(r)
  <2>1. Len(Uninitialized(StackSize)) = StackSize
    BY BoundsAssumption DEF Uninitialized
  <2>2. Len(r.mem[t].units) = StackSize
    BY <1>4, <1>5, <2>1 DEF Layout
  <2> QED BY <1>4, <1>5, <2>2, Places DEF Layout
<1>7. BogusFields.storage = "bogus" /\ ~BogusFields.open
  BY DEF BogusFields, Fields
<1>8. ASSUME NEW u \in String, u # s, f.storage # "bogus" \/ u # t, str[u].storage # "bogus",
             u = t => f.storage # "short"
      PROVE  r.mem[str[u].array].units = now.mem[str[u].array].units
  <2>1. str[u].array \in Place /\ str[u].array # t
    <3>1. str[u].array \in Place
      BY <1>1, <1>8, ArrayIsPlace
    <3>2. u # t => str[u].array # t
      BY <1>1, <1>8, Places DEF Sane, FieldSet, Storages
    <3>3. u = t => str[u].array # t
      BY <1>1, <1>8, Places DEF Sane, FieldSet, Storages
    <3> QED BY <3>1, <3>2, <3>3
  <2>2. r.mem[str[u].array] = y.mem[str[u].array]
    BY <1>5, <2>1
  <2>3. y.mem[now.str[u].array].units = now.mem[now.str[u].array].units
    BY <1>1, <1>4, <1>8 DEF Spares
  <2> QED BY <1>1, <2>2, <2>3
<1>9. ASSUME NEW u \in String, u # s, u # t
      PROVE  r.str[u] = now.str[u] /\ Joins(r, u) /\ Fits(r, u) /\ Holds(r, u, v[u])
  <2>1. r.str[u] = now.str[u]
    BY <1>4, <1>5, <1>9 DEF Spares
  <2>2. now.str[u].storage # "bogus"
          => r.mem[now.str[u].array].units = now.mem[now.str[u].array].units
    BY <1>1, <1>8, <1>9
  <2>3. Joins(now, u) /\ Fits(now, u) /\ Holds(now, u, v[u])
    BY <1>1, <1>2, <1>9
  <2>4. Fits(r, u)
    BY <2>1, <2>2, <2>3 DEF Fits, Area
  <2>5. Holds(r, u, v[u])
    BY <2>1, <2>2, <2>3 DEF Holds, IsBogus, Read
  <2>6. Joins(r, u)
    <3> SUFFICES ASSUME NEW w \in String \ {u} PROVE Compatible(now.str[u], r.str[w])
      BY <2>1 DEF Joins
    <3>1. CASE w = t
      BY <1>5, <1>7, <3>1 DEF Compatible
    <3>2. CASE w = s
      <4>1. r.str[w] = now.str[t]
        BY <1>1, <1>4, <1>5, <3>2
      <4> QED BY <1>9, <2>3, <4>1 DEF Joins
    <3>3. CASE w # t /\ w # s
      <4>1. r.str[w] = now.str[w]
        BY <1>4, <1>5, <3>3 DEF Spares
      <4> QED BY <2>3, <4>1 DEF Joins
    <3> QED BY <3>1, <3>2, <3>3
  <2> QED BY <2>1, <2>4, <2>5, <2>6
<1>10. Joins(r, t) /\ Fits(r, t) /\ Holds(r, t, v[t])
  <2>1. Joins(r, t)
    BY <1>5, <1>7 DEF Joins, Compatible
  <2>2. Fits(r, t)
    BY <1>5 DEF Fits, BogusFields, Fields
  <2>3. Holds(r, t, v[t])
    BY <1>2, <1>5, <1>7 DEF Holds, IsBogus
  <2> QED BY <2>1, <2>2, <2>3
<1>11. Joins(r, s) /\ Fits(r, s) /\ Holds(r, s, v[s])
  <2>1. r.str[s] = now.str[t]
    BY <1>1, <1>4, <1>5
  <2>2. now.str[t].storage # "bogus"
          => r.mem[now.str[t].array].units = now.mem[now.str[t].array].units
    BY <1>1, <1>8
  <2>3. Joins(now, t) /\ Fits(now, t) /\ Holds(now, t, v[s])
    BY <1>1, <1>2
  <2>4. Fits(r, s)
    BY <2>1, <2>2, <2>3 DEF Fits, Area
  <2>5. Holds(r, s, v[s])
    BY <2>1, <2>2, <2>3 DEF Holds, IsBogus, Read
  <2>6. Joins(r, s)
    <3> SUFFICES ASSUME NEW w \in String \ {s} PROVE Compatible(now.str[t], r.str[w])
      BY <2>1 DEF Joins
    <3>1. CASE w = t
      BY <1>5, <1>7, <3>1 DEF Compatible
    <3>2. CASE w # t
      BY <1>9, <2>3, <3>2 DEF Joins
    <3> QED BY <3>1, <3>2
  <2> QED BY <2>4, <2>5, <2>6
<1>12. Rest(r, v)
  BY <1>2, <1>6, <1>9, <1>10, <1>11 DEF Rest
<1> QED BY <1>12 DEF r, y, v

(* What fits into the buffer of a string's own object.                     *)
LEMMA ShortIsShort ==
  ASSUME Sound, NEW t \in String, str[t].storage = "short"
  PROVE  str[t].length \in Int /\ str[t].length <= StackSize
<1> DEFINE f == str[t]
<1>1. now.str[t] = f /\ f \in FieldSet /\ Fits(now, t) /\ Layout(now) /\ Sane(f, t)
  BY DEF Sound, Rest, Accounted, Memory, now
<1>2. f.array = t /\ Len(now.mem[t].units) = StackSize
  BY <1>1 DEF Sane, Layout
<1>3. f.length <= f.capacity /\ f.start >= 0 /\ f.start + f.capacity <= StackSize
  BY <1>1, <1>2 DEF Fits, Area
<1>4. f.length \in Int /\ f.capacity \in Int /\ f.start \in Int /\ StackSize \in Int
  BY <1>1, BoundsAssumption DEF FieldSet
<1> HIDE DEF f
<1>5. f.length <= StackSize
  BY <1>3, <1>4
<1> QED BY <1>4, <1>5 DEF f

(* moveFrom().                                                             *)
LEMMA MoveSound ==
  ASSUME Sound, NEW s \in String, Move(s)
  PROVE  Sound'
<1>1. Accounted(now)'
  BY ArrayCallsAccounted DEF Sound
<1>2. PICK t \in String :
         /\ ~str[t].open
         /\ \E m \in {MoveFrom(now, s, t)} :
              /\ Becomes(m)
              /\ value' = [value EXCEPT ![s] = IF IsBogus(m, s) THEN Bogus ELSE value[t],
                                        ![t] = IF IsBogus(m, t) THEN Bogus ELSE @]
  BY DEF Move
<1> DEFINE f == str[t]
           x == Released(now, s)
           r == MoveFrom(now, s, t)
           new == IF IsBogus(r, s) THEN Bogus ELSE value[t]
<1>3. /\ Becomes(r)
      /\ value' = [value EXCEPT ![s] = new, ![t] = IF IsBogus(r, t) THEN Bogus ELSE @]
  BY <1>2
<1>4. /\ Left(now, s) /\ Layout(now) /\ now.str[t] = f /\ f \in FieldSet
      /\ value \in [String -> Seq(Cell)] /\ Text(t) = value[t] /\ Holds(now, t, value[t])
  BY <1>2, SoundIsReady DEF Sound, Rest, Text, now
<1>5. Left(r, s)
  BY <1>4, MoveFromSettles
<1>6. CASE f.storage = "short"
  <2> DEFINE y == SetFields(x, s, Empty(s))
  <2>1. ~IsBogus(now, t)
    BY <1>4, <1>6 DEF IsBogus
  <2>2. Text(t) = Chars(now, t) /\ Text(t) \in Seq(Cell) /\ Len(Text(t)) = f.length
    BY <2>1, SoundIsReady
  <2>3. Left(y, s) /\ y.str[s] = Empty(s)
    BY <1>4, EmptyIsMade
  <2>4. f.length \in Int /\ f.length <= StackSize
    BY <1>6, ShortIsShort
  <2>5. Buffered(now, y, s, Len(Text(t)))
    <3> DEFINE n == Len(Text(t))
    <3>1. n \in Int /\ n <= StackSize
      BY <2>2, <2>4
    <3> HIDE DEF n
    <3>2. Buffered(now, y, s, n)
      BY <1>4, <3>1, BuffersBegin
    <3> QED BY <3>2 DEF n
  <2>6. ~IsBogus(y, s) /\ y.str[s].array = s
    BY <2>3 DEF IsBogus, Empty, Fields
  <2>7. r = FilledWith(y, s, Text(t))
    <3>1. r = Resized(Written(y, s, 0, Chars(now, t)), s, f.length)
      BY <1>4, <1>6 DEF MoveFrom
    <3> QED BY <2>2, <2>6, <3>1 DEF FilledWith
  <2> HIDE DEF y
  <2>8. Outcome(IF IsBogus(y, s) THEN y ELSE FilledWith(y, s, Text(t)), s, Text(t))
    BY <2>2, <2>5, FilledIsOutcome
  <2> HIDE DEF r
  <2>9. Outcome(r, s, value[t])
    BY <1>4, <2>6, <2>7, <2>8
  <2>10. Finished(now, r, s, new)
    BY <2>9 DEF Outcome
  <2>11. value' = [value EXCEPT ![s] = new]
    <3>1. CASE s = t
      BY <1>3, <1>4, <3>1
    <3>2. CASE s # t
      <4>1. ~IsBogus(r, t)
        BY <2>1, <2>10, <3>2 DEF Finished, Spares, IsBogus
      <4> HIDE DEF new
      <4> QED BY <1>3, <1>4, <3>2, <4>1
    <3> QED BY <3>1, <3>2
  <2> HIDE DEF new
  <2> QED BY <1>1, <1>3, <2>10, <2>11, BecomesSound
<1>7. CASE f.storage # "short" /\ s = t
  <2> DEFINE y == SetFields(x, s, f)
  <2>1. r = SetFields(y, s, BogusFields)
    BY <1>4, <1>7 DEF MoveFrom
  <2>2. Begun(now, y, s, f)
    BY <1>4, NewFieldsBegin
  <2> HIDE DEF y, r
  <2>3. Spares(now, y, s) /\ Working(y, s, {}) /\ BogusFields \in FieldSet
    BY <2>2, FieldsAreFields DEF Begun
  <2>4. Spares(y, r, s) /\ r.str[s] = BogusFields
    BY <2>1, <2>3, SetFieldsSpares, SetFieldsWorks
  <2>5. IsBogus(r, s)
    BY <2>4 DEF IsBogus, BogusFields, Fields
  <2>6. Spares(now, r, s)
    BY <2>3, <2>4, SparesAgain
  <2>7. Outcome(r, s, Bogus)
    BY <1>5, <2>5, <2>6, BogusIsOutcome DEF Left
  <2>8. Finished(now, r, s, Bogus)
    BY <2>5, <2>7 DEF Outcome
  <2>9. value' = [value EXCEPT ![s] = Bogus]
    BY <1>3, <1>4, <1>7, <2>5
  <2> QED BY <1>1, <1>3, <2>8, <2>9, BecomesSound
<1>8. CASE f.storage # "short" /\ s # t
  <2> DEFINE y == SetFields(x, s, f)
             v == [value EXCEPT ![s] = value[t], ![t] = Bogus]
  <2>1. r = SetFields(y, t, BogusFields)
    BY <1>4, <1>8 DEF MoveFrom
  <2>2. Rest(r, v)
    <3>1. s # t /\ ~str[t].open /\ str[t].storage # "short"
      BY <1>2, <1>8
    <3>2. Rest(SetFields(SetFields(Released(now, s), s, str[t]), t, BogusFields),
               [value EXCEPT ![s] = value[t], ![t] = Bogus])
      BY <3>1, TakenOverRests
    <3> HIDE DEF r
    <3> QED BY <2>1, <3>2
  <2>3. Begun(now, y, s, f)
    BY <1>4, NewFieldsBegin
  <2> HIDE DEF y, r
  <2>4. y \in Memory /\ y.str[s] = f /\ BogusFields \in FieldSet
    BY <2>3, FieldsAreFields DEF Begun
  <2>5. r.str[t] = BogusFields /\ r.str[s] = f
    <3>1. r.str[t] = BogusFields
      BY <2>1, <2>4, SetFieldsFrame
    <3>2. \A u \in String \ {t} : r.str[u] = y.str[u]
      BY <2>1, <2>4, SetFieldsFrame, SMTT(20)
    <3> QED BY <1>8, <2>4, <3>1, <3>2
  <2>6. IsBogus(r, t) /\ (IsBogus(r, s) <=> IsBogus(now, t))
    BY <1>4, <2>5 DEF IsBogus, BogusFields, Fields
  <2>7. new = value[t]
    BY <1>4, <2>6 DEF Holds
  <2>8. value' = v
    <3> HIDE DEF new
    <3> QED BY <1>3, <2>6, <2>7
  <2> HIDE DEF v
  <2>9. now'.str = r.str /\ now'.mem = r.mem
    BY <1>3 DEF Becomes, now
  <2>10. Rest(now', value')
    BY <2>2, <2>8, <2>9, SameMemoryRests
  <2> QED BY <1>1, <2>10 DEF Sound
<1> QED BY <1>6, <1>7, <1>8

(* The calls that give s another array, or none.                           *)
LEMMA ArrayCallsSound ==
  ASSUME Sound, NoneIsTooLong', NEW s \in String,
         SetToBogus(s) \/ Copy(s) \/ Move(s)
           \/ ConstructEmpty(s) \/ AliasLiteral(s) \/ AliasOutside(s)
  PROVE  Sound'
<1>1. Accounted(now)'
  BY ArrayCallsAccounted DEF Sound
<1>2. Left(now, s) /\ Layout(now) /\ Settled(now, s) /\ Tidy(now)
  BY SoundIsReady DEF Sound, Rest, Left
<1>3. CASE SetToBogus(s)
  <2> DEFINE r == ToBogus(now, s)
  <2>1. Settled(r, s) /\ r.str[s] = BogusFields /\ Spares(now, r, s)
    BY <1>2, ToBogusSettles, ToBogusSpares
  <2>2. Gives(s, {r}, Bogus)
    BY <1>3 DEF SetToBogus
  <2> HIDE DEF r
  <2>3. IsBogus(r, s)
    BY <2>1 DEF IsBogus, BogusFields, Fields
  <2>4. Outcome(r, s, Bogus)
    BY <2>1, <2>3, BogusIsOutcome
  <2> QED BY <1>1, <2>2, <2>4, GivesSound
<1>4. CASE Copy(s)
  <2>1. PICK t \in String : Gives(s, CopyFrom(now, s, t), IF s = t THEN value[s] ELSE Text(t))
    BY <1>4 DEF Copy
  <2> DEFINE text == IF s = t THEN value[s] ELSE Text(t)
  <2>2. \A r \in CopyFrom(now, s, t) : Outcome(r, s, text)
    BY CopyIsOutcome
  <2>3. Gives(s, CopyFrom(now, s, t), text)
    BY <2>1
  <2> HIDE DEF text
  <2> QED BY <1>1, <2>2, <2>3, GivesSound
<1>5. CASE ConstructEmpty(s)
  <2> DEFINE r == SetFields(Released(now, s), s, Empty(s))
             none == <<>>
  <2>1. Made(now, r, s, none) /\ none \in Seq(Cell)
    BY <1>2, EmptyIsMade
  <2>2. Gives(s, {r}, none)
    BY <1>5 DEF ConstructEmpty, Construct
  <2> HIDE DEF r, none
  <2>3. Outcome(r, s, none)
    BY <2>1, MadeIsOutcome
  <2> QED BY <1>1, <2>2, <2>3, GivesSound
<1>6. CASE AliasLiteral(s)
  <2>1. PICK n \in -1 .. Len(LiteralUnits), isTerminated \in BOOLEAN :
          LET length == IF n = -1 THEN Len(LiteralUnits) ELSE n
          IN  Construct(s,
                IF (n = -1 /\ ~isTerminated) \/ (n \in 0 .. Len(LiteralUnits) - 1 /\ isTerminated)
                THEN BogusFields
                ELSE Fields("readonly", Literal, length,
                            IF isTerminated THEN length + 1 ELSE length),
                SubSeq(LiteralUnits, 1, length))
    BY <1>6 DEF AliasLiteral
  <2> DEFINE length == IF n = -1 THEN Len(LiteralUnits) ELSE n
             capacity == IF isTerminated THEN length + 1 ELSE length
             text == SubSeq(LiteralUnits, 1, length)
             b == SetFields(Released(now, s), s, BogusFields)
             a == SetFields(Released(now, s), s, Fields("readonly", Literal, length, capacity))
  <2>2. length \in 0 .. Len(LiteralUnits) /\ capacity \in Int /\ length <= capacity
        /\ capacity <= Len(LiteralUnits) + 1
    <3>1. Len(LiteralUnits) \in Nat
      BY UnitsAssumption
    <3> QED BY <3>1
  <2>3. Gives(s, {b}, text) \/ Gives(s, {a}, text)
    BY <2>1 DEF Construct
  <2> HIDE DEF length, capacity
  <2>4. Outcome(a, s, text)
    BY <2>2, AliasIsOutcome
  <2>5. Outcome(b, s, text)
    <3>1. BogusFields \in FieldSet /\ Sane(BogusFields, s) /\ BogusFields.storage = "bogus"
      BY FieldsAreFields DEF BogusFields, Fields
    <3>2. Begun(now, b, s, BogusFields) /\ Working(Released(now, s), s, {})
          /\ Tidy(Released(now, s))
      BY <1>2, <3>1, NewFieldsBegin
    <3>3. Left(b, s)
      BY <3>1, <3>2, NewFieldsSettle
    <3> HIDE DEF b
    <3>4. Spares(now, b, s) /\ IsBogus(b, s) /\ Settled(b, s)
      BY <3>1, <3>2, <3>3 DEF Begun, IsBogus, Left
    <3> QED BY <3>4, BogusIsOutcome
  <2> HIDE DEF a, b, text
  <2> QED BY <1>1, <2>3, <2>4, <2>5, GivesSound
<1>7. CASE AliasOutside(s)
  <2> DEFINE r(n) == [SetFields(Released(now, s), s,
                                Fields("writable", Outside, n, Len(OutsideUnits)))
                        EXCEPT !.mem[Outside].units = OutsideUnits]
             text(n) == SubSeq(OutsideUnits, 1, n)
  <2>1. \A t \in String \ {s} : str[t].array # Outside
    BY <1>7 DEF AliasOutside
  <2>2. PICK n \in 0 .. Len(OutsideUnits) : Gives(s, {r(n)}, text(n))
    BY <1>7 DEF AliasOutside
  <2>3. Outcome(r(n), s, text(n))
    BY <2>1, OutsideIsOutcome
  <2> HIDE DEF r, text
  <2> QED BY <1>1, <2>2, <2>3, GivesSound
<1> QED BY <1>3, <1>4, <1>5, <1>6, <1>7, MoveSound

-----------------------------------------------------------------------------
(* The strings begin empty, each with its own buffer.                      *)
LEMMA InitSound ==
  ASSUME Init
  PROVE  Sound
<1>1. Accounted(now)
  BY InitAccounted
<1>2. Layout(now)
  <2>1. \A t \in String : now.mem[t].units = Uninitialized(StackSize)
    BY Places DEF Init, now
  <2>2. Len(Uninitialized(StackSize)) = StackSize
    BY BoundsAssumption DEF Uninitialized
  <2>3. now.mem[Literal].units = LiteralUnits \o <<0>>
    BY Places DEF Init, now
  <2>4. now.mem[Outside].units = OutsideUnits
    BY Places DEF Init, now
  <2> QED BY <2>1, <2>2, <2>3, <2>4 DEF Layout
<1> DEFINE none == <<>>
<1>3. none \in Seq(Cell) /\ Len(none) = 0 /\ value = [s \in String |-> none]
  BY DEF Init
<1>4. ASSUME NEW s \in String
      PROVE  Joins(now, s) /\ Fits(now, s) /\ Holds(now, s, none)
  <2>1. Settled(now, s) /\ now.str[s] = Empty(s)
    BY <1>1, AccountedForOne DEF Left, Init, now
  <2>2. /\ Joins(now, s) /\ Fits(now, s) /\ Chars(now, s) = none
        /\ ~now.str[s].open /\ now.str[s].storage = "short"
    BY <1>2, <2>1, EmptyIsReady
  <2>3. Holds(now, s, none)
    BY <2>2 DEF Holds, IsBogus, Chars
  <2> QED BY <2>2, <2>3
<1> HIDE DEF none
<1>5. value \in [String -> Seq(Cell)] /\ \A s \in String : value[s] = none
  BY <1>3
<1> QED BY <1>1, <1>2, <1>4, <1>5 DEF Sound, Rest

(* What is known between the calls is enough.                              *)
LEMMA SoundIsTyped ==
  ASSUME Sound
  PROVE  StringTypeOK
<1> SUFFICES ASSUME NEW s \in String
             PROVE  LET f == str[s]
                    IN  /\ f.length \in 0 .. f.capacity
                        /\ f.storage # "bogus" => f.start + f.capacity <= Len(mem[f.array].units)
                        /\ CASE f.storage = "short"    -> f.array = s
                             [] f.storage = "long"     -> f.array \in Array
                             [] f.storage = "readonly" -> f.array = Literal
                             [] f.storage = "writable" -> f.array = Outside
                             [] f.storage = "bogus"    -> f = BogusFields
  BY DEF StringTypeOK
<1>1. str[s] \in FieldSet /\ Sane(str[s], s) /\ Fits(now, s)
  BY DEF Sound, Rest, Accounted, Memory, now
<1>2. str[s].length \in 0 .. str[s].capacity
  BY <1>1 DEF FieldSet, Fits, now
<1>3. str[s].storage # "bogus"
        => str[s].start + str[s].capacity <= Len(mem[str[s].array].units)
  BY <1>1 DEF Fits, Area, now
<1>4. str[s].storage \in Storages
  BY <1>1 DEF FieldSet
<1> QED BY <1>1, <1>2, <1>3, <1>4 DEF Sane, Storages

(* The texts are what the callers rely on.                                *)
LEMMA SoundKeepsValues ==
  ASSUME Sound
  PROVE  KeepsValues
<1>1. mem[Literal].units = LiteralUnits \o <<0>>
  BY DEF Sound, Rest, Layout, now
<1>2. \A s \in String : Holds(now, s, value[s])
  BY DEF Sound, Rest
<1> QED BY <1>1, <1>2 DEF KeepsValues, Holds, now

(* Nor does any call change it.                                            *)
LEMMA StepSound ==
  ASSUME Sound, NoneIsTooLong', [Next]_vars
  PROVE  Sound'
<1>1. CASE UNCHANGED vars
  <2>1. now' = now /\ value' = value
    BY <1>1 DEF vars, now
  <2> QED BY <2>1 DEF Sound
<1>2. CASE Next
  <2>1. PICK s \in String : Call(s)
    BY <1>2 DEF Next
  <2> QED BY <2>1, TextCallsSound, BufferCallsSound, ArrayCallsSound DEF Call
<1> QED BY <1>1, <1>2

(* A string lies within its array, through every call that leaves no text  *)
(* longer than getGrowCapacity() makes room for: it never has more room    *)
(* than kMaxCapacity, so that nothing is promised for the nine lengths     *)
(* between what is then allocated and INT32_MAX, which doAppend() and      *)
(* doReplace() do not refuse.                                              *)
THEOREM StringsStayWithinTheirArrays == Spec /\ []NoneIsTooLong => []StringTypeOK
<1>1. Init => Sound
  BY InitSound
<1>2. Sound /\ NoneIsTooLong' /\ [Next]_vars => Sound'
  BY StepSound
<1>3. Sound => StringTypeOK
  BY SoundIsTyped
<1> QED BY <1>1, <1>2, <1>3, PTL DEF Spec

(* Sharing cannot be seen: each string has the text that its own calls     *)
(* gave it, whatever is done with the strings that it shares an array      *)
(* with and whatever allocation fails, and a constant text is never        *)
(* written to (cloneArrayIfNeeded(), copyFrom(), doReplace()).             *)
THEOREM SharingIsNeverSeen == Spec /\ []NoneIsTooLong => []KeepsValues
<1>1. Init => Sound
  BY InitSound
<1>2. Sound /\ NoneIsTooLong' /\ [Next]_vars => Sound'
  BY StepSound
<1>3. Sound => KeepsValues
  BY SoundKeepsValues
<1> QED BY <1>1, <1>2, <1>3, PTL DEF Spec
=============================================================================
