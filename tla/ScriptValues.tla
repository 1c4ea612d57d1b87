------------------------------ MODULE ScriptValues ------------------------------
(* The objects of a script, the references to them, and what the operators and  *)
(* methods of each type do: integers, Booleans, strings, lists, maps, and the   *)
(* functions of the standard context.                                           *)
(*                                                                              *)
(* A reference is to an object m.heap[o], says whether this may be changed      *)
(* through it, and, if it is a ScriptMethodRef, names the method.  The          *)
(* operators take the memory m of ScriptRun and give the one they leave, with   *)
(* what they return in m.ret.  Error messages, reals and shifts by a negative   *)
(* number are left out.                                                         *)
EXTENDS Integers, Sequences, FiniteSets, SequencesExt, Functions, TLC

LOCAL INSTANCE Bitwise

Null == [o |-> 0, const |-> FALSE, method |-> ""]        \* a null ScriptRef*
RefTo(o) == [Null EXCEPT !.o = o]
MethodOf(ref, name) == [ref EXCEPT !.method = name]

(* The only object that is not the script's own: the contexts around it.        *)
Contexts == 1

Return(m, ref) == [m EXCEPT !.ret = ref]
New(m, object) == Return([m EXCEPT !.heap = Append(@, object)], RefTo(Len(m.heap) + 1))
NewInt(m, v)  == New(m, [k |-> "int", v |-> v])
NewBool(m, b) == New(m, [k |-> "bool", v |-> IF b THEN 1 ELSE 0])
NewStr(m, s)  == New(m, [k |-> "str", v |-> s])
NewList(m, refs) == New(m, [k |-> "list", v |-> refs])
NewStrings(m, strings) ==                                \* a list of new strings
  NewList([m EXCEPT !.heap = @ \o [i \in DOMAIN strings |-> [k |-> "str", v |-> strings[i]]]],
          [i \in DOMAIN strings |-> RefTo(Len(m.heap) + i)])
NewMap(m, map) == New(m, [k |-> "map", v |-> map])
NewError(m)   == New(m, [k |-> "err"])

(* A null pointer is used.                                                      *)
Crashed(m) == [Return(m, Null) EXCEPT !.crashed = TRUE]

Object(m, ref) == m.heap[ref.o]
Is(m, ref, kinds) == ref # Null /\ Object(m, ref).k \in kinds
IsError(m, ref) == Is(m, ref, {"err"})

GetInt(object) ==
  CASE object.k \in {"int", "bool"} -> object.v
    [] object.k = "str" -> IF object.v = "" THEN 0 ELSE 1
    [] object.k \in {"list", "map"} -> Cardinality(DOMAIN object.v)
    [] object.k = "err" -> 0
    [] OTHER -> 1
Holds(m, ref) == ref # Null /\ GetInt(Object(m, ref)) # 0

------------------------------------------------------------------------------
(* Strings.                                                                     *)

Capitals == "ABCDEFGHIJKLMNOPQRSTUVWXYZ"
Smalls   == "abcdefghijklmnopqrstuvwxyz"
Alphabet == "!'(),-.0123456789:<=>" \o Capitals \o "[]_" \o Smalls \o "{}"

RECURSIVE Glued(_, _)
Glued(strings, glue) ==
  CASE strings = <<>> -> ""
    [] Len(strings) = 1 -> Head(strings)
    [] OTHER -> Head(strings) \o glue \o Glued(Tail(strings), glue)
Place(c, s) == CHOOSE i \in 1..Len(s) : SubSeq(s, i, i) = c
Exchanged(s, from, to) ==
  Glued([i \in 1..Len(s) |-> LET c == SubSeq(s, i, i) IN
           IF \E j \in 1..Len(from) : SubSeq(from, j, j) = c
           THEN SubSeq(to, Place(c, from), Place(c, from)) ELSE c], "")

Before(a, b) ==
  \/ Len(a) < Len(b) /\ SubSeq(b, 1, Len(a)) = a
  \/ \E i \in 1..Len(a) :
       /\ i <= Len(b) /\ SubSeq(a, 1, i - 1) = SubSeq(b, 1, i - 1)
       /\ Place(SubSeq(a, i, i), Alphabet) < Place(SubSeq(b, i, i), Alphabet)

(* The items of s in order, less[i, j] saying that the item i comes before the  *)
(* item j; equal ones as they were.                                             *)
SortedBy(s, less) ==
  LET Ahead(i, j) == less[i, j] \/ (i < j /\ ~less[j, i])
  IN  [k \in DOMAIN s |->
         s[CHOOSE i \in DOMAIN s : Cardinality({j \in DOMAIN s \ {i} : Ahead(j, i)}) = k - 1]]

InOrder(strings) == SortedBy(strings, [i, j \in DOMAIN strings |-> Before(strings[i], strings[j])])
Keys(map) == InOrder(SetToSeq(DOMAIN map))

(* The parts of s between the strings pat, without the empty ones.              *)
RECURSIVE Parts(_, _)
Parts(s, pat) ==
  LET at == {i \in 1..Len(s) - Len(pat) + 1 : SubSeq(s, i, i + Len(pat) - 1) = pat}
      cut == IF at = {} THEN Len(s) + 1 ELSE CHOOSE i \in at : \A j \in at : i <= j
      part == SubSeq(s, 1, cut - 1)
  IN  (IF part = "" THEN <<>> ELSE <<part>>)
        \o (IF at = {} THEN <<>> ELSE Parts(SubSeq(s, cut + Len(pat), Len(s)), pat))

(* get_string().                                                                *)
RECURSIVE StringOf(_, _)
Entries(m, map, keys) == [i \in DOMAIN keys |-> "'" \o keys[i] \o "':" \o StringOf(m, map[keys[i]])]
StringOf(m, ref) ==
  LET x == Object(m, ref)
  IN  CASE x.k = "int"  -> ToString(x.v)
        [] x.k = "bool" -> IF x.v = 1 THEN "true" ELSE "false"
        [] x.k = "str"  -> x.v
        [] x.k = "list" -> "[" \o Glued([i \in DOMAIN x.v |-> StringOf(m, x.v[i])], ",") \o "]"
        [] x.k = "map"  -> "{" \o Glued(Entries(m, x.v, Keys(x.v)), ",") \o "}"
        [] x.k = "sub"  -> "sub"
        [] x.k = "err"  -> "ERROR"
        [] OTHER -> ""

(* new_copy(): the items of a list or map are copied too, with references that  *)
(* may change them; a subroutine is copied with a tracer of its own.  Copies    *)
(* gives the references to copies of what refs refer to.                        *)
RECURSIVE Copy(_, _), Copies(_, _, _)
CopiedTo(m, refs, copies) == Copies(m, refs, Append(copies, m.ret))
Copies(m, refs, copies) ==
  CASE refs = <<>> -> [m |-> m, refs |-> copies]
    [] refs # <<>> /\ Head(refs) = Null -> CopiedTo(Crashed(m), Tail(refs), copies)
    [] OTHER -> CopiedTo(Copy(m, Head(refs)), Tail(refs), copies)
Parted(x, keys) == IF x.k = "map" THEN [i \in DOMAIN keys |-> x.v[keys[i]]]
                   ELSE IF x.k = "list" THEN x.v ELSE <<>>
Whole(x, keys, copies) ==
  CASE x.k = "list" -> [x EXCEPT !.v = copies]
    [] x.k = "map"  -> [x EXCEPT !.v = [key \in DOMAIN @ |->
                          copies[CHOOSE i \in DOMAIN keys : keys[i] = key]]]
    [] OTHER -> x
Named(m, method) == Return(m, MethodOf(m.ret, method))
Remade(parts, x, keys, ref) == Named(New(parts.m, Whole(x, keys, parts.refs)), ref.method)
CopyOf(m, x, keys, ref) == Remade(Copies(m, Parted(x, keys), <<>>), x, keys, ref)
Copy(m, ref) ==
  LET x == Object(m, ref) IN CopyOf(m, x, IF x.k = "map" THEN Keys(x.v) ELSE <<>>, ref)

------------------------------------------------------------------------------
(* script_op() of each type.                                                    *)

Assign(m, ref, v) ==
  Return(IF ref.const THEN m ELSE [m EXCEPT !.heap[ref.o].v = v], ref)

(* Slip: what is in a constant list or map can be changed.                      *)
AsItIs(ref, item) == item

(* What is in a list or map, got through a reference to that: if this may not   *)
(* change it, it cannot be changed through the result either.                   *)
Through(ref, item) == [item EXCEPT !.const = @ \/ ref.const]

(* Division rounds towards zero; /= does not look for a zero.                   *)
Abs(i) == IF i < 0 THEN -i ELSE i
Quotient(a, b) ==
  LET q == Abs(a) \div Abs(b) IN IF (a < 0) = (b < 0) THEN q ELSE -q

(* Numbers as words of 16 bits, and back.                                       *)
Word(a)   == a % 65536
Signed(w) == IF w < 32768 THEN w ELSE w - 65536

(* ScriptObject::script_op: what every object can do.                           *)
ObjectOp(m, ref, op, right) ==
  LET value  == GetInt(Object(m, ref))
      rvalue == IF right = Null THEN 0 ELSE GetInt(Object(m, right))
  IN  CASE op = "Not"         -> NewBool(m, value = 0)
        [] op = "GreaterThan" -> NewBool(m, value > rvalue)
        [] op = "LessThan"    -> NewBool(m, value < rvalue)
        [] op = "GreaterThanOrEqualTo" -> NewBool(m, value >= rvalue)
        [] op = "LessThanOrEqualTo"    -> NewBool(m, value <= rvalue)
        [] op = "Equality"    -> NewBool(m, value = rvalue)
        [] op = "Inequality"  -> NewBool(m, value # rvalue)
        [] op = "And" -> Return(m, IF value # 0 /\ right # Null THEN right ELSE RefTo(ref.o))
        [] op = "Or"  -> Return(m, IF value # 0 THEN RefTo(ref.o) ELSE right)
        [] OTHER -> NewError(m)

IntBinary(m, ref, op, right) ==
  LET a == Object(m, ref).v
      b == Object(m, right).v
      v == CASE op \in {"Add", "AddAssign"} -> a + b
             [] op \in {"Subtract", "SubtractAssign"} -> a - b
             [] op \in {"Multiply", "MultiplyAssign"} -> a * b
             [] op \in {"Divide", "DivideAssign"} -> Quotient(a, b)
             [] op = "Modulus" -> a - b * Quotient(a, b)
             [] op = "Power"   -> a ^ b
             [] op = "BitOr"   -> Signed(Word(a) | Word(b))
             [] op = "BitAnd"  -> Signed(Word(a) & Word(b))
             [] op = "BitXor"  -> Signed(Word(a) ^^ Word(b))
             [] op = "LeftShift"  -> a * 2 ^ b
             [] op = "RightShift" -> a \div 2 ^ b
             [] OTHER -> b
  IN  CASE op \in {"Divide", "Modulus"} /\ b = 0 -> NewError(m)
        [] op = "Power" /\ b < 0 -> NewInt(m, IF Abs(a) = 1 THEN a ^ (-b) ELSE 0)
        [] op = "DivideAssign" /\ b = 0 ->
             IF ref.const THEN Return(m, ref) ELSE Crashed(m)
        [] op \in {"Assign", "AddAssign", "SubtractAssign", "MultiplyAssign"}
             \/ (op = "DivideAssign" /\ b # 0) -> Assign(m, ref, v)
        [] op \in {"Add", "Subtract", "Multiply", "BitOr", "BitAnd", "BitXor",
                   "LeftShift", "RightShift"}
             \/ (op = "Power" /\ b >= 0)
             \/ (op \in {"Divide", "Modulus"} /\ b # 0) -> NewInt(m, v)
        [] OTHER -> ObjectOp(m, ref, op, right)

IntUnary(m, ref, op) ==
  LET a == Object(m, ref).v
      product[i \in 0..Abs(a)] == IF i = 0 THEN 1 ELSE i * product[i - 1]
  IN  CASE op = "Positive" -> NewInt(m, a)
        [] op = "Negative" -> NewInt(m, -a)
        [] op = "BitNot"   -> NewInt(m, -a - 1)
        [] op = "Factorial" -> NewInt(m, IF a < 0 THEN -product[-a] ELSE product[a])
        [] op = "PreIncrement"  -> Assign(m, ref, a + 1)
        [] op = "PreDecrement"  -> Assign(m, ref, a - 1)
        [] op = "PostIncrement" -> NewInt(Assign(m, ref, a + 1), a)
        [] op = "PostDecrement" -> NewInt(Assign(m, ref, a - 1), a)
        [] OTHER -> ObjectOp(m, ref, op, Null)

BoolBinary(m, ref, op, right) ==
  LET a == Object(m, ref).v = 1
      b == Object(m, right).v = 1
  IN  CASE op = "Or"     -> NewBool(m, a \/ b)
        [] op = "And"    -> NewBool(m, a /\ b)
        [] op = "Assign" -> Assign(m, ref, Object(m, right).v)
        [] OTHER -> ObjectOp(m, ref, op, right)

(* The second operand of the operators on strings is taken as a string, but >=  *)
(* and <= are those of every object.                                            *)
StringOp(m, ref, op, right, a, b) ==
  CASE op = "Add"        -> NewStr(m, a \o b)
    [] op = "Equality"   -> NewBool(m, a = b)
    [] op = "Inequality" -> NewBool(m, a # b)
    [] op = "GreaterThan" -> NewBool(m, Before(b, a))
    [] op = "LessThan"   -> NewBool(m, Before(a, b))
    [] op = "Assign"     -> Assign(m, ref, b)
    [] op = "AddAssign"  -> Assign(m, ref, a \o b)
    [] op = "Lookup" /\ b = "length" -> NewInt(m, Len(a))
    [] op = "Lookup" /\ b = "empty"  -> NewBool(m, a = "")
    [] op = "Lookup" /\ b \in {"clear", "split", "uc", "lc"} -> Return(m, MethodOf(ref, b))
    [] OTHER -> ObjectOp(m, ref, op, right)

ListOp(m, ref, op, right, name) ==
  LET items == Object(m, ref).v
      i == GetInt(Object(m, right)) + 1
  IN  CASE op = "Subscript" -> IF i \in DOMAIN items /\ items[i] # Null
                               THEN Return(m, Through(ref, items[i])) ELSE NewError(m)
        [] op = "Lookup" /\ name = "size" -> NewInt(m, Len(items))
        [] op = "Lookup" /\ name \in {"push", "splice", "reverse", "sort", "join", "clear"} ->
             Return(m, MethodOf(ref, name))
        [] OTHER -> ObjectOp(m, ref, op, right)

MapOp(m, ref, op, right, map, name) ==
  LET own  == op = "Lookup" /\ name \in {"set", "add", "remove", "clear", "size", "keys"}
  IN  CASE own /\ name = "size" -> NewInt(m, Cardinality(DOMAIN map))
        [] own /\ name = "keys" -> NewStrings(m, Keys(map))
        [] own /\ name \notin {"size", "keys"} -> Return(m, MethodOf(ref, name))
        [] ~own /\ op \in {"Lookup", "Subscript"} /\ name \in DOMAIN map ->
             IF map[name] = Null THEN NewError(m) ELSE Return(m, Through(ref, map[name]))
        [] ~own /\ op = "Subscript" /\ name \notin DOMAIN map -> NewError(m)
        [] OTHER -> ObjectOp(m, ref, op, right)

(* script_op() of an object that is not called.  A method can only be called.   *)
ValueOp(m, ref, op, right) ==
  LET k == Object(m, ref).k
  IN  CASE ref.method # "" -> NewError(m)
        [] ref.method = "" /\ k = "int" /\ right = Null -> IntUnary(m, ref, op)
        [] ref.method = "" /\ k = "int" /\ Is(m, right, {"int"}) -> IntBinary(m, ref, op, right)
        [] ref.method = "" /\ k = "bool" /\ Is(m, right, {"bool"}) -> BoolBinary(m, ref, op, right)
        [] ref.method = "" /\ k = "str" /\ right # Null ->
             StringOp(m, ref, op, right, Object(m, ref).v, StringOf(m, right))
        [] ref.method = "" /\ k = "list" /\ right # Null ->
             ListOp(m, ref, op, right, StringOf(m, right))
        [] ref.method = "" /\ k = "map" /\ right # Null ->
             MapOp(m, ref, op, right, Object(m, ref).v, StringOf(m, right))
        [] OTHER -> ObjectOp(m, ref, op, right)

------------------------------------------------------------------------------
(* Methods; args are the arguments of the call.                                 *)

(* ScriptList::get() walks round the list, whose end is one more place: what is *)
(* behind the end is the first item again.                                      *)
Arg(args, i) ==
  LET place == (i - 1) % (Len(args) + 1) IN IF place = Len(args) THEN Null ELSE args[place + 1]
IsStr(m, ref) == Is(m, ref, {"str"})
IsNum(m, ref) == Is(m, ref, {"int", "bool"})

StringMethod(m, ref, args) ==
  LET s   == Object(m, ref).v
      pat == Arg(args, 1)
  IN  CASE ref.method = "clear" -> IF ref.const THEN NewError(m) ELSE Return(Assign(m, ref, ""), Null)
        [] ref.method = "split" ->
             IF ~IsStr(m, pat) \/ ~Holds(m, pat) THEN NewError(m)
             ELSE NewStrings(m, Parts(s, Object(m, pat).v))
        [] ref.method = "uc" -> NewStr(m, Exchanged(s, Smalls, Capitals))
        [] ref.method = "lc" -> NewStr(m, Exchanged(s, Capitals, Smalls))

(* splice(): removes length items behind the first offset ones and puts the     *)
(* items of another list in their place.  (The list itself is not passed.)      *)
Spliced(added, ref, removed, offset, length) ==
  LET items == Object(added.m, ref).v
  IN  NewList(Assign(added.m, ref, SubSeq(items, 1, offset) \o added.refs
                                     \o SubSeq(items, offset + length + 1, Len(items))),
              removed.refs)
Insert(removed, ref, args, offset, length) ==
  Spliced(Copies(removed.m, IF Is(removed.m, Arg(args, 3), {"list"})
                            THEN Object(removed.m, args[3]).v ELSE <<>>, <<>>),
          ref, removed, offset, length)
Splice(m, ref, args) ==
  LET items  == Object(m, ref).v
      offset == IF IsNum(m, Arg(args, 1)) THEN GetInt(Object(m, args[1])) ELSE 0
      length == IF IsNum(m, Arg(args, 2)) THEN GetInt(Object(m, args[2])) ELSE Len(items) - offset
  IN  IF offset \notin 0..Len(items) \/ length \notin 0..Len(items) - offset THEN NewError(m)
      ELSE Insert(Copies(m, SubSeq(items, offset + 1, offset + length), <<>>), ref, args, offset, length)

(* push(): a copy of each argument, one after the other.                        *)
RECURSIVE Pushed(_, _, _)
Added(m, ref) == Assign(m, ref, Append(Object(m, ref).v, m.ret))
PushedOne(m, x) == IF x = Null THEN Crashed(m) ELSE Copy(m, x)
Pushed(m, ref, args) ==
  IF args = <<>> THEN m ELSE Pushed(Added(PushedOne(m, Head(args)), ref), ref, Tail(args))

(* All but sort.                                                                *)
ListMethod(m, ref, args) ==
  LET items  == Object(m, ref).v
      name   == ref.method
      Changed(m1, list) == Return(Assign(m1, ref, list), Null)
  IN  CASE name # "join" /\ ref.const -> NewError(m)
        [] name = "push" /\ ~ref.const -> IF args = <<>> THEN NewError(m)
                                          ELSE Return(Pushed(m, ref, args), Null)
        [] name = "splice" /\ ~ref.const -> Splice(m, ref, args)
        [] name = "reverse" /\ ~ref.const -> Changed(m, Reverse(items))
        [] name = "clear" /\ ~ref.const -> Changed(m, <<>>)
        [] name = "join" -> IF ~IsStr(m, Arg(args, 1)) THEN NewError(m)
                            ELSE NewStr(m, Glued([i \in DOMAIN items |-> StringOf(m, items[i])],
                                                 Object(m, args[1]).v))

(* A value is put into a map as it is, not copied as push() does.               *)
MapMethod(m, ref, args) ==
  LET map  == Object(m, ref).v
      key  == Object(m, args[1]).v
      Changed(new) == Return(Assign(m, ref, new), Null)
  IN  CASE ref.const -> NewError(m)
        [] ~ref.const /\ ref.method = "clear" -> Changed(<<>>)
        [] ~ref.const /\ ref.method \in {"set", "add"} ->
             IF ~IsStr(m, Arg(args, 1)) \/ Arg(args, 2) = Null THEN NewError(m)
             ELSE Changed((key :> args[2]) @@ map)
        [] ~ref.const /\ ref.method = "remove" ->
             IF ~IsStr(m, Arg(args, 1)) THEN NewError(m)
             ELSE IF key \notin DOMAIN map THEN NewError(m)
             ELSE Changed(Restrict(map, DOMAIN map \ {key}))

(* The functions of the standard context, with decimal numbers below 100, and   *)
(* print().                                                                     *)
Numeral == "" :> 0 @@ [s \in {ToString(i) : i \in 0..99} |-> CHOOSE i \in 0..99 : ToString(i) = s]
StandardFunctions == {"defined", "ref", "constref", "String", "Int", "Bool"}

Function(m, ref, args) ==
  LET x == Arg(args, 1)
      s == Object(m, x).v
  IN  CASE ref.method = "defined" -> NewBool(m, x # Null /\ ~IsError(m, x))
        [] ref.method = "ref"  -> Return(m, x)
        [] ref.method = "constref" -> Return(m, IF x = Null THEN Null ELSE [x EXCEPT !.const = TRUE])
        [] ref.method = "String" -> NewStr(m, IF x = Null THEN "" ELSE StringOf(m, x))
        [] ref.method = "Int" ->
             CASE x = Null -> NewInt(m, 0)
               [] IsStr(m, x) -> IF s \in DOMAIN Numeral THEN NewInt(m, Numeral[s]) ELSE NewError(m)
               [] OTHER -> NewInt(m, GetInt(Object(m, x)))
        [] ref.method = "Bool" ->
             NewBool(m, IF IsStr(m, x) THEN s \notin {"", "0", "false"} ELSE Holds(m, x))
        [] ref.method = "print" ->
             Return([m EXCEPT !.out = @ \o [i \in DOMAIN args |-> StringOf(m, args[i])]], Null)

(* script_method().                                                             *)
Method(m, ref, args) ==
  LET k == Object(m, ref).k
  IN  CASE k = "context" -> Function(m, ref, args)
        [] k = "str"  -> StringMethod(m, ref, args)
        [] k = "list" -> ListMethod(m, ref, args)
        [] k = "map"  -> MapMethod(m, ref, args)
=============================================================================
