------------------------------- MODULE ScriptRun -------------------------------
(* How a script is evaluated: ScriptExpr, which parses and evaluates the text   *)
(* of an expression in one pass, the run() of each statement, subroutines, and  *)
(* the operators of integers and Booleans.                                      *)
(*                                                                              *)
(* Everything a script can change is one record m: the objects (heap), the      *)
(* variables of each group (scopes), the ScriptExpr of each tracer (eval), what *)
(* was printed, and the statements (nodes).  The operators follow the calls of  *)
(* the code: each takes m and gives the m it leaves, with the reference it      *)
(* returns in m.ret and the FlowMode in m.flow.                                 *)
(*                                                                              *)
(* A text is a sequence of lexemes; a string is one, with a quote before and    *)
(* behind.                                                                      *)
EXTENDS ScriptValues

Number == "0" :> 0 @@ "1" :> 1 @@ "2" :> 2 @@ "3" :> 3 @@ "4" :> 4 @@ "5" :> 5
            @@ "6" :> 6 @@ "7" :> 7 @@ "8" :> 8 @@ "9" :> 9

BinaryOps ==
  "," :> "Sequential" @@ ":" :> "Resolve" @@ "=" :> "Assign" @@ "+=" :> "AddAssign" @@ "-=" :> "SubtractAssign"
    @@ "*=" :> "MultiplyAssign" @@ "/=" :> "DivideAssign"
    @@ "||" :> "Or" @@ "&&" :> "And" @@ "|" :> "BitOr" @@ "xor" :> "BitXor" @@ "&" :> "BitAnd"
    @@ "<<" :> "LeftShift" @@ ">>" :> "RightShift" @@ "==" :> "Equality" @@ "!=" :> "Inequality"
    @@ ">" :> "GreaterThan" @@ "<" :> "LessThan"
    @@ ">=" :> "GreaterThanOrEqualTo" @@ "<=" :> "LessThanOrEqualTo"
    @@ "+" :> "Add" @@ "-" :> "Subtract" @@ "*" :> "Multiply" @@ "/" :> "Divide"
    @@ "%" :> "Modulus" @@ "^" :> "Power"
    @@ "[" :> "Subscript" @@ "(" :> "List" @@ "{" :> "Map" @@ "." :> "Lookup"
PrefixOps ==
  "+" :> "Positive" @@ "-" :> "Negative" @@ "!" :> "Not" @@ "~" :> "BitNot"
    @@ "++" :> "PreIncrement" @@ "--" :> "PreDecrement"
PostfixOps == "!" :> "Factorial" @@ "++" :> "PostIncrement" @@ "--" :> "PostDecrement"

(* From the operators that bind the least to those that bind the most.          *)
Levels ==
  <<{"Sequential", "Resolve"},
    {"Assign", "AddAssign", "SubtractAssign", "MultiplyAssign", "DivideAssign"},
    {"Or"}, {"And"}, {"BitOr"}, {"BitXor"}, {"BitAnd"}, {"Equality", "Inequality"},
    {"LeftShift", "RightShift"},
    {"GreaterThan", "LessThan", "GreaterThanOrEqualTo", "LessThanOrEqualTo"},
    {"Add", "Subtract"}, {"Multiply", "Divide", "Modulus"}, {"Power"},
    {"Factorial", "PostIncrement", "PostDecrement"},
    {"Positive", "Negative", "Not", "BitNot", "PreIncrement", "PreDecrement"},
    {"Subscript"}, {"List"}, {"Map"}, {"Lookup"}>>
Precedence == [op \in UNION Range(Levels) |-> CHOOSE i \in DOMAIN Levels : op \in Levels[i]]

Brackets  == {"(", ")", "[", "]", "{", "}"}
Operators == DOMAIN BinaryOps \cup DOMAIN PrefixOps \cup DOMAIN PostfixOps \cup Brackets

------------------------------------------------------------------------------
NoScope == <<>>
Root == 1                                 \* the node of the root group
Top  == <<0, Root>>                       \* and its variables

NewMemory ==
  [heap |-> <<[k |-> "context"]>>, eval |-> <<>>, taken |-> {}, frames |-> 0,
   scopes |-> Top :> [vars |-> <<>>, up |-> NoScope],
   out |-> <<>>, ret |-> Null, flow |-> "Normal", crashed |-> FALSE]

------------------------------------------------------------------------------
(* Variables.                                                                   *)

(* Resolve: the standard context, the groups around the statement from the      *)
(* inside out, then the context of the script.                                  *)
RECURSIVE Lookup(_, _, _)
Lookup(m, scope, x) ==
  CASE scope = NoScope -> IF x = "print" THEN Return(m, MethodOf(RefTo(Contexts), x))
                          ELSE NewError(m)
    [] scope # NoScope /\ x \in DOMAIN m.scopes[scope].vars -> Return(m, m.scopes[scope].vars[x])
    [] OTHER -> Lookup(m, m.scopes[scope].up, x)

Resolve(m, scope, x) ==
  CASE x \in {"true", "false"} -> NewBool(m, x = "true")
    [] x \in StandardFunctions -> Return(m, MethodOf(RefTo(Contexts), x))
    [] OTHER -> Lookup(m, scope, x)

(* The method "var" of a group.                                                 *)
Declare(m, scope, x, ref) ==
  Return([m EXCEPT !.scopes[scope].vars = (x :> ref) @@ @], Null)

(* What ScriptStatementDecl::run passes to "var", with the initialiser in m.ret. *)
DeclareAs(m, kind, scope, x) ==
  CASE m.ret = Null  -> LET z == NewInt(m, 0) IN Declare(z, scope, x, z.ret)
    [] m.ret # Null /\ kind \in {"var", "const"} ->
         LET c == Copy(m, m.ret)
         IN  Declare(c, scope, x, [c.ret EXCEPT !.const = (kind = "const")])
    [] OTHER -> Declare(m, scope, x, [m.ret EXCEPT !.const = @ \/ kind = "constref"])

(* The variables of a group live as long as the group: those of a loop's body   *)
(* are still there in the next round.                                           *)
Enter(m, scope, up) ==
  IF scope \in DOMAIN m.scopes THEN m
  ELSE [m EXCEPT !.scopes = (scope :> [vars |-> <<>>, up |-> up]) @@ @]

(* The arguments of a call, as variables of the copied body.                    *)
Bind(m, scope, up, params, args) ==
  LET given == {i \in DOMAIN params : Arg(args, i) # Null}
      LastOf(x) == CHOOSE i \in given : params[i] = x /\ \A j \in given : params[j] = x => j <= i
  IN  [m EXCEPT !.scopes = (scope :> [up |-> up,
         vars |-> [x \in {params[i] : i \in given} |-> Arg(args, LastOf(x))]]) @@ @]

------------------------------------------------------------------------------
(* ScriptExpr: one for each tracer t.  Its members hold the expression that is  *)
(* being evaluated, how far, and the lexeme last read.                          *)

NewExpr(text, ctx, stack) ==
  [expr |-> text, pos |-> 0, type |-> "Null", name |-> "", value |-> Null,
   stack |-> stack, ctx |-> ctx]

Type(m, t) == m.eval[t].type
Name(m, t) == m.eval[t].name
SetNull(m, t) == [m EXCEPT !.eval[t].type = "Null"]
Fail(m, t) == Return(SetNull(m, t), Null)

(* At the end of the text m_name keeps the lexeme before; for a string it is    *)
(* what is between the quotes.                                                  *)
Quoted(w)   == SubSeq(w, 1, 1) = "'"
Unquoted(w) == SubSeq(w, 2, Len(w) - 1)

NextLexeme(m, t) ==
  LET e == m.eval[t]
      w == e.expr[e.pos + 1]
      Read(type) == [m EXCEPT !.eval[t].pos = @ + 1, !.eval[t].type = type,
                              !.eval[t].name = IF Quoted(w) THEN Unquoted(w) ELSE w]
      Valued(m1) == [m1 EXCEPT !.eval[t].value = m1.ret]
  IN  CASE e.pos = Len(e.expr) -> SetNull(m, t)
        [] e.pos < Len(e.expr) /\ w \in Operators -> Read("Operator")
        [] e.pos < Len(e.expr) /\ w \in DOMAIN Number -> Valued(NewInt(Read("Value"), Number[w]))
        [] e.pos < Len(e.expr) /\ Quoted(w) -> Valued(NewStr(Read("Value"), Unquoted(w)))
        [] e.pos < Len(e.expr) /\ w = "NULL" -> Valued(NewError(Read("Value")))
        [] OTHER -> Read("Name")

(* left->object() or left->script_op() of a null reference.                     *)
Crash(m, t) == SetNull(Crashed(m), t)

(* The arguments of a call: what expression() left on m_stack, or an error.     *)
(* "none" is an empty list.                                                     *)
Arguments(m, t, s) ==
  LET stack == m.eval[t].stack
      args  == [i \in 1..s |-> stack[Len(stack) - s + i]]
  IN  CASE s = 1 /\ args[1] = Null /\ Name(m, t) = ")" -> [ok |-> TRUE, list |-> <<>>]
        [] Type(m, t) = "Operator" /\ Name(m, t) = ")" -> [ok |-> TRUE, list |-> args]
        [] OTHER -> [ok |-> FALSE, list |-> <<>>]

Push(m, t, ref) == [m EXCEPT !.eval[t].stack = Append(@, ref)]
Pop(m, t, s) == IF s <= 0 THEN m ELSE [m EXCEPT !.eval[t].stack = SubSeq(@, 1, Len(@) - s)]

(* Whether the left operand decides || or && alone.                             *)
Decides(m, op, left) == (op = "Or" /\ Holds(m, left)) \/ (op = "And" /\ ~Holds(m, left))

(* Whether a name on the right of op is a variable, not a member.               *)
Resolved(op) == op # "Lookup"

(* Slip: the operand on the right of a binary operator takes in the operators   *)
(* of the same precedence.                                                      *)
RightAssociative(op) == Precedence[op]

(* The least precedence of an operator in the right operand of op.              *)
RightOf(op) == Precedence[op] + 1

RECURSIVE Expression(_, _, _, _, _), Loop(_, _, _, _), ScriptOp(_, _, _, _),
          Evaluate(_, _, _, _), Run(_, _, _, _), Group(_, _, _, _, _), Repeat(_, _, _, _)

Past(m, t) == Return(NextLexeme(m, t), m.ret)

(* An operator before what m has evaluated, and what is in brackets.            *)
Unary(m, op, exec) ==
  CASE m.ret # Null /\ exec -> ScriptOp(m, m.ret, op, <<>>)
    [] m.ret = Null /\ op = "Not" -> NewInt(m, 1)
    [] OTHER -> Return(m, Null)
Bracketed(m, t) == IF Name(m, t) = ")" THEN Past(m, t) ELSE Fail(m, t)

(* The initialiser of a list or map, when its items have been read: they are    *)
(* m.ret and what is above depth on the stack.  An empty one leaves a null      *)
(* reference there.  Of two items with one key the first is kept.               *)
Initialiser(m, t, w, depth) ==
  LET pushed == Push(m, t, m.ret)
      s      == Len(pushed.eval[t].stack) - depth
      items  == [i \in 1..s |-> pushed.eval[t].stack[depth + i]]
      rest   == Pop(pushed, t, s)
      keys   == [i \in 1..s \div 2 |-> StringOf(m, items[2 * i - 1])]
      First(key) == CHOOSE i \in DOMAIN keys : keys[i] = key /\ \A j \in 1..i - 1 : keys[j] # key
      map == [key \in Range(keys) |-> items[2 * First(key)]]
  IN  CASE Type(m, t) = "Null" -> IF w = "[" THEN NewList(pushed, <<>>) ELSE NewMap(pushed, <<>>)
        [] Type(m, t) # "Null" /\ w = "[" -> NewList(rest, items)
        [] Type(m, t) # "Null" /\ w = "{" /\ s % 2 = 1 -> NewError(pushed)
        [] Type(m, t) # "Null" /\ w = "{" /\ s % 2 = 0 ->
             IF \E i \in DOMAIN keys : items[2 * i - 1] = Null THEN Crashed(rest)
             ELSE NewMap(rest, map)
Closed(m, t, bracket) == IF Name(m, t) = bracket THEN Past(m, t) ELSE Fail(m, t)

(* primary(), after its next().                                                 *)
Primary(m, t, f, exec) ==
  LET w == Name(m, t)
      depth == Len(m.eval[t].stack)
      named == IF f THEN Resolve(m, m.eval[t].ctx, w) ELSE NewStr(m, w)
  IN  CASE Type(m, t) = "Operator" /\ w \in DOMAIN PrefixOps ->
             Unary(Expression(m, t, Precedence[PrefixOps[w]], f, exec), PrefixOps[w], exec)
        [] Type(m, t) = "Operator" /\ w = "(" -> Bracketed(Expression(m, t, 0, TRUE, exec), t)
        [] Type(m, t) = "Operator" /\ w \in {"[", "{"} ->
             Closed(Initialiser(Expression(m, t, 0, TRUE, exec), t, w, depth), t,
                    IF w = "[" THEN "]" ELSE "}")
        [] Type(m, t) = "Value" -> Past(Return(m, m.eval[t].value), t)
        [] Type(m, t) = "Name"  -> Past(named, t)
        [] OTHER -> Fail(m, t)

(* Evaluates what follows as far as operators of precedence p and higher go.    *)
(* Where exec is FALSE, calls, subscripts and operators on one operand are left *)
(* out.                                                                         *)
Expression(m, t, p, f, exec) == Loop(Primary(NextLexeme(m, t), t, f, exec), t, p, exec)

(* What op is used on, when the text behind it has been read up to m: the       *)
(* arguments of a call are m.ret and what is above depth on the stack.          *)
OnOne == Range(PostfixOps)
Listing == {"Sequential", "Resolve"}
Operands(m, t, left, op, depth) ==
  LET pushed == Push(m, t, m.ret)
      s      == Len(pushed.eval[t].stack) - depth
      given  == Arguments(pushed, t, s)
      rest   == Pop(pushed, t, s)
      Ready(m1, args) == [ok |-> TRUE, m |-> m1, args |-> args]
      Failed(m1)      == [ok |-> FALSE, m |-> m1, args |-> <<>>]
  IN  CASE op \in OnOne -> Ready(m, <<>>)
        [] op = "List" -> IF given.ok THEN Ready(NextLexeme(rest, t), given.list)
                          ELSE Failed(NewError(SetNull(rest, t)))
        [] op \notin OnOne \cup {"List"} ->
             IF m.ret = Null \/ (left = Null /\ op \notin Listing \cup {"Subscript"})
             THEN Failed(Fail(m, t)) ELSE Ready(m, <<m.ret>>)

(* The operator itself: a comma keeps what is on its left on the stack.  Where  *)
(* exec is FALSE binary operators are executed all the same.                    *)
Operate(m, t, exec, left, op, args) ==
  CASE op \in Listing -> Push(m, t, left)
    [] op \notin Listing /\ (exec \/ op \notin OnOne \cup {"List", "Subscript"}) ->
         ScriptOp(m, left, op, args)
    [] OTHER -> Return(m, Null)

(* What is behind: the bracket of a subscript, or the next lexeme.              *)
GoOn(m, t, p, exec, op) ==
  CASE op \in OnOne -> Loop(Past(m, t), t, p, exec)
    [] op = "Subscript" /\ (Type(m, t) # "Operator" \/ Name(m, t) # "]") -> Fail(m, t)
    [] op = "Subscript" /\ Type(m, t) = "Operator" /\ Name(m, t) = "]" ->
         IF m.ret = Null THEN Fail(Past(m, t), t) ELSE Loop(Past(m, t), t, p, exec)
    [] OTHER -> IF m.ret = Null THEN Fail(m, t) ELSE Loop(m, t, p, exec)
Use(r, t, p, exec, left, op) ==
  IF r.ok THEN GoOn(Operate(r.m, t, exec, left, op, r.args), t, p, exec, op) ELSE r.m

(* The text behind an operator; for a binary one its right operand, for a call  *)
(* or a subscript what is in the brackets.                                      *)
Behind(m, t, exec, op) ==
  IF op \in OnOne THEN m
  ELSE Expression(m, t, IF op \in {"List", "Subscript"} THEN 0 ELSE RightOf(op), Resolved(op), exec)

(* The loop of expression(): m.ret is what has been evaluated so far.  What     *)
(* follows a short-circuited operand is not looked at: the code returns.        *)
GoPast(m, t, p, exec, left, op, shorted, depth) ==
  IF shorted THEN Return(m, left) ELSE Use(Operands(m, t, left, op, depth), t, p, exec, left, op)
Loop(m, t, p, exec) ==
  LET w       == Name(m, t)
      binary  == w \in DOMAIN BinaryOps
      op      == IF binary THEN BinaryOps[w] ELSE PostfixOps[w]
      logical == op \in {"Or", "And"}
      shorted == logical /\ Decides(m, op, m.ret)
  IN  CASE Type(m, t) = "Null" -> m
        [] Type(m, t) \in {"Value", "Name"} -> SetNull(m, t)
        [] Type(m, t) = "Operator" /\ (\/ binary /\ Precedence[op] < p
                                       \/ ~binary /\ w \notin DOMAIN PostfixOps) -> m
        [] Type(m, t) = "Operator" /\ binary /\ Precedence[op] >= p /\ logical /\ m.ret = Null ->
             Crash(m, t)
        [] OTHER -> GoPast(Behind(m, t, exec /\ ~shorted, op), t, p, exec, m.ret, op, shorted,
                         Len(m.eval[t].stack))

(* The method sort() of a list: a ScriptExpr of its own evaluates the predicate *)
(* on two items, which it cannot change.  A predicate that fails holds of none. *)
Predicate ==
  "a < b" :> <<"a", "<", "b">> @@ "a > b" :> <<"a", ">", "b">>
    @@ "a.lc() < b.lc()" :> <<"a", ".", "lc", "(", ")", "<", "b", ".", "lc", "(", ")">>
Sorter == -1
Comparing(m, a, b) ==
  [m EXCEPT !.scopes = (<<Sorter, 0>> :> [vars |-> "a" :> [a EXCEPT !.const = TRUE]
                                                     @@ "b" :> [b EXCEPT !.const = TRUE],
                                          up |-> NoScope]) @@ @]
Smaller(m) == ~IsError(m, m.ret) /\ Holds(m, m.ret)
Ordered(m, items, text) ==
  SortedBy(items, [i, j \in DOMAIN items |->
    Smaller(Evaluate(Comparing(m, items[i], items[j]), Sorter, <<Sorter, 0>>, text))])
Sort(m, ref, args) ==
  IF ref.const THEN NewError(m)
  ELSE Return(Assign(m, ref, Ordered(m, Object(m, ref).v,
                Predicate[IF IsStr(m, Arg(args, 1)) THEN Object(m, args[1]).v ELSE "a < b"])), Null)

(* script_op(), where args are the right operand, none, or those of a call.     *)
Returned(m) == [m EXCEPT !.flow = "Normal"]
Framed(m, sub, frame, args) ==
  Bind([m EXCEPT !.frames = frame], <<frame, sub.body>>, sub.scope, sub.params, args)
Called(m, ref, sub, frame, args) ==
  IF sub.body = 0 THEN Return(m, Null)
  ELSE Returned(Run(Framed(m, sub, frame, args), sub.body, ref.o,
                    [scope |-> sub.scope, frame |-> frame]))
ScriptOp(m, ref, op, args) ==
  CASE ref = Null -> Crashed(m)
    [] ref # Null /\ ref.method = "sort" /\ op = "List" -> Sort(m, ref, args)
    [] ref # Null /\ ref.method \notin {"", "sort"} /\ op = "List" -> Method(m, ref, args)
    [] ref # Null /\ ref.method = "" /\ op = "List" /\ Object(m, ref).k = "sub" ->
         Called(m, ref, Object(m, ref), m.frames + 1, args)
    [] OTHER -> ValueOp(m, ref, op, IF args = <<>> THEN Null ELSE args[1])

(* ScriptTracer::evaluate() and ScriptExpr::evaluate().  m_stack is not emptied *)
(* at the beginning; at the end it is, whoever pushed what is on it.            *)
Emptied(m, t) == [m EXCEPT !.eval[t].stack = <<>>]
Anew(m, t, ctx, text) ==
  [m EXCEPT !.eval = (t :> NewExpr(text, ctx, IF t \in DOMAIN m.eval THEN m.eval[t].stack
                                               ELSE <<>>)) @@ @]
Evaluate(m, t, ctx, text) == Emptied(Expression(Anew(m, t, ctx, text), t, 0, TRUE, TRUE), t)

------------------------------------------------------------------------------
(* Statements.  A node is [k, seq, text, kids]: its kind, how much of it has    *)
(* been parsed, its texts and the nodes below, 0 where there is none.  at is    *)
(* where it runs: the group around it, and which call's copy of the body it is  *)
(* in (0 outside of subroutines).                                               *)

Text(m, n, i) == IF i <= Len(m.nodes[n].text) THEN m.nodes[n].text[i] ELSE <<>>
Kid(m, n, i) == IF i <= Len(m.nodes[n].kids) THEN m.nodes[n].kids[i] ELSE 0

(* The parts of a text between the lexemes sep.                                 *)
Split(text, sep) ==
  LET cuts == {i \in DOMAIN text : text[i] = sep}
      From(i) == LET before == {j \in cuts : j < i} IN SubSeq(text, 1 + (IF before = {} THEN 0
                        ELSE CHOOSE j \in before : \A l \in before : l <= j), i - 1)
      ends == SetToSortSeq(cuts \cup {Len(text) + 1}, <)
  IN  [i \in DOMAIN ends |-> From(ends[i])]

(* ScriptStatementGroup::run(): until an error, or a break, continue or return. *)
Group(m, n, i, t, at) ==
  IF i > Len(m.nodes[n].kids) \/ IsError(m, m.ret) \/ m.flow # "Normal" THEN m
  ELSE Group(Run(m, Kid(m, n, i), t, at), n, i + 1, t, at)

(* The loops of while and for; m.ret is what the body gave last.                *)
IsFor(m, n)     == m.nodes[n].k = "for"
ForPart(m, n, i) == Split(Text(m, n, 1), ";")[i]

Increment(m, n, t, at) ==
  IF IsFor(m, n) THEN Return(Evaluate(m, t, at.scope, ForPart(m, n, 3)), m.ret) ELSE m

AfterBody(m, n, t, at) ==
  CASE IsError(m, m.ret) \/ m.flow = "return" -> m
    [] ~IsError(m, m.ret) /\ m.flow = "break" -> [m EXCEPT !.flow = "Normal"]
    [] OTHER -> Repeat(Increment([m EXCEPT !.flow = "Normal"], n, t, at), n, t, at)

AfterTest(m, n, t, at, ret) ==
  IF Holds(m, m.ret) THEN AfterBody(Run(m, Kid(m, n, 1), t, at), n, t, at) ELSE Return(m, ret)

Repeat(m, n, t, at) ==
  AfterTest(Evaluate(m, t, at.scope, IF IsFor(m, n) THEN ForPart(m, n, 2) ELSE Text(m, n, 1)),
            n, t, at, m.ret)

(* The text that run() of each kind of statement evaluates first, if any.       *)
FirstText(m, n) ==
  LET initial == Text(m, n, 2)
  IN  CASE m.nodes[n].k \in {"expr", "if", "return", "break", "continue"} -> Text(m, n, 1)
        [] IsFor(m, n) -> ForPart(m, n, 1)
        [] m.nodes[n].k \in {"var", "const", "ref", "constref"} /\ initial # <<>> -> Tail(initial)
        [] OTHER -> <<>>
Begun(m, n, t, at) ==
  IF m.nodes[n].k \in {"expr", "if", "for"} \/ FirstText(m, n) # <<>>
  THEN Evaluate(m, t, at.scope, FirstText(m, n)) ELSE Return(m, Null)

Branch(m, n, t, at) == Run(m, Kid(m, n, IF Holds(m, m.ret) THEN 1 ELSE 2), t, at)

(* A statement that defines a subroutine gives its body away: when it is run    *)
(* again there is none left.                                                    *)
DefineSub(m, n, at) ==
  LET scope == <<at.frame, n>>
      sub   == New([m EXCEPT !.taken = @ \cup {scope}],
                   [k |-> "sub", scope |-> at.scope,
                    body |-> IF scope \in m.taken THEN 0 ELSE Kid(m, n, 1),
                    params |-> FlattenSeq(Split(Text(m, n, 2), ","))])
  IN  Declare(sub, at.scope, Text(m, n, 1)[1], sub.ret)

(* The rest of run(), when that has been evaluated.                             *)
Finish(m, n, t, at) ==
  LET k == m.nodes[n].k
      scope == <<at.frame, n>>
  IN  CASE k = "expr" -> m
        [] k = "{"  -> Group(Enter(m, scope, at.scope), n, 1, t, [at EXCEPT !.scope = scope])
        [] k = "if" -> Branch(m, n, t, at)
        [] k \in {"while", "for"} -> Repeat(Return(m, Null), n, t, at)
        [] k \in {"return", "break", "continue"} -> [m EXCEPT !.flow = k]
        [] k = "sub" -> DefineSub(m, n, at)
        [] OTHER -> DeclareAs(m, k, at.scope, Text(m, n, 1)[1])

Run(m, n, t, at) ==
  IF n = 0 THEN Return(m, Null) ELSE Finish(Begun(m, n, t, at), n, t, at)

(* ScriptEngineExec::event_runnable(): the statements read so far are run, and  *)
(* the root group is emptied; its variables stay.                               *)
RunRoot(m) == Run([m EXCEPT !.flow = "Normal"], Root, 0, [scope |-> NoScope, frame |-> 0])
Kept(m)    == [m EXCEPT !.ret = Null, !.flow = "Normal"]
Cleared(m) == [m EXCEPT !.nodes[Root].kids = <<>>, !.ret = Null, !.flow = "Normal"]

(* Slip: the root group keeps what it has run.                                  *)
KeepRun(m) == Kept(RunRoot(m))
Execute(m) == Cleared(RunRoot(m))
=============================================================================
