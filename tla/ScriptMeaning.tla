------------------------------ MODULE ScriptMeaning ------------------------------
(* What a script means, as a reference for ScriptEngine: a script is a tree of  *)
(* statements and expressions; Lexemes() is its text, with no more brackets     *)
(* than the table of precedences asks for; Effect() is what it does, by         *)
(* recursion over the tree.  Objects and variables are those of ScriptRun: what *)
(* the reference says for itself is how a text is to be taken apart, in which   *)
(* order its parts are evaluated, which of them are not, and where each         *)
(* statement leads.                                                             *)
(*                                                                              *)
(* Expressions are [e, w, sub]: a number, string or name w, an operator w on    *)
(* the expressions sub, a call of sub[1] with the rest, an item or the member w *)
(* of sub[1], a list of sub or a map of each two of them.  Statements are       *)
(* [k, part, kids] with the kinds of ScriptEngine, names being expressions too. *)
EXTENDS ScriptEngine

Leaf(w) == [e |-> "leaf", w |-> w, sub |-> <<>>]
Binary(op, l, r) == [e |-> "binary", w |-> op, sub |-> <<l, r>>]
Prefix(op, x)  == [e |-> "prefix", w |-> op, sub |-> <<x>>]
Postfix(op, x) == [e |-> "postfix", w |-> op, sub |-> <<x>>]
CallOf(f, args) == [e |-> "call", w |-> "(", sub |-> <<f>> \o args]
Item(x, i)     == [e |-> "item", w |-> "[", sub |-> <<x, i>>]
Member(x, w)   == [e |-> "member", w |-> w, sub |-> <<x>>]
ListOf(items)  == [e |-> "list", w |-> "[", sub |-> items]
MapOf(items)   == [e |-> "map", w |-> "{", sub |-> items]

Statement(k, part, kids) == [k |-> k, part |-> part, kids |-> kids]
NoStatement == Statement("none", <<>>, <<>>)

------------------------------------------------------------------------------
(* The text.                                                                    *)

Logical(x) == x.e = "binary" /\ x.w \in {"||", "&&"}
Tightness(x) ==
  CASE x.e = "binary" -> Precedence[BinaryOps[x.w]]
    [] x.e = "prefix" -> Precedence[PrefixOps[x.w]]
    [] OTHER -> Precedence.List

RECURSIVE Written(_)
Written(x) ==
  LET Within(y, need) == IF Tightness(y) >= need THEN Written(y)
                         ELSE <<"(">> \o Written(y) \o <<")">>
      tight == Tightness(x)
      left  == Within(x.sub[1], IF Logical(x.sub[1]) THEN Precedence.List ELSE tight)
      Items(xs, Sep(_)) == FlattenSeq([i \in DOMAIN xs |->
                  (IF i = 1 THEN <<>> ELSE <<Sep(i)>>) \o Within(xs[i], Precedence.And + 1)])
      Comma(i) == ","
      Colon(i) == IF i % 2 = 0 THEN ":" ELSE ","
      base == Within(x.sub[1], Precedence.Subscript)
  IN  CASE x.e = "leaf"    -> <<x.w>>
        [] x.e = "prefix"  -> <<x.w>> \o Within(x.sub[1], tight)
        [] x.e = "postfix" -> Within(x.sub[1], Precedence.List) \o <<x.w>>
        [] x.e = "binary"  -> left \o <<x.w>> \o Within(x.sub[2], tight + 1)
        [] x.e = "call"    -> base \o <<"(">> \o Items(Tail(x.sub), Comma) \o <<")">>
        [] x.e = "item"    -> base \o <<"[">> \o Written(x.sub[2]) \o <<"]">>
        [] x.e = "member"  -> base \o <<".", x.w>>
        [] x.e = "list"    -> <<"[">> \o Items(x.sub, Comma) \o <<"]">>
        [] x.e = "map"     -> <<"{">> \o Items(x.sub, Colon) \o <<"}">>

(* Texts of a statement, with sep between them.                                 *)
Joined(parts, sep) ==
  FlattenSeq([i \in DOMAIN parts |-> (IF i = 1 THEN <<>> ELSE <<sep>>) \o Written(parts[i])])

(* The texts as the statement's parse() is to get them.                         *)
Texts(s) ==
  CASE s.k = "none" \/ s.k = "{" -> <<>>
    [] s.k = "for" -> <<Joined(s.part, ";")>>
    [] s.k \in {"return", "break", "continue"} -> <<Joined(s.part, ";")>>
    [] s.k \in {"var", "const", "ref", "constref"} ->
         <<Written(s.part[1]),
           IF Len(s.part) = 1 THEN <<>> ELSE <<"=">> \o Written(s.part[2])>>
    [] s.k = "sub" -> <<Written(s.part[1]), Joined(Tail(s.part), ",")>>
    [] OTHER -> <<Written(s.part[1])>>

(* note is a comment to be put before every statement and else, or nothing.     *)
RECURSIVE Lexemes(_, _)
Lexemes(s, note) ==
  LET text == Texts(s)
      KidText(i) == Lexemes(s.kids[i], note)
      all == FlattenSeq([i \in DOMAIN s.kids |-> KidText(i)])
  IN  note \o
      CASE s.k = "none" -> <<>>
        [] s.k = "expr" -> text[1] \o <<";">>
        [] s.k = "{"    -> <<"{">> \o all \o note \o <<"}">>
        [] s.k = "if"   -> <<"if", "(">> \o text[1] \o <<")">> \o KidText(1)
                             \o (IF s.kids[2] = NoStatement THEN <<>>
                                 ELSE note \o <<"else">> \o KidText(2))
        [] s.k \in {"while", "for"} -> <<s.k, "(">> \o text[1] \o <<")">> \o all
        [] s.k = "sub"  -> <<"sub">> \o text[1] \o <<"(">> \o text[2] \o <<")">> \o all
        [] s.k \in {"return", "break", "continue"} -> <<s.k>> \o text[1] \o <<";">>
        [] OTHER -> <<s.k>> \o text[1] \o text[2] \o <<";">>

(* The tree of statements that the text is to be parsed into.                   *)
RECURSIVE TreeOf(_)
TreeOf(s) == [k |-> s.k, text |-> Texts(s),
              kids |-> IF s.k = "if" /\ s.kids[2] = NoStatement
                       THEN <<TreeOf(s.kids[1])>>
                       ELSE [i \in DOMAIN s.kids |-> TreeOf(s.kids[i])]]

------------------------------------------------------------------------------
(* The meaning.                                                                 *)

RECURSIVE Value(_, _, _), Values(_, _, _, _), Effect(_, _, _), Each(_, _, _), Round(_, _, _)

(* The next group to be entered, with these variables, and its name.            *)
Fresh(m) == <<m.frames + 1, 0>>
Opened(m, up, params, args) == Bind([m EXCEPT !.frames = @ + 1], Fresh(m), up, params, args)

(* The operator of an expression, and its second operand, which is evaluated    *)
(* only if the first does not decide || or &&.                                  *)
OperatorOf(x) ==
  CASE x.e = "binary"  -> BinaryOps[x.w]
    [] x.e = "prefix"  -> PrefixOps[x.w]
    [] x.e = "postfix" -> PostfixOps[x.w]
    [] x.e = "item"    -> "Subscript"
    [] x.e = "member"  -> "Lookup"
Second(m, x, up) ==
  CASE x.e \in {"prefix", "postfix"} -> Return(m, Null)
    [] x.e \in {"binary", "item"}    -> Value(m, x.sub[2], up)
    [] x.e = "member" -> NewStr(m, x.w)
Operated(m, x, left) == ValueOp(m, left, OperatorOf(x), m.ret)

(* The order that a predicate of sort() means.                                  *)
Than(m) == Holds(m, m.ret)
Meant(m, a, b, pred) ==
  CASE pred = "a.lc() < b.lc()" -> LET Small(x) == Exchanged(Object(m, x).v, Capitals, Smalls)
                                   IN  Before(Small(a), Small(b))
    [] OTHER -> Than(ValueOp(m, a, IF pred = "a < b" THEN "LessThan" ELSE "GreaterThan", b))
Sorted(m, ref, items, pred) ==
  Return([m EXCEPT !.heap[ref.o].v =
            SortedBy(items, [i, j \in DOMAIN items |-> Meant(m, items[i], items[j], pred)])], Null)
InMeant(m, ref, args) ==
  Sorted(m, ref, Object(m, ref).v, IF args = <<>> THEN "a < b" ELSE Object(m, args[1]).v)

(* f called with the arguments.                                                 *)
Apply(args, f) ==
  LET sub == Object(args.m, f)
  IN  CASE f.method = "sort" /\ ~f.const -> InMeant(args.m, f, args.refs)
        [] f.method = "sort" /\ f.const -> NewError(args.m)
        [] f.method \notin {"", "sort"} -> Method(args.m, f, args.refs)
        [] f.method = "" /\ sub.k = "sub" ->
             Returned(Effect(Opened(args.m, sub.scope, sub.params, args.refs), sub.body,
                             Fresh(args.m)))
        [] OTHER -> NewError(args.m)
CalledOn(m, x, up) == Apply(Values(m, Tail(x.sub), up, <<>>), m.ret)

(* A map of the values.                                                         *)
MadeMap(items) ==
  NewMap(items.m, [key \in {StringOf(items.m, items.refs[i]) : i \in {j \in DOMAIN items.refs : j % 2 = 1}} |->
    items.refs[CHOOSE i \in DOMAIN items.refs :
                 i % 2 = 0 /\ StringOf(items.m, items.refs[i - 1]) = key]])

(* What x is worth in the group up, and what it is when its first part is.      *)
Joint(m, x, up) ==
  CASE x.e = "call" -> CalledOn(m, x, up)
    [] Logical(x) /\ Decides(m, OperatorOf(x), m.ret) -> m
    [] OTHER -> Operated(Second(m, x, up), x, m.ret)
Made(items, x) == IF x.e = "list" THEN NewList(items.m, items.refs) ELSE MadeMap(items)
Value(m, x, up) ==
  CASE x.e = "leaf" /\ x.w \in DOMAIN Number -> NewInt(m, Number[x.w])
    [] x.e = "leaf" /\ Quoted(x.w) -> NewStr(m, Unquoted(x.w))
    [] x.e = "leaf" /\ x.w \notin DOMAIN Number /\ ~Quoted(x.w) -> Resolve(m, up, x.w)
    [] x.e \in {"list", "map"} -> Made(Values(m, x.sub, up, <<>>), x)
    [] OTHER -> Joint(Value(m, x.sub[1], up), x, up)

More(m, xs, up, refs) == Values(m, xs, up, Append(refs, m.ret))
Values(m, xs, up, refs) ==
  IF xs = <<>> THEN [m |-> m, refs |-> refs] ELSE More(Value(m, Head(xs), up), Tail(xs), up, refs)

(* Statements one after the other.                                              *)
Each(m, kids, up) ==
  IF kids = <<>> \/ m.flow # "Normal" \/ IsError(m, m.ret) THEN m
  ELSE Each(Effect(m, Head(kids), up), Tail(kids), up)

(* A loop; last is what its body gave before.                                   *)
Ended(m, s, up) ==
  CASE m.flow = "return" \/ IsError(m, m.ret) -> m
    [] m.flow = "break" /\ ~IsError(m, m.ret) -> Returned(m)
    [] OTHER -> Round(IF s.k = "for" THEN Return(Value(Returned(m), s.part[3], up), m.ret)
                      ELSE Returned(m), s, up)
Tested(m, s, up, last) ==
  IF Holds(m, m.ret) THEN Ended(Effect(m, s.kids[1], up), s, up) ELSE Return(m, last)
Round(m, s, up) == Tested(Value(m, s.part[IF s.k = "for" THEN 2 ELSE 1], up), s, up, m.ret)

(* What s does in the group up: its first expression, if there is one, and the  *)
(* rest.  The variables of a group are new whenever it is entered.              *)
FirstOf(m, s, up) ==
  CASE s.k \in {"var", "const", "ref", "constref"} /\ Len(s.part) = 2 -> Value(m, s.part[2], up)
    [] s.k \in {"expr", "if", "for", "return", "break", "continue"} /\ s.part # <<>> ->
         Value(m, s.part[1], up)
    [] OTHER -> Return(m, Null)
Rest(m, s, up) ==
  LET sub == New(m, [k |-> "sub", scope |-> up, body |-> s.kids[1],
                     params |-> [i \in 1..Len(s.part) - 1 |-> s.part[i + 1].w]])
  IN  CASE s.k \in {"none", "expr"} -> m
        [] s.k = "{"  -> Each(Opened(m, up, <<>>, <<>>), s.kids, Fresh(m))
        [] s.k = "if" -> Effect(m, s.kids[IF Holds(m, m.ret) THEN 1 ELSE 2], up)
        [] s.k \in {"while", "for"} -> Round(Return(m, Null), s, up)
        [] s.k \in {"return", "break", "continue"} -> [m EXCEPT !.flow = s.k]
        [] s.k = "sub" -> Declare(sub, up, s.part[1].w, sub.ret)
        [] OTHER -> DeclareAs(m, s.k, up, s.part[1].w)
Effect(m, s, up) == Rest(FirstOf(m, s, up), s, up)

(* The statements of a whole script, whatever became of those before.           *)
Meaning(program) ==
  LET Step(m, s) == [Effect(m, s, Top) EXCEPT !.flow = "Normal"]
  IN  FoldLeft(Step, NewMemory, program)

(* What is seen of a script: what it has printed and its variables at the end.  *)
Seen(m) ==
  LET top == m.scopes[Top].vars
  IN  [out |-> m.out, vars |-> [x \in DOMAIN top |->
                                  <<Object(m, top[x]).k, top[x].const, StringOf(m, top[x])>>]]

------------------------------------------------------------------------------
(* The statements that a text is taken apart into are those it was written      *)
(* from, each handed to run() once and in order, wherever the text was cut when *)
(* it arrived, and all of them when it has ended: a statement that may still go *)
(* on (else, or another round of tokens) is not run, and not forgotten.  Only a *)
(* text with something wrong in it fails, behind statements that were right.    *)
ParsedAsWritten ==
  LET trees == [i \in DOMAIN script.program |-> TreeOf(script.program[i])]
  IN  /\ IsPrefix(ran, trees)
      /\ phase = "failed" => script.wrong
      /\ phase = "ended" => ran = trees /\ ~script.wrong

(* What a script prints and leaves in its variables is what its statements and  *)
(* expressions mean: operators bind as the table says, loops and subroutines    *)
(* lead where they say, the right operand of a decided || or && is not executed *)
(* (ScriptExpr.cpp:262, :269), and a subroutine that calls itself finds its own *)
(* variables again.  The last two do not hold of every script: not of          *)
(* ShortedScripts and RecursionScripts of MCScript, which are not in the run.   *)
RunsAsWritten ==
  phase = "ended" => ~memory.crashed /\ Seen(memory) = Seen(Meaning(script.program))

(* The same with || for | and && for &, as short.test has them: "f() should not *)
(* be called" behind 1 | and 0 &.                                               *)
RECURSIVE AsTested(_)
AsTested(x) ==
  LET op == CASE x.w = "|" -> "||" [] x.w = "&" -> "&&" [] OTHER -> x.w
  IN  [x EXCEPT !.w = IF x.e = "binary" THEN op ELSE @,
                !.sub = [i \in DOMAIN x.sub |-> AsTested(x.sub[i])]]
Expected(program) ==
  [i \in DOMAIN program |-> [program[i] EXCEPT !.part = [j \in DOMAIN @ |-> AsTested(@[j])]]]

(* A subroutine on the right of | or & is called if the left operand leaves     *)
(* anything to decide, and not otherwise (test/sconescript/short.test:14: "f()  *)
(* should not be called"): what is printed is what the calls that short.test    *)
(* expects print.                                                               *)
CallsAsTested ==
  phase = "ended" => memory.out = Meaning(Expected(script.program)).out

(* A constant is never changed once it is declared, by way of its items, of     *)
(* references to it or to them, or of what it was copied from (test/sconescript *)
(* /var.test: "Test const is unchanged").                                       *)
Constants == {s.part[1].w : s \in {t \in Range(script.program) : t.k = "const"}}
ConstantsKeep ==
  [][LET before == memory.scopes[Top].vars
         after  == memory'.scopes[Top].vars
     IN  \A v \in Constants \cap DOMAIN before :
           after[v] = before[v] => StringOf(memory', after[v]) = StringOf(memory, before[v])]_vars

=============================================================================
