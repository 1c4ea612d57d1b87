------------------------------- MODULE MCScript -------------------------------
EXTENDS ScriptMeaning

(* Names, numbers and statements.                                               *)
x == Leaf("x")
y == Leaf("y")
n == Leaf("n")
f == Leaf("f")
Put(e) == Statement("expr", <<CallOf(Leaf("print"), <<e>>)>>, <<>>)
Do(e)  == Statement("expr", <<e>>, <<>>)
If(e, s, t) == Statement("if", <<e>>, <<s, t>>)
While(e, s) == Statement("while", <<e>>, <<s>>)
For(a, b, c, s) == Statement("for", <<a, b, c>>, <<s>>)
In(ss) == Statement("{", <<>>, ss)
Flow(k) == Statement(k, <<>>, <<>>)
Give(e) == Statement("return", <<e>>, <<>>)
Declared(k, v, e) == Statement(k, <<v, e>>, <<>>)
Var(v, w) == Declared("var", v, Leaf(w))
Sub(v, params, ss) == Statement("sub", <<v>> \o params, <<In(ss)>>)

(* Every operator on every other of another precedence, with operands that are  *)
(* changed on the way or called.                                                *)
Ops == {"-", "*", "<", "==", "&&", "||", "="}
Odd == {Prefix("-", x), Prefix("++", x), Postfix("++", x), CallOf(f, <<x>>)}
Zero == Leaf("0")
Others == {"+", "/", "%", "+=", "-=", "*=", "/=", ">", ">=", "<=", "!="}
Pairs == {Binary(op, l, y) : op \in Ops \cup Others,
                             l \in Odd \cup {x, Zero, Binary("=", x, Zero)}}
           \cup {Binary(op, y, r) : op \in Ops, r \in Odd \cup {Prefix("!", y)}}
Triples == {Binary(op, p, x) : op \in Ops, p \in Pairs}
             \cup {Binary(op, l, p) : op \in Ops \ {"&&", "||"}, l \in {x}, p \in Pairs}
             \cup {Prefix(op, p) : op \in {"-", "!"}, p \in Pairs}
             \cup {CallOf(f, <<p>>) : p \in Pairs}

Prelude == <<Var(x, "2"), Var(y, "3"),
             Sub(f, <<n>>, <<Put(n), Give(Binary("+", n, Leaf("1")))>>)>>
Calculations == {Prelude \o <<Declared("var", Leaf("z"), e)>> : e \in Pairs \cup Triples}

(* Conditions, loops and groups in one another.                                 *)
Conditions == {Binary("<", x, Leaf("1")), Leaf("true")}
Changes == Do(Prefix("++", x))
Inner == {Put(x), In(<<Put(x), Changes>>), Flow("break"), Flow("continue")}
Tests == {If(e, s, t) : e \in Conditions, s \in Inner, t \in {NoStatement, Put(Leaf("7"))}}
             \cup {If(e, NoStatement, s) : e \in Conditions, s \in {Put(x)}}
Loops(S) == {For(Binary("=", y, Leaf("0")), Binary("<", y, Leaf("3")), Prefix("++", y), s) :
               s \in S}
              \cup {While(Binary("<", Postfix("++", y), Leaf("5")), s) : s \in S}
RECURSIVE Open(_)
Open(s) == \/ s.k = "if" /\ (s.kids[2] = NoStatement \/ Open(s.kids[2]))
           \/ s.k \in {"while", "for"} /\ Open(s.kids[1])
Bodies == {In(<<s, Put(y), Changes>>) : s \in Tests} \cup Tests
Plans == Loops(Bodies)
           \cup {If(e, s, t) : e \in Conditions, t \in {NoStatement, Put(y), In(<<Changes>>)},
                               s \in Loops({Put(x), Flow("break")})}
           \cup {Statement("if", <<e>>, <<s, t>>) : e \in Conditions,
                   s \in {c \in Tests : ~Open(c) /\ c.kids[1].k = "expr"}, t \in {Put(y)}}
Structures == {<<Var(x, "0"), Var(y, "0"), p>> \o rest :
                 p \in Plans, rest \in {<<>>, <<Put(Leaf("9"))>>}}

(* Subroutines: one that calls itself, one that changes its argument, one that  *)
(* leaves a loop; constants and references.                                     *)
Recursive ==
  <<Sub(f, <<n>>, <<If(Binary("==", n, Leaf("0")), Give(Leaf("5")), NoStatement), Put(n),
                    Give(Binary("+", n, CallOf(f, <<Binary("-", n, Leaf("1"))>>)))>>),
    Declared("var", x, CallOf(f, <<Leaf("3")>>))>>
Leaves ==
  <<Var(y, "0"),
    Sub(f, <<n, x>>, <<While(Leaf("true"), In(<<If(Binary("==", Prefix("++", n), x),
                         In(<<Put(n), Give(n)>>), NoStatement)>>))>>),
    Do(Binary("+=", y, CallOf(f, <<Leaf("1"), Leaf("4")>>))),
    Do(CallOf(f, <<y, Leaf("7")>>)), Put(y)>>
Refers ==
  <<Var(x, "1"), Declared("ref", y, x), Declared("const", n, x), Declared("constref", f, y),
    Do(Binary("=", y, Leaf("4"))), Do(Binary("+=", n, Leaf("1"))), Do(Postfix("++", f)),
    Put(x), Put(n)>>
Nested ==
  <<Sub(f, <<n>>, <<Sub(y, <<x>>, <<Give(Binary("*", x, n))>>),
                    Give(Binary("-", CallOf(y, <<Leaf("2")>>), CallOf(y, <<n>>)))>>),
    Declared("var", x, CallOf(f, <<CallOf(f, <<Leaf("3")>>)>>))>>
Fewer == <<Sub(f, <<n, x, y>>, <<Put(n), Give(y)>>), Declared("var", x, CallOf(f, <<Leaf("1")>>))>>

(* Strings, lists and maps: a list l, a map that holds a copy of it, a constant *)
(* list, and a reference into the map, all of them used and changed in every    *)
(* way and then once more.                                                      *)
l == Leaf("l")
d == Leaf("d")
c == Leaf("c")
r == Leaf("r")
a == Leaf("'a'")
Method0(v, w) == CallOf(Member(v, w), <<>>)
Method1(v, w, e) == CallOf(Member(v, w), <<e>>)
Method2(v, w, e1, e2) == CallOf(Member(v, w), <<e1, e2>>)
Function1(w, e) == CallOf(Leaf(w), <<e>>)
Data == <<Var(x, "1"), Var(y, "2"), Declared("var", l, ListOf(<<Leaf("3"), x, Leaf("2")>>)),
          Declared("var", d, MapOf(<<a, l, Leaf("'k'"), x>>)),
          Declared("const", c, ListOf(<<y, ListOf(<<x, Leaf("'A'")>>)>>)),
          Declared("ref", r, Member(d, "a")),
          Sub(f, <<n>>, <<Do(Prefix("++", n)), Give(n)>>)>>
Places == {Item(l, Zero), Item(l, y), Item(Member(d, "a"), x), Item(d, Leaf("'k'")),
           Member(d, "z"), Item(c, Zero), Item(Item(c, x), x), Item(r, Leaf("7"))}
Uses == {Binary(op, v, y) : op \in {"=", "+", "+=", "<", "!=", "||", "^", "&", "<<"}, v \in Places}
          \cup {Binary(op, y, v) : op \in {"|", "xor", ">>", "=="}, v \in Places}
          \cup {Prefix(op, v) : op \in {"~", "++"}, v \in Places}
          \cup {Postfix(op, v) : op \in {"!", "--"}, v \in Places}
          \cup {CallOf(f, <<v>>) : v \in Places}
          \cup {Method1(l, "push", v) : v \in Places}
          \cup {Method2(d, "set", a, v) : v \in Places}
          \cup {Item(ListOf(<<v, y>>), Zero) : v \in Places}
          \cup {Binary("+", y, Item(MapOf(<<a, v, Leaf("'k'"), y>>), a)) : v \in Places}
          \cup {CallOf(f, <<Function1(w, v)>>) : v \in Places,
                  w \in {"defined", "ref", "constref", "String", "Int", "Bool"}}
Calls == UNION {{Method0(v, "reverse"), Method0(v, "sort"), Method1(v, "push", c), Method0(v, "clear"),
                 Method1(v, "sort", Leaf("'a > b'")), Method1(v, "join", Leaf("','")),
                 Method2(v, "splice", x, x), Method1(v, "splice", y),
                 CallOf(Member(v, "splice"), <<Zero, y, ListOf(<<r, y>>)>>),
                 Binary("+", a, v), Member(v, "size")} : v \in {l, c, r}}
           \cup {Method1(d, "remove", a), Method0(d, "clear"), Method1(Member(d, "keys"), "join", a),
                 Member(d, "size"), Method2(d, "set", a, x), Method2(d, "set", Leaf("'z'"), r),
                 Method2(d, "add", Leaf("'z'"), c), Method0(Member(d, "keys"), "push"),
                 Binary("==", l, r), Binary("+", y, Binary("=", Function1("ref", x), y)),
                 Binary("+", y, Binary("=", Function1("constref", x), y)), Binary("=", a, Leaf("'x'")),
                 Method1(Method1(Leaf("'a,bc,,d'"), "split", Leaf("','")), "join", Leaf("'-'")),
                 Binary("+", Method0(Leaf("'aB'"), "uc"), Method0(Leaf("'aB'"), "lc")),
                 Binary(">", Leaf("'b'"), Leaf("'ab'")), Member(Leaf("'ab'"), "length"),
                 Item(ListOf(<<ListOf(<<x>>), y>>), Zero), Function1("Int", Leaf("'12'"))}
Words == <<Declared("var", l, ListOf(<<Leaf("'b'"), Leaf("'A'"), Leaf("'aB'"), Leaf("'B'")>>)),
           Do(Method1(l, "sort", Leaf("'a.lc() < b.lc()'"))), Put(l), Do(Method0(l, "sort")), Put(l)>>
Again == {Binary("+=", Item(r, x), y), Method1(l, "push", d), Binary("=", Item(c, Zero), x)}
Collections == {Data \o <<Do(e)>> : e \in Uses} \cup {Data \o <<Do(e), Do(t)>> : e \in Calls, t \in Again}
                 \cup {Data \o <<Declared(k, n, e), Do(Postfix("++", Item(n, Zero)))>> :
                         k \in {"var", "const", "ref", "constref"}, e \in Calls \cup {l, c, r}}
                 \cup {Words}

(* What must not follow a statement: the end of a group or an else where there  *)
(* is none to end, and a text that is too long for the buffer.                  *)
Wrong == {<<"}">>, <<"else">>, [i \in 1..24 |-> IF i % 2 = 1 THEN "x" ELSE "+"] \o <<";">>}

AsScript(p, note, source, rest) ==
  [program |-> p, text |-> FlattenSeq([i \in DOMAIN p |-> Lexemes(p[i], note)]) \o rest,
   source |-> source, wrong |-> rest # <<>>]
MCScripts ==
  {AsScript(p, <<>>, "file", <<>>) : p \in Calculations \cup Collections
                                                    \cup {Leaves, Refers, Nested, Fewer}}
    \cup {AsScript(p, <<"#">>, "file", <<>>) : p \in Structures}
    \cup {AsScript(Recursive, <<>>, "terminal", <<>>)}
    \cup {AsScript(<<Var(x, "0"), p>>, note, "terminal", <<>>) :
            p \in Tests, note \in {<<>>, <<"\n">>, <<"#">>}}
    \cup {AsScript(<<Var(x, "0"), Put(x)>>, <<>>, source, rest) :
            source \in {"file", "terminal"}, rest \in Wrong}

(* What the code does not do as it is written: a subroutine on the right of | or *)
(* &, an assignment on the right of a decided && or ||, and a recursive call     *)
(* with more of the expression behind it.                                        *)
OfX == CallOf(f, <<x>>)
BarScripts ==
  {AsScript(Prelude \o <<Do(Binary("=", y, Binary(op, b, OfX)))>>, <<>>, "file", <<>>) :
     op \in {"|", "&"}, b \in {Zero, Leaf("1")}}
ShortedScripts ==
  {AsScript(Prelude \o <<Do(Binary(op, b, Binary("=", x, Leaf("5"))))>>, <<>>, "file", <<>>) :
     op \in {"||", "&&"}, b \in {Zero, Leaf("1")}}
RecursionScripts ==
  LET Going(e) == <<Sub(f, <<n>>, <<If(Binary("==", n, Zero), Give(Leaf("5")), NoStatement),
                                   Give(e)>>), Declared("var", x, CallOf(f, <<Leaf("3")>>))>>
      Recur == CallOf(f, <<Binary("-", n, Leaf("1"))>>)
  IN  {AsScript(Going(e), <<>>, "file", <<>>) : e \in {Binary("+", n, Recur), Binary("+", Recur, n)}}
=============================================================================
