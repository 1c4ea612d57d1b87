------------------------------ MODULE ScriptEngine ------------------------------
(* The script engine as a stream: ScriptEngine and ScriptEngineExec on top of   *)
(* StreamTokenizer.  It reads the text of a script from a file or a terminal    *)
(* through a buffer, takes the next token as the statement being parsed wants   *)
(* it, gives the token to that statement, and runs what has been read whenever  *)
(* no statement is open.  A statement is open until the next token shows that   *)
(* it has ended.                                                                *)
EXTENDS ScriptRun

CONSTANTS
  Scripts,      \* [text, source]: the lexemes of a script, and where they come from,
                \* a "file" or a "terminal"
  BufferSize    \* of m_buffer, in lexemes

VARIABLES
  script,       \* the script being read
  arrived,      \* how many lexemes the source has given so far
  fetched,      \* how many of them are or were in m_buffer
  closed,       \* nothing more will arrive
  buffer,       \* m_buffer
  stack,        \* m_stack: nodes of the open statements, the innermost last
  memory,       \* the statements and all that they have changed
  phase,        \* "waiting" for Readable, "parsing" in parse(), "ended", "failed"
  ran           \* the statements that have been handed to run()

vars == <<script, arrived, fetched, closed, buffer, stack, memory, phase, ran>>
input == <<script, arrived, closed>>

------------------------------------------------------------------------------
(* Statements being parsed.                                                     *)

Kinds == {"{", "if", "while", "for", "return", "break", "continue",
          "var", "const", "ref", "constref", "sub"}
Reserved == Kinds \cup {"else", "}"}

(* What the parse() of each kind does with its tokens, one after the other.     *)
ConditionalSteps == <<"text", "statement", "else", "statement">>
LoopSteps == <<"text", "statement">>
FlowSteps == <<"text">>
DeclSteps == <<"text", "text">>
SubSteps  == <<"text", "text", "statement">>
Steps(k) ==
  CASE k = "if" -> ConditionalSteps
    [] k \in {"while", "for"} -> LoopSteps
    [] k \in {"return", "break", "continue"} -> FlowSteps
    [] k \in {"var", "const", "ref", "constref"} -> DeclSteps
    [] k = "sub" -> SubSteps

ParseMode(node) ==
  CASE node.k \in {"if", "while", "for"} /\ node.seq = 0 -> "Bracketed"
    [] node.k = "sub" /\ node.seq = 1 -> "Bracketed"
    [] node.k \in {"var", "const", "ref", "constref", "sub"} /\ node.seq = 0 -> "Name"
    [] OTHER -> "SemicolonTerminated"

NewNode(k, text) == [k |-> k, seq |-> 0, text |-> text, kids |-> <<>>]

(* ScriptEngine::parse_token(): a keyword opens a statement, else and } none.   *)
(* p is the nodes and the stack; id is the new node.                            *)
ParseToken(p, token) ==
  LET id == Len(p.nodes) + 1
      keyword == Len(token) = 1 /\ token[1] \in Reserved
  IN  CASE ~keyword -> [p EXCEPT !.nodes = Append(@, NewNode("expr", <<token>>)), !.id = id]
        [] keyword /\ token[1] \in Kinds ->
             [p EXCEPT !.nodes = Append(@, NewNode(token[1], <<>>)), !.stack = Append(@, id),
                       !.id = id]
        [] OTHER -> [p EXCEPT !.id = 0]

(* ScriptStatementGroup::parse().                                               *)
ParseInGroup(p, n, token) ==
  LET sub == ParseToken(p, token)
  IN  CASE token = <<"}">> -> [p EXCEPT !.result = "End"]
        [] token # <<"}">> /\ sub.id = 0 -> [sub EXCEPT !.result = "Error"]
        [] OTHER -> [sub EXCEPT !.nodes[n].kids = Append(@, sub.id), !.result = "Continue"]

(* parse() of the other statements.  The first statement of an if may be        *)
(* missing; a for needs its two semicolons.                                     *)
ParseInStatement(p, n, token) ==
  LET node == p.nodes[n]
      step == IF node.seq < Len(Steps(node.k)) THEN Steps(node.k)[node.seq + 1] ELSE "none"
      next == [p EXCEPT !.nodes[n].seq = @ + 1, !.result = "Continue"]
      sub  == ParseToken(next, token)
  IN  CASE step = "text" ->
             IF node.k = "for" /\ Len(Split(token, ";")) < 3 THEN [next EXCEPT !.result = "Error"]
             ELSE [next EXCEPT !.nodes[n].text = Append(@, token)]
        [] step = "statement" ->
             IF node.k = "if" /\ node.seq = 1 /\ token = <<"else">>
             THEN [next EXCEPT !.nodes[n].seq = 3, !.nodes[n].kids = <<0>>]
             ELSE [sub EXCEPT !.nodes[n].kids = Append(@, sub.id)]
        [] step = "else" /\ token = <<"else">> -> next
        [] OTHER -> [next EXCEPT !.result = "Pop"]

(* The inner loop of ScriptEngine::parse(): a statement that has ended hands    *)
(* the token on to the one around it.                                           *)
RECURSIVE GiveToken(_, _)
GiveToken(p, token) ==
  LET top == Last(p.stack)
      p1  == IF p.nodes[top].k = "{" THEN ParseInGroup(p, top, token)
             ELSE ParseInStatement(p, top, token)
  IN  CASE p1.result \in {"Pop", "End"} /\ Len(p.stack) = 1 -> [p1 EXCEPT !.result = "Error"]
        [] p1.result = "Pop" /\ Len(p.stack) > 1 -> GiveToken([p1 EXCEPT !.stack = Front(@)], token)
        [] p1.result = "End" /\ Len(p.stack) > 1 -> [p1 EXCEPT !.stack = Front(@)]
        [] OTHER -> p1

------------------------------------------------------------------------------
(* ScriptEngine::next_token(): how much of the buffer the next token takes, and *)
(* the token.  Each lexeme has its white space behind it, "\n" is an empty line *)
(* and "#" a comment with the end of its line, which is a token only when       *)
(* something that is not an empty line has come behind it.  A text in brackets  *)
(* has a bracket next, a name a letter; otherwise there is no token.            *)

Lines(b) == IF \A i \in DOMAIN b : b[i] = "\n" THEN Len(b)
            ELSE (CHOOSE i \in DOMAIN b : b[i] # "\n" /\ \A j \in 1..i - 1 : b[j] = "\n") - 1

NoToken == [found |-> FALSE, token |-> <<>>, length |-> 0]

NextToken(mode, whole) ==
  LET skip == Lines(whole)
      b    == SubSeq(whole, skip + 1, Len(whole))
      Token(first, last, end) ==
        [found |-> TRUE, token |-> SubSeq(b, first, last), length |-> skip + end]
      Depth(i) == Len(SelectSeq(SubSeq(b, 1, i), LAMBDA w : w = "("))
                    - Len(SelectSeq(SubSeq(b, 1, i), LAMBDA w : w = ")"))
      First(P(_)) == IF \E i \in DOMAIN b : P(i)
                     THEN CHOOSE i \in DOMAIN b : P(i) /\ \A j \in 1..i - 1 : ~P(j) ELSE 0
      Follows(i) == \E j \in i + 1..Len(b) : b[j] # "\n"
      stop  == First(LAMBDA i : b[i] \in {";", "#"} /\ (b[i] = "#" => Follows(i)))
      close == First(LAMBDA i : Depth(i) = 0)
  IN  CASE b = <<>> -> NoToken
        [] b # <<>> /\ mode = "Name" ->
             IF b[1] \in Operators \cup DOMAIN Number \cup {";", "#"} \/ Quoted(b[1]) THEN NoToken
             ELSE Token(1, 1, 1)
        [] b # <<>> /\ mode = "Bracketed" ->
             IF b[1] # "(" \/ close = 0 THEN NoToken ELSE Token(2, close - 1, close)
        [] b # <<>> /\ mode = "SemicolonTerminated" ->
             CASE b[1] \in Reserved -> Token(1, 1, 1)
               [] b[1] \notin Reserved /\ stop = 0 -> NoToken
               [] OTHER -> Token(1, IF b[stop] = ";" THEN stop - 1 ELSE stop, stop)

------------------------------------------------------------------------------
(* The statement n as it is written: its kind, its texts and what is in it.     *)
RECURSIVE Tree(_, _)
Tree(nodes, n) ==
  IF n = 0 THEN [k |-> "none", text |-> <<>>, kids |-> <<>>]
  ELSE [k |-> nodes[n].k, text |-> nodes[n].text,
        kids |-> [i \in DOMAIN nodes[n].kids |-> Tree(nodes, nodes[n].kids[i])]]

(* event_runnable(), when no statement is open or the text has ended.           *)
Runnable(nodes) ==
  /\ ran' = ran \o [i \in DOMAIN nodes[Root].kids |-> Tree(nodes, nodes[Root].kids[i])]
  /\ memory' = Execute([memory EXCEPT !.nodes = nodes])

Unrun(nodes) ==
  /\ memory' = [memory EXCEPT !.nodes = nodes]
  /\ UNCHANGED ran

(* StreamTokenizer::tokenize(): the token, if there is one now, and the         *)
(* Condition; more is read only if the buffer has no whole token.               *)
Tokenize ==
  LET mode == ParseMode(memory.nodes[Last(stack)])
      now  == NextToken(mode, buffer)
      n    == LET free == BufferSize - Len(buffer)
                  left == arrived - fetched
              IN  IF free < left THEN free ELSE left
      more == buffer \o SubSeq(script.text, fetched + 1, fetched + n)
      then == NextToken(mode, more)
      Result(condition, b, next, read) ==
        [condition |-> condition, token |-> next.token, read |-> read,
         buffer |-> SubSeq(b, next.length + 1, Len(b))]
  IN  CASE now.found -> Result("Ok", buffer, now, 0)
        [] ~now.found /\ Len(buffer) = BufferSize -> Result("Error", buffer, now, 0)
        [] ~now.found /\ Len(buffer) < BufferSize /\ n = 0 ->
             Result(IF closed THEN "End" ELSE "Wait", buffer, now, 0)
        [] ~now.found /\ n > 0 /\ then.found -> Result("Ok", more, then, n)
        [] OTHER -> Result(IF Len(more) < BufferSize THEN "Wait" ELSE "Error", more, then, n)

------------------------------------------------------------------------------
Init ==
  /\ script \in Scripts
  /\ arrived = IF script.source = "file" THEN Len(script.text) ELSE 0
  /\ closed = (script.source = "file")
  /\ fetched = 0
  /\ buffer = <<>>
  /\ stack = <<Root>>
  /\ memory = NewMemory @@ [nodes |-> <<NewNode("{", <<>>)>>]
  /\ phase = "waiting"
  /\ ran = <<>>

(* More is typed, as much at a time as the terminal sends, and in the end the   *)
(* connection is closed.                                                        *)
Arrive ==
  /\ script.source = "terminal" /\ arrived < Len(script.text)
  /\ arrived' \in arrived + 1..Len(script.text)
  /\ UNCHANGED <<script, closed, fetched, buffer, stack, memory, phase, ran>>

HangUp ==
  /\ ~closed /\ arrived = Len(script.text)
  /\ closed' = TRUE
  /\ UNCHANGED <<script, arrived, fetched, buffer, stack, memory, phase, ran>>

(* The event Readable.  ConfigFile::load() sends it once.                       *)
Readable ==
  /\ phase = "waiting"
  /\ fetched < arrived \/ closed
  /\ phase' = "parsing"
  /\ UNCHANGED <<input, fetched, buffer, stack, memory, ran>>

(* One round of the loop in ScriptEngine::parse(), in four actions by what      *)
(* tokenize() gives (r) and what the open statements make of the token.         *)
Taken(r) ==
  /\ phase = "parsing"
  /\ fetched' = fetched + r.read
  /\ buffer' = r.buffer
  /\ UNCHANGED input

Comment(token) == token # <<>> /\ token[1] = "#"
Given(token) ==
  GiveToken([nodes |-> memory.nodes, stack |-> stack, id |-> 0, result |-> "Continue"], token)

Skip ==
  \E r \in {Tokenize} :
    /\ Taken(r)
    /\ r.condition = "Ok" /\ Comment(r.token)
    /\ UNCHANGED <<stack, memory, phase, ran>>

Accept ==
  \E r \in {Tokenize} : \E p \in {Given(r.token)} :
    /\ Taken(r)
    /\ r.condition = "Ok" /\ ~Comment(r.token) /\ p.result # "Error"
    /\ stack' = p.stack
    /\ IF p.stack = <<Root>> THEN Runnable(p.nodes) ELSE Unrun(p.nodes)
    /\ UNCHANGED phase

Refuse ==
  \E r \in {Tokenize} : \E p \in {Given(r.token)} :
    /\ Taken(r)
    /\ r.condition = "Error" \/ (r.condition = "Ok" /\ ~Comment(r.token) /\ p.result = "Error")
    /\ phase' = "failed"
    /\ UNCHANGED <<stack, memory, ran>>

Pause ==
  \E r \in {Tokenize} :
    /\ Taken(r)
    /\ r.condition \in {"Wait", "End"}
    /\ IF stack = <<Root>> \/ r.condition = "End" THEN Runnable(memory.nodes)
       ELSE Unrun(memory.nodes)
    /\ phase' = IF r.condition = "End" \/ script.source = "file" THEN "ended" ELSE "waiting"
    /\ UNCHANGED stack

Next == Arrive \/ HangUp \/ Readable \/ Skip \/ Accept \/ Refuse \/ Pause

Spec == Init /\ [][Next]_vars
=============================================================================
