--------------------------- MODULE HttpConnection ---------------------------
(***************************************************************************)
(* The http streams on one connection: ConnectionStream reads requests and *)
(* adds a MessageStream for each, which frames the response, and above it  *)
(* a ResponseStream (a page) or a StreamTransfer (a file) that writes it.  *)
(* They run inside dispatch(): each handler below is a step of Descriptor  *)
(* together with what that handler does to its own state.                  *)
(*                                                                         *)
(* The client sends requests, one after the other or all at once, and      *)
(* takes what comes back apart by the rules of the protocol, so that a     *)
(* response which is cut short, runs over or is out of turn shows in       *)
(* "client".  A unit of data stands for a run of bytes.                    *)
(***************************************************************************)
EXTENDS Integers, SequencesExt

CONSTANTS
  Kinds,       \* the requests a client may make
  MaxRequests, \* bound on the requests of a connection
  MaxPieces,   \* bound on the pieces in which a page is written
  MaxSlow,     \* bound on the times the socket takes less than it is given,
               \* or a page finds its session locked
  NoStream

(* lead: empty lines before the request; body: units of its body, the
   Content-Length; keep: the version and headers ask for a persistent connection;
   len: length of the file asked for; target: what becomes of it. *)
ASSUME HttpAssumption ==
  /\ MaxRequests \in Nat /\ MaxPieces \in Nat /\ MaxSlow \in Nat
  /\ \A k \in Kinds :
       /\ k.method \in {"GET", "HEAD", "POST"} /\ k.keep \in BOOLEAN
       /\ k.lead \in Nat /\ k.body \in Nat /\ k.len \in Nat
       /\ k.target \in {"page", "file", "refused", "bodiless", "unknown"}

Numbered(type) == {type} \X (1..MaxRequests)

Connection == <<"connection", 0>>
Messages   == Numbered("message")
Responses  == Numbered("response")
Readers    == Numbered("reader")
Transfers  == Numbered("transfer")

VARIABLES
  state, streams, chain, fresh, opened, interest, buffered, pc, at, ev, flags,
  loop, sent   \* of Descriptor

VARIABLES
  asked,       \* the requests of this client
  unsent,      \* the unit it sends next
  wire,        \* what recv() would return
  eof,         \* the client will send no more
  linebuf,     \* ConnectionStream: StreamTokenizer::m_buffer
  seq,         \* ... m_seq
  request,     \* ... m_request
  persist,     \* ... m_persist, which the constructor leaves as it is
  handled,     \* the number of messages so far; the last one is
  msg,         \* ... the MessageStream
  resp,        \* ... m_resp_seq of its ResponseStream
  left,        \* ... what its StreamTransfer has still to write, -1 at the end
  client,      \* what the client makes of the responses
  slow,        \* used up of MaxSlow
  lost,        \* a write that nobody repeats was not taken whole
  failed       \* the assertions of MessageStream that did not hold of a message
               \* that was closed

D == INSTANCE Descriptor WITH
       Streams <- {Connection} \cup Messages \cup Responses \cup Readers \cup Transfers,
       Eager   <- {Connection} \cup Readers,
       Chatty  <- Messages \cup Responses \cup Transfers

desVars    == <<state, streams, chain, fresh, opened, interest, buffered, pc, at,
                ev, flags, loop, sent>>
inputVars  == <<unsent, wire, eof, linebuf, seq, request>>
outputVars == <<persist, handled, msg, resp, left, client, slow, lost, failed>>
ownVars    == <<asked, inputVars, outputVars>>
httpVars   == <<desVars, ownVars>>

NoRequest  == -1
BadRequest == 0
Requests   == 1..MaxRequests

Message  == <<"message", handled>>
Response == <<"response", handled>>
Reader   == <<"reader", handled>>
Transfer == <<"transfer", handled>>

-----------------------------------------------------------------------------
(* The client *)

(* Units of input: <<i, j>> is the j-th of request i.  Its empty lines come first,
   then its line and headers, the empty line that ends them, the parts of its
   body. *)
TypeOf(u) ==
  LET k == asked[u[1]]
  IN IF u[2] = k.lead + 1 THEN "line" ELSE IF u[2] <= k.lead + 2 THEN "blank" ELSE "data"

(* The unit that the client sends after u. *)
Follower(u) ==
  LET k == asked[u[1]]
  IN IF u[2] < k.lead + 2 + k.body THEN <<u[1], u[2] + 1>> ELSE <<u[1] + 1, 1>>

(* Status::has_body(), and the Content-Length that GetFile sets. *)
HasBody(m)       == m.kind.target # "bodiless"
ContentLength(m) ==
  IF m.kind.target = "file" /\ m.kind.method # "POST" THEN m.kind.len ELSE -1

(* The framing that a response header announces. *)
Framing(m) ==
  [req    |-> m.req,
   frame  |-> IF m.kind.method = "HEAD" \/ ~HasBody(m) THEN "none"
              ELSE IF ContentLength(m) >= 0 THEN "length"
              ELSE IF m.chunked THEN "chunked" ELSE "close",
   length |-> ContentLength(m)]

Broken(c) == [c EXCEPT !.mode = "broken"]
Whole(c)  == [c EXCEPT !.mode = "idle", !.done = Append(@, c.req), !.left = 0]

TakeHead(c, h) ==
  LET d == [c EXCEPT !.req = h.req] IN
  CASE c.mode # "idle"                          -> Broken(c)
    [] c.mode = "idle" /\ h.frame = "none"      -> Whole(d)
    [] c.mode = "idle" /\ h.frame = "chunked"   -> [d EXCEPT !.mode = "first"]
    [] c.mode = "idle" /\ h.frame = "close"     -> [d EXCEPT !.mode = "close"]
    [] c.mode = "idle" /\ h.frame = "length"    ->
         IF h.length = 0 THEN Whole(d)
         ELSE [d EXCEPT !.mode = "length", !.left = h.length]

(* Before the first chunk there is no empty line, before the others there is. *)
TakeChunk(c, first, n) ==
  IF c.mode = IF first THEN "first" ELSE "next"
  THEN [c EXCEPT !.mode = "chunk", !.left = n]
  ELSE Broken(c)

TakeData(c, n) ==
  IF n = 0 \/ c.mode = "close" THEN c
  ELSE IF c.mode \notin {"chunk", "length"} \/ n > c.left THEN Broken(c)
  ELSE IF n < c.left THEN [c EXCEPT !.left = @ - n]
  ELSE IF c.mode = "length" THEN Whole(c)
  ELSE [c EXCEPT !.mode = "next", !.left = 0]

TakeEnd(c) == IF c.mode = "next" THEN Whole(c) ELSE Broken(c)

-----------------------------------------------------------------------------
(* Writing.  What a handler does by writing is a set of outcomes, each a record
   of the variables that writes change. *)

Out == [persist |-> persist, msg |-> msg, client |-> client, slow |-> slow,
        lost |-> lost]

Outcome(o) ==
  /\ persist' = o.persist /\ msg' = o.msg /\ client' = o.client
  /\ slow' = o.slow /\ lost' = o.lost

(* endpoint_write(): all of it, or a part unless the socket is blocking.  What a
   broken connection does to dispatch() is left to Descriptor. *)
Sends(o, n, blocking) ==
  {<<n, o>>} \cup IF blocking \/ o.slow = MaxSlow THEN {}
                  ELSE {<<k, [o EXCEPT !.slow = @ + 1]>> : k \in 0..(n - 1)}

(* write(std::string): nobody repeats it. *)
WritesString(o, parsed, blocking) ==
  {IF w[1] = 1 THEN [w[2] EXCEPT !.client = parsed] ELSE [w[2] EXCEPT !.lost = TRUE] :
     w \in Sends(o, 1, blocking)}

(* Slip: m_write_remaining is left at 0. *)
BuildHeaderAsNext(o) ==
  [o EXCEPT !.persist     = o.msg.kind.keep,
            !.msg.hdr     = "buffered",
            !.msg.chunked = HasBody(o.msg) /\ ContentLength(o.msg) < 0 /\ o.msg.kind.keep]

(* build_header(): whether the connection persists, and how the body is framed. *)
BuildHeader(o) ==
  LET chunked == HasBody(o.msg) /\ ContentLength(o.msg) < 0 /\ o.msg.kind.keep
  IN [o EXCEPT !.persist       = o.msg.kind.keep,
               !.msg.hdr       = "buffered",
               !.msg.chunked   = chunked,
               !.msg.remaining = IF chunked THEN -1 ELSE @]

WritesHeader(o, blocking) ==
  {IF w[1] = 1
   THEN [w[2] EXCEPT !.msg.hdr = "sent", !.client = TakeHead(@, Framing(o.msg))]
   ELSE w[2] : w \in Sends(o, 1, blocking)}

WritesChunkHead(o, n, blocking) ==
  IF ~o.msg.chunked \/ o.msg.remaining > 0 THEN {o}
  ELSE {[p EXCEPT !.msg.remaining = n] :
          p \in WritesString(o, TakeChunk(o.client, o.msg.remaining < 0, n), blocking)}

WritesBody(o, n, blocking) ==
  {<<w[1], [w[2] EXCEPT !.client        = TakeData(@, w[1]),
                        !.msg.written   = @ + w[1],
                        !.msg.remaining = @ - w[1]]>> : w \in Sends(o, n, blocking)}

(* MessageStream::write() of n units: pairs of how many it took and the outcome.
   While the header is not out it takes none, and answers Ok. *)
Writes(o, n, blocking) ==
  UNION {IF h.msg.hdr # "sent" THEN {<<0, h>>}
         ELSE UNION {WritesBody(p, n, blocking) : p \in WritesChunkHead(h, n, blocking)} :
           h \in IF o.msg.hdr = "sent" THEN {o}
                 ELSE WritesHeader(IF o.msg.hdr = "none" THEN BuildHeader(o) ELSE o, blocking)}

(* send_simple_response() *)
SimpleResponse(o) ==
  LET n == IF HasBody(o.msg) THEN 1 ELSE 0
  IN {[w[2] EXCEPT !.lost = @ \/ w[1] < n] : w \in Writes(o, n, FALSE)}

(* A page written in pieces while the socket is blocking (SconesiteStream). *)
Page(pieces) ==
  LET after[j \in 0..pieces] ==
        IF j = 0 THEN {Out}
        ELSE UNION {{w[2] : w \in Writes(o, 1, TRUE)} : o \in after[j - 1]}
  IN after[pieces]

-----------------------------------------------------------------------------
(* Reading *)

(* The units of q that end a line; one that ends a line which a body begins is
   part of that line, and parse_request() fails on it. *)
Ends(q)     == {j \in DOMAIN q : TypeOf(q[j]) # "data"}
Begins(q)   == {j \in Ends(q) : j = 1 \/ TypeOf(q[j - 1]) # "data"}
Parsed(q)   == {j \in Begins(q) : TypeOf(q[j]) = "line"}
UpTo(q, j)  == SubSeq(q, 1, j)

(* m_request when the lines of q have been read, beginning in s. *)
RequestOf(s, q) ==
  IF s = "Headers" \/ Ends(q) = {} THEN request
  ELSE IF Parsed(q) = {} THEN BadRequest ELSE q[Min(Parsed(q))][1]

(* The empty lines that would complete a request. *)
Completing(s, q) ==
  {j \in Begins(q) : TypeOf(q[j]) = "blank" /\ RequestOf(s, UpTo(q, j - 1)) # NoRequest}

(* recv() is called when no line is left in the buffer, and again when what it
   returned is used up, but not after it returned only a part of a line. *)
Receives(s)  == Completing(s, linebuf) = {}
Available(s) == IF Receives(s) THEN linebuf \o wire ELSE linebuf
MeetsEnd(s)  == /\ Receives(s) /\ Completing(s, Available(s)) = {}
                /\ wire = <<>> \/ Ends(wire) # {}
                /\ eof

AddStream(s) == fresh' = fresh \ {s} /\ streams' = Append(streams, s)
AddNone      == UNCHANGED <<fresh, streams>>

(* process_request(): a request that could not be parsed is served too, with
   version 1.0 and no headers. *)
NewMessage(r) ==
  \E k \in IF r # BadRequest THEN {asked[r]}
           ELSE [method : {"GET"}, target : {"page", "refused", "unknown"}, lead : {0},
                 body : {0}, keep : {FALSE}, len : {0}] :
    /\ handled' = handled + 1
    /\ AddStream(<<"message", handled + 1>>)
    /\ msg' = [req |-> r, kind |-> k, read |-> 0, readable |-> -1, alien |-> FALSE,
               hdr |-> "none", chunked |-> FALSE, remaining |-> 0, written |-> 0]

(* process_input() in state s answers c: the lines are read up to the first that
   completes a request, or all there are. *)
ProcessInput(s, c) ==
  LET text == Available(s)
      acts == Completing(s, text) # {}
      read == IF acts THEN Min(Completing(s, text)) ELSE Max(Ends(text) \cup {0})
      r    == RequestOf(s, UpTo(text, read))
  IN /\ linebuf' = SubSeq(text, read + 1, Len(text))
     /\ wire' = IF Receives(s) THEN <<>> ELSE wire
     /\ seq' = IF acts THEN "Body" ELSE IF r \in Requests THEN "Headers" ELSE s
     /\ request' = IF acts THEN NoRequest ELSE r
     /\ c = IF acts THEN "Ok"
            ELSE IF ~MeetsEnd(s) THEN "Wait"
            ELSE IF seq' = "Request" THEN "Close" ELSE "End"
     /\ IF acts THEN NewMessage(r) ELSE UNCHANGED <<handled, msg>>
     /\ UNCHANGED <<asked, unsent, eof, persist, resp, left, client, slow, lost, failed>>

-----------------------------------------------------------------------------
(* The handlers.  Gets(s, e): dispatch() is about to send e to stream s. *)

Gets(s, e) ==
  /\ at = s
  /\ CASE e = "Opening"   -> pc = "opening" /\ e \in ev /\ s \notin opened
       [] e = "Readable"  -> pc = "readable" /\ D!Wants(e)
       [] e = "Writeable" -> pc = "writeable" /\ D!Wants(e)
       [] e = "Closing"   -> pc = "closing"

(* has_readable() *)
Buffered == buffered' = IF linebuf' = <<>> THEN {} ELSE {Connection}

Enable(f, s, e)  == [f EXCEPT ![s] = @ \cup {e}]
Disable(f, s, e) == [f EXCEPT ![s] = @ \ {e}]

(* build_header() enables Writeable for the message; f is what else the handler
   enables. *)
OutcomeWith(o, f) ==
  /\ Outcome(o)
  /\ interest' = IF msg.hdr = "none" /\ o.msg.hdr # "none"
                 THEN Enable(f, Message, "Writeable") ELSE f

ConnectionOpening ==
  /\ Gets(Connection, "Opening")
  /\ AddNone /\ UNCHANGED <<state, interest, buffered>>
  /\ D!OpeningAnswered("Ok")
  /\ UNCHANGED ownVars

(* Slip: a request of which only some lines have come counts as taken. *)
BusyOnceBegun == seq # "Request"

Busy == seq = "Body"

ConnectionReadable ==
  /\ Gets(Connection, "Readable")
  /\ UNCHANGED interest
  /\ \E c \in {"Ok", "Wait", "End", "Close"} :
       /\ IF ~Busy
          THEN /\ ProcessInput(seq, c)
               /\ c # "Ok" => AddNone
               /\ state' = IF MeetsEnd(seq) THEN "Closing" ELSE state
          ELSE c = "Ok" /\ AddNone /\ UNCHANGED <<state, ownVars>>
       /\ Buffered
       /\ D!ReadableAnswered(c)

(* Slip: the connection stays open whatever the request asked for. *)
PersistsAlways == Busy

Persists == persist /\ Busy

(* The next request may be there already: select() would not report it. *)
ConnectionClosing ==
  /\ Gets(Connection, "Closing")
  /\ IF Persists
     THEN \E c \in {"Ok", "Wait", "End", "Close"} :
            /\ ProcessInput("Request", c)
            /\ IF c = "Close" THEN UNCHANGED state /\ D!ClosingOk
               ELSE /\ c # "Ok" => AddNone
                    /\ UNCHANGED interest /\ Buffered
                    /\ D!ClosingCancelled
     ELSE UNCHANGED state /\ D!ClosingOk /\ UNCHANGED ownVars

(* handle_request(): the host, the path and the handler settle what happens; a
   handler that only sets a status leaves the answer to Closing. *)
MessageOpening ==
  /\ Gets(Message, "Opening")
  /\ LET opening == [Out EXCEPT !.msg.readable = msg.kind.body]
         served  == \/ msg.kind.target = "page"
                    \/ msg.kind.target = "file" /\ msg.kind.method = "GET"
     IN \/ /\ served
           /\ IF msg.kind.target = "page"
              THEN AddStream(Response) /\ resp' = "Start" /\ left' = left
              ELSE AddStream(Transfer) /\ left' = msg.kind.len /\ resp' = resp
           /\ OutcomeWith(opening, interest)
           /\ UNCHANGED <<state, buffered>>
           /\ D!OpeningAnswered("Ok")
        \/ /\ ~served
           /\ \E o \in IF msg.kind.target = "unknown" THEN SimpleResponse(opening) ELSE {opening} :
                OutcomeWith(o, interest)
           /\ AddNone /\ UNCHANGED <<resp, left>>
           /\ UNCHANGED <<state, buffered>>
           /\ D!OpeningAnswered("Close")
  /\ UNCHANGED <<asked, inputVars, handled, failed>>

MessageWriteable ==
  /\ Gets(Message, "Writeable")
  /\ \E o \in IF msg.hdr = "buffered" THEN WritesHeader(Out, FALSE) ELSE {Out} :
       OutcomeWith(o, IF o.msg.hdr = "sent" THEN Disable(interest, Message, "Writeable")
                      ELSE interest)
  /\ AddNone /\ UNCHANGED <<state, buffered>>
  /\ D!WriteableAnswered("Ok")
  /\ UNCHANGED <<asked, inputVars, handled, resp, left, failed>>

(* Nothing has been written: a simple response, and the closing waits for it. *)
MessageClosingEmpty ==
  /\ Gets(Message, "Closing") /\ msg.hdr = "none"
  /\ \E o \in SimpleResponse(Out) : OutcomeWith(o, interest)
  /\ AddNone /\ UNCHANGED <<state, buffered>>
  /\ D!ClosingWait
  /\ UNCHANGED <<asked, inputVars, handled, resp, left, failed>>

(* What the assertions say of a message that ends; they only log. *)
Unmet(m) ==
  (IF m.readable = m.read THEN {} ELSE {"Message not read"})
    \cup (IF ~m.chunked \/ m.remaining = 0 THEN {} ELSE {"Written incomplete chunk"})
    \cup (IF ContentLength(m) \in {-1, m.written} THEN {} ELSE {"Incomplete message"})

(* The header is written late: it answers Ok, and is deleted, if send() took any
   of it.  The assertions are not come to. *)
MessageClosingLate ==
  /\ Gets(Message, "Closing") /\ msg.hdr = "buffered"
  /\ UNCHANGED state
  /\ \E o \in WritesHeader(Out, FALSE) :
       \/ /\ \/ o.msg.hdr = "sent" /\ Outcome(o)
             \/ o.msg.hdr # "sent" /\ Outcome([o EXCEPT !.lost = TRUE])
          /\ failed' = failed \cup Unmet(o.msg)
          /\ D!ClosingOk
       \/ /\ o.msg.hdr # "sent" /\ OutcomeWith(o, interest)
          /\ AddNone /\ UNCHANGED <<buffered, failed>> /\ D!ClosingWait
  /\ UNCHANGED <<asked, inputVars, handled, resp, left>>

MessageClosing ==
  /\ Gets(Message, "Closing") /\ msg.hdr = "sent"
  /\ failed' = failed \cup Unmet(msg)
  /\ \E o \in IF msg.chunked THEN WritesString(Out, TakeEnd(client), FALSE) ELSE {Out} :
       Outcome(o)
  /\ UNCHANGED state
  /\ D!ClosingOk
  /\ UNCHANGED <<asked, inputVars, handled, resp, left>>

ResponseOpening ==
  /\ Gets(Response, "Opening")
  /\ IF msg.kind.method = "POST"
     THEN resp' = "ReadSingle" /\ AddStream(Reader) /\ UNCHANGED interest
     ELSE resp' = "Write" /\ AddNone /\ interest' = Enable(interest, Response, "Writeable")
  /\ UNCHANGED <<state, buffered>>
  /\ D!OpeningAnswered("Ok")
  /\ UNCHANGED <<asked, inputVars, persist, handled, msg, left, client, slow, lost, failed>>

(* send_response(): the whole page, or nothing yet if the session is locked. *)
ResponseWriteable ==
  /\ Gets(Response, "Writeable") /\ resp = "Write"
  /\ \/ /\ slow < MaxSlow
        /\ OutcomeWith([Out EXCEPT !.slow = @ + 1], Disable(interest, Response, "Writeable"))
        /\ resp' = "WriteWait"
     \/ /\ \E pieces \in 0..MaxPieces : \E o \in Page(pieces) : OutcomeWith(o, interest)
        /\ resp' = "End"
  /\ AddNone /\ UNCHANGED <<state, buffered>>
  /\ D!WriteableAnswered("Close")
  /\ UNCHANGED <<asked, inputVars, handled, left, failed>>

ResponseClosing ==
  /\ Gets(Response, "Closing")
  /\ IF resp = "End"
     THEN UNCHANGED <<state, resp>> /\ D!ClosingOk
     ELSE /\ resp' = IF resp \in {"ReadEnd", "WriteWait"} THEN "Write" ELSE resp
          /\ interest' = IF resp' = "Write" THEN Enable(interest, Response, "Writeable")
                         ELSE interest
          /\ AddNone /\ UNCHANGED buffered
          /\ D!ClosingCancelled
  /\ UNCHANGED <<asked, inputVars, persist, handled, msg, left, client, slow, lost, failed>>

AboveOpening ==
  /\ Gets(Reader, "Opening") \/ Gets(Transfer, "Opening")
  /\ AddNone /\ UNCHANGED <<state, interest, buffered>>
  /\ D!OpeningAnswered("Ok")
  /\ UNCHANGED ownVars

AboveClosing ==
  /\ Gets(Reader, "Closing") \/ Gets(Transfer, "Closing")
  /\ UNCHANGED state
  /\ D!ClosingOk
  /\ UNCHANGED ownVars

(* Slip: what has been read already is forgotten. *)
WantedInAll == msg.readable

Wanted == msg.readable - msg.read

(* ParamReaderStream reads until MessageStream::read() says that the body is
   complete, or the client has ended; the bytes come through the buffer of
   http:connection, which calls recv() when it holds too few. *)
ReaderReadable ==
  /\ Gets(Reader, "Readable")
  /\ LET text  == IF Len(linebuf) < Wanted THEN linebuf \o wire ELSE linebuf
         taken == IF Len(text) < Wanted THEN Len(text) ELSE Wanted
         ended == taken < Wanted /\ eof
     IN /\ linebuf' = SubSeq(text, taken + 1, Len(text))
        /\ wire' = IF Len(linebuf) < Wanted THEN <<>> ELSE wire
        /\ msg' = [msg EXCEPT !.read = @ + taken,
                              !.alien = @ \/ \E j \in 1..taken :
                                              \/ TypeOf(text[j]) # "data"
                                              \/ text[j][1] # msg.req]
        /\ state' = IF ended THEN "Closing" ELSE state
        /\ resp' = IF taken = Wanted \/ ended THEN "ReadEnd" ELSE resp
        /\ AddNone /\ UNCHANGED interest /\ Buffered
        /\ D!ReadableAnswered(IF taken = Wanted \/ ended THEN "Close" ELSE "Wait")
  /\ UNCHANGED <<asked, unsent, eof, seq, request, persist, handled, left, client,
                 slow, lost, failed>>

(* The source has the rest of the file at hand, or a buffer full of it. *)
TransferWriteable ==
  /\ Gets(Transfer, "Writeable")
  /\ IF left = 0
     THEN /\ left' = -1
          /\ OutcomeWith(Out, Disable(interest, Transfer, "Writeable"))
          /\ AddNone /\ UNCHANGED <<state, buffered>>
          /\ D!WriteableAnswered("Close")
     ELSE /\ \E n \in 1..left : \E w \in Writes(Out, n, FALSE) :
               left' = left - w[1] /\ OutcomeWith(w[2], interest)
          /\ AddNone /\ UNCHANGED <<state, buffered>>
          /\ D!WriteableAnswered("Wait")
  /\ UNCHANGED <<asked, inputVars, handled, resp, failed>>

(* The job of the file finds it readable: source_event(). *)
SourceReady ==
  /\ Transfer \in Range(streams) /\ left >= 0 /\ "Writeable" \notin interest[Transfer]
  /\ interest' = Enable(interest, Transfer, "Writeable")
  /\ D!EnabledFromOutside
  /\ UNCHANGED ownVars

-----------------------------------------------------------------------------
(* The client and the scheduler *)

Arrive ==
  /\ pc # "gone" /\ ~eof /\ unsent[1] \in Requests
  /\ wire' = Append(wire, unsent) /\ unsent' = Follower(unsent)
  /\ UNCHANGED <<asked, eof, linebuf, seq, request, outputVars, desVars>>

ClientEnds ==
  /\ pc # "gone" /\ ~eof
  /\ eof' = TRUE
  /\ UNCHANGED <<asked, unsent, wire, linebuf, seq, request, outputVars, desVars>>

(* select() reports what there is; what comes later comes after it. *)
Dispatch ==
  /\ D!Dispatch
  /\ "Readable" \in ev' <=> wire # <<>> \/ eof
  /\ "Writeable" \in ev' <=> \E s \in Range(streams) : "Writeable" \in interest[s]
  /\ UNCHANGED ownVars

(* The idle timeout. *)
DispatchGone == D!DispatchGone /\ UNCHANGED ownVars

Quiet ==
  /\ \/ D!Pass \/ D!OpeningSkip \/ D!ReadableSkip \/ D!WriteableSkip
     \/ D!Advance \/ D!EndPass \/ D!EndLoop
  /\ UNCHANGED ownVars

Handlers ==
  \/ ConnectionOpening \/ ConnectionReadable \/ ConnectionClosing
  \/ MessageOpening \/ MessageWriteable
  \/ MessageClosingEmpty \/ MessageClosingLate \/ MessageClosing
  \/ ResponseOpening \/ ResponseWriteable \/ ResponseClosing
  \/ AboveOpening \/ AboveClosing \/ ReaderReadable \/ TransferWriteable

Gone == pc = "gone" /\ UNCHANGED httpVars

HttpInit ==
  /\ D!Init /\ state = "Connected" /\ streams = <<Connection>>
  /\ asked \in [Requests -> Kinds]
  /\ unsent = <<1, 1>>
  /\ wire = <<>> /\ eof = FALSE
  /\ linebuf = <<>> /\ seq = "Request" /\ request = NoRequest
  /\ persist \in BOOLEAN
  /\ handled = 0 /\ msg = [req |-> NoRequest, hdr |-> "none"]
  /\ resp = "Start" /\ left = -1
  /\ client = [mode |-> "idle", req |-> NoRequest, left |-> 0, done |-> <<>>]
  /\ slow = 0 /\ lost = FALSE /\ failed = {}

HttpNext ==
  \/ Arrive \/ ClientEnds \/ Dispatch \/ DispatchGone \/ SourceReady
  \/ Quiet \/ Handlers \/ Gone

HttpSpec == HttpInit /\ [][HttpNext]_httpVars

(* The scheduler dispatches the descriptor in every cycle, dispatch() returns, and
   the job of the file is dispatched too.  Nothing is assumed of the client.  (Weak
   fairness of the steps inside dispatch() would do: it makes one pass over the
   streams, and another for each closing that is cancelled.) *)
HttpFairness ==
  /\ WF_httpVars(Dispatch) /\ []<>(pc \in {"idle", "gone"}) /\ WF_httpVars(SourceReady)

HttpFairSpec == HttpSpec /\ HttpFairness

-----------------------------------------------------------------------------
(* Properties.  An assertion that fails, and a write that nobody repeats, are
   known to spoil what follows on the connection: see AssertionsHold. *)

Clean == failed = {} /\ ~lost

(* The variables keep to the types of the members they model.  What is left to
   write of a chunk is -1 before the first and counted down to 0 in each; without
   chunks the counter only goes down (MessageStream.cpp:187-206). *)
HttpTypeOK ==
  /\ asked \in [Requests -> Kinds]
  /\ eof \in BOOLEAN /\ persist \in BOOLEAN /\ lost \in BOOLEAN
  /\ seq \in {"Request", "Headers", "Body"}
  /\ request \in Requests \cup {NoRequest, BadRequest}
  /\ handled \in 0..MaxRequests /\ slow \in 0..MaxSlow /\ left \in Int
  /\ resp \in {"Start", "ReadSingle", "ReadEnd", "Write", "WriteWait", "End"}
  /\ msg.hdr \in {"none", "buffered", "sent"}
  /\ handled > 0 => /\ msg.read \in 0..msg.kind.body /\ msg.written \in Nat
                    /\ IF msg.chunked THEN msg.remaining \in -1..1
                       ELSE msg.remaining = 0 - msg.written

(* The client can take the responses apart by their framing, and they answer its
   requests in the order in which it made them, however the writes were cut,
   whether it waits for each or sends them all at once. *)
ClientReads ==
  Clean => /\ client.mode # "broken"
           /\ client.done = [i \in 1..Len(client.done) |-> i]

(* The n-th message is the n-th request the client made, and the body that a
   response reads is that of its own request: where one request ends and the next
   begins, the buffer of http:connection and the count of http:message agree. *)
InputStaysAligned ==
  handled > 0 /\ Clean => msg.req = handled /\ ~msg.alien

(* A message is started when the response to the one before is complete, and only
   if that one left the connection open. *)
NextAfterWhole ==
  [][handled' # handled /\ handled > 0 /\ Clean =>
       /\ client.mode = "idle" /\ Len(client.done) = handled
       /\ msg.kind.keep]_httpVars

Sent(i) == unsent[1] > i

(* A request that the client has sent is answered, or the connection ends:
   also if it lies in a buffer, where select() does not see it, if its session is
   locked for a while, or if its body comes in parts.  (What is sent stays sent and
   what is answered stays answered, so "infinitely often" says that each request
   which is ever sent is answered.) *)
RequestsAnswered ==
  []<>(pc = "gone" \/ ~Clean \/ \A i \in Requests : Sent(i) => i \in Range(client.done))

(* MessageStream.cpp:106,109,118: a message that closes has read all of the
   request's body, and written all that its header promised.  The code does not
   have this property: see "failed". *)
AssertionsHold == failed = {}
=============================================================================
