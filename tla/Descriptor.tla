----------------------------- MODULE Descriptor -----------------------------
(***************************************************************************)
(* sconex Descriptor: the chain of streams and the event loop dispatch()   *)
(* that a DescriptorJob runs, with the contract of Stream::event().        *)
(*                                                                         *)
(* One call of dispatch() sends Opening, Readable and Writeable up the     *)
(* chain, then, if the descriptor is closing, Closing down the chain.  A   *)
(* stream's handler answers with a Condition, and may on the way add a     *)
(* stream to the end of the chain, enable or disable its own events, fill  *)
(* or empty its buffer, or find (by reading or writing the endpoint) that  *)
(* the descriptor is at its end or broken.  Every delivery of an event is  *)
(* a step of its own; the job scheduler calls dispatch() again and again   *)
(* until it returns 1, and then deletes the descriptor.                    *)
(***************************************************************************)
EXTENDS Naturals, SequencesExt

CONSTANTS
  Streams,     \* Stream objects; the bound on how many a chain ever holds
  Eager,       \* streams whose constructor enables Readable
  Chatty,      \* streams whose handlers change their own enabled events
  NoStream     \* the null Stream pointer

ASSUME StreamsAssumption ==
  /\ Eager \subseteq Streams
  /\ Chatty \subseteq Streams
  /\ NoStream \notin Streams

VARIABLES
  state,       \* Descriptor::m_state
  streams,     \* m_streams
  chain,       \* Stream::m_chain, the stream below
  fresh,       \* streams not constructed yet
  opened,      \* streams whose Opening flag is set
  interest,    \* the Readable and Writeable flags of each stream
  buffered,    \* streams whose has_readable() is true
  pc,          \* where dispatch() is; "idle" between calls, "gone" at the end
  at,          \* the stream the iterator is on, NoStream at its end
  ev,          \* the local flags event_opened, _readable, _writeable
  flags,       \* the local flags remove, error, close, open_wait
  loop,        \* the local flag of the outer loop
  sent         \* the event this step delivered, NoEvent if it delivered none

vars == <<state, streams, chain, fresh, opened, interest, buffered, pc, at,
          ev, flags, loop, sent>>

localVars == <<pc, at, ev, flags, loop>>

States     == {"Closed", "Closing", "Connected", "Connecting", "Listening"}
Events     == {"Opening", "Closing", "Readable", "Writeable"}
Conditions == {"Ok", "Wait", "End", "Close", "Error"}
NoEvent    == [stream |-> NoStream, event |-> "Opening"]

-----------------------------------------------------------------------------
(* The list of streams *)

First(q) == IF q = <<>> THEN NoStream ELSE Head(q)
Upper(q) == IF q = <<>> THEN NoStream ELSE Last(q)
Place(q, s) == CHOOSE i \in DOMAIN q : q[i] = s
After(q, s)  == IF s = Upper(q) THEN NoStream ELSE q[Place(q, s) + 1]
Before(q, s) == IF s = First(q) THEN NoStream ELSE q[Place(q, s) - 1]

(* link_streams() sets the m_chain of every stream in the list; the others are
   not constructed yet, or deleted. *)
LinkStreams(q) ==
  [s \in Streams |-> IF s \in Range(q) THEN Before(q, s) ELSE NoStream]

-----------------------------------------------------------------------------
Init ==
  /\ state \in {"Connected", "Listening", "Connecting"}
  /\ \E s \in Streams : streams = <<s>> /\ fresh = Streams \ {s}
  /\ chain = [s \in Streams |-> NoStream]
  /\ opened = {} /\ buffered = {}
  /\ interest = [s \in Streams |-> IF s \in Eager THEN {"Readable"} ELSE {}]
  /\ pc = "idle" /\ at = NoStream
  /\ ev = {} /\ flags = {} /\ loop = FALSE
  /\ sent = NoEvent

(* A stream reads and writes through the streams below it. *)
Reach(s) == {streams[i] : i \in 1..Place(streams, s)}

(* What the handler of s may do besides answering: add a stream, and, by what
   it does or by what its reads and writes do in the streams they pass through,
   fill or empty buffers and enable or disable events of s and those below. *)
Handler(s) ==
  /\ \/ UNCHANGED <<streams, fresh, chain>>
     \/ \E n \in fresh :
          /\ fresh' = fresh \ {n}
          /\ streams' = Append(streams, n)
          /\ chain' = LinkStreams(streams')
  /\ interest' \in [Streams -> SUBSET {"Readable", "Writeable"}]
  /\ \A u \in Streams \ (Reach(s) \cap Chatty) : interest'[u] = interest[u]
  /\ buffered' \in SUBSET Streams
  /\ \A u \in Streams \ Reach(s) : u \in buffered' <=> u \in buffered

(* recv() or send() on a connected endpoint may meet its end or an error. *)
Endpoint ==
  \/ UNCHANGED state
  \/ state \in {"Connected", "Closing"} /\ state' \in {"Closing", "Closed"}

Deliver(s, e) == sent' = [stream |-> s, event |-> e]
Silent        == sent' = NoEvent

-----------------------------------------------------------------------------
(* Descriptor::dispatch() *)

(* Slip: what DescriptorJob::ready()'s TODO proposes, done carelessly: run the
   job only if select() reported an event. *)
DispatchOnEvents ==
  /\ pc = "idle" /\ state \notin {"Closed", "Connecting"}
  /\ \E events \in SUBSET {"Readable", "Writeable"} :
       /\ events # {}
       /\ ev' = events \cup
                IF state \in {"Connected", "Listening"} THEN {"Opening"} ELSE {}
  /\ pc' = "pass"
  /\ Silent
  /\ UNCHANGED <<state, streams, chain, fresh, opened, interest, buffered, at,
                 flags, loop>>

(* The job runs in every cycle of the scheduler, whatever select() reported. *)
Dispatch ==
  /\ pc = "idle" /\ state \notin {"Closed", "Connecting"}
  /\ \E events \in SUBSET {"Readable", "Writeable"} :
       ev' = events \cup
             IF state \in {"Connected", "Listening"} THEN {"Opening"} ELSE {}
  /\ pc' = "pass"
  /\ Silent
  /\ UNCHANGED <<state, streams, chain, fresh, opened, interest, buffered, at,
                 flags, loop>>

(* dispatch() returns 1 before it sends anything: the descriptor was closed by
   other means, its watchdog timeout has expired, or connecting failed. *)
DispatchGone ==
  /\ pc = "idle"
  /\ pc' = "gone"
  /\ Silent
  /\ UNCHANGED <<state, streams, chain, fresh, opened, interest, buffered, at,
                 ev, flags, loop>>

(* Writeable while connecting: event_connecting() succeeds. *)
Connect ==
  /\ pc = "idle" /\ state = "Connecting"
  /\ state' = "Connected"
  /\ Silent
  /\ UNCHANGED <<streams, chain, fresh, opened, interest, buffered, localVars>>

(* Start the loop over the streams. *)
Pass ==
  /\ pc = "pass"
  /\ at' = First(streams)
  /\ loop' = FALSE /\ flags' = {}
  /\ pc' = IF streams = <<>> THEN "endpass" ELSE "opening"
  /\ Silent
  /\ UNCHANGED <<state, streams, chain, fresh, opened, interest, buffered, ev>>

(* The flags that the answer c to an Opening, Readable or Writeable sets. *)
Answer(c) == CASE c = "End"   -> {"remove"}
               [] c = "Close" -> {"close"}
               [] c = "Error" -> {"error"}
               [] OTHER       -> {}

OpeningSkip ==
  /\ pc = "opening" /\ ~("Opening" \in ev /\ at \notin opened)
  /\ pc' = "readable"
  /\ Silent
  /\ UNCHANGED <<state, streams, chain, fresh, opened, interest, buffered, at,
                 ev, flags, loop>>

OpeningAnswered(c) ==
  /\ pc = "opening" /\ "Opening" \in ev /\ at \notin opened
  /\ pc' = "readable"
  /\ Deliver(at, "Opening")
  /\ Handler(at) /\ Endpoint
  /\ opened' = IF c \in {"Ok", "Close"} THEN opened \cup {at} ELSE opened
  /\ flags' = flags \cup IF c = "Wait" THEN {"open_wait"} ELSE Answer(c)
  /\ UNCHANGED <<at, ev, loop>>

(* Slip: the events are sent without the test that the stream is staying. *)
WantsAlways(e) == e \in ev /\ e \in interest[at]

Wants(e) == flags \cap {"remove", "error"} = {} /\ e \in ev /\ e \in interest[at]

(* Readable, then Writeable; Wait takes the event from the rest of the pass. *)
Skip(e) ==
  /\ ~Wants(e)
  /\ Silent
  /\ UNCHANGED <<state, streams, chain, fresh, opened, interest, buffered, at,
                 ev, flags, loop>>

Answered(e, c) ==
  /\ Wants(e)
  /\ Deliver(at, e)
  /\ Handler(at) /\ Endpoint
  /\ ev' = IF c = "Wait" THEN ev \ {e} ELSE ev
  /\ flags' = flags \cup Answer(c)
  /\ UNCHANGED <<opened, at, loop>>

ReadableSkip         == pc = "readable" /\ pc' = "writeable" /\ Skip("Readable")
ReadableAnswered(c)  == pc = "readable" /\ pc' = "writeable" /\ Answered("Readable", c)
WriteableSkip        == pc = "writeable" /\ pc' = "next" /\ Skip("Writeable")
WriteableAnswered(c) == pc = "writeable" /\ pc' = "next" /\ Answered("Writeable", c)

(* The stream is taken from the list and deleted. *)
Removed(s) ==
  /\ streams' = RemoveAt(streams, Place(streams, s))
  /\ chain' = LinkStreams(streams')
  /\ opened' = opened \ {s} /\ buffered' = buffered \ {s}
  /\ interest' = [interest EXCEPT ![s] = {}]

(* Take the stream out, or move past it; a stream that has data buffered makes
   the event readable again for those above it.  A stream that waits in its
   Opening stops the pass: the test for that reads a stream that may just have
   been deleted, and then goes either way. *)
ClosingIfAsked == IF "close" \in flags /\ state # "Closed" THEN "Closing" ELSE state

(* Slip: a stream waiting in Opening does not hold back the streams above. *)
StopsNever(stop) == stop = FALSE

StopsHere(stop) ==
  IF "open_wait" \notin flags THEN ~stop
  ELSE "remove" \notin flags => (stop <=> at \notin opened)

Advance ==
  /\ pc = "next"
  /\ state' = ClosingIfAsked
  /\ IF "error" \in flags
     THEN /\ pc' = "gone"
          /\ UNCHANGED <<streams, chain, opened, interest, buffered, ev, at>>
     ELSE /\ IF "remove" \in flags
             THEN Removed(at) /\ ev' = ev
             ELSE /\ UNCHANGED <<streams, chain, opened, interest, buffered>>
                  /\ ev' = ev \cup IF at \in buffered THEN {"Readable"} ELSE {}
          /\ at' = After(streams, at)
          /\ \E stop \in BOOLEAN :
               /\ StopsHere(stop)
               /\ pc' = IF stop \/ at' = NoStream THEN "endpass" ELSE "opening"
  /\ flags' = {}
  /\ Silent
  /\ UNCHANGED <<fresh, loop>>

(* The close sequence starts at the top of the chain. *)
EndPass ==
  /\ pc = "endpass"
  /\ IF state = "Closing" /\ streams # <<>>
     THEN pc' = "closing" /\ at' = Upper(streams)
     ELSE pc' = "endloop" /\ at' = NoStream
  /\ Silent
  /\ UNCHANGED <<state, streams, chain, fresh, opened, interest, buffered, ev,
                 flags, loop>>

(* A handler that adds a stream in Closing (http:connection, for the next
   request) cancels or suspends the closing; the others leave the chain alone. *)
ClosingWait ==
  /\ pc = "closing"
  /\ Deliver(at, "Closing") /\ Handler(at) /\ Endpoint
  /\ pc' = "endloop"
  /\ UNCHANGED <<opened, at, ev, flags, loop>>

ClosingCancelled ==
  /\ pc = "closing"
  /\ Deliver(at, "Closing") /\ Handler(at)
  /\ state' = "Connected" /\ loop' = TRUE
  /\ pc' = "endloop"
  /\ UNCHANGED <<opened, at, ev, flags>>

ClosingError ==
  /\ pc = "closing"
  /\ Deliver(at, "Closing")
  /\ pc' = "gone"
  /\ UNCHANGED <<state, streams, chain, fresh, opened, interest, buffered, at,
                 ev, flags, loop>>

(* Ok and Close: the stream is removed, the one below it is asked next. *)
ClosingOk ==
  /\ pc = "closing"
  /\ Deliver(at, "Closing") /\ Endpoint
  /\ Removed(at)
  /\ at' = Before(streams, at)
  /\ pc' = IF streams' = <<>> THEN "endloop" ELSE "closing"
  /\ UNCHANGED <<fresh, ev, flags, loop>>

(* Slip: a descriptor whose streams are all gone is kept. *)
EndLoopKeeps ==
  /\ pc = "endloop"
  /\ pc' = IF loop THEN "pass" ELSE "idle"
  /\ ev' = IF loop THEN ev \ {"Readable", "Writeable"} ELSE {}
  /\ at' = NoStream /\ loop' = FALSE
  /\ Silent
  /\ UNCHANGED <<state, streams, chain, fresh, opened, interest, buffered, flags>>

(* No streams left ends the descriptor; a cancelled closing runs another pass
   with no event but Opening; otherwise dispatch() returns 0 and its locals go. *)
EndLoop ==
  /\ pc = "endloop"
  /\ pc' = IF streams = <<>> THEN "gone" ELSE IF loop THEN "pass" ELSE "idle"
  /\ ev' = IF loop THEN ev \ {"Readable", "Writeable"} ELSE {}
  /\ at' = NoStream /\ loop' = FALSE
  /\ Silent
  /\ UNCHANGED <<state, streams, chain, fresh, opened, interest, buffered, flags>>

(* Another job may enable an event of a stream: the two ends of a StreamTransfer
   are streams of different descriptors and call each other's enable_event(). *)
EnabledFromOutside ==
  /\ pc # "gone"
  /\ \E s \in Chatty \cap Range(streams), e \in {"Readable", "Writeable"} :
       /\ e \notin interest[s]
       /\ interest' = [interest EXCEPT ![s] = @ \cup {e}]
  /\ Silent
  /\ UNCHANGED <<state, streams, chain, fresh, opened, buffered, localVars>>

(* The job is purged and the descriptor deleted. *)
Gone == pc = "gone" /\ UNCHANGED vars

Closing == ClosingWait \/ ClosingCancelled \/ ClosingError \/ ClosingOk

Opening   == OpeningSkip \/ \E c \in Conditions : OpeningAnswered(c)
Readable  == ReadableSkip \/ \E c \in Conditions : ReadableAnswered(c)
Writeable == WriteableSkip \/ \E c \in Conditions : WriteableAnswered(c)

Step == \/ Pass \/ Opening \/ Readable \/ Writeable \/ Advance
        \/ EndPass \/ Closing \/ EndLoop

Next == Dispatch \/ DispatchGone \/ Connect \/ Step \/ EnabledFromOutside \/ Gone

Spec == Init /\ [][Next]_vars

(* The scheduler runs every waiting DescriptorJob in each cycle, even if select()
   reports nothing for it, and dispatch() does not block.  Of the handlers this
   assumes that a stream which is asked again and again does not answer Wait for
   ever: it opens, and it agrees to be closed. *)
OpensNow(s) ==
  Opening /\ at = s /\ s \notin opened /\ "Opening" \in ev /\ "open_wait" \notin flags'

Fairness ==
  /\ WF_vars(Dispatch /\ ev' \cap {"Readable", "Writeable"} = {})
  /\ WF_vars(DispatchGone /\ state = "Closed")
  /\ WF_vars(Step)
  /\ \A s \in Streams : SF_vars(OpensNow(s))
  /\ SF_vars(ClosingOk)

FairSpec == Spec /\ Fairness

-----------------------------------------------------------------------------
(* Properties *)

(* The variables keep to the types of the members and locals they model. *)
TypeOK ==
  /\ state \in States
  /\ streams \in Seq(Streams) /\ IsInjective(streams)
  /\ fresh \subseteq Streams \ Range(streams)
  /\ chain \in [Streams -> Streams \cup {NoStream}]
  /\ opened \subseteq Streams /\ buffered \subseteq Streams
  /\ interest \in [Streams -> SUBSET {"Readable", "Writeable"}]
  /\ pc \in {"idle", "pass", "opening", "readable", "writeable", "next",
             "endpass", "closing", "endloop", "gone"}
  /\ at \in Streams \cup {NoStream}
  /\ ev \subseteq {"Opening", "Readable", "Writeable"}
  /\ flags \subseteq {"remove", "error", "close", "open_wait"}
  /\ loop \in BOOLEAN
  /\ sent \in [stream : Streams \cup {NoStream}, event : Events]

(* Stream.h:76: Opening goes up the chain in order, and a stream that waits
   holds back those above it: no stream is open above one that is not. *)
OpenedFromBelow ==
  \A i, k \in DOMAIN streams :
    i < k /\ streams[k] \in opened => streams[i] \in opened

(* Stream.h:81,89,106: a stream that has answered End, or Ok to Closing, gets
   no further event: whatever event is delivered, its receiver was in the list
   when the event was sent. *)
OnlyToLiving ==
  [][sent' # NoEvent => sent'.stream \in Range(streams)
                     /\ "remove" \notin flags]_vars

(* The inductive invariant.  Between two passes it is OpenedFromBelow and that
   no stream outside the list is open; in a pass that sends Opening, also that
   the stream the iterator is on has only open streams below it, and that it is
   open itself once it has been asked, unless its answer ends the pass there or
   takes the stream out.  Closing takes the streams off the top. *)
OpenAreListed == opened \subseteq Range(streams)

IteratorIsListed ==
  pc \in {"opening", "readable", "writeable", "next", "closing"}
    => at \in Range(streams)

FlagsAreFresh == pc \in {"opening", "endpass", "closing"} => flags = {}

ClosingFromTop == pc = "closing" => streams # <<>> /\ at = Upper(streams)

BelowAreOpen ==
  pc \in {"opening", "readable", "writeable", "next"} /\ "Opening" \in ev
    => \A i, k \in DOMAIN streams :
         i < k /\ streams[k] = at => streams[i] \in opened

AskedIsOpen ==
  pc \in {"readable", "writeable", "next"} /\ "Opening" \in ev
    => at \in opened \/ flags \cap {"remove", "error", "open_wait"} # {}

IInv == /\ TypeOK /\ OpenedFromBelow /\ OpenAreListed /\ IteratorIsListed
        /\ FlagsAreFresh /\ ClosingFromTop /\ BelowAreOpen /\ AskedIsOpen

(* A stream added to a live descriptor is opened in the end, although select()
   need not report anything for it: it is the reason why DescriptorJob::ready()
   lets the job run in each cycle. Again and again there is a moment when no
   stream of the list waits for its Opening event (few streams are ever added). *)
StreamsOpen ==
  []<>(\/ Range(streams) \subseteq opened
       \/ pc = "gone" \/ state \notin {"Connected", "Listening"})

(* A descriptor that starts closing is closed, unless a stream cancels it. *)
ClosingEnds ==
  state = "Closing" ~> pc = "gone" \/ state = "Connected"
=============================================================================
