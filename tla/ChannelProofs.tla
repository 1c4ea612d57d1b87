--------------------------- MODULE ChannelProofs ---------------------------
(***************************************************************************)
(* Proofs about what a datagram channel is made of: the descriptor whose   *)
(* dispatch() goes through the list of streams, which every descriptor     *)
(* shares, and the tftp transfer that runs over such channels.  The two    *)
(* modules have no variable in common, and neither proof uses the other.   *)
(*                                                                         *)
(* Descriptor: streams open from below and events reach only streams of    *)
(* the list, for any number of streams, whatever the handlers answer.      *)
(*                                                                         *)
(* TftpServer: files arrive whole, for any number of clients, files of any *)
(* length up to 65535 pieces and any number of faults: whatever is lost,   *)
(* repeated or reordered on the way, and however often a channel is ended  *)
(* and opened anew under a transfer.                                       *)
(***************************************************************************)
EXTENDS Descriptor, TftpServer, SequenceTheorems, TLAPS

-----------------------------------------------------------------------------
(* The list of streams holds each once; what append and erase make of it. *)
List(q) == q \in Seq(Streams) /\ IsInjective(q)

LEMMA PlaceIs ==
  ASSUME NEW q, List(q), NEW i \in DOMAIN q
  PROVE  Place(q, q[i]) = i
  BY DEF List, Place, IsInjective

LEMMA FirstListed ==
  ASSUME NEW q, List(q), q # <<>>
  PROVE  /\ 1 \in DOMAIN q /\ First(q) = q[1]
         /\ Len(q) \in DOMAIN q /\ Upper(q) = q[Len(q)]
  BY DEF List, First, Upper, Last

LEMMA AfterIs ==
  ASSUME NEW q, List(q), NEW i \in DOMAIN q
  PROVE  /\ i = Len(q) => After(q, q[i]) = NoStream
         /\ i # Len(q) => i + 1 \in DOMAIN q /\ After(q, q[i]) = q[i + 1]
<1>1. q # <<>> /\ i \in 1..Len(q) /\ Len(q) \in Nat
  BY DEF List
<1>2. q[i] = Upper(q) <=> i = Len(q)
  BY <1>1, FirstListed DEF List, IsInjective
<1>. QED
  BY <1>1, <1>2, PlaceIs DEF After, List

LEMMA BeforeIs ==
  ASSUME NEW q, List(q), NEW i \in DOMAIN q
  PROVE  /\ i = 1 => Before(q, q[i]) = NoStream
         /\ i # 1 => i - 1 \in DOMAIN q /\ Before(q, q[i]) = q[i - 1]
<1>1. q # <<>> /\ i \in 1..Len(q) /\ Len(q) \in Nat
  BY DEF List
<1>2. q[i] = First(q) <=> i = 1
  BY <1>1, FirstListed DEF List, IsInjective
<1>. QED
  BY <1>1, <1>2, PlaceIs DEF Before, List

LEMMA LinkType ==
  ASSUME NEW q, List(q)
  PROVE  LinkStreams(q) \in [Streams -> Streams \cup {NoStream}]
<1>1. ASSUME NEW s \in Streams, s \in Range(q)
      PROVE  Before(q, s) \in Streams \cup {NoStream}
  <2>1. PICK i \in DOMAIN q : s = q[i]
    BY <1>1 DEF Range
  <2>. QED
    BY <2>1, BeforeIs DEF List
<1>. QED
  BY <1>1 DEF LinkStreams

LEMMA AppendListed ==
  ASSUME NEW q, List(q), NEW n \in Streams \ Range(q)
  PROVE  /\ List(Append(q, n))
         /\ DOMAIN Append(q, n) = DOMAIN q \cup {Len(q) + 1}
         /\ \A i \in DOMAIN q : Append(q, n)[i] = q[i]
         /\ Append(q, n)[Len(q) + 1] = n /\ Len(q) + 1 \notin DOMAIN q
         /\ Range(Append(q, n)) = Range(q) \cup {n}
<1>. DEFINE r == Append(q, n)
<1>1. r \in Seq(Streams) /\ Len(r) = Len(q) + 1 /\ Len(q) \in Nat
  BY DEF List
<1>2. DOMAIN q = 1..Len(q) /\ DOMAIN r = 1..Len(q) + 1
  BY <1>1 DEF List
<1>3. (\A i \in DOMAIN q : r[i] = q[i]) /\ r[Len(q) + 1] = n
  BY <1>1 DEF List
<1>4. DOMAIN r = DOMAIN q \cup {Len(q) + 1} /\ Len(q) + 1 \notin DOMAIN q
  BY <1>1, <1>2
<1>5. IsInjective(r)
  BY <1>3, <1>4 DEF IsInjective, List, Range
<1>6. Range(r) = Range(q) \cup {n}
  BY <1>3, <1>4 DEF Range
<1>. QED
  BY <1>1, <1>3, <1>4, <1>5, <1>6 DEF List

LEMMA EraseListed ==
  ASSUME NEW q, List(q), NEW p \in DOMAIN q
  PROVE  LET r == RemoveAt(q, p) IN
         /\ List(r) /\ Len(r) = Len(q) - 1
         /\ \A i \in DOMAIN r : IF i < p THEN i \in DOMAIN q /\ r[i] = q[i]
                                         ELSE i + 1 \in DOMAIN q /\ r[i] = q[i + 1]
         /\ Range(r) = Range(q) \ {q[p]}
<1>. DEFINE r == RemoveAt(q, p)
<1>1. Len(q) \in Nat /\ p \in 1..Len(q) /\ DOMAIN q = 1..Len(q)
  BY DEF List
<1>. DEFINE lo == SubSeq(q, 1, p - 1)
            hi == SubSeq(q, p + 1, Len(q))
<1>2. lo \in Seq(Streams) /\ Len(lo) = p - 1 /\ \A i \in 1..p - 1 : lo[i] = q[i]
  BY <1>1 DEF List
<1>3. /\ hi \in Seq(Streams) /\ Len(hi) = Len(q) - p
      /\ \A i \in 1..Len(q) - p : hi[i] = q[p + i]
  BY <1>1 DEF List
<1>. HIDE DEF lo, hi
<1>4. /\ lo \o hi \in Seq(Streams) /\ Len(lo \o hi) = Len(q) - 1
      /\ \A i \in 1..Len(q) - 1 :
           (lo \o hi)[i] = IF i <= p - 1 THEN lo[i] ELSE hi[i - (p - 1)]
  <2>1. Len(lo) + Len(hi) = Len(q) - 1
    BY <1>1, <1>2, <1>3
  <2>2. /\ lo \o hi \in Seq(Streams) /\ Len(lo \o hi) = Len(lo) + Len(hi)
        /\ \A i \in 1..Len(lo) + Len(hi) :
             (lo \o hi)[i] = IF i <= Len(lo) THEN lo[i] ELSE hi[i - Len(lo)]
    BY <1>2, <1>3, ConcatProperties, Zenon
  <2>. QED
    BY <1>2, <2>1, <2>2, Zenon
<1>5. r = lo \o hi
  BY DEF RemoveAt, lo, hi
<1>6. ASSUME NEW i \in 1..Len(q) - 1
      PROVE  r[i] = IF i < p THEN q[i] ELSE q[i + 1]
  <2>1. CASE i < p
    <3>1. i <= p - 1 /\ i \in 1..p - 1
      BY <1>1, <2>1
    <3>. QED
      BY <1>2, <1>4, <1>5, <2>1, <3>1
  <2>2. CASE ~(i < p)
    <3>1. i - (p - 1) \in 1..Len(q) - p /\ p + (i - (p - 1)) = i + 1 /\ ~(i <= p - 1)
      BY <1>1, <2>2
    <3>. QED
      BY <1>3, <1>4, <1>5, <2>2, <3>1
  <2>. QED
    BY <2>1, <2>2
<1>7. r \in Seq(Streams) /\ Len(r) = Len(q) - 1
  BY <1>4, <1>5
<1>8. \A i \in DOMAIN r : IF i < p THEN i \in DOMAIN q /\ r[i] = q[i]
                                   ELSE i + 1 \in DOMAIN q /\ r[i] = q[i + 1]
  BY <1>1, <1>7, <1>6
<1>9. DOMAIN r \subseteq Nat /\ DOMAIN q \subseteq Nat
  BY <1>1, <1>7
<1>10. IsInjective(r)
  <2>1. SUFFICES ASSUME NEW a \in DOMAIN r, NEW b \in DOMAIN r, r[a] = r[b]
                 PROVE  a = b
    BY DEF IsInjective
  <2>. QED
    BY <1>1, <1>8, <1>9, <2>1 DEF IsInjective, List
<1>11. Range(r) = Range(q) \ {q[p]}
  <2>1. ASSUME NEW i \in DOMAIN r
        PROVE  r[i] \in Range(q) \ {q[p]}
    BY <1>1, <1>8, <1>9 DEF Range, IsInjective, List
  <2>2. ASSUME NEW i \in DOMAIN q, i # p
        PROVE  q[i] \in Range(r)
    <3>1. CASE i < p
      BY <1>1, <1>7, <1>6, <2>2, <3>1 DEF Range
    <3>2. CASE ~(i < p)
      <4>1. i - 1 \in DOMAIN r /\ r[i - 1] = q[i]
        BY <1>1, <1>7, <1>6, <2>2, <3>2
      <4>. QED
        BY <4>1 DEF Range
    <3>. QED
      BY <3>1, <3>2
  <2>. QED
    BY <2>1, <2>2 DEF Range
<1>. QED
  BY <1>7, <1>8, <1>10, <1>11 DEF List

-----------------------------------------------------------------------------
(* What a handler leaves of the list: the streams that were in it, in their
   places, and perhaps one more above them. *)
Grown ==
  /\ List(streams') /\ DOMAIN streams \subseteq DOMAIN streams'
  /\ Range(streams) \subseteq Range(streams')
  /\ \A i \in DOMAIN streams : streams'[i] = streams[i]
  /\ \A i \in DOMAIN streams' \ DOMAIN streams : streams'[i] \notin Range(streams)

HandlerTypes ==
  /\ fresh' \subseteq Streams \ Range(streams')
  /\ chain' \in [Streams -> Streams \cup {NoStream}]
  /\ interest' \in [Streams -> SUBSET {"Readable", "Writeable"}]
  /\ buffered' \subseteq Streams

LEMMA HandlerKeeps ==
  ASSUME TypeOK, NEW s \in Streams, Handler(s)
  PROVE  Grown /\ HandlerTypes
<1>1. List(streams) /\ fresh \subseteq Streams \ Range(streams)
  BY DEF TypeOK, List
<1>2. interest' \in [Streams -> SUBSET {"Readable", "Writeable"}] /\ buffered' \subseteq Streams
  BY DEF Handler
<1>3. CASE UNCHANGED <<streams, fresh, chain>>
  BY <1>1, <1>2, <1>3 DEF Grown, HandlerTypes, TypeOK
<1>4. CASE \E n \in fresh : /\ fresh' = fresh \ {n}
                           /\ streams' = Append(streams, n)
                           /\ chain' = LinkStreams(streams')
  <2>1. PICK n \in Streams \ Range(streams) :
          /\ fresh' = fresh \ {n}
          /\ streams' = Append(streams, n)
          /\ chain' = LinkStreams(streams')
    BY <1>1, <1>4
  <2>2. /\ List(streams')
        /\ DOMAIN streams' = DOMAIN streams \cup {Len(streams) + 1}
        /\ \A i \in DOMAIN streams : streams'[i] = streams[i]
        /\ streams'[Len(streams) + 1] = n
        /\ Range(streams') = Range(streams) \cup {n}
    BY <1>1, <2>1, AppendListed
  <2>3. Grown
    BY <2>1, <2>2 DEF Grown
  <2>4. HandlerTypes
    BY <1>1, <1>2, <2>1, <2>2, LinkType DEF HandlerTypes
  <2>. QED
    BY <2>3, <2>4
<1>. QED
  BY <1>3, <1>4 DEF Handler

(* The stream at is in the list; what is below it in the longer list was below
   it before. *)
LEMMA GrownBelow ==
  ASSUME TypeOK, Grown, at \in Range(streams),
         NEW i \in DOMAIN streams', NEW k \in DOMAIN streams',
         i < k, streams'[k] = at
  PROVE  i \in DOMAIN streams /\ k \in DOMAIN streams /\ streams[k] = at
<1>1. k \in DOMAIN streams
  BY DEF Grown
<1>2. DOMAIN streams = 1..Len(streams) /\ Len(streams) \in Nat
  BY DEF TypeOK
<1>3. DOMAIN streams' = 1..Len(streams') /\ Len(streams') \in Nat
  BY DEF Grown, List
<1>. QED
  BY <1>1, <1>2, <1>3 DEF Grown

(* Opening the stream at keeps the order, if those below it are open. *)
LEMMA GrownOpens ==
  ASSUME TypeOK, OpenedFromBelow, OpenAreListed, Grown, at \in Range(streams),
         opened' = opened \/ opened' = opened \cup {at},
         opened' # opened => \A i, k \in DOMAIN streams :
                               i < k /\ streams[k] = at => streams[i] \in opened
  PROVE  OpenedFromBelow' /\ OpenAreListed' /\ opened' \subseteq Streams
<1>1. OpenAreListed' /\ opened' \subseteq Streams
  BY DEF OpenAreListed, Grown, TypeOK, Range
<1>2. ASSUME NEW i \in DOMAIN streams', NEW k \in DOMAIN streams',
             i < k, streams'[k] \in opened'
      PROVE  streams'[i] \in opened'
  <2>1. k \in DOMAIN streams
    BY <1>2 DEF Grown, OpenAreListed
  <2>2. i \in DOMAIN streams
    <3>1. DOMAIN streams = 1..Len(streams) /\ Len(streams) \in Nat
      BY DEF TypeOK
    <3>2. DOMAIN streams' = 1..Len(streams') /\ Len(streams') \in Nat
      BY DEF Grown, List
    <3>. QED
      BY <1>2, <2>1, <3>1, <3>2
  <2>3. streams'[i] = streams[i] /\ streams'[k] = streams[k]
    BY <2>1, <2>2 DEF Grown
  <2>4. CASE streams[k] \in opened
    BY <1>2, <2>1, <2>2, <2>3, <2>4 DEF OpenedFromBelow
  <2>5. CASE streams[k] \notin opened
    BY <1>2, <2>1, <2>2, <2>3, <2>5
  <2>. QED
    BY <2>4, <2>5
<1>. QED
  BY <1>1, <1>2 DEF OpenedFromBelow

(* Taking a stream out of the list keeps the types and the order. *)
LEMMA RemovedKeeps ==
  ASSUME TypeOK, OpenedFromBelow, OpenAreListed, NEW p \in DOMAIN streams,
         Removed(streams[p]), UNCHANGED fresh
  PROVE  /\ streams' = RemoveAt(streams, p)
         /\ List(streams') /\ HandlerTypes
         /\ opened' \subseteq Streams
         /\ OpenedFromBelow' /\ OpenAreListed'
<1>1. List(streams)
  BY DEF TypeOK, List
<1>2. streams' = RemoveAt(streams, p)
  BY <1>1, PlaceIs DEF Removed
<1>3. /\ List(streams') /\ Len(streams') = Len(streams) - 1
      /\ \A i \in DOMAIN streams' :
           IF i < p THEN i \in DOMAIN streams /\ streams'[i] = streams[i]
                    ELSE i + 1 \in DOMAIN streams /\ streams'[i] = streams[i + 1]
      /\ Range(streams') = Range(streams) \ {streams[p]}
  BY <1>1, <1>2, EraseListed
<1>4. HandlerTypes
  BY <1>3, LinkType DEF HandlerTypes, Removed, TypeOK
<1>5. OpenAreListed' /\ opened' \subseteq Streams
  BY <1>3 DEF OpenAreListed, Removed, TypeOK
<1>6. ASSUME NEW i \in DOMAIN streams', NEW k \in DOMAIN streams',
             i < k, streams'[k] \in opened'
      PROVE  streams'[i] \in opened'
  <2>1. PICK a \in DOMAIN streams, b \in DOMAIN streams :
          a < b /\ streams'[i] = streams[a] /\ streams'[k] = streams[b]
    <3>1. /\ DOMAIN streams = 1..Len(streams) /\ Len(streams) \in Nat
          /\ DOMAIN streams' = 1..Len(streams')
      BY <1>1, <1>3 DEF List
    <3>2. CASE k < p
      BY <1>3, <1>6, <3>1, <3>2
    <3>3. CASE ~(k < p) /\ i < p
      BY <1>3, <1>6, <3>1, <3>3
    <3>4. CASE ~(k < p) /\ ~(i < p)
      BY <1>3, <1>6, <3>1, <3>4
    <3>. QED
      BY <3>2, <3>3, <3>4
  <2>2. streams[a] \in opened
    BY <1>6, <2>1 DEF Removed, OpenedFromBelow
  <2>3. streams'[i] # streams[p]
    BY <1>3 DEF Range
  <2>. QED
    BY <2>1, <2>2, <2>3 DEF Removed
<1>. QED
  BY <1>2, <1>3, <1>4, <1>5, <1>6 DEF OpenedFromBelow

-----------------------------------------------------------------------------
LEMMA InitIInv == Init => IInv
<1> SUFFICES ASSUME Init PROVE IInv
  OBVIOUS
<1>1. PICK s \in Streams : streams = <<s>> /\ fresh = Streams \ {s}
  BY DEF Init
<1>2. streams \in Seq(Streams) /\ DOMAIN streams = {1} /\ streams[1] = s
  BY <1>1
<1>3. IsInjective(streams) /\ Range(streams) = {s}
  BY <1>2 DEF IsInjective, Range
<1>4. TypeOK
  BY <1>1, <1>2, <1>3, StreamsAssumption DEF Init, TypeOK, States, Events, NoEvent
<1>. QED
  BY <1>4 DEF Init, IInv, OpenedFromBelow, OpenAreListed, IteratorIsListed,
              FlagsAreFresh, ClosingFromTop, BelowAreOpen, AskedIsOpen

(* Steps that leave the list and the open streams alone. *)
Still == UNCHANGED <<streams, chain, fresh, opened>>

LEMMA StillKeeps ==
  ASSUME IInv, Still
  PROVE  OpenedFromBelow' /\ OpenAreListed'
  BY DEF IInv, Still, OpenedFromBelow, OpenAreListed

(* Between two passes. *)
LEMMA OutsideKeeps ==
  ASSUME IInv,
         Dispatch \/ DispatchGone \/ Connect \/ ClosingError \/ EndLoop
  PROVE  IInv'
<1>1. Still /\ UNCHANGED <<interest, buffered>>
  BY DEF Still, Dispatch, DispatchGone, Connect, ClosingError, EndLoop, localVars
<1>2. pc' \in {"idle", "pass", "gone"}
  BY DEF Dispatch, DispatchGone, Connect, ClosingError, EndLoop, localVars
<1>3. state' \in States /\ at' \in Streams \cup {NoStream}
  BY DEF IInv, TypeOK, Dispatch, DispatchGone, Connect, ClosingError, EndLoop, localVars,
         States
<1>5. ev' \subseteq {"Opening", "Readable", "Writeable"}
  <2>1. CASE Dispatch
    BY <2>1 DEF Dispatch
  <2>2. CASE DispatchGone \/ Connect \/ ClosingError \/ EndLoop
    BY <2>2 DEF IInv, TypeOK, DispatchGone, Connect, ClosingError, EndLoop, localVars
  <2>. QED
    BY <2>1, <2>2
<1>6. flags' \subseteq {"remove", "error", "close", "open_wait"} /\ loop' \in BOOLEAN
  BY DEF IInv, TypeOK, Dispatch, DispatchGone, Connect, ClosingError, EndLoop, localVars
<1>7. sent' \in [stream : Streams \cup {NoStream}, event : Events]
  BY DEF IInv, TypeOK, Dispatch, DispatchGone, Connect, ClosingError, EndLoop,
         Silent, Deliver, NoEvent, Events
<1>4. TypeOK'
  BY <1>1, <1>2, <1>3, <1>5, <1>6, <1>7 DEF IInv, TypeOK, Still
<1>. QED
  BY <1>1, <1>2, <1>4, StillKeeps
     DEF IInv, IteratorIsListed, FlagsAreFresh, ClosingFromTop, BelowAreOpen, AskedIsOpen

(* The pass begins with the lowest stream, which has none below it. *)
LEMMA PassKeeps == ASSUME IInv, Pass PROVE IInv'
<1>1. List(streams) /\ Still
  BY DEF IInv, TypeOK, List, Pass, Still
<1>2. streams # <<>> => at' \in Range(streams) /\ at' = streams[1] /\ 1 \in DOMAIN streams
  BY <1>1, FirstListed DEF Pass, Range
<1>3. at' \in Streams \cup {NoStream}
  BY <1>1 DEF Pass, First, List
<1>4. TypeOK'
  BY <1>3, StreamsAssumption DEF IInv, TypeOK, Pass, Silent, NoEvent, Events
<1>5. IteratorIsListed' /\ FlagsAreFresh' /\ ClosingFromTop' /\ AskedIsOpen'
  BY <1>2 DEF Pass, IteratorIsListed, FlagsAreFresh, ClosingFromTop, AskedIsOpen
<1>6. ASSUME NEW i \in DOMAIN streams, NEW k \in DOMAIN streams, i < k,
             streams # <<>>, streams[k] = at'
      PROVE  FALSE
  <2>1. k = 1
    BY <1>1, <1>2, <1>6 DEF List, IsInjective
  <2>. QED
    BY <1>1, <1>6, <2>1 DEF List
<1>7. BelowAreOpen'
  BY <1>6 DEF BelowAreOpen, Pass
<1>. QED
  BY <1>1, <1>4, <1>5, <1>7, StillKeeps DEF IInv

(* An event that is not sent moves on to the next one of the same stream. *)
LEMMA SkipKeeps ==
  ASSUME IInv, OpeningSkip \/ ReadableSkip \/ WriteableSkip
  PROVE  IInv'
<1>1. Still /\ UNCHANGED <<state, interest, buffered, at, ev, flags, loop>>
  BY DEF OpeningSkip, ReadableSkip, WriteableSkip, Skip, Still
<1>2. TypeOK'
  BY <1>1 DEF IInv, TypeOK, Still, OpeningSkip, ReadableSkip, WriteableSkip, Skip,
              Silent, NoEvent, Events
<1>3. IteratorIsListed' /\ FlagsAreFresh' /\ ClosingFromTop' /\ BelowAreOpen' /\ AskedIsOpen'
  BY <1>1 DEF IInv, Still, OpeningSkip, ReadableSkip, WriteableSkip, Skip,
              IteratorIsListed, FlagsAreFresh, ClosingFromTop, BelowAreOpen, AskedIsOpen
<1>. QED
  BY <1>1, <1>2, <1>3, StillKeeps DEF IInv

LEMMA OutsideEnables == ASSUME IInv, EnabledFromOutside PROVE IInv'
<1>1. Still /\ UNCHANGED <<state, buffered, localVars>>
  BY DEF EnabledFromOutside, Still
<1>2. interest' \in [Streams -> SUBSET {"Readable", "Writeable"}]
  <2>1. PICK s \in Chatty \cap Range(streams), e \in {"Readable", "Writeable"} :
          interest' = [interest EXCEPT ![s] = @ \cup {e}]
    BY DEF EnabledFromOutside
  <2>. QED
    BY <2>1, StreamsAssumption DEF IInv, TypeOK
<1>3. TypeOK'
  BY <1>1, <1>2 DEF IInv, TypeOK, Still, EnabledFromOutside, Silent, NoEvent, Events, localVars
<1>4. IteratorIsListed' /\ FlagsAreFresh' /\ ClosingFromTop' /\ BelowAreOpen' /\ AskedIsOpen'
  BY <1>1 DEF IInv, Still, localVars,
              IteratorIsListed, FlagsAreFresh, ClosingFromTop, BelowAreOpen, AskedIsOpen
<1>. QED
  BY <1>1, <1>3, <1>4, StillKeeps DEF IInv

(* The stream the iterator is on, when it answers an event. *)
LEMMA ReceiverListed ==
  ASSUME IInv, pc \in {"opening", "readable", "writeable", "next", "closing"}
  PROVE  at \in Range(streams) /\ at \in Streams
  BY DEF IInv, IteratorIsListed, TypeOK, Range

LEMMA EndpointTypes ==
  ASSUME TypeOK, Endpoint PROVE state' \in States
  BY DEF TypeOK, Endpoint, States

LEMMA AnswerTypes ==
  ASSUME NEW c \in Conditions
  PROVE  /\ Answer(c) \subseteq {"remove", "error", "close", "open_wait"}
         /\ c = "End" => "remove" \in Answer(c)
         /\ c = "Error" => "error" \in Answer(c)
  BY DEF Conditions, Answer

(* Opening: the stream opens, or its answer holds the pass back, takes the
   stream out or ends the descriptor. *)
LEMMA OpeningKeeps ==
  ASSUME IInv, NEW c \in Conditions, OpeningAnswered(c)
  PROVE  IInv'
<1>1. at \in Range(streams) /\ at \in Streams
  BY ReceiverListed DEF OpeningAnswered
<1>2. Grown /\ HandlerTypes
  BY <1>1, HandlerKeeps DEF OpeningAnswered, IInv
<1>3. \A i, k \in DOMAIN streams : i < k /\ streams[k] = at => streams[i] \in opened
  BY DEF IInv, BelowAreOpen, OpeningAnswered
<1>4. OpenedFromBelow' /\ OpenAreListed' /\ opened' \subseteq Streams
  BY <1>1, <1>2, <1>3, GrownOpens DEF IInv, OpeningAnswered
<1>5. flags' \subseteq {"remove", "error", "close", "open_wait"}
  BY AnswerTypes DEF OpeningAnswered, IInv, TypeOK
<1>6. TypeOK'
  BY <1>1, <1>2, <1>4, <1>5, EndpointTypes
     DEF IInv, TypeOK, OpeningAnswered, Deliver, Events, Grown, HandlerTypes, List
<1>7. IteratorIsListed' /\ FlagsAreFresh' /\ ClosingFromTop'
  BY <1>1, <1>2 DEF OpeningAnswered, IteratorIsListed, FlagsAreFresh, ClosingFromTop, Grown
<1>8. BelowAreOpen'
  <2>1. ASSUME NEW i \in DOMAIN streams', NEW k \in DOMAIN streams',
               i < k, streams'[k] = at
        PROVE  streams'[i] \in opened'
    <3>1. i \in DOMAIN streams /\ k \in DOMAIN streams /\ streams[k] = at
      BY <1>1, <1>2, <2>1, GrownBelow DEF IInv
    <3>2. streams[i] \in opened /\ streams'[i] = streams[i]
      BY <1>2, <1>3, <2>1, <3>1 DEF Grown
    <3>. QED
      BY <3>2 DEF OpeningAnswered
  <2>. QED
    BY <2>1 DEF BelowAreOpen, OpeningAnswered
<1>9. AskedIsOpen'
  BY AnswerTypes DEF AskedIsOpen, OpeningAnswered, Conditions
<1>. QED
  BY <1>4, <1>6, <1>7, <1>8, <1>9 DEF IInv

(* Readable and Writeable open nothing. *)
LEMMA AnsweredKeeps ==
  ASSUME IInv, NEW c \in Conditions, NEW e \in {"Readable", "Writeable"}, Answered(e, c),
         pc \in {"readable", "writeable"}, pc' \in {"writeable", "next"}
  PROVE  IInv'
<1>1. at \in Range(streams) /\ at \in Streams
  BY ReceiverListed
<1>2. Grown /\ HandlerTypes
  BY <1>1, HandlerKeeps DEF Answered, IInv
<1>3. OpenedFromBelow' /\ OpenAreListed' /\ opened' \subseteq Streams
  BY <1>1, <1>2, GrownOpens DEF IInv, Answered
<1>4. flags' \subseteq {"remove", "error", "close", "open_wait"} /\ flags \subseteq flags'
  BY AnswerTypes DEF Answered, IInv, TypeOK
<1>5. ev' \subseteq ev /\ ("Opening" \in ev' <=> "Opening" \in ev)
  BY DEF Answered
<1>6. TypeOK'
  BY <1>1, <1>2, <1>3, <1>4, <1>5, EndpointTypes
     DEF IInv, TypeOK, Answered, Deliver, Events, Grown, HandlerTypes, List
<1>7. IteratorIsListed' /\ FlagsAreFresh' /\ ClosingFromTop'
  BY <1>1, <1>2 DEF Answered, IteratorIsListed, FlagsAreFresh, ClosingFromTop, Grown
<1>8. BelowAreOpen'
  <2>1. ASSUME NEW i \in DOMAIN streams', NEW k \in DOMAIN streams',
               i < k, streams'[k] = at, "Opening" \in ev
        PROVE  streams'[i] \in opened
    <3>1. i \in DOMAIN streams /\ k \in DOMAIN streams /\ streams[k] = at
      BY <1>1, <1>2, <2>1, GrownBelow DEF IInv
    <3>. QED
      BY <1>2, <2>1, <3>1 DEF Grown, IInv, BelowAreOpen
  <2>. QED
    BY <1>5, <2>1 DEF BelowAreOpen, Answered
<1>9. AskedIsOpen'
  BY <1>4, <1>5 DEF AskedIsOpen, Answered, IInv
<1>. QED
  BY <1>3, <1>6, <1>7, <1>8, <1>9 DEF IInv

(* The stream above the one at place p, if there is one. *)
LEMMA NextUp ==
  ASSUME List(streams), NEW p \in DOMAIN streams, at = streams[p], NoStream \notin Streams,
         at' = After(streams, at)
  PROVE  /\ at' \in Streams \cup {NoStream}
         /\ at' # NoStream => p + 1 \in DOMAIN streams /\ at' = streams[p + 1]
  BY AfterIs DEF List

(* On to the next stream: the one left behind is open, or the pass stops. *)
LEMMA MoveOnKeeps ==
  ASSUME IInv, Advance, "error" \notin flags, "remove" \notin flags
  PROVE  BelowAreOpen' /\ IteratorIsListed'
<1>1. List(streams) /\ at \in Range(streams)
  BY ReceiverListed DEF IInv, TypeOK, List, Advance
<1>2. PICK p \in DOMAIN streams : at = streams[p]
  BY <1>1 DEF Range
<1>3. streams' = streams /\ opened' = opened /\ at' = After(streams, at)
  BY DEF Advance
<1>4. at' # NoStream => p + 1 \in DOMAIN streams /\ at' = streams[p + 1]
  BY <1>1, <1>2, <1>3, NextUp, StreamsAssumption
<1>5. pc' \in {"endpass", "opening"}
  BY DEF Advance
<1>6. pc' = "opening" => at' # NoStream /\ ("open_wait" \in flags => at \in opened)
  BY DEF Advance, StopsHere
<1>7. IteratorIsListed'
  BY <1>3, <1>4, <1>5, <1>6 DEF IteratorIsListed, Range
<1>8. ASSUME NEW i \in DOMAIN streams, NEW k \in DOMAIN streams, i < k,
             streams[k] = at', pc' = "opening", "Opening" \in ev'
      PROVE  streams[i] \in opened
  <2>1. k = p + 1
    BY <1>1, <1>4, <1>6, <1>8 DEF List, IsInjective
  <2>2. "Opening" \in ev
    BY <1>8 DEF Advance
  <2>3. CASE i = p
    <3>1. at \in opened
      BY <1>6, <1>8, <2>2 DEF IInv, AskedIsOpen, Advance
    <3>. QED
      BY <1>2, <2>3, <3>1
  <2>4. CASE i # p
    <3>1. i < p
      BY <1>1, <1>8, <2>1, <2>4 DEF List
    <3>. QED
      BY <1>2, <2>2, <3>1 DEF IInv, BelowAreOpen, Advance
  <2>. QED
    BY <2>3, <2>4
<1>. QED
  BY <1>3, <1>5, <1>7, <1>8 DEF BelowAreOpen

(* A stream is taken out: those below the next one were below it. *)
LEMMA TakeOutKeeps ==
  ASSUME IInv, Advance, "error" \notin flags, "remove" \in flags
  PROVE  /\ BelowAreOpen' /\ IteratorIsListed' /\ OpenedFromBelow' /\ OpenAreListed'
         /\ List(streams') /\ HandlerTypes /\ opened' \subseteq Streams
<1>1. List(streams) /\ at \in Range(streams)
  BY ReceiverListed DEF IInv, TypeOK, List, Advance
<1>2. PICK p \in DOMAIN streams : at = streams[p]
  BY <1>1 DEF Range
<1>3. Removed(streams[p]) /\ ev' = ev /\ at' = After(streams, at) /\ fresh' = fresh
  BY <1>2 DEF Advance
<1>4. /\ streams' = RemoveAt(streams, p) /\ OpenedFromBelow' /\ OpenAreListed'
      /\ List(streams') /\ HandlerTypes /\ opened' \subseteq Streams
  BY <1>3, RemovedKeeps DEF IInv
<1>5. /\ \A i \in DOMAIN streams' :
           IF i < p THEN i \in DOMAIN streams /\ streams'[i] = streams[i]
                    ELSE i + 1 \in DOMAIN streams /\ streams'[i] = streams[i + 1]
      /\ Range(streams') = Range(streams) \ {streams[p]}
  BY <1>1, <1>4, EraseListed
<1>6. at' # NoStream => p + 1 \in DOMAIN streams /\ at' = streams[p + 1]
  BY <1>1, <1>2, <1>3, NextUp, StreamsAssumption
<1>7. pc' \in {"endpass", "opening"} /\ (pc' = "opening" => at' # NoStream)
  BY DEF Advance
<1>8. DOMAIN streams = 1..Len(streams) /\ Len(streams) \in Nat /\ DOMAIN streams' \subseteq Nat
  BY <1>1, <1>4 DEF List
<1>9. IteratorIsListed'
  <2>1. at' # NoStream => at' \in Range(streams) /\ at' # streams[p]
    BY <1>1, <1>6, <1>8 DEF List, IsInjective, Range
  <2>. QED
    BY <1>5, <1>7, <2>1 DEF IteratorIsListed
<1>10. ASSUME NEW i \in DOMAIN streams', NEW k \in DOMAIN streams', i < k,
              streams'[k] = at', pc' = "opening", "Opening" \in ev'
       PROVE  streams'[i] \in opened'
  <2>1. k = p
    <3>1. CASE k < p
      BY <1>1, <1>5, <1>6, <1>7, <1>8, <1>10, <3>1 DEF List, IsInjective
    <3>2. CASE ~(k < p)
      BY <1>1, <1>5, <1>6, <1>7, <1>8, <1>10, <3>2 DEF List, IsInjective
    <3>. QED
      BY <3>1, <3>2
  <2>2. i \in DOMAIN streams /\ streams'[i] = streams[i]
    BY <1>5, <1>10, <2>1
  <2>3. streams[i] \in opened
    BY <1>2, <1>3, <1>10, <2>1, <2>2 DEF IInv, BelowAreOpen, Advance
  <2>4. streams'[i] # streams[p]
    BY <1>5 DEF Range
  <2>. QED
    BY <1>3, <2>2, <2>3, <2>4 DEF Removed
<1>. QED
  BY <1>4, <1>7, <1>9, <1>10 DEF BelowAreOpen

LEMMA AdvanceKeeps == ASSUME IInv, Advance PROVE IInv'
<1>1. List(streams) /\ at \in Range(streams)
  BY ReceiverListed DEF IInv, TypeOK, List, Advance
<1>2. at' \in Streams \cup {NoStream}
  <2>1. CASE "error" \in flags
    BY <2>1 DEF Advance, IInv, TypeOK
  <2>2. CASE "error" \notin flags
    <3>1. PICK p \in DOMAIN streams : at = streams[p]
      BY <1>1 DEF Range
    <3>2. at' = After(streams, at)
      BY <2>2 DEF Advance
    <3>. QED
      BY <1>1, <3>1, <3>2, NextUp, StreamsAssumption
  <2>. QED
    BY <2>1, <2>2
<1>3. /\ state' \in States /\ pc' \in {"gone", "endpass", "opening"}
      /\ ev' \subseteq {"Opening", "Readable", "Writeable"} /\ flags' = {}
      /\ loop' = loop /\ sent' = NoEvent
  BY DEF Advance, IInv, TypeOK, States, ClosingIfAsked, Silent
<1>4. ClosingFromTop' /\ FlagsAreFresh' /\ AskedIsOpen'
  BY <1>3 DEF ClosingFromTop, FlagsAreFresh, AskedIsOpen
<1>5. CASE "error" \in flags
  <2>1. Still /\ UNCHANGED <<interest, buffered>> /\ pc' = "gone"
    BY <1>5 DEF Advance, Still
  <2>2. TypeOK'
    BY <1>2, <1>3, <2>1 DEF IInv, TypeOK, Still, NoEvent, Events
  <2>. QED
    BY <1>4, <2>1, <2>2, StillKeeps DEF IInv, BelowAreOpen, IteratorIsListed
<1>6. CASE "error" \notin flags /\ "remove" \notin flags
  <2>1. Still /\ UNCHANGED <<interest, buffered>>
    BY <1>6 DEF Advance, Still
  <2>2. TypeOK'
    BY <1>2, <1>3, <2>1 DEF IInv, TypeOK, Still, NoEvent, Events
  <2>. QED
    BY <1>4, <1>6, <2>1, <2>2, StillKeeps, MoveOnKeeps DEF IInv
<1>7. CASE "error" \notin flags /\ "remove" \in flags
  <2>1. /\ BelowAreOpen' /\ IteratorIsListed' /\ OpenedFromBelow' /\ OpenAreListed'
        /\ List(streams') /\ HandlerTypes /\ opened' \subseteq Streams
    BY <1>7, TakeOutKeeps
  <2>2. TypeOK'
    BY <1>2, <1>3, <2>1 DEF IInv, TypeOK, HandlerTypes, List, NoEvent, Events
  <2>. QED
    BY <1>4, <2>1, <2>2 DEF IInv
<1>. QED
  BY <1>5, <1>6, <1>7

LEMMA EndPassKeeps == ASSUME IInv, EndPass PROVE IInv'
<1>1. List(streams) /\ Still /\ UNCHANGED <<state, interest, buffered, ev, flags, loop>>
  BY DEF IInv, TypeOK, List, EndPass, Still
<1>2. streams # <<>> => Upper(streams) \in Range(streams) /\ Upper(streams) \in Streams
  BY <1>1, FirstListed DEF Range, List
<1>3. /\ pc' \in {"closing", "endloop"} /\ at' \in Streams \cup {NoStream}
      /\ pc' = "closing" => streams # <<>> /\ at' = Upper(streams)
      /\ flags = {} /\ sent' = NoEvent
  BY <1>2 DEF EndPass, IInv, FlagsAreFresh, Silent
<1>4. TypeOK'
  BY <1>1, <1>3 DEF IInv, TypeOK, Still, NoEvent, Events
<1>5. IteratorIsListed' /\ FlagsAreFresh' /\ ClosingFromTop' /\ BelowAreOpen' /\ AskedIsOpen'
  BY <1>1, <1>2, <1>3 DEF Still, IteratorIsListed, FlagsAreFresh, ClosingFromTop,
                          BelowAreOpen, AskedIsOpen
<1>. QED
  BY <1>1, <1>4, <1>5, StillKeeps DEF IInv

(* A stream that waits, or cancels the closing, ends the sequence. *)
LEMMA ClosingHeldKeeps ==
  ASSUME IInv, ClosingWait \/ ClosingCancelled
  PROVE  IInv'
<1>1. at \in Range(streams) /\ at \in Streams
  BY ReceiverListed DEF ClosingWait, ClosingCancelled
<1>2. Grown /\ HandlerTypes
  BY <1>1, HandlerKeeps DEF ClosingWait, ClosingCancelled, IInv
<1>3. OpenedFromBelow' /\ OpenAreListed' /\ opened' \subseteq Streams
  BY <1>1, <1>2, GrownOpens DEF IInv, ClosingWait, ClosingCancelled
<1>4. state' \in States /\ loop' \in BOOLEAN
  BY EndpointTypes DEF ClosingWait, ClosingCancelled, IInv, TypeOK, States
<1>6. pc' = "endloop" /\ UNCHANGED <<at, ev, flags>>
  BY DEF ClosingWait, ClosingCancelled
<1>7. sent' \in [stream : Streams \cup {NoStream}, event : Events]
  BY <1>1 DEF ClosingWait, ClosingCancelled, Deliver, Events
<1>5. TypeOK'
  BY <1>2, <1>3, <1>4, <1>6, <1>7 DEF IInv, TypeOK, Grown, HandlerTypes, List
<1>. QED
  BY <1>3, <1>5, <1>6 DEF IInv, IteratorIsListed, FlagsAreFresh, ClosingFromTop,
                          BelowAreOpen, AskedIsOpen

(* The uppermost stream is taken out, and the one below it is the uppermost. *)
LEMMA ClosingOkKeeps == ASSUME IInv, ClosingOk PROVE IInv'
<1>1. List(streams) /\ streams # <<>> /\ at = Upper(streams) /\ flags = {}
  BY DEF IInv, TypeOK, List, ClosingOk, ClosingFromTop, FlagsAreFresh
<1>. DEFINE n == Len(streams)
<1>2. n \in DOMAIN streams /\ at = streams[n] /\ at \in Streams
  BY <1>1, FirstListed DEF List
<1>3. Removed(streams[n]) /\ UNCHANGED fresh
  BY <1>2 DEF ClosingOk
<1>4. /\ streams' = RemoveAt(streams, n) /\ OpenedFromBelow' /\ OpenAreListed'
      /\ List(streams') /\ HandlerTypes /\ opened' \subseteq Streams
  BY <1>2, <1>3, RemovedKeeps DEF IInv
<1>5. /\ Len(streams') = n - 1
      /\ \A i \in DOMAIN streams' : i < n => streams'[i] = streams[i]
  BY <1>1, <1>2, <1>4, EraseListed
<1>6. at' \in Streams \cup {NoStream}
  BY <1>1, <1>2, BeforeIs DEF ClosingOk, List
<1>7. ASSUME streams' # <<>>
      PROVE  at' = Upper(streams') /\ at' \in Range(streams')
  <2>1. Len(streams') \in DOMAIN streams' /\ Upper(streams') = streams'[n - 1]
    BY <1>4, <1>5, <1>7, FirstListed
  <2>2. n # 1 /\ n - 1 \in DOMAIN streams' /\ n \in Nat
    BY <1>1, <1>4, <1>5, <2>1 DEF List
  <2>3. at' = streams[n - 1]
    BY <1>1, <1>2, <2>2, BeforeIs DEF ClosingOk
  <2>4. streams'[n - 1] = streams[n - 1]
    BY <1>5, <2>2
  <2>. QED
    BY <2>1, <2>2, <2>3, <2>4 DEF Range
<1>8. pc' \in {"closing", "endloop"} /\ (pc' = "closing" => streams' # <<>>) /\ flags' = {}
  BY <1>1 DEF ClosingOk
<1>9. TypeOK'
  BY <1>2, <1>4, <1>6, <1>8, EndpointTypes
     DEF IInv, TypeOK, ClosingOk, Deliver, Events, HandlerTypes, List
<1>. QED
  BY <1>4, <1>7, <1>8, <1>9 DEF IInv, IteratorIsListed, FlagsAreFresh, ClosingFromTop,
                                BelowAreOpen, AskedIsOpen

LEMMA StutterIInv == ASSUME IInv, UNCHANGED vars PROVE IInv'
  BY DEF IInv, vars, TypeOK, OpenedFromBelow, OpenAreListed, IteratorIsListed,
         FlagsAreFresh, ClosingFromTop, BelowAreOpen, AskedIsOpen

LEMMA StepIInv == ASSUME IInv, Next PROVE IInv'
<1>1. CASE Opening
  BY <1>1, SkipKeeps, OpeningKeeps DEF Opening
<1>2. CASE Readable
  <2>1. ASSUME NEW c \in Conditions, ReadableAnswered(c)
        PROVE  IInv'
    BY <2>1, AnsweredKeeps DEF ReadableAnswered
  <2>. QED
    BY <1>2, <2>1, SkipKeeps DEF Readable
<1>3. CASE Writeable
  <2>1. ASSUME NEW c \in Conditions, WriteableAnswered(c)
        PROVE  IInv'
    BY <2>1, AnsweredKeeps DEF WriteableAnswered
  <2>. QED
    BY <1>3, <2>1, SkipKeeps DEF Writeable
<1>4. CASE Closing
  BY <1>4, OutsideKeeps, ClosingHeldKeeps, ClosingOkKeeps DEF Closing
<1>5. CASE Pass \/ Advance \/ EndPass
  BY <1>5, PassKeeps, AdvanceKeeps, EndPassKeeps
<1>6. CASE Dispatch \/ DispatchGone \/ Connect \/ EndLoop
  BY <1>6, OutsideKeeps
<1>7. CASE EnabledFromOutside
  BY <1>7, OutsideEnables
<1>8. CASE Gone
  <2>. UNCHANGED vars
    BY <1>8 DEF Gone
  <2>. QED
    BY StutterIInv
<1>. QED
  BY <1>1, <1>2, <1>3, <1>4, <1>5, <1>6, <1>7, <1>8 DEF Next, Step

LEMMA SpecIInv == Spec => []IInv
<1>1. IInv /\ [Next]_vars => IInv'
  BY StepIInv, StutterIInv
<1>. QED
  BY <1>1, InitIInv, PTL DEF Spec

(* Opening goes up the chain in order, for any number of streams, whatever
   their handlers answer, add, enable or find at the endpoint, and whatever
   streams are taken out on the way: no stream is open above one that is not. *)
THEOREM OpensFromBelow == Spec => []OpenedFromBelow
<1>1. IInv => OpenedFromBelow
  BY DEF IInv
<1>. QED
  BY <1>1, SpecIInv, PTL

(* An event is sent to a stream of the list only, and to none that has asked to
   be taken out of it: dispatch() calls into no stream that it has deleted. *)
THEOREM EventsReachTheLiving == Spec => OnlyToLiving
<1>. DEFINE Living == sent' # NoEvent => sent'.stream \in Range(streams)
                                      /\ "remove" \notin flags
<1>1. ASSUME IInv, Next
      PROVE  Living \/ UNCHANGED vars
  <2>1. ASSUME Deliver(at, "Opening") \/ Deliver(at, "Closing") \/ Deliver(at, "Readable")
                 \/ Deliver(at, "Writeable"),
               pc \in {"opening", "readable", "writeable", "closing"},
               "remove" \notin flags
        PROVE  Living
    BY <1>1, <2>1, ReceiverListed DEF Deliver
  <2>2. ASSUME Silent PROVE Living
    BY <2>2 DEF Silent
  <2>3. CASE Opening
    <3>1. ASSUME NEW c \in Conditions, OpeningAnswered(c)
          PROVE  Living
      BY <1>1, <2>1, <3>1 DEF OpeningAnswered, IInv, FlagsAreFresh
    <3>. QED
      BY <2>2, <2>3, <3>1 DEF Opening, OpeningSkip
  <2>4. CASE Readable
    <3>1. ASSUME NEW c \in Conditions, ReadableAnswered(c)
          PROVE  Living
      BY <2>1, <3>1 DEF ReadableAnswered, Answered, Wants
    <3>. QED
      BY <2>2, <2>4, <3>1 DEF Readable, ReadableSkip, Skip
  <2>5. CASE Writeable
    <3>1. ASSUME NEW c \in Conditions, WriteableAnswered(c)
          PROVE  Living
      BY <2>1, <3>1 DEF WriteableAnswered, Answered, Wants
    <3>. QED
      BY <2>2, <2>5, <3>1 DEF Writeable, WriteableSkip, Skip
  <2>6. CASE Closing
    <3>1. pc = "closing" /\ Deliver(at, "Closing")
      BY <2>6 DEF Closing, ClosingWait, ClosingCancelled, ClosingError, ClosingOk
    <3>2. flags = {}
      BY <1>1, <3>1 DEF IInv, FlagsAreFresh
    <3>. QED
      BY <2>1, <3>1, <3>2
  <2>7. CASE Dispatch \/ DispatchGone \/ Connect \/ Pass \/ Advance \/ EndPass
               \/ EndLoop \/ EnabledFromOutside
    BY <2>2, <2>7 DEF Dispatch, DispatchGone, Connect, Pass, Advance, EndPass, EndLoop,
                      EnabledFromOutside
  <2>8. CASE Gone
    BY <2>8 DEF Gone
  <2>. QED
    BY <1>1, <2>3, <2>4, <2>5, <2>6, <2>7, <2>8 DEF Next, Step
<1>2. IInv /\ [Next]_vars => [Living]_vars
  BY <1>1
<1>. QED
  BY <1>2, SpecIInv, PTL DEF Spec, OnlyToLiving

-----------------------------------------------------------------------------
(* The transfer. *)

Blocks == 0..65535
Pieces == 1..NPieces
Taken  == 0..NPieces
Kinds  == [op : {"RRQ", "WRQ", "DATA", "ACK", "ERROR"}, block : Blocks, piece : 0..NPieces]

Types ==
  /\ channel \in [Clients -> {"none", "open", "ended"}]
  /\ buffer \in [Clients -> Kinds \cup {NoPacket}]
  /\ readable \in [Clients -> BOOLEAN]
  /\ packet \in [Clients -> Kinds \cup {NoPacket}]
  /\ stream \in [Clients -> [state : {"Request", "ReadData", "WriteData"}, block : Blocks,
                             finished : BOOLEAN, pos : 0..NPieces]]
  /\ file \in [Clients -> Seq(Taken)]
  /\ up \in [Clients -> SUBSET Kinds] /\ down \in [Clients -> SUBSET Kinds]
  /\ client \in [Clients -> [st : {"idle", "waiting", "done", "failed"}, block : Blocks,
                             last : Kinds, got : Seq(Taken)]]
  /\ stored \in [Clients -> 0..NPieces]
  /\ spoilt \in [Clients -> SUBSET Pieces]
  /\ faults \in Nat

\* What a client sends, whenever it arrives: its request, a piece under its own
\* number, or the number of a piece.
SentBy(c, p) ==
  \/ p = Request(c)
  \/ c \in Writers /\ p.op = "DATA" /\ p.block = p.piece /\ p.piece \in Pieces
  \/ c \in Readers /\ p.op = "ACK"

\* Wherever a packet of the client is: on its way, in the channel's buffer or
\* in event(), and what the client would repeat.
FromClient(c) ==
  /\ \A p \in up[c] : SentBy(c, p)
  /\ buffer[c] = NoPacket \/ SentBy(c, buffer[c])
  /\ packet[c] = NoPacket \/ SentBy(c, packet[c])
  /\ SentBy(c, client[c].last)

\* What the server has sent is true whenever it arrives: an ACK is of a piece
\* that was stored, a piece has its own number, or the disk failed at it.
FromServer(c) ==
  \A p \in down[c] :
    \/ p.op = "ERROR"
    \/ c \in Writers /\ p.op = "ACK" /\ p.block <= stored[c]
    \/ /\ c \in Readers /\ p.op = "DATA" /\ p.block \in Pieces
       /\ p.piece = p.block \/ (p.piece = Damaged /\ p.block \in spoilt[c])

\* The number that a stream awaits or sends next is that of the next piece.
InStep(c) ==
  /\ c \in Writers =>
       /\ InOrder(file[c], spoilt[c]) /\ Len(file[c]) <= stored[c]
       /\ stream[c].state # "ReadData"
       /\ stream[c].state = "WriteData" =>
            stream[c].block = Len(file[c]) + 1 /\ stream[c].block <= NPieces
  /\ c \in Readers =>
       /\ stream[c].state # "WriteData"
       /\ stream[c].state = "ReadData" /\ ~stream[c].finished =>
            stream[c].pos < NPieces /\ stream[c].block = stream[c].pos + 1

\* The same of the client, and what it has when it is done.
ClientInStep(c) ==
  /\ c \in Writers =>
       /\ client[c].st = "waiting" => client[c].block <= NPieces
       /\ client[c].st = "done" => stored[c] = NPieces
  /\ c \in Readers =>
       /\ InOrder(client[c].got, spoilt[c])
       /\ client[c].st = "idle" => client[c].got = <<>>
       /\ client[c].st = "waiting" => /\ client[c].block = Len(client[c].got) + 1
                                      /\ client[c].block <= NPieces
       /\ client[c].st = "done" => \/ Len(client[c].got) = NPieces
                                   \/ Len(client[c].got) \in spoilt[c]

Transfer(c) == FromClient(c) /\ FromServer(c) /\ InStep(c) /\ ClientInStep(c)
TransferInv == Types /\ \A c \in Clients : Transfer(c)

Of(c) == <<buffer[c], packet[c], stream[c], file[c], up[c], down[c], client[c], stored[c],
           spoilt[c]>>

\* A step of the client c, of its channel or of the network between the two.
Keeps(c) == Types' /\ Transfer(c)' /\ \A d \in Clients \ {c} : Of(d)' = Of(d)

-----------------------------------------------------------------------------
LEMMA OthersKeep == ASSUME NEW c \in Clients, Transfer(c), Of(c)' = Of(c) PROVE Transfer(c)'
  BY DEF Transfer, FromClient, FromServer, InStep, ClientInStep, Of

LEMMA StepKeeps == ASSUME TransferInv, NEW c \in Clients, Keeps(c) PROVE TransferInv'
  BY OthersKeep DEF TransferInv, Keeps

LEMMA ReadersAreClients == \A c \in Readers : c \in Clients
<1>1. Readers \subseteq Clients
  BY TftpAssumption
<1> QED BY <1>1

(* Numbers of blocks: within a file the next one is never taken modulo 2^16. *)
LEMMA Remainders ==
  ASSUME NEW a \in Int, NEW n \in Int, n > 0
  PROVE  a % n \in 0..n - 1 /\ (0 <= a /\ a < n => a % n = a)
  OBVIOUS

LEMMA BlockNumbers ==
  /\ Blocks \subseteq Int /\ 0 \in Blocks /\ 1 \in Blocks /\ Pieces \subseteq Blocks
  /\ NPieces \in Nat \ {0} /\ Pieces \subseteq 0..NPieces /\ 0 \in 0..NPieces
  /\ \A b \in Blocks : b >= 0 /\ Next16(b) \in Blocks
  /\ \A b \in Blocks : b < NPieces => Next16(b) = b + 1
<1>1. \A a \in Int : a \in Blocks <=> 0 <= a /\ a <= 65535
  BY DEF Blocks
<1>2. NPieces \in Int /\ 1 <= NPieces /\ NPieces <= 65535
  BY TftpAssumption
<1>3. Blocks \subseteq Int
  BY DEF Blocks
<1>4. \A a \in Int : a % 65536 \in Int /\ 0 <= a % 65536 /\ a % 65536 <= 65535
  BY Remainders
<1>5. \A a \in Int : 0 <= a /\ a < 65536 => a % 65536 = a
  BY Remainders
<1>6. ASSUME NEW b \in Blocks PROVE Next16(b) \in Blocks
  BY <1>1, <1>3, <1>4 DEF Next16
<1>7. ASSUME NEW b \in Blocks, b < NPieces PROVE Next16(b) = b + 1
  <2>1. b \in Int /\ 0 <= b /\ b + 1 < 65536
    BY <1>1, <1>2, <1>3, <1>7
  <2> QED BY <2>1, <1>5 DEF Next16
<1>8. Pieces \subseteq Blocks /\ Pieces \subseteq 0..NPieces
  BY <1>1, <1>2 DEF Pieces
<1> QED BY <1>1, <1>2, <1>3, <1>6, <1>7, <1>8

LEMMA PacketKinds ==
  /\ \A c \in Clients : Request(c) \in Kinds
  /\ \A b \in Blocks : Ack(b) \in Kinds
  /\ \A b \in Blocks, k \in 0..NPieces : Data(b, k) \in Kinds
  /\ ErrorPacket \in Kinds
<1>1. 0 \in Blocks /\ 0 \in 0..NPieces /\ Pieces \subseteq 0..NPieces
  BY BlockNumbers
<1> QED BY <1>1 DEF Kinds, Request, Ack, Data, ErrorPacket, Packet

LEMMA NextInOrder ==
  ASSUME NEW bad, NEW s \in Seq(Taken), InOrder(s, bad),
         Len(s) + 1 \in Pieces,
         NEW e, e = Len(s) + 1 \/ (e = Damaged /\ Len(s) + 1 \in bad)
  PROVE  /\ Append(s, e) \in Seq(Taken) /\ InOrder(Append(s, e), bad)
         /\ Len(Append(s, e)) = Len(s) + 1
<1>1. e \in Taken
  BY BlockNumbers DEF Taken, Damaged
<1>2. Append(s, e) \in Seq(Taken) /\ Len(Append(s, e)) = Len(s) + 1
  BY <1>1
<1>3. /\ DOMAIN Append(s, e) = 1..Len(s) + 1 /\ DOMAIN s = 1..Len(s)
      /\ Append(s, e)[Len(s) + 1] = e
      /\ \A i \in 1..Len(s) : Append(s, e)[i] = s[i]
  BY <1>1
<1>4. Len(s) \in Nat
  OBVIOUS
<1>5. ASSUME NEW i \in 1..Len(s) + 1
      PROVE  Append(s, e)[i] = i \/ (Append(s, e)[i] = Damaged /\ i \in bad)
  <2>1. i = Len(s) + 1 \/ i \in 1..Len(s)
    BY <1>4
  <2> QED BY <1>3, <2>1 DEF InOrder
<1> QED BY <1>2, <1>3, <1>5 DEF InOrder

(* A longer list of failures excuses what a shorter one did. *)
LEMMA StillInOrder ==
  ASSUME NEW bad, NEW more, bad \subseteq more, NEW s, InOrder(s, bad)
  PROVE  InOrder(s, more)
  BY DEF InOrder

LEMMA InitTransfers == TftpInit => TransferInv
<1> SUFFICES ASSUME TftpInit PROVE TransferInv
  OBVIOUS
<1>1. Types
  <2>1. 0 \in Blocks /\ 0 \in 0..NPieces /\ <<>> \in Seq(Taken) /\ {} \in SUBSET Pieces
    BY BlockNumbers
  <2>2. NewStream \in [state : {"Request", "ReadData", "WriteData"}, block : Blocks,
                       finished : BOOLEAN, pos : 0..NPieces]
    BY <2>1 DEF NewStream
  <2>3. \A c \in Clients : [st |-> "idle", block |-> 0, last |-> Request(c), got |-> <<>>]
                            \in [st : {"idle", "waiting", "done", "failed"}, block : Blocks,
                                last : Kinds, got : Seq(Taken)]
    BY <2>1, PacketKinds
  <2> QED BY <2>1, <2>2, <2>3 DEF TftpInit, Types
<1>2. ASSUME NEW c \in Clients PROVE Transfer(c)
  <2>1. FromClient(c) /\ FromServer(c)
    BY DEF TftpInit, FromClient, FromServer, SentBy
  <2>2. InOrder(<<>>, {}) /\ Len(<<>>) = 0
    BY DEF InOrder
  <2>3. InStep(c)
    BY <2>2, BlockNumbers DEF TftpInit, InStep, NewStream, Writers
  <2>4. ClientInStep(c)
    BY <2>2 DEF TftpInit, ClientInStep, Writers
  <2> QED BY <2>1, <2>3, <2>4 DEF Transfer
<1> QED BY <1>1, <1>2 DEF TransferInv

-----------------------------------------------------------------------------
(* Packets that move, and channels that come and go.                         *)

LEMMA ReadableKeeps == ASSUME TransferInv, NEW c \in Clients, SocketReadable(c) PROVE Keeps(c)
<1>1. PICK p \in up[c] : /\ RecvDatagram(c, p)
                         /\ up' = up \/ up' = [up EXCEPT ![c] = @ \ {p}]
                         /\ \/ UNCHANGED <<channel, stream>>
                            \/ /\ channel' = [channel EXCEPT ![c] = "open"]
                               /\ stream' = [stream EXCEPT ![c] = NewStream]
                         /\ faults' = faults \/ faults' = faults + 1
                         /\ UNCHANGED <<packet, file, down, client, stored, spoilt>>
  BY DEF SocketReadable
<1>2. NewStream \in [state : {"Request", "ReadData", "WriteData"}, block : Blocks,
                     finished : BOOLEAN, pos : 0..NPieces]
  BY BlockNumbers DEF NewStream
<1>3. p \in Kinds /\ SentBy(c, p)
  BY <1>1 DEF TransferInv, Types, Transfer, FromClient
<1>4. Types'
  <2>1. buffer' \in [Clients -> Kinds \cup {NoPacket}] /\ readable' \in [Clients -> BOOLEAN]
    BY <1>1, <1>3 DEF TransferInv, Types, RecvDatagram
  <2>2. up' \in [Clients -> SUBSET Kinds] /\ faults' \in Nat
    <3>1. up \in [Clients -> SUBSET Kinds] /\ faults \in Nat
      BY DEF TransferInv, Types
    <3> QED BY <1>1, <3>1
  <2>3. channel' \in [Clients -> {"none", "open", "ended"}]
    BY <1>1 DEF TransferInv, Types
  <2>4. stream' \in [Clients -> [state : {"Request", "ReadData", "WriteData"}, block : Blocks,
                               finished : BOOLEAN, pos : 0..NPieces]]
    <3>1. stream \in [Clients -> [state : {"Request", "ReadData", "WriteData"}, block : Blocks,
                                 finished : BOOLEAN, pos : 0..NPieces]]
      BY DEF TransferInv, Types
    <3> QED BY <1>1, <1>2, <3>1
  <2> QED BY <1>1, <2>1, <2>2, <2>3, <2>4 DEF TransferInv, Types
<1>5. FromClient(c)'
  BY <1>1, <1>3 DEF TransferInv, RecvDatagram, Types, Transfer, FromClient
<1>6. FromServer(c)' /\ ClientInStep(c)'
  BY <1>1 DEF TransferInv, Transfer, FromServer, ClientInStep
<1>7. InStep(c)'
  BY <1>1 DEF TransferInv, Types, Transfer, InStep, NewStream
<1>8. \A d \in Clients \ {c} : Of(d)' = Of(d)
  BY <1>1 DEF TransferInv, RecvDatagram, Types, Of
<1> QED BY <1>4, <1>5, <1>6, <1>7, <1>8 DEF Keeps, Transfer

LEMMA ReadKeeps == ASSUME TransferInv, NEW c \in Clients, EndpointRead(c) PROVE Keeps(c)
  BY DEF TransferInv, Keeps, EndpointRead, Types, Transfer, FromClient, FromServer, InStep, ClientInStep, Of

LEMMA ChannelKeeps == ASSUME TransferInv, NEW c \in Clients, Timeout(c) \/ Delete(c) PROVE Keeps(c)
<1>1. /\ channel' \in [Clients -> {"none", "open", "ended"}]
      /\ readable' \in [Clients -> BOOLEAN] /\ faults' \in Nat
      /\ buffer' = buffer \/ buffer' = [buffer EXCEPT ![c] = NoPacket]
      /\ UNCHANGED <<packet, stream, file, up, down, client, stored, spoilt>>
  <2>1. /\ channel \in [Clients -> {"none", "open", "ended"}]
        /\ readable \in [Clients -> BOOLEAN] /\ faults \in Nat
    BY DEF TransferInv, Types
  <2>2. CASE Timeout(c)
    BY <2>1, <2>2 DEF Timeout
  <2>3. CASE Delete(c)
    BY <2>1, <2>3 DEF Delete
  <2> QED BY <2>2, <2>3
<1>2. Types'
  BY <1>1 DEF TransferInv, Types
<1>3. Transfer(c)'
  BY <1>1 DEF TransferInv, Types, Transfer, FromClient, FromServer, InStep, ClientInStep
<1>4. \A d \in Clients \ {c} : Of(d)' = Of(d)
  BY <1>1 DEF TransferInv, Types, Of
<1> QED BY <1>2, <1>3, <1>4 DEF Keeps

LEMMA LoseKeeps == ASSUME TransferInv, NEW c \in Clients, Lose(c) PROVE Keeps(c)
<1>1. /\ \/ up' = up \/ \E p \in up[c] : up' = [up EXCEPT ![c] = @ \ {p}]
      /\ \/ down' = down \/ \E p \in down[c] : down' = [down EXCEPT ![c] = @ \ {p}]
      /\ faults' = faults + 1 /\ UNCHANGED <<server, client>>
  BY DEF Lose
<1>2. up[c]' \subseteq up[c] /\ down[c]' \subseteq down[c]
      /\ up' \in [Clients -> SUBSET Kinds] /\ down' \in [Clients -> SUBSET Kinds]
      /\ faults' \in Nat
  <2>1. /\ up \in [Clients -> SUBSET Kinds] /\ down \in [Clients -> SUBSET Kinds]
        /\ faults \in Nat
    BY DEF TransferInv, Types
  <2> QED BY <1>1, <2>1
<1>3. Types'
  BY <1>1, <1>2 DEF TransferInv, Types, server
<1>4. Transfer(c)'
  BY <1>1, <1>2 DEF TransferInv, server, Transfer, FromClient, FromServer, InStep, ClientInStep
<1>5. \A d \in Clients \ {c} : Of(d)' = Of(d)
  BY <1>1 DEF TransferInv, Types, server, Of
<1> QED BY <1>3, <1>4, <1>5 DEF Keeps

LEMMA RepeatKeeps == ASSUME TransferInv, NEW c \in Clients, Repeat(c) PROVE Keeps(c)
  BY DEF TransferInv, Keeps, Repeat, server, Types, Transfer, FromClient, FromServer, InStep, ClientInStep, Of

-----------------------------------------------------------------------------
(* The channel: the handler of an event() leaves what is on its way to it.   *)

(* What is to be shown of a handler: what it sends, its file and its stream. *)
LEMMA EventKeeps ==
  ASSUME TransferInv, NEW c \in Clients, NEW st, Handles(c, st),
         UNCHANGED client,
         \/ UNCHANGED channel \/ channel' = [channel EXCEPT ![c] = "ended"],
         faults' \in Nat,
         \/ UNCHANGED down
         \/ \E p \in Kinds : Send(c, p),
         \/ UNCHANGED stream
         \/ \E s \in [state : {"Request", "ReadData", "WriteData"}, block : Blocks,
                      finished : BOOLEAN, pos : 0..NPieces] : stream' = [stream EXCEPT ![c] = s],
         \/ UNCHANGED file
         \/ \E s \in Seq(Taken) : file' = [file EXCEPT ![c] = s],
         \/ UNCHANGED stored
         \/ \E k \in 0..NPieces : stored[c] <= k /\ stored' = [stored EXCEPT ![c] = k],
         \/ UNCHANGED spoilt
         \/ \E k \in Pieces : spoilt' = [spoilt EXCEPT ![c] = @ \cup {k}],
         FromServer(c)', InStep(c)'
  PROVE  Keeps(c)
<1>1. /\ channel' \in [Clients -> {"none", "open", "ended"}]
      /\ readable' \in [Clients -> BOOLEAN]
      /\ packet' = [packet EXCEPT ![c] = NoPacket]
  BY DEF TransferInv, Types, Handles
<1>2. down' \in [Clients -> SUBSET Kinds] /\ \A d \in Clients \ {c} : down'[d] = down[d]
  <2>1. down \in [Clients -> SUBSET Kinds]
    BY DEF TransferInv, Types
  <2>2. ASSUME NEW p \in Kinds, Send(c, p)
        PROVE  down' \in [Clients -> SUBSET Kinds] /\ \A d \in Clients \ {c} : down'[d] = down[d]
    BY <2>1, <2>2 DEF Send
  <2> QED BY <2>1, <2>2
<1>3. /\ stream' \in [Clients -> [state : {"Request", "ReadData", "WriteData"}, block : Blocks,
                                 finished : BOOLEAN, pos : 0..NPieces]]
      /\ \A d \in Clients \ {c} : stream'[d] = stream[d]
  <2>1. stream \in [Clients -> [state : {"Request", "ReadData", "WriteData"}, block : Blocks,
                               finished : BOOLEAN, pos : 0..NPieces]]
    BY DEF TransferInv, Types
  <2> QED BY <2>1
<1>4. /\ file' \in [Clients -> Seq(Taken)] /\ \A d \in Clients \ {c} : file'[d] = file[d]
      /\ stored' \in [Clients -> 0..NPieces] /\ \A d \in Clients \ {c} : stored'[d] = stored[d]
      /\ stored[c] <= stored'[c]
  <2>1. file \in [Clients -> Seq(Taken)] /\ stored \in [Clients -> 0..NPieces]
    BY DEF TransferInv, Types
  <2>2. file' \in [Clients -> Seq(Taken)] /\ \A d \in Clients \ {c} : file'[d] = file[d]
    <3>1. ASSUME NEW s \in Seq(Taken), file' = [file EXCEPT ![c] = s]
          PROVE  file' \in [Clients -> Seq(Taken)] /\ \A d \in Clients \ {c} : file'[d] = file[d]
      BY <2>1, <3>1
    <3> QED BY <2>1, <3>1
  <2>3. ASSUME NEW k \in 0..NPieces, stored[c] <= k, stored' = [stored EXCEPT ![c] = k]
        PROVE  /\ stored' \in [Clients -> 0..NPieces]
               /\ \A d \in Clients \ {c} : stored'[d] = stored[d]
               /\ stored[c] <= stored'[c]
    BY <2>1, <2>3
  <2>4. stored[c] \in Int
    BY <2>1, BlockNumbers
  <2> QED BY <2>1, <2>2, <2>3, <2>4
<1>9. /\ spoilt' \in [Clients -> SUBSET Pieces] /\ spoilt[c] \subseteq spoilt'[c]
      /\ \A d \in Clients \ {c} : spoilt'[d] = spoilt[d]
  <2>1. spoilt \in [Clients -> SUBSET Pieces]
    BY DEF TransferInv, Types
  <2>2. ASSUME NEW k \in Pieces, spoilt' = [spoilt EXCEPT ![c] = @ \cup {k}]
        PROVE  /\ spoilt' \in [Clients -> SUBSET Pieces] /\ spoilt[c] \subseteq spoilt'[c]
               /\ \A d \in Clients \ {c} : spoilt'[d] = spoilt[d]
    BY <2>1, <2>2
  <2> QED BY <2>1, <2>2
<1>5. Types'
  BY <1>1, <1>2, <1>3, <1>4, <1>9 DEF TransferInv, Types, Handles
<1>6. FromClient(c)'
  BY <1>1 DEF TransferInv, Types, Transfer, FromClient, Handles
<1>7. ClientInStep(c)'
  <2>1. stored[c] \in 0..NPieces /\ stored'[c] \in 0..NPieces /\ NPieces \in Nat
    BY <1>4, BlockNumbers DEF TransferInv, Types
  <2>2. InOrder(client[c].got, spoilt[c]) => InOrder(client[c].got, spoilt'[c])
    BY <1>9, StillInOrder
  <2> QED BY <1>4, <1>9, <2>1, <2>2 DEF TransferInv, Transfer, ClientInStep
<1>8. \A d \in Clients \ {c} : Of(d)' = Of(d)
  BY <1>1, <1>2, <1>3, <1>4, <1>9 DEF TransferInv, Types, Of, Handles
<1> QED BY <1>5, <1>6, <1>7, <1>8 DEF Keeps, Transfer

(* What event() has read, and which client's it can be.                      *)
LEMMA HandledPacket ==
  ASSUME TransferInv, NEW c \in Clients, NEW st, Handles(c, st)
  PROVE  /\ packet[c] \in Kinds /\ SentBy(c, packet[c])
         /\ packet[c].op = "RRQ" => c \in Readers
         /\ packet[c].op = "WRQ" => c \in Writers
         /\ st = "ReadData" => c \in Readers
         /\ st = "WriteData" => c \in Writers
         /\ c \in Readers <=> c \notin Writers
<1>1. packet[c] \in Kinds /\ SentBy(c, packet[c])
  BY DEF TransferInv, Types, Transfer, FromClient, Handles
<1>2. c \in Readers <=> c \notin Writers
  BY DEF Writers
<1>3. (st = "ReadData" => c \in Readers) /\ (st = "WriteData" => c \in Writers)
  BY <1>2 DEF TransferInv, Transfer, InStep, Handles
<1>4. (packet[c].op = "RRQ" => c \in Readers) /\ (packet[c].op = "WRQ" => c \in Writers)
  BY <1>1, <1>2 DEF SentBy, Request, Packet
<1> QED BY <1>1, <1>2, <1>3, <1>4

LEMMA RefusalKeeps ==
  ASSUME TransferInv, NEW c \in Clients,
         Unexpected(c) \/ OpenFails(c) \/ NotAnAck(c) \/ NotData(c) \/ WrongBlock(c)
  PROVE  Keeps(c)
<1>1. faults \in Nat
  BY DEF TransferInv, Types
<1>2. PICK st : Handles(c, st)
  BY DEF Unexpected, OpenFails, NotAnAck, NotData, WrongBlock
<1>3. /\ UNCHANGED <<stream, file, stored, spoilt, client>>
      /\ UNCHANGED channel \/ channel' = [channel EXCEPT ![c] = "ended"]
      /\ UNCHANGED down \/ Send(c, ErrorPacket)
      /\ faults' \in Nat
  BY <1>1 DEF Unexpected, OpenFails, NotAnAck, NotData, WrongBlock, Fails, Handles
<1>4. FromServer(c)'
  BY <1>3 DEF TransferInv, Types, Transfer, FromServer, Send, ErrorPacket, Packet
<1>5. InStep(c)'
  BY <1>3 DEF TransferInv, Transfer, InStep
<1> QED BY <1>2, <1>3, <1>4, <1>5, PacketKinds, EventKeeps

(* write_data(): the piece that follows under its own number, or what the    *)
(* disk leaves of it.                                                        *)
LEMMA WriteDataKeeps ==
  ASSUME TransferInv, NEW c \in Readers, NEW st, Handles(c, st),
         NEW s \in [state : {"Request", "ReadData", "WriteData"}, block : Blocks,
                    finished : BOOLEAN, pos : 0..NPieces],
         s.pos < NPieces, WriteData(c, s, s.pos + 1),
         UNCHANGED <<channel, file, stored>>
  PROVE  Keeps(c)
<1>1. c \in Clients /\ c \notin Writers
  <2>1. c \in Clients
    BY ReadersAreClients
  <2> QED BY <2>1, Zenon DEF Writers
<1> DEFINE k == s.pos + 1
           last(e) == e \in {NPieces, Damaged}
           n(e) == [s EXCEPT !.state = "ReadData", !.block = Next16(k), !.pos = k,
                             !.finished = last(e)]
<1>2. k \in Pieces /\ k \in Blocks /\ k \in 0..NPieces /\ k \in Int /\ Damaged \in 0..NPieces
  BY BlockNumbers DEF Pieces, Damaged
<1>3. PICK e \in {k, Damaged} :
        /\ Send(c, Data(k, e)) /\ stream' = [stream EXCEPT ![c] = n(e)]
        /\ \/ e = k /\ UNCHANGED <<spoilt, faults>>
           \/ e = Damaged /\ DiskFails(c, k)
  <2>1. \/ Sends(c, s, k, k) /\ UNCHANGED <<spoilt, faults>>
        \/ Sends(c, s, k, Damaged) /\ DiskFails(c, k)
    BY DEF WriteData
  <2> QED BY <2>1 DEF Sends
<1>4. n(e) \in [state : {"Request", "ReadData", "WriteData"}, block : Blocks,
                finished : BOOLEAN, pos : 0..NPieces]
  <2>1. last(e) \in BOOLEAN /\ Next16(k) \in Blocks
    BY <1>2, BlockNumbers
  <2> HIDE DEF last, k
  <2> QED BY <1>2, <2>1
<1>5. /\ faults' \in Nat
      /\ UNCHANGED spoilt \/ spoilt' = [spoilt EXCEPT ![c] = @ \cup {k}]
      /\ spoilt[c] \subseteq spoilt'[c] /\ (e = k \/ (e = Damaged /\ k \in spoilt'[c]))
  <2>1. faults \in Nat /\ spoilt \in [Clients -> SUBSET Pieces]
    BY DEF TransferInv, Types
  <2> HIDE DEF k
  <2>2. CASE e = k /\ UNCHANGED <<spoilt, faults>>
    BY <2>1, <2>2
  <2>3. CASE e = Damaged /\ DiskFails(c, k)
    BY <1>1, <2>1, <2>3 DEF DiskFails
  <2> QED BY <1>3, <2>2, <2>3
<1>6. FromServer(c)'
  <2>1. Data(k, e).op = "DATA" /\ Data(k, e).block = k /\ Data(k, e).piece = e
    BY DEF Data, Packet
  <2>2. down'[c] = down[c] \cup {Data(k, e)}
    BY <1>1, <1>3 DEF TransferInv, Types, Send
  <2>3. FromServer(c)
    BY <1>1 DEF TransferInv, Transfer
  <2> HIDE DEF k
  <2> QED BY <1>1, <1>2, <1>5, <2>1, <2>2, <2>3, ReadersAreClients DEF FromServer
<1>7. InStep(c)'
  <2>1. stream'[c] = n(e)
    BY <1>1, <1>3 DEF TransferInv, Types
  <2>2. /\ n(e).state = "ReadData" /\ n(e).pos = k /\ n(e).block = Next16(k)
        /\ n(e).finished <=> e \in {NPieces, Damaged}
    OBVIOUS
  <2>3. k # NPieces => Next16(k) = k + 1 /\ k < NPieces
    BY <1>2, BlockNumbers DEF Pieces
  <2>4. ~n(e).finished => k # NPieces
    BY <1>3, <2>2
  <2> HIDE DEF k, n
  <2> QED BY <1>1, <2>1, <2>2, <2>3, <2>4 DEF InStep
<1>8. UNCHANGED client /\ Data(k, e) \in Kinds
  <2>1. e \in 0..NPieces
    BY <1>2, <1>3
  <2> HIDE DEF k
  <2> QED BY <1>2, <2>1, PacketKinds DEF Handles
<1> HIDE DEF k, n
<1> QED BY <1>1, <1>2, <1>3, <1>4, <1>5, <1>6, <1>7, <1>8, EventKeeps

LEMMA ReadRequestKeeps == ASSUME TransferInv, NEW c \in Clients, ReadRequest(c) PROVE Keeps(c)
<1>1. c \in Readers /\ Handles(c, "Request")
  BY HandledPacket DEF ReadRequest
<1>2. NewStream \in [state : {"Request", "ReadData", "WriteData"}, block : Blocks,
                     finished : BOOLEAN, pos : 0..NPieces]
  BY BlockNumbers DEF NewStream
<1>3. NewStream.pos < NPieces /\ NewStream.pos + 1 = 1
  BY BlockNumbers DEF NewStream
<1>4. WriteData(c, NewStream, NewStream.pos + 1)
  BY <1>3 DEF ReadRequest
<1> QED BY <1>1, <1>2, <1>3, <1>4, WriteDataKeeps DEF ReadRequest

LEMMA AckedKeeps == ASSUME TransferInv, NEW c \in Clients, Acked(c) PROVE Keeps(c)
<1>1. c \in Readers /\ c \notin Writers /\ Handles(c, "ReadData")
  BY HandledPacket DEF Acked, Writers
<1>2. stream[c] \in [state : {"Request", "ReadData", "WriteData"}, block : Blocks,
                     finished : BOOLEAN, pos : 0..NPieces]
  BY DEF TransferInv, Types
<1>3. ~stream[c].finished => stream[c].pos < NPieces /\ stream[c].block = stream[c].pos + 1
  BY <1>1 DEF TransferInv, Transfer, InStep, Handles
<1>4. CASE stream[c].finished
  <2> DEFINE n == [stream[c] EXCEPT !.state = "Request"]
  <2>1. stream' = [stream EXCEPT ![c] = n] /\ UNCHANGED <<down, spoilt, faults>>
    BY <1>4 DEF Acked
  <2>2. n \in [state : {"Request", "ReadData", "WriteData"}, block : Blocks,
               finished : BOOLEAN, pos : 0..NPieces]
    BY <1>2
  <2>3. FromServer(c)'
    BY <2>1 DEF Acked, TransferInv, Transfer, FromServer
  <2>4. n.state = "Request"
    BY <1>2
  <2>5. stream'[c] = n
    BY <2>1 DEF TransferInv, Types
  <2> HIDE DEF n
  <2>6. InStep(c)'
    BY <1>1, <2>4, <2>5 DEF InStep
  <2>7. UNCHANGED <<client, channel, file, stored>> /\ faults' \in Nat
    BY <2>1 DEF Acked, Handles, TransferInv, Types
  <2> QED BY <1>1, <2>1, <2>2, <2>3, <2>6, <2>7, EventKeeps
<1>5. CASE ~stream[c].finished
  <2>1. WriteData(c, stream[c], stream[c].pos + 1) /\ UNCHANGED <<channel, file, stored>>
    BY <1>3, <1>5 DEF Acked
  <2> QED BY <1>1, <1>2, <1>3, <1>5, <2>1, WriteDataKeeps
<1> QED BY <1>4, <1>5

LEMMA WriteRequestKeeps == ASSUME TransferInv, NEW c \in Clients, WriteRequest(c) PROVE Keeps(c)
<1>1. c \in Writers /\ c \notin Readers /\ Handles(c, "Request")
  BY HandledPacket DEF WriteRequest, Writers
<1> DEFINE n == [NewStream EXCEPT !.state = "WriteData", !.block = 1]
<1>2. stream' = [stream EXCEPT ![c] = n] /\ file' = [file EXCEPT ![c] = <<>>] /\ Send(c, Ack(0))
  BY DEF WriteRequest
<1>3. n \in [state : {"Request", "ReadData", "WriteData"}, block : Blocks,
             finished : BOOLEAN, pos : 0..NPieces]
  BY BlockNumbers DEF NewStream
<1>4. stored[c] \in Int /\ 0 <= stored[c] /\ stored' = stored /\ spoilt' = spoilt
  BY BlockNumbers DEF TransferInv, Types, WriteRequest
<1>5. FromServer(c)'
  BY <1>1, <1>2, <1>4 DEF TransferInv, Types, Transfer, FromServer, Send, Ack, Packet
<1>6. InStep(c)'
  <2>1. n.state = "WriteData" /\ n.block = 1
    BY DEF NewStream
  <2>2. stream'[c] = n /\ file'[c] = <<>>
    BY <1>2 DEF TransferInv, Types
  <2>3. InOrder(<<>>, spoilt[c]) /\ Len(<<>>) = 0 /\ 1 <= NPieces
    BY BlockNumbers DEF InOrder
  <2> HIDE DEF n
  <2> QED BY <1>1, <1>4, <2>1, <2>2, <2>3 DEF InStep
<1>7. UNCHANGED <<client, channel, stored, spoilt>> /\ faults' \in Nat
  BY DEF WriteRequest, Handles, TransferInv, Types
<1>8. <<>> \in Seq(Taken) /\ Ack(0) \in Kinds
  BY BlockNumbers, PacketKinds
<1> HIDE DEF n
<1> QED BY <1>1, <1>2, <1>3, <1>5, <1>6, <1>7, <1>8, EventKeeps

(* The block that is expected, and no other, is appended and acknowledged.   *)
LEMMA StoreKeeps == ASSUME TransferInv, NEW c \in Clients, Store(c) PROVE Keeps(c)
<1>1. c \in Writers /\ c \notin Readers /\ Handles(c, "WriteData")
  BY HandledPacket DEF Store, Writers
<1> DEFINE b == stream[c].block
           f(e) == Append(file[c], e)
           k == IF Len(file[c]) + 1 > stored[c] THEN Len(file[c]) + 1 ELSE stored[c]
           n == [stream[c] EXCEPT !.block = Next16(b),
                   !.state = IF b = NPieces THEN "Request" ELSE stream[c].state]
<1>2. /\ b \in Blocks /\ file[c] \in Seq(Taken) /\ stored[c] \in 0..NPieces
      /\ stream[c] \in [state : {"Request", "ReadData", "WriteData"}, block : Blocks,
                        finished : BOOLEAN, pos : 0..NPieces]
      /\ spoilt \in [Clients -> SUBSET Pieces] /\ faults \in Nat
  BY DEF TransferInv, Types
<1>3. /\ InOrder(file[c], spoilt[c]) /\ Len(file[c]) <= stored[c]
      /\ b = Len(file[c]) + 1 /\ b <= NPieces /\ stream[c].state = "WriteData"
  BY <1>1 DEF TransferInv, Transfer, InStep, Handles
<1>4. packet[c].block = packet[c].piece /\ packet[c].block = b
  <2>1. SentBy(c, packet[c]) /\ packet[c].op = "DATA" /\ packet[c].block = b
    BY <1>1, HandledPacket DEF Store, Expected
  <2> QED BY <1>1, <2>1 DEF SentBy, Request, Packet
<1>5. /\ b \in Int /\ 0 <= b /\ b \in Pieces
      /\ NPieces \in Int /\ stored[c] \in Int /\ stored[c] <= NPieces
  <2>1. Len(file[c]) \in Nat /\ NPieces \in Nat
    BY <1>2, BlockNumbers
  <2> QED BY <1>2, <1>3, <2>1 DEF Pieces
<1>15. PICK e \in {b, Damaged} :
         /\ file' = [file EXCEPT ![c] = f(e)]
         /\ \/ e = b /\ UNCHANGED <<spoilt, faults>>
            \/ e = Damaged /\ DiskFails(c, b)
  BY <1>4 DEF Store, Write
<1>16. /\ UNCHANGED spoilt \/ spoilt' = [spoilt EXCEPT ![c] = @ \cup {b}]
       /\ spoilt[c] \subseteq spoilt'[c] /\ (e = b \/ (e = Damaged /\ b \in spoilt'[c]))
       /\ faults' \in Nat
  <2> HIDE DEF b, f
  <2>1. CASE e = b /\ UNCHANGED <<spoilt, faults>>
    BY <1>2, <2>1
  <2>2. CASE e = Damaged /\ DiskFails(c, b)
    BY <1>2, <2>2 DEF DiskFails
  <2> QED BY <1>15, <2>1, <2>2
<1>6. f(e) \in Seq(Taken) /\ InOrder(f(e), spoilt'[c]) /\ Len(f(e)) = b
  <2> HIDE DEF b
  <2>1. /\ spoilt[c] \subseteq spoilt'[c] /\ file[c] \in Seq(Taken) /\ InOrder(file[c], spoilt[c])
        /\ b \in Pieces /\ b = Len(file[c]) + 1 /\ (e = b \/ (e = Damaged /\ b \in spoilt'[c]))
    BY <1>2, <1>3, <1>5, <1>16
  <2>3. InOrder(file[c], spoilt'[c])
    BY <2>1, StillInOrder
  <2>4. Len(file[c]) + 1 \in Pieces
    BY <2>1
  <2>5. e = Len(file[c]) + 1 \/ (e = Damaged /\ Len(file[c]) + 1 \in spoilt'[c])
    BY <2>1
  <2>2. f(e) \in Seq(Taken) /\ InOrder(f(e), spoilt'[c]) /\ Len(f(e)) = Len(file[c]) + 1
    BY <2>1, <2>3, <2>4, <2>5, NextInOrder
  <2> QED BY <2>1, <2>2
<1>7. /\ k \in 0..NPieces /\ stored[c] <= k /\ Len(f(e)) <= k
  BY <1>2, <1>3, <1>5, <1>6
<1>8. n \in [state : {"Request", "ReadData", "WriteData"}, block : Blocks,
             finished : BOOLEAN, pos : 0..NPieces]
  BY <1>2, BlockNumbers
<1>9. /\ n.state = IF b = NPieces THEN "Request" ELSE "WriteData"
      /\ b # NPieces => n.block = b + 1
  <2>1. b # NPieces => Next16(b) = b + 1
    <3>1. NPieces \in Int
      BY BlockNumbers
    <3>2. b # NPieces => b < NPieces
      BY <1>3, <1>5, <3>1
    <3> QED BY <1>2, <3>2, BlockNumbers
  <2> QED BY <1>2, <1>3, <2>1
<1>10. /\ file' = [file EXCEPT ![c] = f(e)] /\ stored' = [stored EXCEPT ![c] = k]
       /\ Send(c, Ack(b)) /\ stream' = [stream EXCEPT ![c] = n]
       /\ UNCHANGED <<channel, client>>
  <2>1. stored' = [stored EXCEPT ![c] = k]
    BY DEF Store, Write
  <2>2. Send(c, Ack(b)) /\ stream' = [stream EXCEPT ![c] = n]
    BY <1>4 DEF Store
  <2>3. UNCHANGED <<channel, client>>
    BY DEF Store, Handles
  <2> QED BY <1>15, <2>1, <2>2, <2>3
<1>17. f(e) \in Seq(Taken)
  BY <1>6
<1> HIDE DEF b, f, k, n
<1>11. file'[c] = f(e) /\ stored'[c] = k /\ stream'[c] = n
  BY <1>10 DEF TransferInv, Types
<1>12. FromServer(c)'
  <2>1. Ack(b).op = "ACK" /\ Ack(b).block = b
    BY DEF Ack, Packet
  <2>2. \A p \in down[c] : p \in Kinds /\ p.block \in Int
    <3>1. \A p \in down[c] : p \in Kinds
      BY DEF TransferInv, Types
    <3>2. \A p \in Kinds : p.block \in Blocks
      BY DEF Kinds
    <3> QED BY <3>1, <3>2, BlockNumbers
  <2>3. ASSUME NEW p \in down'[c]
        PROVE  p.op = "ERROR" \/ (c \in Writers /\ p.op = "ACK" /\ p.block <= stored'[c])
    <3>1. p \in down[c] \/ p = Ack(b)
      BY <1>10 DEF Send, TransferInv, Types
    <3>2. CASE p = Ack(b)
      BY <1>1, <1>6, <1>7, <1>11, <2>1, <3>2
    <3>3. CASE p \in down[c]
      <4>1. p.op = "ERROR" \/ (p.op = "ACK" /\ p.block <= stored[c])
        <5>1. FromServer(c)
          BY DEF TransferInv, Transfer
        <5> QED BY <1>1, <3>3, <5>1 DEF FromServer
      <4>2. p.block \in Int /\ k \in Int
        <5>1. k \in Int
          BY <1>5, <1>7
        <5> QED BY <2>2, <3>3, <5>1
      <4> QED BY <1>1, <1>5, <1>7, <1>11, <4>1, <4>2
    <3> QED BY <3>1, <3>2, <3>3
  <2> QED BY <1>1, <2>3 DEF FromServer
<1>13. InStep(c)'
  <2>1. n.state = "WriteData" => b < NPieces
    BY <1>3, <1>5, <1>9
  <2>2. InOrder(file[c], spoilt[c])'
    BY <1>6, <1>11 DEF InOrder
  <2>3. Len(file'[c]) = b /\ Len(file'[c]) <= stored'[c]
    BY <1>6, <1>7, <1>11
  <2>4. stream'[c].state # "ReadData"
    BY <1>9, <1>11
  <2>5. stream'[c].state = "WriteData" => stream'[c].block = b + 1 /\ stream'[c].block <= NPieces
    BY <1>5, <1>9, <1>11, <2>1
  <2> QED BY <1>1, <2>2, <2>3, <2>4, <2>5 DEF InStep
<1>14. b \in Blocks /\ Ack(b) \in Kinds
  BY <1>2, PacketKinds
<1> QED BY <1>1, <1>5, <1>7, <1>8, <1>10, <1>12, <1>13, <1>14, <1>16, <1>17, EventKeeps

-----------------------------------------------------------------------------
(* The client: what is to be shown of its steps.                             *)
Client == [st : {"idle", "waiting", "done", "failed"}, block : Blocks,
           last : Kinds, got : Seq(Taken)]

LEMMA ClientKeeps ==
  ASSUME TransferInv, NEW c \in Clients, UNCHANGED server, faults' \in Nat,
         \/ UNCHANGED down
         \/ \E p \in down[c] : down' = [down EXCEPT ![c] = @ \ {p}],
         \/ UNCHANGED up
         \/ \E p \in Kinds : SentBy(c, p) /\ up' = [up EXCEPT ![c] = @ \cup {p}],
         NEW m \in Client, SentBy(c, m.last), client' = [client EXCEPT ![c] = m],
         ClientInStep(c)'
  PROVE  Keeps(c)
<1>1. /\ up \in [Clients -> SUBSET Kinds] /\ down \in [Clients -> SUBSET Kinds]
      /\ client \in [Clients -> Client]
  BY DEF TransferInv, Types, Client
<1>2. /\ down' \in [Clients -> SUBSET Kinds] /\ down'[c] \subseteq down[c]
      /\ \A d \in Clients \ {c} : down'[d] = down[d]
  BY <1>1
<1>3. /\ up' \in [Clients -> SUBSET Kinds] /\ \A d \in Clients \ {c} : up'[d] = up[d]
      /\ \A p \in up'[c] : SentBy(c, p)
  <2>1. CASE UNCHANGED up
    BY <1>1, <2>1 DEF TransferInv, Transfer, FromClient
  <2>2. ASSUME NEW p \in Kinds, SentBy(c, p), up' = [up EXCEPT ![c] = @ \cup {p}]
        PROVE  /\ up' \in [Clients -> SUBSET Kinds] /\ \A d \in Clients \ {c} : up'[d] = up[d]
               /\ \A q \in up'[c] : SentBy(c, q)
    <3>1. up' \in [Clients -> SUBSET Kinds] /\ \A d \in Clients \ {c} : up'[d] = up[d]
      BY <1>1, <2>2
    <3>2. up'[c] = up[c] \cup {p}
      BY <1>1, <2>2
    <3> QED BY <2>2, <3>1, <3>2 DEF TransferInv, Transfer, FromClient
  <2> QED BY <2>1, <2>2
<1>4. /\ client' \in [Clients -> Client] /\ client'[c] = m
      /\ \A d \in Clients \ {c} : client'[d] = client[d]
  BY <1>1
<1>5. Types'
  BY <1>2, <1>3, <1>4 DEF TransferInv, Types, server, Client
<1>6. Transfer(c)'
  BY <1>2, <1>3, <1>4 DEF TransferInv, Transfer, FromClient, FromServer, InStep, server
<1>7. \A d \in Clients \ {c} : Of(d)' = Of(d)
  BY <1>2, <1>3, <1>4 DEF Of, server
<1> QED BY <1>5, <1>6, <1>7 DEF Keeps

LEMMA StartKeeps == ASSUME TransferInv, NEW c \in Clients, Start(c) PROVE Keeps(c)
<1> DEFINE m == [client[c] EXCEPT !.st = "waiting", !.block = IF c \in Readers THEN 1 ELSE 0,
                                  !.last = Request(c)]
<1>1. client[c] \in Client /\ client \in [Clients -> Client]
  BY DEF TransferInv, Types, Client
<1>2. /\ m \in Client /\ m.st = "waiting" /\ m.got = client[c].got /\ m.last = Request(c)
      /\ m.block = IF c \in Readers THEN 1 ELSE 0
  BY <1>1, BlockNumbers, PacketKinds DEF Client
<1>3. client' = [client EXCEPT ![c] = m] /\ up' = [up EXCEPT ![c] = @ \cup {Request(c)}]
  BY DEF Start, ClientSends
<1>4. client'[c] = m
  BY <1>1, <1>3
<1> HIDE DEF m
<1>5. SentBy(c, Request(c)) /\ Request(c) \in Kinds
  BY PacketKinds DEF SentBy
<1>6. ClientInStep(c)'
  <2>1. c \in Readers <=> c \notin Writers
    BY DEF Writers
  <2>2. c \in Readers => client[c].got = <<>>
    BY DEF Start, TransferInv, Transfer, ClientInStep
  <2>3. InOrder(<<>>, spoilt'[c]) /\ Len(<<>>) = 0 /\ 1 <= NPieces /\ 0 <= NPieces
    BY BlockNumbers DEF InOrder
  <2> QED BY <1>2, <1>4, <2>1, <2>2, <2>3 DEF ClientInStep
<1>7. UNCHANGED server /\ UNCHANGED down /\ faults' \in Nat
  BY DEF Start, TransferInv, Types
<1> QED BY <1>2, <1>3, <1>5, <1>6, <1>7, ClientKeeps

LEMMA ArrivesFrom ==
  ASSUME TransferInv, NEW c \in Clients, NEW p \in down[c], Arrives(c, p)
  PROVE  /\ UNCHANGED server /\ faults' \in Nat /\ client[c].st = "waiting"
         /\ \/ UNCHANGED down
            \/ \E q \in down[c] : down' = [down EXCEPT ![c] = @ \ {q}]
         /\ client \in [Clients -> Client] /\ client[c] \in Client
         /\ SentBy(c, client[c].last)
         /\ c \in Readers <=> c \notin Writers
<1>1. faults \in Nat /\ client \in [Clients -> Client]
  BY DEF TransferInv, Types, Client
<1>2. SentBy(c, client[c].last)
  BY DEF TransferInv, Transfer, FromClient
<1>3. c \in Readers <=> c \notin Writers
  BY DEF Writers
<1> QED BY <1>1, <1>2, <1>3 DEF Arrives

LEMMA GetsDataKeeps == ASSUME TransferInv, NEW c \in Clients, GetsData(c) PROVE Keeps(c)
<1>1. PICK p \in down[c] :
        /\ Arrives(c, p)
        /\ p.op = "DATA" /\ p.block = client[c].block
        /\ client' = [client EXCEPT ![c] =
                        [st |-> IF p.piece \in {NPieces, Damaged} THEN "done" ELSE "waiting",
                         block |-> Next16(p.block), last |-> Ack(p.block),
                         got |-> Append(@.got, p.piece)]]
        /\ up' = [up EXCEPT ![c] = @ \cup {Ack(p.block)}]
  BY DEF GetsData
<1> DEFINE b == p.block
           e == p.piece
           g == Append(client[c].got, e)
           m == [st |-> IF e \in {NPieces, Damaged} THEN "done" ELSE "waiting",
                 block |-> Next16(b), last |-> Ack(b), got |-> g]
<1>2. /\ c \in Readers /\ c \notin Writers /\ b \in Pieces
      /\ e = b \/ (e = Damaged /\ b \in spoilt[c])
  BY <1>1, ArrivesFrom DEF TransferInv, Transfer, FromServer
<1>3. client[c] \in Client /\ client \in [Clients -> Client] /\ client[c].st = "waiting"
  BY <1>1, ArrivesFrom
<1>4. InOrder(client[c].got, spoilt[c]) /\ b = Len(client[c].got) + 1
  BY <1>1, <1>2, <1>3 DEF TransferInv, Transfer, ClientInStep
<1>5. g \in Seq(Taken) /\ InOrder(g, spoilt[c]) /\ Len(g) = b
  <2>1. client[c].got \in Seq(Taken)
    BY <1>3 DEF Client
  <2> HIDE DEF b, e
  <2>2. Len(g) = Len(client[c].got) + 1 /\ g \in Seq(Taken) /\ InOrder(g, spoilt[c])
    <3>1. Len(client[c].got) + 1 \in Pieces
      BY <1>2, <1>4
    <3>2. e = Len(client[c].got) + 1 \/ (e = Damaged /\ Len(client[c].got) + 1 \in spoilt[c])
      BY <1>2, <1>4
    <3> QED BY <1>4, <2>1, <3>1, <3>2, NextInOrder
  <2> QED BY <1>4, <2>2
<1>6. b \in Blocks /\ Ack(b) \in Kinds /\ Next16(b) \in Blocks
      /\ b \in Int /\ b <= NPieces /\ (b < NPieces => Next16(b) = b + 1)
  BY <1>2, BlockNumbers, PacketKinds DEF Pieces
<1>7. SentBy(c, Ack(b))
  BY <1>2 DEF SentBy, Ack, Packet
<1>8. client' = [client EXCEPT ![c] = m] /\ up' = [up EXCEPT ![c] = @ \cup {Ack(b)}]
  BY <1>1
<1> HIDE DEF b, e, g
<1>9. m \in Client /\ m.last = Ack(b)
  BY <1>5, <1>6 DEF Client
<1>10. client'[c] = m
  BY <1>3, <1>8
<1>11. /\ m.st = IF e \in {NPieces, Damaged} THEN "done" ELSE "waiting"
       /\ m.got = g /\ m.block = Next16(b)
  OBVIOUS
<1> HIDE DEF m
<1>12. NPieces \in Int /\ spoilt'[c] = spoilt[c]
  BY <1>1, ArrivesFrom, BlockNumbers DEF server
<1>14. m.st = "done" => Len(g) = NPieces \/ Len(g) \in spoilt[c]
  BY <1>2, <1>5, <1>11, <1>12 DEF Pieces, Damaged
<1>15. m.st = "waiting" => b < NPieces
  BY <1>2, <1>6, <1>11, <1>12
<1>13. ClientInStep(c)'
  <2>1. InOrder(client[c].got, spoilt[c])'
    BY <1>5, <1>10, <1>11, <1>12 DEF InOrder
  <2>2. client'[c].st = "waiting" => /\ client'[c].block = Len(g) + 1
                                     /\ client'[c].block <= NPieces
    BY <1>5, <1>6, <1>10, <1>11, <1>12, <1>15
  <2>3. client'[c].st \in {"waiting", "done"}
    BY <1>10, <1>11
  <2> QED BY <1>2, <1>10, <1>11, <1>12, <1>14, <2>1, <2>2, <2>3 DEF ClientInStep
<1> QED BY <1>1, <1>6, <1>7, <1>8, <1>9, <1>13, ArrivesFrom, ClientKeeps

LEMMA GetsAckKeeps == ASSUME TransferInv, NEW c \in Clients, GetsAck(c) PROVE Keeps(c)
<1>1. PICK p \in down[c] :
        /\ Arrives(c, p)
        /\ p.op = "ACK" /\ p.block = client[c].block
        /\ IF p.block = NPieces
           THEN client' = [client EXCEPT ![c].st = "done"] /\ UNCHANGED up
           ELSE ClientSends(c, "waiting", Next16(p.block), Data(Next16(p.block), p.block + 1))
  BY DEF GetsAck
<1> DEFINE b == p.block
<1>2. c \in Writers /\ c \notin Readers /\ b <= stored[c]
  BY <1>1, ArrivesFrom DEF TransferInv, Transfer, FromServer
<1>3. client[c] \in Client /\ client \in [Clients -> Client] /\ client[c].st = "waiting"
  BY <1>1, ArrivesFrom
<1>4. b \in Blocks /\ b \in Int /\ 0 <= b /\ stored[c] \in 0..NPieces /\ stored'[c] = stored[c]
  <2>1. b \in Blocks
    BY <1>1, <1>3 DEF Client
  <2> QED BY <1>1, <2>1, ArrivesFrom, BlockNumbers DEF TransferInv, Types, server
<1>5. NPieces \in Int /\ stored[c] \in Int /\ stored[c] <= NPieces
  BY <1>4, BlockNumbers
<1>6. CASE b = NPieces
  <2> DEFINE m == [client[c] EXCEPT !.st = "done"]
  <2>1. client' = [client EXCEPT ![c] = m] /\ UNCHANGED up
    BY <1>1, <1>6
  <2>2. m \in Client /\ m.last = client[c].last /\ m.st = "done"
    BY <1>3 DEF Client
  <2>3. client'[c] = m
    BY <1>3, <2>1
  <2> HIDE DEF m, b
  <2>4. ClientInStep(c)'
    BY <1>2, <1>4, <1>5, <1>6, <2>2, <2>3 DEF ClientInStep
  <2> QED BY <1>1, <2>1, <2>2, <2>4, ArrivesFrom, ClientKeeps
<1>7. CASE b # NPieces
  <2> DEFINE k == b + 1
             m == [client[c] EXCEPT !.st = "waiting", !.block = Next16(b), !.last = Data(k, k)]
  <2>1. b < NPieces
    BY <1>2, <1>4, <1>5, <1>7
  <2>2. k \in Pieces /\ k <= NPieces /\ k \in Int
    BY <1>4, <1>5, <2>1 DEF Pieces
  <2>3. Next16(b) = k /\ Next16(b) \in Blocks
    BY <1>4, <2>1, BlockNumbers
  <2>4. client' = [client EXCEPT ![c] = m] /\ up' = [up EXCEPT ![c] = @ \cup {Data(k, k)}]
    BY <1>1, <1>7, <2>3 DEF ClientSends
  <2>5. Data(k, k) \in Kinds
    BY <2>2, <2>3, PacketKinds DEF Pieces
  <2>6. SentBy(c, Data(k, k))
    BY <1>2, <2>2 DEF SentBy, Data, Packet
  <2> HIDE DEF b, k
  <2>7. m \in Client /\ m.last = Data(k, k) /\ m.st = "waiting" /\ m.block = k
    BY <1>3, <2>3, <2>5 DEF Client
  <2>8. client'[c] = m
    BY <1>3, <2>4
  <2> HIDE DEF m
  <2>9. ClientInStep(c)'
    BY <1>2, <2>2, <2>7, <2>8 DEF ClientInStep
  <2> QED BY <1>1, <2>4, <2>5, <2>6, <2>7, <2>9, ArrivesFrom, ClientKeeps
<1> QED BY <1>6, <1>7

LEMMA GetsOtherKeeps ==
  ASSUME TransferInv, NEW c \in Clients, GetsError(c) \/ GetsOther(c) PROVE Keeps(c)
<1>1. PICK p \in down[c] :
        /\ Arrives(c, p) /\ UNCHANGED up
        /\ UNCHANGED client \/ client' = [client EXCEPT ![c].st = "failed"]
  BY DEF GetsError, GetsOther
<1>2. client[c] \in Client /\ client \in [Clients -> Client]
  BY <1>1, ArrivesFrom
<1>3. stored'[c] = stored[c] /\ spoilt'[c] = spoilt[c]
  BY <1>1, ArrivesFrom DEF server
<1>4. CASE UNCHANGED client
  <2>1. client' = [client EXCEPT ![c] = client[c]]
    BY <1>2, <1>4
  <2>2. ClientInStep(c)'
    BY <1>3, <1>4 DEF TransferInv, Transfer, ClientInStep
  <2> QED BY <1>1, <1>2, <2>1, <2>2, ArrivesFrom, ClientKeeps
<1>5. CASE client' = [client EXCEPT ![c].st = "failed"]
  <2> DEFINE m == [client[c] EXCEPT !.st = "failed"]
  <2>1. client' = [client EXCEPT ![c] = m]
    BY <1>5
  <2>2. m \in Client /\ m.last = client[c].last /\ m.st = "failed" /\ m.got = client[c].got
    BY <1>2 DEF Client
  <2>3. client'[c] = m
    BY <1>2, <2>1
  <2> HIDE DEF m
  <2>4. ClientInStep(c)'
    BY <1>3, <2>2, <2>3 DEF TransferInv, Transfer, ClientInStep
  <2> QED BY <1>1, <2>1, <2>2, <2>4, ArrivesFrom, ClientKeeps
<1> QED BY <1>1, <1>4, <1>5

-----------------------------------------------------------------------------
LEMMA TransferStep == ASSUME TransferInv, TftpNext PROVE TransferInv'
<1>1. PICK c \in Clients :
        \/ SocketReadable(c) \/ EndpointRead(c) \/ Event(c) \/ Timeout(c) \/ Delete(c)
        \/ Start(c) \/ Gets(c) \/ Repeat(c) \/ Lose(c)
  BY DEF TftpNext
<1>2. CASE Event(c)
  <2>1. CASE Unexpected(c) \/ OpenFails(c) \/ NotAnAck(c) \/ NotData(c) \/ WrongBlock(c)
    BY <2>1, RefusalKeeps, StepKeeps
  <2>2. CASE ReadRequest(c)
    BY <2>2, ReadRequestKeeps, StepKeeps
  <2>3. CASE WriteRequest(c)
    BY <2>3, WriteRequestKeeps, StepKeeps
  <2>4. CASE Acked(c)
    BY <2>4, AckedKeeps, StepKeeps
  <2>5. CASE Store(c)
    BY <2>5, StoreKeeps, StepKeeps
  <2> QED BY <1>2, <2>1, <2>2, <2>3, <2>4, <2>5 DEF Event
<1>3. CASE Gets(c)
  BY <1>3, GetsDataKeeps, GetsAckKeeps, GetsOtherKeeps, StepKeeps DEF Gets
<1>4. CASE Start(c) \/ Repeat(c) \/ Lose(c)
  BY <1>4, StartKeeps, RepeatKeeps, LoseKeeps, StepKeeps
<1>5. CASE SocketReadable(c) \/ EndpointRead(c) \/ Timeout(c) \/ Delete(c)
  BY <1>5, ReadableKeeps, ReadKeeps, ChannelKeeps, StepKeeps
<1> QED BY <1>1, <1>2, <1>3, <1>4, <1>5

LEMMA TransferStutter == ASSUME TransferInv, UNCHANGED tftpVars PROVE TransferInv'
  BY DEF TransferInv, tftpVars, Types, Transfer, FromClient, FromServer, InStep, ClientInStep

(* The inductive invariant holds in every state: what a packet says is true  *)
(* of the client or of the server wherever the packet is and however late it *)
(* comes, and the two ends count the blocks alike.                           *)
THEOREM TransfersInStep == TftpSpec => []TransferInv
<1>1. TransferInv /\ [TftpNext]_tftpVars => TransferInv'
  BY TransferStep, TransferStutter
<1> QED BY <1>1, InitTransfers, PTL DEF TftpSpec

(* Files arrive whole but for the pieces that the disk failed at, for any    *)
(* set of clients, files of any number of pieces that an unsigned short can  *)
(* count and any number of faults.                                           *)
THEOREM TransfersAreWhole == TftpSpec => []FilesArriveWhole
<1>1. TransferInv => FilesArriveWhole
  <2> SUFFICES ASSUME TransferInv PROVE FilesArriveWhole
    OBVIOUS
  <2>1. ASSUME NEW c \in Writers
        PROVE  /\ InOrder(file[c], spoilt[c])
               /\ \A p \in down[c] : p.op = "ACK" => p.block <= stored[c]
               /\ client[c].st = "done" => stored[c] = NPieces
    <3>1. c \in Clients /\ c \notin Readers
      BY DEF Writers
    <3> QED BY <3>1 DEF TransferInv, Transfer, FromServer, InStep, ClientInStep
  <2>2. ASSUME NEW c \in Readers
        PROVE  /\ InOrder(client[c].got, spoilt[c])
               /\ client[c].st = "done" => LET n == Len(client[c].got)
                                          IN  n = NPieces \/ n \in spoilt[c]
    <3>1. c \in Clients
      BY ReadersAreClients
    <3> QED BY <3>1 DEF TransferInv, Transfer, ClientInStep
  <2> QED BY <2>1, <2>2 DEF FilesArriveWhole
<1> QED BY <1>1, TransfersInStep, PTL
=============================================================================
