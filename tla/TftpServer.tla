------------------------------ MODULE TftpServer ------------------------------
(* The tftp server over the datagram multiplexer (tftp/TFTPStream.cpp,          *)
(* sconex/DatagramMultiplexer.cpp, DatagramChannel.cpp).  One job reads the     *)
(* server's socket and gives each datagram to the channel of the address it     *)
(* came from; a channel is a descriptor of its own, with a tftp stream on it,   *)
(* that another thread dispatches.  The two share the channel's one-datagram    *)
(* buffer without a lock.                                                       *)
(*                                                                              *)
(* The clients and the network are external.  A client transfers one file in    *)
(* one direction, one block at a time, and repeats its last packet when nothing *)
(* comes; the network loses, repeats and reorders packets.  A file is a number  *)
(* of pieces, the last one shorter than a block; piece k is the number k, and   *)
(* what a disk that fails leaves of a piece, if anything, is Damaged.           *)
EXTENDS Integers, Sequences

CONSTANTS
  Clients,      \* remote addresses
  Readers,      \* those that read a file; the others write one
  NPieces,      \* pieces of a file
  NoPacket,
  MaxFaults     \* packets lost, repeated, or taken for lost; idle timeouts,
                \* requests that are refused, pieces that the disk fails at

ASSUME TftpAssumption ==
  /\ Readers \subseteq Clients
  /\ NPieces \in 1..65535 /\ MaxFaults \in Nat

VARIABLES
  channel,      \* of each address: "none", "open", or "ended" until it is deleted
  buffer,       \* m_buffer of the channel
  readable,     \* the Readable bit of its m_virtual_events
  packet,       \* the local packet of TFTPStream::event(), when it runs
  stream,       \* m_state, m_block, m_finished of the stream, position in m_file
  file,         \* what has become of each piece in the file of a writing client
  up, down,     \* packets on their way from and to each client
  client,       \* what each client is doing
  stored,       \* how many pieces of each client's file have ever been written
  spoilt,       \* the pieces that the disk has ever failed at, of each client
  faults

tftpVars == <<channel, buffer, readable, packet, stream, file, up, down, client, stored,
              spoilt, faults>>

server  == <<channel, buffer, readable, packet, stream, file, stored, spoilt>>
network == <<up, down>>

Writers == Clients \ Readers

Damaged == 0

Packet(op, block, piece) == [op |-> op, block |-> block, piece |-> piece]
Request(c) == Packet(IF c \in Readers THEN "RRQ" ELSE "WRQ", 0, 0)
Data(block, piece) == Packet("DATA", block, piece)
Ack(block) == Packet("ACK", block, 0)
ErrorPacket == Packet("ERROR", 0, 0)

(* m_block is an unsigned short.                                                *)
Next16(block) == (block + 1) % 65536

NewStream == [state |-> "Request", block |-> 0, finished |-> FALSE, pos |-> 0]

------------------------------------------------------------------------------
(* The server's socket: DatagramMultiplexer::event().                           *)

(* recv_datagram(): a datagram that nobody has read yet is replaced.            *)
RecvDatagram(c, p) ==
  /\ buffer' = [buffer EXCEPT ![c] = p]
  /\ readable' = [readable EXCEPT ![c] = TRUE]

(* A datagram for a channel that has ended and is not deleted yet goes with it. *)
SocketReadable(c) ==
  \E p \in up[c] :
    /\ RecvDatagram(c, p)
    /\ IF channel[c] = "none"
       THEN /\ channel' = [channel EXCEPT ![c] = "open"]
            /\ stream' = [stream EXCEPT ![c] = NewStream]
       ELSE UNCHANGED <<channel, stream>>
    /\ \/ up' = [up EXCEPT ![c] = @ \ {p}] /\ UNCHANGED faults
       \/ faults < MaxFaults /\ faults' = faults + 1 /\ UNCHANGED up
    /\ UNCHANGED <<packet, file, down, client, stored, spoilt>>

------------------------------------------------------------------------------
(* A channel: dispatch() and TFTPStream::event().                               *)

(* endpoint_read() up to m_buffer = 0; another datagram may arrive before it    *)
(* clears the Readable bit, and is then forgotten.                              *)
EndpointRead(c) ==
  /\ channel[c] = "open" /\ readable[c] /\ packet[c] = NoPacket
  /\ buffer[c] # NoPacket
  /\ packet' = [packet EXCEPT ![c] = buffer[c]]
  /\ buffer' = [buffer EXCEPT ![c] = NoPacket]
  /\ UNCHANGED <<channel, readable, stream, file, up, down, client, stored, spoilt, faults>>

(* The rest of event() for the packet that was read, in m_state st.             *)
Handles(c, st) ==
  /\ packet[c] # NoPacket /\ stream[c].state = st
  /\ readable' = [readable EXCEPT ![c] = FALSE]
  /\ packet' = [packet EXCEPT ![c] = NoPacket]
  /\ UNCHANGED <<buffer, up, client>>

Send(c, p) == down' = [down EXCEPT ![c] = @ \cup {p}]

(* event() returns Error: dispatch() ends, and the job with it.                 *)
Fails(c) ==
  /\ channel' = [channel EXCEPT ![c] = "ended"]
  /\ UNCHANGED <<stream, file, stored, spoilt>>

(* The disk fails at a piece, and nobody looks at what read() or write() says.  *)
DiskFails(c, piece) ==
  /\ faults < MaxFaults /\ faults' = faults + 1
  /\ spoilt' = [spoilt EXCEPT ![c] = @ \cup {piece}]

(* write_data(): the next piece of the file under the number given.             *)
(* A short piece finishes the transfer, whatever it is that made it short.      *)
Sends(c, s, block, piece) ==
  /\ Send(c, Data(block, piece))
  /\ stream' = [stream EXCEPT ![c] =
                  [s EXCEPT !.state = "ReadData", !.block = Next16(block),
                            !.pos = @ + 1, !.finished = piece \in {NPieces, Damaged}]]

WriteData(c, s, block) ==
  \/ Sends(c, s, block, s.pos + 1) /\ UNCHANGED <<spoilt, faults>>
  \/ Sends(c, s, block, Damaged) /\ DiskFails(c, s.pos + 1)

Unexpected(c) ==
  /\ Handles(c, "Request")
  /\ packet[c].op \notin {"RRQ", "WRQ"}
  /\ Fails(c) /\ UNCHANGED <<down, faults>>

(* No profile, a bad file name, or a file that cannot be opened.                *)
OpenFails(c) ==
  /\ Handles(c, "Request")
  /\ packet[c].op \in {"RRQ", "WRQ"}
  /\ faults < MaxFaults /\ faults' = faults + 1
  /\ Send(c, ErrorPacket) /\ Fails(c)

ReadRequest(c) ==
  /\ Handles(c, "Request")
  /\ packet[c].op = "RRQ"
  /\ WriteData(c, NewStream, 1)
  /\ UNCHANGED <<channel, file, stored>>

WriteRequest(c) ==
  /\ Handles(c, "Request")
  /\ packet[c].op = "WRQ"
  /\ file' = [file EXCEPT ![c] = <<>>]
  /\ Send(c, Ack(0))
  /\ stream' = [stream EXCEPT ![c] = [NewStream EXCEPT !.state = "WriteData", !.block = 1]]
  /\ UNCHANGED <<channel, stored, spoilt, faults>>

NotAnAck(c) ==
  /\ Handles(c, "ReadData")
  /\ packet[c].op # "ACK"
  /\ Send(c, ErrorPacket) /\ Fails(c)
  /\ UNCHANGED faults

(* An ACK is taken for the last block's, whatever its number.                   *)
(* Slip: the number of the ACK says which block comes next.                     *)
AckedByNumber(c) ==
  /\ Handles(c, "ReadData")
  /\ packet[c].op = "ACK"
  /\ IF stream[c].finished
     THEN stream' = [stream EXCEPT ![c].state = "Request"] /\ UNCHANGED <<down, spoilt, faults>>
     ELSE WriteData(c, stream[c], Next16(packet[c].block))
  /\ UNCHANGED <<channel, file, stored>>

Acked(c) ==
  /\ Handles(c, "ReadData")
  /\ packet[c].op = "ACK"
  /\ IF stream[c].finished
     THEN stream' = [stream EXCEPT ![c].state = "Request"] /\ UNCHANGED <<down, spoilt, faults>>
     ELSE WriteData(c, stream[c], stream[c].block)
  /\ UNCHANGED <<channel, file, stored>>

NotData(c) ==
  /\ Handles(c, "WriteData")
  /\ packet[c].op # "DATA"
  /\ Fails(c) /\ UNCHANGED <<down, faults>>

(* Slip: any block is the next one.                                             *)
ExpectedAny(c) == TRUE

Expected(c) == packet[c].block = stream[c].block

(* m_file->write(): the whole piece, or as much of it as the disk took.         *)
Write(c) ==
  /\ \/ /\ file' = [file EXCEPT ![c] = Append(@, packet[c].piece)]
        /\ UNCHANGED <<spoilt, faults>>
     \/ /\ file' = [file EXCEPT ![c] = Append(@, Damaged)]
        /\ DiskFails(c, packet[c].piece)
  /\ stored' = [stored EXCEPT ![c] = IF Len(file[c]) + 1 > @ THEN Len(file[c]) + 1 ELSE @]

(* Slip: the short block ends the transfer, and is not acknowledged.            *)
StoreUnacked(c) ==
  /\ Handles(c, "WriteData")
  /\ packet[c].op = "DATA" /\ Expected(c)
  /\ Write(c)
  /\ IF packet[c].piece = NPieces
     THEN stream' = [stream EXCEPT ![c].state = "Request"] /\ UNCHANGED down
     ELSE stream' = [stream EXCEPT ![c].block = Next16(@)] /\ Send(c, Ack(stream[c].block))
  /\ UNCHANGED channel

(* The block is acknowledged whatever has been written of it.                   *)
Store(c) ==
  /\ Handles(c, "WriteData")
  /\ packet[c].op = "DATA" /\ Expected(c)
  /\ Write(c)
  /\ Send(c, Ack(stream[c].block))
  /\ stream' = [stream EXCEPT ![c].block = Next16(@),
                  ![c].state = IF packet[c].piece = NPieces THEN "Request" ELSE @]
  /\ UNCHANGED channel

WrongBlock(c) ==
  /\ Handles(c, "WriteData")
  /\ packet[c].op = "DATA" /\ ~Expected(c)
  /\ Send(c, ErrorPacket)
  /\ UNCHANGED <<channel, stream, file, stored, spoilt, faults>>

Event(c) ==
  \/ Unexpected(c) \/ OpenFails(c) \/ ReadRequest(c) \/ WriteRequest(c)
  \/ NotAnAck(c) \/ Acked(c)
  \/ NotData(c) \/ Store(c) \/ WrongBlock(c)

(* check_timeout(): 15 seconds without a packet that resets it.                 *)
Timeout(c) ==
  /\ channel[c] = "open" /\ packet[c] = NoPacket
  /\ faults < MaxFaults /\ faults' = faults + 1
  /\ channel' = [channel EXCEPT ![c] = "ended"]
  /\ UNCHANGED <<buffer, readable, packet, stream, file, up, down, client, stored, spoilt>>

(* The job is purged: ~DatagramChannel() takes the channel out of m_channels    *)
(* and what is left in its buffer is dropped.                                   *)
Delete(c) ==
  /\ channel[c] = "ended"
  /\ channel' = [channel EXCEPT ![c] = "none"]
  /\ buffer' = [buffer EXCEPT ![c] = NoPacket]
  /\ readable' = [readable EXCEPT ![c] = FALSE]
  /\ UNCHANGED <<packet, stream, file, up, down, client, stored, spoilt, faults>>

------------------------------------------------------------------------------
(* The clients: block is the block that is awaited, or whose ACK is.            *)

ClientSends(c, st, block, p) ==
  /\ client' = [client EXCEPT ![c].st = st, ![c].block = block, ![c].last = p]
  /\ up' = [up EXCEPT ![c] = @ \cup {p}]

Start(c) ==
  /\ client[c].st = "idle"
  /\ ClientSends(c, "waiting", IF c \in Readers THEN 1 ELSE 0, Request(c))
  /\ UNCHANGED <<server, down, faults>>

(* A packet comes, and stays on its way once more if the network repeats it.    *)
Arrives(c, p) ==
  /\ client[c].st = "waiting"
  /\ p \in down[c]
  /\ \/ down' = [down EXCEPT ![c] = @ \ {p}] /\ UNCHANGED faults
     \/ faults < MaxFaults /\ faults' = faults + 1 /\ UNCHANGED down
  /\ UNCHANGED server

(* A piece that is shorter than a block is the last one, to a client.           *)
GetsData(c) ==
  \E p \in down[c] :
    /\ Arrives(c, p)
    /\ p.op = "DATA" /\ p.block = client[c].block
    /\ client' = [client EXCEPT ![c] =
                    [st |-> IF p.piece \in {NPieces, Damaged} THEN "done" ELSE "waiting",
                     block |-> Next16(p.block), last |-> Ack(p.block),
                     got |-> Append(@.got, p.piece)]]
    /\ up' = [up EXCEPT ![c] = @ \cup {Ack(p.block)}]

GetsAck(c) ==
  \E p \in down[c] :
    /\ Arrives(c, p)
    /\ p.op = "ACK" /\ p.block = client[c].block
    /\ IF p.block = NPieces
       THEN client' = [client EXCEPT ![c].st = "done"] /\ UNCHANGED up
       ELSE ClientSends(c, "waiting", Next16(p.block), Data(Next16(p.block), p.block + 1))

GetsError(c) ==
  \E p \in down[c] :
    /\ Arrives(c, p)
    /\ p.op = "ERROR"
    /\ client' = [client EXCEPT ![c].st = "failed"]
    /\ UNCHANGED up

GetsOther(c) ==
  \E p \in down[c] :
    /\ Arrives(c, p)
    /\ p.op # "ERROR" /\ p.block # client[c].block
    /\ UNCHANGED <<client, up>>

(* Nothing came for a while, or so the client thinks.                           *)
Repeat(c) ==
  /\ client[c].st = "waiting"
  /\ faults < MaxFaults /\ faults' = faults + 1
  /\ up' = [up EXCEPT ![c] = @ \cup {client[c].last}]
  /\ UNCHANGED <<server, down, client>>

Lose(c) ==
  /\ faults < MaxFaults /\ faults' = faults + 1
  /\ \/ \E p \in up[c] : up' = [up EXCEPT ![c] = @ \ {p}] /\ UNCHANGED down
     \/ \E p \in down[c] : down' = [down EXCEPT ![c] = @ \ {p}] /\ UNCHANGED up
  /\ UNCHANGED <<server, client>>

Gets(c) == GetsData(c) \/ GetsAck(c) \/ GetsError(c) \/ GetsOther(c)

------------------------------------------------------------------------------
TftpInit ==
  /\ channel = [c \in Clients |-> "none"]
  /\ buffer = [c \in Clients |-> NoPacket]
  /\ readable = [c \in Clients |-> FALSE]
  /\ packet = [c \in Clients |-> NoPacket]
  /\ stream = [c \in Clients |-> NewStream]
  /\ file = [c \in Clients |-> <<>>]
  /\ up = [c \in Clients |-> {}] /\ down = [c \in Clients |-> {}]
  /\ client = [c \in Clients |->
                 [st |-> "idle", block |-> 0, last |-> Request(c), got |-> <<>>]]
  /\ stored = [c \in Clients |-> 0] /\ spoilt = [c \in Clients |-> {}]
  /\ faults = 0

TftpNext ==
  \E c \in Clients :
    \/ SocketReadable(c)
    \/ EndpointRead(c) \/ Event(c) \/ Timeout(c) \/ Delete(c)
    \/ Start(c) \/ Gets(c) \/ Repeat(c) \/ Lose(c)

(* The scheduler runs the jobs, and a packet that is not lost arrives.          *)
TftpFairness ==
  \A c \in Clients :
    /\ WF_tftpVars(SocketReadable(c)) /\ WF_tftpVars(EndpointRead(c)) /\ WF_tftpVars(Event(c))
    /\ WF_tftpVars(Delete(c)) /\ WF_tftpVars(Gets(c))

TftpSpec == TftpInit /\ [][TftpNext]_tftpVars /\ TftpFairness

------------------------------------------------------------------------------
(* Piece after piece, each once; a disk may have failed at those in bad.        *)
InOrder(s, bad) == \A i \in DOMAIN s : s[i] = i \/ (s[i] = Damaged /\ i \in bad)

(* Files arrive whole but for the pieces at which a disk failed, whatever the   *)
(* network does and however often a transfer is begun again.  The file of a     *)
(* writer has the pieces in their order, each once; what is acknowledged was    *)
(* written (or the disk failed at it: TFTPStream.cpp:213 does not ask), and a   *)
(* writer that has been told that its last block was received wrote them all.   *)
(* A reader takes the pieces in their order, each once, although an ACK is      *)
(* never asked which block it is for, and when it stops it has all of them, or  *)
(* those up to one that the disk failed at.                                     *)
FilesArriveWhole ==
  /\ \A c \in Writers :
       /\ InOrder(file[c], spoilt[c])
       /\ \A p \in down[c] : p.op = "ACK" => p.block <= stored[c]
       /\ client[c].st = "done" => stored[c] = NPieces
  /\ \A c \in Readers :
       /\ InOrder(client[c].got, spoilt[c])
       /\ client[c].st = "done" => LET n == Len(client[c].got)
                                  IN  n = NPieces \/ n \in spoilt[c]

(* Nothing is forgotten between the socket and the stream: if the network loses *)
(* and repeats nothing, every transfer that is begun comes to its end.          *)
TransfersEnd == []<>(faults > 0 \/ \A c \in Clients : client[c].st # "waiting")
==============================================================================
