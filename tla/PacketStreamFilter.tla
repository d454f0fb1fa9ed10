-------------------------- MODULE PacketStreamFilter --------------------------
(***************************************************************************)
(* The filter that cuts a socket's input into packets                       *)
(* (lib/deskflow/PacketStreamFilter.cpp, over lib/io/StreamFilter.cpp),     *)
(* between the socket, which the service thread fills, and its reader in    *)
(* the event loop: first somebody who reads one packet (the hello), then a  *)
(* proxy who reads all there are.  It is the filter of a server: a client    *)
(* listens to SocketDisconnected too, which may come before the end.  Data  *)
(* is counted in units: a packet has Header units that give its size and    *)
(* then Body units.                                                         *)
(***************************************************************************)
EXTENDS Naturals, Sequences

CONSTANTS
    Header, Body,
    MaxUnits        \* units the peer sends in a behavior

\* What the constants may be.
FilterAssumption ==
    Header \in Nat \ {0} /\ Body \in Nat \ {0} /\ MaxUnits \in Nat

VARIABLES
    tls,        \* the socket is a SecureSocket
    total,      \* units the peer sends before it ends its stream
    early,      \* it sends on before its first packet is answered
    badPacket,  \* the number of the packet that claims to be too large, or 0
    arrived,    \* units that came to the socket
    ended,      \* so did the end of the stream
    unannounced,\* units that came in one reading with the end, which nothing announced
    socketInput,\* units in the socket's buffer
    buffer,     \* m_buffer
    size,       \* m_size; Oversize for a size over the limit
    inputShutdown,
    queue,      \* events: of the socket, and of the filter (Up...)
    reader,     \* waits for one packet or for all, reads all, has closed
    packets,    \* headers taken out of the buffer
    packetsRead,
    heard       \* what ended it

peerVars == <<tls, total, early, badPacket>>
arrivalVars == <<peerVars, arrived, ended, unannounced>>
vars == <<arrivalVars, socketInput, buffer, size, inputShutdown, queue, reader, packets,
          packetsRead, heard>>

Oversize == Body + MaxUnits + 1
Complete(units) == units \div (Header + Body)

\* Every variable has its type.
TypeOK ==
    /\ tls \in BOOLEAN /\ total \in 0..MaxUnits /\ early \in BOOLEAN
    /\ arrived \in 0..total /\ ended \in BOOLEAN /\ unannounced \in 0..arrived
    /\ badPacket \in 0..Complete(MaxUnits)
    /\ socketInput \in 0..MaxUnits /\ buffer \in 0..MaxUnits
    /\ size \in {0, Body, Oversize} /\ inputShutdown \in BOOLEAN
    /\ queue \in Seq({"InputReady", "InputShutdown", "UpShutdown", "UpFormatError"})
    /\ reader \in {"one", "all", "reading", "closed"}
    /\ packets \in Nat /\ packetsRead \in 0..packets
    /\ heard \in {"nothing", "shutdown", "formatError"}

Init ==
    /\ tls \in BOOLEAN /\ total \in 0..MaxUnits /\ badPacket \in 0..Complete(MaxUnits)
    /\ arrived = 0 /\ ended = FALSE /\ unannounced = 0 /\ socketInput = 0
    /\ buffer = 0 /\ size = 0 /\ inputShutdown = FALSE
    /\ queue = <<>>
    /\ reader \in {"one", "all"} /\ early \in {e \in BOOLEAN : e => reader = "one"}
    /\ packets = 0 /\ packetsRead = 0 /\ heard = "nothing"

------------------------------------------------------------------------------
(* The socket and the peer.                                                    *)

\* What may come: the peer waits for an answer to its first packet, unless its screen
\* changes its shape meanwhile.
Coming == {n \in 1..(total - arrived) : early \/ reader # "one" \/ arrived + n <= Header + Body}

\* Data comes, is taken by the service thread and announced if there was none.
arrives ==
    /\ ~ended /\ reader # "closed"
    /\ \E n \in Coming : arrived' = arrived + n /\ socketInput' = socketInput + n
    /\ queue' = IF socketInput = 0 THEN Append(queue, "InputReady") ELSE queue
    /\ UNCHANGED <<peerVars, ended, unannounced, buffer, size, inputShutdown, reader, packets,
                   packetsRead, heard>>

\* The stream ends; it may be broken off in the middle.
ends ==
    /\ ~ended /\ reader # "closed"
    /\ ended' = TRUE
    /\ queue' = Append(queue, "InputShutdown")
    /\ UNCHANGED <<peerVars, arrived, unannounced, socketInput, buffer, size, inputShutdown,
                   reader, packets, packetsRead, heard>>

\* Over TLS data and end may come in one reading: SecureSocket::doRead then returns before it
\* announces the data, unless an earlier announcement is on its way.
endsAtOnce ==
    /\ tls /\ ~ended /\ reader # "closed"
    /\ \E n \in Coming :
        /\ arrived' = arrived + n /\ socketInput' = socketInput + n
        /\ unannounced' = IF socketInput = 0 THEN n ELSE 0
    /\ ended' = TRUE
    /\ queue' = Append(queue, "InputShutdown")
    /\ UNCHANGED <<peerVars, buffer, size, inputShutdown, reader, packets, packetsRead, heard>>

------------------------------------------------------------------------------
(* The filter.                                                                 *)

isReady(sz, buf) == sz # 0 /\ buf >= sz

\* The state of the filter as a record, for what it does in one go.
State == [size |-> size, buffer |-> buffer, packets |-> packets, read |-> packetsRead, up |-> <<>>]

\* readPacketSize: the size of the next packet, once its header is there.
readPacketSize(s) ==
    IF s.size # 0 \/ s.buffer < Header THEN s
    ELSE LET bad == s.packets + 1 = badPacket
         IN  [s EXCEPT !.buffer = @ - Header, !.packets = @ + 1,
                       !.size = IF bad THEN Oversize ELSE Body,
                       !.up = IF bad THEN Append(@, "UpFormatError") ELSE @]

\* read, of a whole packet that is there; the last one brings the end of the stream.
readPacket(s) ==
    LET t == readPacketSize([s EXCEPT !.buffer = @ - s.size, !.size = 0, !.read = @ + 1])
    IN  IF inputShutdown /\ t.size = 0 THEN [t EXCEPT !.up = Append(@, "UpShutdown")] ELSE t

Becomes(s) ==
    size' = s.size /\ buffer' = s.buffer /\ packets' = s.packets /\ packetsRead' = s.read

Takes(kind) == queue # <<>> /\ Head(queue) = kind

\* How much readMore takes.
taken == socketInput

\* The reader is called: who waits for one packet reads it, and a proxy takes its place;
\* a proxy begins to read.
handleData(s) ==
    LET t == IF reader = "one" THEN readPacket(s) ELSE s
    IN  Becomes(t) /\ queue' = Tail(queue) \o t.up /\ reader' = IF reader = "one" THEN "all" ELSE "reading"

\* filterEvent with InputReady: all there is is taken, unless it shows a packet that is too
\* large; the reader is called when a packet has become complete.
inputReady ==
    /\ Takes("InputReady") /\ reader \in {"one", "all"}
    /\ LET s == readPacketSize([State EXCEPT !.buffer = @ + taken])
       IN  IF isReady(s.size, s.buffer) # isReady(size, buffer)
           THEN handleData(s)
           ELSE Becomes(s) /\ queue' = Tail(queue) \o s.up /\ UNCHANGED reader
    /\ socketInput' = socketInput - taken
    /\ UNCHANGED <<arrivalVars, inputShutdown, heard>>

\* The proxy's handler reads one packet after the other until there is none; the socket may
\* be filled meanwhile, but the event loop waits for it.
readNext ==
    /\ reader = "reading"
    /\ \/ /\ isReady(size, buffer)
          /\ LET t == readPacket(State) IN Becomes(t) /\ queue' = queue \o t.up
          /\ UNCHANGED reader
       \/ /\ ~isReady(size, buffer)
          /\ reader' = "all"
          /\ UNCHANGED <<size, buffer, packets, packetsRead, queue>>
    /\ UNCHANGED <<arrivalVars, socketInput, inputShutdown, heard>>

\* The reader hears of the end, or of an error, and closes.
readerCloses(what) ==
    /\ heard' = what /\ reader' = "closed"
    /\ size' = 0 /\ buffer' = 0 /\ socketInput' = 0

\* Mutant: the end is passed on as it comes.
shutdownPassed == FALSE

\* A complete packet is there to be read before the end is told.
shutdownKeptBack == isReady(size, buffer)

\* filterEvent with InputShutdown: kept back, or an error if it comes within a packet; the
\* end is passed on with it.
inputShutdowns ==
    /\ Takes("InputShutdown") /\ reader \in {"one", "all"}
    /\ inputShutdown' = TRUE
    /\ \/ /\ shutdownKeptBack
          /\ queue' = Tail(queue)
          /\ UNCHANGED <<size, buffer, socketInput, reader, heard>>
       \/ /\ ~shutdownKeptBack
          /\ readerCloses("shutdown")
          /\ queue' = IF size # 0 THEN Append(Tail(queue), "UpFormatError") ELSE Tail(queue)
    /\ UNCHANGED <<arrivalVars, packets, packetsRead>>

\* Events the filter sent itself.
ownEvent ==
    /\ reader \in {"one", "all"}
    /\ \/ Takes("UpShutdown") /\ readerCloses("shutdown")
       \/ Takes("UpFormatError") /\ readerCloses("formatError")
    /\ queue' = Tail(queue)
    /\ UNCHANGED <<arrivalVars, inputShutdown, packets, packetsRead>>

\* Nobody listens any more.
unheard ==
    /\ queue # <<>> /\ reader = "closed"
    /\ queue' = Tail(queue)
    /\ UNCHANGED <<arrivalVars, socketInput, buffer, size, inputShutdown,
                   reader, packets, packetsRead, heard>>

------------------------------------------------------------------------------
Handle == inputReady \/ readNext \/ inputShutdowns \/ ownEvent \/ unheard

Next == arrives \/ ends \/ endsAtOnce \/ Handle

\* The event loop handles what is queued.
Spec == Init /\ [][Next]_vars /\ WF_vars(Handle)

------------------------------------------------------------------------------
(* Properties.                                                                 *)

\* Packets up to the first that is too large.
Good(k) == IF badPacket # 0 /\ k >= badPacket THEN badPacket - 1 ELSE k

\* What the reader can count on: all that came, but over TLS not what came in one reading
\* with the end.
Announced == IF tls THEN arrived - unannounced ELSE arrived

\* The reader is not told of the end before it has read every complete packet that was
\* announced: over TLS those that come in one reading with the end are lost.
EndAfterData == heard = "shutdown" => packetsRead >= Good(Complete(Announced))

\* Every complete packet that was announced is read in the end, unless an earlier one was too
\* large, and the end of the stream is heard.  (What a client sends early is not read: the
\* proxy is never called for what was there before it.)
CaughtUp ==
    ~early => packetsRead >= Good(Complete(Announced)) /\ (ended => heard # "nothing")
ReaderCatchesUp == []<>CaughtUp
=============================================================================
