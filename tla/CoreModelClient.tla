--------------------------- MODULE CoreModelClient ---------------------------
(***************************************************************************)
(* The Python client of CoreModel, python-examples/coremodel.py: a single  *)
(* thread that attaches interfaces (buses of a virtual machine) over one   *)
(* TCP connection, and then runs a main loop that hands the packets of the *)
(* virtual machine to the interfaces and sends their answers.              *)
(*                                                                         *)
(* Packets are records: conn (Query, or the interface; the connection      *)
(* number is the interface's name), type, and what else the type needs.    *)
(* The network keeps their order.  A packet arrives whole, or its end      *)
(* arrives later: then process_rxq() takes a truncated packet and reads    *)
(* its end as a header, and what follows is not modelled (framed = FALSE). *)
(*                                                                         *)
(* USBH and CAN interfaces are in UsbKeyboard.tla and RtcCan.tla.          *)
(***************************************************************************)
EXTENDS Naturals, Selection, SequencesExt

CONSTANTS Plans,        \* programs: sequences of calls, "list" or an interface
          Requests,     \* of each interface, the requests it may get
          Holds,        \* of each interface, how its callbacks may hold a request
                        \* up: "stall" (they return 0), "part" (fewer bytes)
          Listed,       \* the devices of the virtual machine, a sequence
          MaxRequests   \* a bound: requests to each interface

Ifs   == DOMAIN Requests
Query == "query"                                    \* CONN_QUERY
None  == "none"

\* The names of interfaces and the packet types of the buses are not those of
\* the queries.
ASSUME ClientAssumption ==
    /\ Listed \in Seq(Range(Listed))
    /\ {Query, "list"} \cap Ifs = {}
    /\ \A i \in Ifs : Requests[i] \subseteq [type : STRING, ack : BOOLEAN]
    /\ \A i \in Ifs : \A r \in Requests[i] : r.type \notin {"REQ_LIST", "REQ_CONN"}

VARIABLES
    call,           \* where the program is: "next" call, "query", "mainloop", "ended"
    plan, made,     \* its calls, and how many have returned
    query_active, conn_if, ifs, device_list,
    returned,       \* what list() returned last
    queue,          \* cif.rxbufs: packets an interface has not finished
    busy,           \* cif.busy
    rxbufs, txbufs, txflag,
    writable,       \* the socket is in writefds after select()
    pc,             \* the place in processfds(): "select", "process", "advance", "send"
    cif,            \* the interface being advanced
    framed,         \* no packet has been cut in two
    net, uplink,    \* packets sent by the virtual machine, and by the client
    closed,         \* the virtual machine has closed the connection
    requested,      \* of each interface, the requests sent that want an answer
    sent,           \* of each interface, the number of requests sent
    answered        \* of each interface, the answers the virtual machine has got

clientVars == <<call, plan, made, query_active, conn_if, ifs, device_list, returned,
                queue, busy, rxbufs, txbufs, txflag, writable, pc, cif, framed,
                net, uplink, closed, requested, sent, answered>>

progVars == <<call, plan, made, returned>>
queryVars == <<query_active, conn_if, ifs, device_list>>
cifVars  == <<queue, busy, cif>>
vmVars   == <<net, uplink, closed, requested, sent, answered>>

ClientRest ==
    /\ plan \in Plans /\ made = 0
    /\ query_active = FALSE /\ conn_if = None
    /\ ifs = <<>> /\ device_list = <<>> /\ returned = <<>>
    /\ queue = [i \in Ifs |-> <<>>]
    /\ busy = [i \in Ifs |-> FALSE]
    /\ rxbufs = <<>> /\ txbufs = <<>> /\ txflag = FALSE
    /\ writable = FALSE /\ pc = "select" /\ cif = None
    /\ framed = TRUE
    /\ net = <<>> /\ uplink = <<>> /\ closed = FALSE
    /\ requested = [i \in Ifs |-> <<>>]
    /\ sent = [i \in Ifs |-> 0]
    /\ answered = [i \in Ifs |-> <<>>]

ClientInit == call = "next" /\ ClientRest

push_packet(pkts, pkt) == Append(pkts, pkt)

-----------------------------------------------------------------------------
(* The calls of the program.                                               *)

NextCall == plan[made + 1]

\* list() and _attach_int() up to the main loop.
BeginList ==
    /\ call = "next" /\ made < Len(plan) /\ NextCall = "list" /\ ~query_active
    /\ txbufs' = push_packet(txbufs, [conn |-> Query, type |-> "REQ_LIST", base |-> 0])
    /\ txflag' = TRUE
    /\ query_active' = TRUE
    /\ call' = "query" /\ pc' = "select"
    /\ UNCHANGED <<plan, made, returned, conn_if, ifs, device_list, cifVars, rxbufs,
                   writable, framed, vmVars>>

BeginAttach ==
    /\ call = "next" /\ made < Len(plan) /\ NextCall \in Ifs /\ ~query_active
    /\ txbufs' = push_packet(txbufs, [conn |-> Query, type |-> "REQ_CONN", cif |-> NextCall])
    /\ txflag' = TRUE
    /\ conn_if' = NextCall
    /\ query_active' = TRUE
    /\ call' = "query" /\ pc' = "select"
    /\ UNCHANGED <<plan, made, returned, ifs, device_list, cifVars, rxbufs,
                   writable, framed, vmVars>>

\* mainloop(-1).
BeginMainloop ==
    /\ call = "next" /\ made = Len(plan) /\ plan # <<"list">>
    /\ call' = "mainloop" /\ pc' = "select"
    /\ UNCHANGED <<plan, made, returned, queryVars, cifVars, rxbufs, txbufs, txflag,
                   writable, framed, vmVars>>

\* The connection is lost (mainloop_int() returns an error), KeyboardInterrupt
\* ends mainloop(), or all is done: the program detaches the last interface
\* and disconnects.  disconnect() drops what detach() has pushed.
Close ==
    /\ call' = "ended"
    /\ query_active' = FALSE /\ conn_if' = None
    /\ ifs' = <<>> /\ device_list' = <<>>
    /\ rxbufs' = <<>> /\ txbufs' = <<>>
    /\ UNCHANGED <<queue, busy, cif, writable, framed, vmVars>>

Interrupt ==
    /\ call = "mainloop"
    /\ Close
    /\ UNCHANGED <<plan, made, returned, txflag, pc>>

Done ==
    /\ call = "next" /\ made = Len(plan) /\ plan = <<"list">>
    /\ Close
    /\ UNCHANGED <<plan, made, returned, txflag, pc>>

-----------------------------------------------------------------------------
(* mainloop_int(): preparefds(), select(), processfds().                   *)

Looping == call \in {"query", "mainloop"} /\ framed

\* The first `many` packets that have arrived are read.
Read(many) ==
    /\ rxbufs' = rxbufs \o SubSeq(net, 1, many)
    /\ net' = SubSeq(net, many + 1, Len(net))

Select ==
    /\ Looping /\ pc = "select"
    /\ \E many \in 0 .. Len(net) : Read(many)
    /\ writable' \in IF txbufs # <<>> /\ txflag THEN BOOLEAN ELSE {FALSE}
    /\ txflag' = FALSE
    /\ pc' = "process"
    /\ UNCHANGED <<progVars, queryVars, cifVars, txbufs, framed, closed,
                   uplink, requested, sent, answered>>

\* recv() returns only the beginning of a packet.
SelectSplit ==
    /\ Looping /\ pc = "select" /\ net # <<>>
    /\ framed' = FALSE
    /\ UNCHANGED <<progVars, queryVars, cifVars, rxbufs, txbufs, txflag,
                   writable, pc, vmVars>>

\* recv() returns b'' or raises: what was read before it is not processed.
\* list() returns an empty list, _attach_int() None; the program ends.
SelectLost ==
    /\ Looping /\ pc = "select" /\ closed
    /\ Close
    /\ returned' = IF call = "query" /\ NextCall = "list" THEN <<>> ELSE returned
    /\ pc' = "select" /\ txflag' = FALSE
    /\ UNCHANGED <<plan, made>>

\* Mutant of ListResponse: the position counted in responses.
ListResponseCounted(pkt) ==
    /\ query_active /\ pkt.conn = Query /\ pkt.type = "RSP_LIST"
    /\ IF pkt.devices = <<>>
       THEN /\ query_active' = FALSE
            /\ UNCHANGED <<device_list, txbufs, txflag>>
       ELSE /\ device_list' = device_list \o pkt.devices
            /\ txbufs' = push_packet(txbufs, [conn |-> Query, type |-> "REQ_LIST",
                                              base |-> pkt.base + 1])
            /\ txflag' = TRUE
            /\ UNCHANGED query_active
    /\ pc' = "process"
    /\ UNCHANGED <<conn_if, ifs, cifVars>>

\* process_list_response(): an empty response is the last one.
ListResponse(pkt) ==
    /\ query_active /\ pkt.conn = Query /\ pkt.type = "RSP_LIST"
    /\ IF pkt.devices = <<>>
       THEN /\ query_active' = FALSE
            /\ UNCHANGED <<device_list, txbufs, txflag>>
       ELSE /\ device_list' = device_list \o pkt.devices
            /\ txbufs' = push_packet(txbufs, [conn |-> Query, type |-> "REQ_LIST",
                                       base |-> pkt.base + Len(pkt.devices)])
            /\ txflag' = TRUE
            /\ UNCHANGED query_active
    /\ pc' = "process"
    /\ UNCHANGED <<conn_if, ifs, cifVars>>

\* process_conn_response(): the virtual machine may refuse.
ConnResponse(pkt) ==
    /\ query_active /\ pkt.conn = Query /\ pkt.type = "RSP_CONN"
    /\ ifs' = IF pkt.accepted THEN Append(ifs, conn_if) ELSE ifs
    /\ query_active' = FALSE
    /\ pc' = "process"
    /\ UNCHANGED <<conn_if, device_list, cifVars, txbufs, txflag>>

ForInterface(pkt) ==
    /\ pkt.conn \in Range(ifs)
    /\ queue' = [queue EXCEPT ![pkt.conn] = Append(@, pkt)]
    /\ cif' = pkt.conn
    /\ pc' = "advance"
    /\ UNCHANGED <<queryVars, busy, txbufs, txflag>>

\* process_rxq() and process_packet() for the first packet read.  One that is
\* for no interface and answers no query is dropped; none is ever sent here.
ProcessPacket ==
    /\ Looping /\ pc = "process" /\ rxbufs # <<>>
    /\ rxbufs' = Tail(rxbufs)
    /\ LET pkt == Head(rxbufs) IN
       \/ ListResponse(pkt)
       \/ ConnResponse(pkt)
       \/ ForInterface(pkt)
    /\ UNCHANGED <<progVars, writable, framed, vmVars>>

NoMorePackets ==
    /\ Looping /\ pc = "process" /\ rxbufs = <<>>
    /\ pc' = "send"
    /\ UNCHANGED <<progVars, queryVars, cifVars, rxbufs, txbufs, txflag,
                   writable, framed, vmVars>>

-----------------------------------------------------------------------------
(* advance_if() of the client and of the interface classes.                *)

\* A stalled interface takes no packet of these types; every other packet
\* type is taken at once.
MayStall(type) == type \in {"UART_TX", "I2C_START", "I2C_WRITE", "I2C_READ", "SPI_TX"}
Waits(type)    == MayStall(type) \/ type = "I2C_STOP"

\* I2C_DONE after START and WRITE only when asked for, after READ always;
\* SPI_RX after every transfer.
WantsAnswer(r) == \/ r.type \in {"I2C_START", "I2C_WRITE"} /\ r.ack
                  \/ r.type \in {"I2C_READ", "SPI_TX"}

StopAdvancing ==
    /\ pc' = "process"
    /\ UNCHANGED <<queue, busy, txbufs, txflag>>

\* Mutant of Finish: the newest packet leaves the queue.
FinishNewest(pkt) ==
    /\ queue' = [queue EXCEPT ![cif] = Front(@)]
    /\ IF WantsAnswer(pkt)
       THEN /\ txbufs' = push_packet(txbufs, [conn |-> cif, type |-> "DONE", id |-> pkt.id])
            /\ txflag' = TRUE
       ELSE UNCHANGED <<txbufs, txflag>>
    /\ UNCHANGED <<busy, pc>>

\* The packet leaves the queue, with an answer when it wants one.
Finish(pkt) ==
    /\ queue' = [queue EXCEPT ![cif] = Tail(@)]
    /\ IF WantsAnswer(pkt)
       THEN /\ txbufs' = push_packet(txbufs, [conn |-> cif, type |-> "DONE", id |-> pkt.id])
            /\ txflag' = TRUE
       ELSE UNCHANGED <<txbufs, txflag>>
    /\ UNCHANGED <<busy, pc>>

\* The callback returns 0: nothing in the client clears `busy` again.
Stall ==
    /\ busy' = [busy EXCEPT ![cif] = TRUE]
    /\ pc' = "process"
    /\ UNCHANGED <<queue, txbufs, txflag>>

AdvanceIf ==
    /\ Looping /\ pc = "advance"
    /\ \/ queue[cif] = <<>> /\ StopAdvancing
       \/ /\ queue[cif] # <<>>
          /\ LET pkt == Head(queue[cif]) IN
             \/ busy[cif] /\ Waits(pkt.type) /\ StopAdvancing
             \/ /\ ~(busy[cif] /\ Waits(pkt.type))
                /\ \/ Finish(pkt)
                   \/ MayStall(pkt.type) /\ "part" \in Holds[cif] /\ StopAdvancing
                   \/ MayStall(pkt.type) /\ "stall" \in Holds[cif] /\ Stall
    /\ UNCHANGED <<progVars, queryVars, cif, rxbufs, writable, framed, vmVars>>

-----------------------------------------------------------------------------
(* The end of processfds(): send, and the test of the loop in              *)
(* mainloop_int().                                                         *)

\* Mutant of MaySend: a rest that is sent only when more is pushed.
MaySendWhenAsked == writable

\* What was pushed in this pass waits for the next select().
MaySend == writable \/ (txbufs # <<>> /\ ~txflag)

\* list() returns, or _attach_int() does.
Return ==
    /\ call' = "next"
    /\ made' = made + 1
    /\ IF NextCall = "list"
       THEN returned' = device_list /\ device_list' = <<>> /\ UNCHANGED conn_if
       ELSE conn_if' = None /\ UNCHANGED <<returned, device_list>>
    /\ UNCHANGED <<plan, query_active, ifs>>

\* The kernel takes any part of what is to be sent.
Send ==
    /\ Looping /\ pc = "send"
    /\ \E many \in IF MaySend THEN 0 .. Len(txbufs) ELSE {0} :
          /\ uplink' = uplink \o SubSeq(txbufs, 1, many)
          /\ txbufs' = SubSeq(txbufs, many + 1, Len(txbufs))
    /\ pc' = "select"
    /\ IF call = "query" /\ ~query_active THEN Return
                                          ELSE UNCHANGED <<progVars, queryVars>>
    /\ UNCHANGED <<cifVars, rxbufs, txflag, writable, framed, net, closed,
                   requested, sent, answered>>

ClientStep == \/ BeginList \/ BeginAttach \/ BeginMainloop \/ Interrupt \/ Done
              \/ Select \/ SelectSplit \/ SelectLost
              \/ ProcessPacket \/ NoMorePackets \/ AdvanceIf \/ Send

-----------------------------------------------------------------------------
(* The virtual machine.                                                    *)

clientSide == <<progVars, queryVars, cifVars, rxbufs, txbufs, txflag,
                writable, pc, framed>>

\* It answers the packets of the client in their order: a page of the device
\* list, empty at its end; a connection accepted or refused.
VmTakes ==
    /\ uplink # <<>>
    /\ uplink' = Tail(uplink)
    /\ LET pkt == Head(uplink) IN
       \/ /\ pkt.type = "DONE"
          /\ answered' = [answered EXCEPT ![pkt.conn] = Append(@, pkt.id)]
          /\ UNCHANGED net
       \/ /\ pkt.type = "REQ_LIST"
          /\ \E last \in pkt.base .. Len(Listed) :
                /\ last = pkt.base => last = Len(Listed)
                /\ net' = Append(net, [conn |-> Query, type |-> "RSP_LIST",
                                       base |-> pkt.base,
                                       devices |-> SubSeq(Listed, pkt.base + 1, last)])
          /\ UNCHANGED answered
       \/ /\ pkt.type = "REQ_CONN"
          /\ \E accepted \in BOOLEAN :
                net' = Append(net, [conn |-> Query, type |-> "RSP_CONN",
                                    cif |-> pkt.cif, accepted |-> accepted])
          /\ UNCHANGED answered
    /\ UNCHANGED <<clientSide, closed, requested, sent>>

\* It has accepted a connection to interface i.
Opened(i) == \/ i \in Range(ifs)
             \/ \E k \in DOMAIN (rxbufs \o net) :
                   LET pkt == (rxbufs \o net)[k]
                   IN  pkt.type = "RSP_CONN" /\ pkt.cif = i /\ pkt.accepted

\* An access of the guest to the device.
VmRequests ==
    /\ ~closed /\ call \in {"next", "query", "mainloop"}
    /\ \E i \in Ifs : \E r \in Requests[i] :
          /\ Opened(i) /\ sent[i] < MaxRequests
          /\ sent' = [sent EXCEPT ![i] = @ + 1]
          /\ net' = Append(net, [conn |-> i, type |-> r.type, ack |-> r.ack,
                                 id |-> sent'[i]])
          /\ requested' = IF WantsAnswer(r)
                          THEN [requested EXCEPT ![i] = Append(@, sent'[i])]
                          ELSE requested
    /\ UNCHANGED <<clientSide, uplink, closed, answered>>

VmCloses ==
    /\ ~closed /\ call \in {"next", "query", "mainloop"}
    /\ closed' = TRUE
    /\ UNCHANGED <<clientSide, net, uplink, requested, sent, answered>>

ClientNext == ClientStep \/ VmTakes \/ VmRequests \/ VmCloses

-----------------------------------------------------------------------------
(* Fairness.  The program runs; what has been sent arrives in the end, and *)
(* the kernel takes what is to be sent in the end.  Nobody need interrupt  *)
(* or close, or cut a packet in two.                                       *)

ReceiveSome == Select /\ rxbufs' # rxbufs
SendSome    == Send /\ txbufs' # txbufs

ClientFairness ==
    /\ WF_clientVars(BeginList \/ BeginAttach \/ BeginMainloop \/ Done)
    /\ WF_clientVars(Select \/ ProcessPacket \/ NoMorePackets \/ AdvanceIf \/ Send)
    /\ SF_clientVars(ReceiveSome)
    /\ SF_clientVars(SendSome)
    /\ WF_clientVars(VmTakes)

-----------------------------------------------------------------------------
(* Properties.                                                             *)

\* The answers of interface i, and the requests they answer.
AnswerOf(i) == [conn : {i}, type : {"DONE"}, id : Nat]
Ids(s)      == [k \in DOMAIN s |-> s[k].id]

\* Whatever stalls, arrives in pieces or is half sent, an interface answers
\* requests in their order and none twice: what the virtual machine has got
\* from it, and what is under way, is a beginning of what was asked of it
\* (advance_if of the classes, process_rxq, processfds).
AnswersInOrder ==
    \A i \in Ifs :
        IsPrefix(answered[i] \o Ids(Selected(uplink \o txbufs, AnswerOf(i))),
                 requested[i])

\* list() returns every device once and in order, or nothing when the
\* connection is lost, however the virtual machine pages its answer
\* (process_list_response).
ListIsWhole == returned \in {<<>>, Listed}

GaveUp == call = "ended" \/ closed \/ ~framed

\* A call that waits for the virtual machine returns; and an interface whose
\* callbacks hold nothing up answers every request, whatever the other
\* interfaces of the connection do (mainloop_int, processfds, advance_if).
Served ==
    /\ call = "query" ~> (call # "query" \/ GaveUp)
    /\ \A i \in Ifs : Holds[i] = {} =>
          \A n \in 1 .. MaxRequests :
              Len(requested[i]) >= n ~> (Len(answered[i]) >= n \/ GaveUp)
=============================================================================
