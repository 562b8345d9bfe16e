------------------------------- MODULE MsgHdr -------------------------------
(***************************************************************************)
(* The byte accounting of the I/O engine of lib/isc/unix/socket.c:        *)
(* build_msghdr_recv and build_msghdr_send, which turn a request's region  *)
(* or buffer list into an iovec array; what doio_recv and doio_send do     *)
(* once the kernel has moved cc bytes; and process_cmsg.                   *)
(*                                                                         *)
(* Memory is abstracted to lengths and offsets.  A buffer is its length    *)
(* and its used count.  A request is its socket type, its region length    *)
(* (used when bufs = <<>>, the single-buffer case), its buffer list, the   *)
(* bytes n moved so far and its minimum.  An iovec names the buffer it     *)
(* points into (0 for the region, Overflow for the socket's overflow       *)
(* byte), the offset in it and the length.                                 *)
(***************************************************************************)
EXTENDS DoIO, Integers, FiniteSetsExt
LOCAL INSTANCE SequencesExt

Overflow == -1

Iov(buf, off, len) == [buf |-> buf, off |-> off, len |-> len]

(* ISC_BUFFER_AVAILABLECOUNT and ISC_BUFFER_USEDCOUNT (isc/buffer.h).      *)
Available(b) == b.length - b.used

IovTotal(iov) == FoldLeft(LAMBDA acc, v : acc + v.len, 0, iov)

(* MAXSCATTERGATHER_RECV: one more iovec than ISC_SOCKET_MAXSCATTERGATHER  *)
(* when ISC_NET_RECVOVERFLOW asks for the overflow byte.                   *)
MaxIovRecv(maxsg, recvoverflow) == IF recvoverflow THEN maxsg + 1 ELSE maxsg

(* The first buffer of the list with room: build_msghdr_recv skips the     *)
(* full ones at the head.                                                  *)
FirstWithRoom(bufs) ==
    LET s == {i \in DOMAIN bufs : Available(bufs[i]) # 0} IN IF s = {} THEN Len(bufs) + 1 ELSE Min(s)

(* The multibuffer loop of build_msghdr_recv from buffer i, with the       *)
(* iovecs built so far (iovcount = Len(iov)).  INSIST(iovcount < maxiov)   *)
(* is checked for every buffer left, whether it has room or not.           *)
RECURSIVE RecvIovs(_, _, _, _)
RecvIovs(bufs, i, maxiov, iov) ==
    IF i > Len(bufs) THEN [iov |-> iov, insist |-> FALSE]
    ELSE IF Len(iov) >= maxiov THEN [iov |-> iov, insist |-> TRUE]
    ELSE RecvIovs(bufs, i + 1, maxiov,
                  IF Available(bufs[i]) > 0
                  THEN Append(iov, Iov(i, bufs[i].used, Available(bufs[i])))
                  ELSE iov)

(* Mutation: the single-buffer case restarting at the region's start      *)
(* instead of skipping the n bytes already moved.                         *)
RegionIovFromStart(req) == Iov(0, 0, req.length)

(* The single-buffer case of build_msghdr_recv and build_msghdr_send:     *)
(* skip what was done so far in the region.                               *)
RegionIov(req) == Iov(0, req.n, req.length - req.n)

(* Mutation: the overflow iovec added without stealing its slot.          *)
RecvSlotsNoSteal(req, maxiov, recvoverflow) == maxiov

(* The iovecs build_msghdr_recv may fill with data: a datagram socket     *)
(* steals one (maxiov--) for the overflow byte.                           *)
RecvSlots(req, maxiov, recvoverflow) ==
    IF req.type = "udp" /\ recvoverflow THEN maxiov - 1 ELSE maxiov

(* build_msghdr_recv: the single-buffer case is the rest of the region;   *)
(* the multibuffer case skips the full buffers at the head and takes the  *)
(* available part of every later buffer that has room; a datagram gets    *)
(* the overflow byte's iovec last.  read_count is the room, not counting  *)
(* the overflow byte.                                                      *)
build_msghdr_recv(req, maxiov, recvoverflow) ==
    LET body == IF req.bufs = <<>>
                THEN [iov |-> <<RegionIov(req)>>, insist |-> FALSE]
                ELSE RecvIovs(req.bufs, FirstWithRoom(req.bufs),
                              RecvSlots(req, maxiov, recvoverflow), <<>>)
        ovf  == IF req.type = "udp" /\ recvoverflow THEN <<Iov(Overflow, 0, 1)>> ELSE <<>>
    IN  [iov |-> body.iov \o ovf, read_count |-> IovTotal(body.iov), insist |-> body.insist]

(* The skip loop of build_msghdr_send: the first buffer whose used data is *)
(* not all sent yet, and how many of its bytes were.                       *)
RECURSIVE SendSkip(_, _, _)
SendSkip(bufs, i, skip) ==
    IF i > Len(bufs) \/ skip < bufs[i].used THEN [i |-> i, skip |-> skip]
    ELSE SendSkip(bufs, i + 1, skip - bufs[i].used)

(* Mutation: the first iovec's length not reduced by skip_count.          *)
RECURSIVE SendIovsWholeBuffer(_, _, _, _, _)
SendIovsWholeBuffer(bufs, i, skip, maxiov, iov) ==
    IF i > Len(bufs) THEN [iov |-> iov, skip |-> skip, insist |-> FALSE]
    ELSE IF Len(iov) >= maxiov THEN [iov |-> iov, skip |-> skip, insist |-> TRUE]
    ELSE IF bufs[i].used > 0
         THEN SendIovsWholeBuffer(bufs, i + 1, 0, maxiov, Append(iov, Iov(i, skip, bufs[i].used)))
         ELSE SendIovsWholeBuffer(bufs, i + 1, skip, maxiov, iov)

(* The iovec loop of build_msghdr_send: the used part of each buffer left, *)
(* the first one from skip_count on, then skip_count = 0.                  *)
RECURSIVE SendIovs(_, _, _, _, _)
SendIovs(bufs, i, skip, maxiov, iov) ==
    IF i > Len(bufs) THEN [iov |-> iov, skip |-> skip, insist |-> FALSE]
    ELSE IF Len(iov) >= maxiov THEN [iov |-> iov, skip |-> skip, insist |-> TRUE]
    ELSE IF bufs[i].used > 0
         THEN SendIovs(bufs, i + 1, 0, maxiov, Append(iov, Iov(i, skip, bufs[i].used - skip)))
         ELSE SendIovs(bufs, i + 1, skip, maxiov, iov)

(* build_msghdr_send, ending with INSIST(skip_count == 0).                 *)
build_msghdr_send(req, maxiov) ==
    IF req.bufs = <<>>
    THEN [iov |-> <<RegionIov(req)>>, write_count |-> req.length - req.n, insist |-> FALSE]
    ELSE LET s == SendSkip(req.bufs, 1, req.n)
             r == SendIovs(req.bufs, s.i, s.skip, maxiov, <<>>)
         IN  [iov |-> r.iov, write_count |-> IovTotal(r.iov), insist |-> r.insist \/ r.skip # 0]

(* Mutation: process_cmsg not looking at msg_flags.                        *)
process_cmsg_noflags(msgflags, cmsgs) == {a \in {"PKTINFO", "TIMESTAMP"} : a \in cmsgs}

(* process_cmsg: the attribute bits a received datagram's msg_flags and    *)
(* control messages add to the event.  A cmsg is named by its kind; the    *)
(* pktinfo and timestamp values it copies into the event are abstracted.   *)
process_cmsg(msgflags, cmsgs) ==
    (msgflags \cap {"TRUNC", "CTRUNC"})
    \cup {a \in {"PKTINFO", "TIMESTAMP"} : a \in cmsgs}

(* The update loop of doio_recv: the buffers from the head take the cc     *)
(* bytes in order, each as much as it has room for.  When the last buffer  *)
(* is reached with bytes left, INSIST(actual_count == 0) fails.            *)
RECURSIVE FillBuffers(_, _, _)
FillBuffers(bufs, i, count) ==
    IF i > Len(bufs) \/ count = 0 THEN [bufs |-> bufs, insist |-> FALSE]
    ELSE LET a == Available(bufs[i]) IN
      IF a > count
      THEN [bufs |-> [bufs EXCEPT ![i].used = @ + count], insist |-> FALSE]
      ELSE LET full == [bufs EXCEPT ![i].used = @ + a] IN
        IF i = Len(bufs) THEN [bufs |-> full, insist |-> count - a # 0]
        ELSE FillBuffers(full, i + 1, count - a)

(* doio_recv once recvmsg() has returned cc >= 0 bytes with msg_flags and  *)
(* control messages cmsgs, for the read_count build_msghdr_recv computed:  *)
(* EOF on a stream that read nothing; the overflow byte taken off and      *)
(* TRUNC set; process_cmsg on a datagram; dev->n and the buffers advanced; *)
(* then SOFT when fewer bytes than read_count came and n is below minimum, *)
(* else the done event is posted with success.                             *)
doio_recv_bytes(req, read_count, recvoverflow, cc, msgflags, cmsgs) ==
    IF req.type = "tcp" /\ cc = 0
    THEN [ret |-> "EOF", req |-> req, attrs |-> {}, insist |-> FALSE]
    ELSE LET over  == req.type = "udp" /\ recvoverflow /\ cc > read_count
             kept  == IF over THEN cc - 1 ELSE cc
             attrs == (IF over THEN {"TRUNC"} ELSE {})
                      \cup (IF req.type = "udp" THEN process_cmsg(msgflags, cmsgs) ELSE {})
             fill  == FillBuffers(req.bufs, 1, kept)
             next  == [req EXCEPT !.n = @ + kept, !.bufs = fill.bufs]
         IN  [ret    |-> IF kept # read_count /\ next.n < req.minimum THEN "SOFT" ELSE "SUCCESS",
              req    |-> next,
              attrs  |-> attrs,
              insist |-> fill.insist]

(* doio_send once sendmsg() has returned cc >= 0 for the write_count       *)
(* build_msghdr_send computed: n advanced; SOFT unless all went out.       *)
doio_send_bytes(req, write_count, cc) ==
    [ret |-> IF cc # write_count THEN "SOFT" ELSE "SUCCESS",
     req |-> [req EXCEPT !.n = @ + cc]]

(***************************************************************************)
(* The kernel, as recvmsg(2) and sendmsg(2) describe it.  A stream read    *)
(* with d bytes queued (d = 0: the peer has closed) and a datagram of d    *)
(* bytes both fill the iovecs in order with as many bytes as fit; a        *)
(* datagram longer than the iovecs is cut and flagged MSG_TRUNC.           *)
(***************************************************************************)
FlatIov(iov) ==
    FoldLeft(LAMBDA acc, v : acc \o [k \in 1..v.len |-> <<v.buf, v.off + k - 1>>], <<>>, iov)

KernelWrites(iov, cc) == ToSet(SubSeq(FlatIov(iov), 1, cc))

KernelRecvFlags(type, iov, d) == IF type = "udp" /\ d > IovTotal(iov) THEN {"TRUNC"} ELSE {}

(* One doio_recv of request req with d bytes offered by the kernel.        *)
RecvStep(req, maxsg, recvoverflow, d) ==
    LET msg == build_msghdr_recv(req, MaxIovRecv(maxsg, recvoverflow), recvoverflow)
        cc  == Min({d, IovTotal(msg.iov)})
    IN  [msg |-> msg, cc |-> cc,
         out |-> doio_recv_bytes(req, msg.read_count, recvoverflow, cc,
                                 KernelRecvFlags(req.type, msg.iov, d), {})]

(***************************************************************************)
(* The requests the API creates.  A buffer is [length, used]; a region     *)
(* request has bufs = <<>>.  isc_socket_recv requires length >= minimum,   *)
(* isc_socket_recvv a list with room; a datagram's minimum is forced to 1, *)
(* a stream's minimum 0 means the whole room.  isc_socket_sendv requires   *)
(* a list with data.                                                       *)
(***************************************************************************)
BufferLists(maxlen, maxbufs) ==
    UNION {[1..k -> {b \in [length : 0..maxlen, used : 0..maxlen] : b.used <= b.length}]
           : k \in 1..maxbufs}

ListRoom(bufs) == FoldLeft(LAMBDA acc, b : acc + Available(b), 0, bufs)
ListData(bufs) == FoldLeft(LAMBDA acc, b : acc + b.used, 0, bufs)

RecvMinimum(type, m, room) == IF type = "udp" THEN 1 ELSE IF m = 0 THEN room ELSE m

NewRecvs(maxlen, maxbufs) ==
    UNION {{[type |-> t, length |-> l, bufs |-> <<>>, n |-> 0, minimum |-> RecvMinimum(t, m, l)]
              : m \in 0..l} : t \in {"tcp", "udp"}, l \in 0..maxlen}
    \cup UNION {{[type |-> t, length |-> 0, bufs |-> bl, n |-> 0, minimum |-> RecvMinimum(t, m, ListRoom(bl))]
                  : m \in 0..ListRoom(bl) + 1}
                 : t \in {"tcp", "udp"}, bl \in {x \in BufferLists(maxlen, maxbufs) : ListRoom(x) > 0}}

(* The recv requests doio_recv can meet: new ones, and those a soft read    *)
(* left on the queue.                                                      *)
RecvRequests(maxlen, maxbufs, maxsg, recvoverflow) ==
    LET new  == NewRecvs(maxlen, maxbufs)
        soft == {st \in {RecvStep(r, maxsg, recvoverflow, d) : r \in new, d \in 0..maxlen * maxbufs + 2}
                   : st.out.ret = "SOFT" /\ ~st.msg.insist /\ ~st.out.insist}
    IN  new \cup {st.out.req : st \in soft}

NewSends(maxlen, maxbufs) ==
    {[length |-> l, bufs |-> <<>>, n |-> 0] : l \in 0..maxlen}
    \cup {[length |-> 0, bufs |-> bl, n |-> 0]
           : bl \in {x \in BufferLists(maxlen, maxbufs) : ListData(x) > 0}}

(* One doio_send of request req, the kernel taking cc of the bytes offered. *)
SendStep(req, maxsg, cc) ==
    LET msg == build_msghdr_send(req, maxsg)
    IN  [msg |-> msg, out |-> doio_send_bytes(req, msg.write_count, cc)]

SendRequests(maxlen, maxbufs, maxsg) ==
    LET new  == NewSends(maxlen, maxbufs)
        soft == {st \in UNION {{SendStep(r, maxsg, cc) : cc \in 0..build_msghdr_send(r, maxsg).write_count}
                                : r \in new}
                   : st.out.ret = "SOFT" /\ ~st.msg.insist}
    IN  new \cup {st.out.req : st \in soft}

(* The bytes of a recv request the code counts as received by a step from  *)
(* req to next: the region past n, or the buffers' newly used parts.       *)
Accounted(req, next) ==
    IF req.bufs = <<>> THEN {<<0, p>> : p \in req.n .. next.n - 1}
    ELSE UNION {{<<i, p>> : p \in req.bufs[i].used .. next.bufs[i].used - 1} : i \in DOMAIN req.bufs}

(* The bytes of a send request, in the order they must go out.            *)
SendBytes(req) ==
    IF req.bufs = <<>> THEN FlatIov(<<Iov(0, 0, req.length)>>)
    ELSE FlatIov([i \in DOMAIN req.bufs |-> Iov(i, 0, req.bufs[i].used)])

(* The class of kernel answer (DoIO's KernelAnswers) a byte-level recv or  *)
(* send step belongs to.                                                   *)
RecvClass(req, st) ==
    CASE st.cc = 0 /\ (req.type = "tcp" \/ st.msg.read_count > 0) -> "zero"
      [] st.out.req.n - req.n = st.msg.read_count \/ st.out.req.n >= req.minimum -> "full"
      [] OTHER -> "short"

SendClass(msg, cc) ==
    CASE cc = msg.write_count -> "full" [] cc = 0 -> "zero" [] OTHER -> "short"

(***************************************************************************)
(* Properties, for the requests of one socket type built from buffers of up to maxlen bytes,      *)
(* lists of up to maxbufs buffers and ISC_SOCKET_MAXSCATTERGATHER = maxsg, *)
(* under both settings of ISC_NET_RECVOVERFLOW.                            *)
(***************************************************************************)

(* build_msghdr_recv never writes past iov[MAXSCATTERGATHER_RECV - 1]: the *)
(* overflow iovec of a datagram goes in the slot stolen for it ("we know   *)
(* there is at least one iov left, since we stole it").                    *)
RecvIovecsWithinArray(type, maxlen, maxbufs, maxsg) ==
    \A ovf \in BOOLEAN : \A r \in RecvRequests(maxlen, maxbufs, maxsg, ovf) : r.type = type =>
        LET msg == build_msghdr_recv(r, MaxIovRecv(maxsg, ovf), ovf)
        IN  ~msg.insist => Len(msg.iov) <= MaxIovRecv(maxsg, ovf)

(* The bytes doio_recv counts as received, by advancing dev->n or the      *)
(* buffers' used counts, are exactly the bytes the kernel wrote through     *)
(* the iovecs build_msghdr_recv made, the overflow byte aside, and the     *)
(* update loop never runs off the end of the list.                         *)
RecvKeepsWhatKernelWrote(type, maxlen, maxbufs, maxsg) ==
    \A ovf \in BOOLEAN : \A r \in RecvRequests(maxlen, maxbufs, maxsg, ovf) : r.type = type =>
      \A d \in 0..maxlen * maxbufs + 2 :
        LET st == RecvStep(r, maxsg, ovf, d) IN
        ~st.msg.insist /\ st.out.ret # "EOF" =>
            /\ ~st.out.insist
            /\ KernelWrites(st.msg.iov, st.cc) \ {<<Overflow, 0>>} = Accounted(r, st.out.req)
            /\ st.out.req.n - r.n = Cardinality(Accounted(r, st.out.req))

(* doio_recv on a datagram of d > 0 bytes completes the request with the   *)
(* bytes that fit, and with TRUNC exactly when it did not fit, whether the *)
(* overflow byte or MSG_TRUNC tells.  Empty datagrams are left out: the    *)
(* comment at socket.c:748 calls them valid, and the code at 806 treats    *)
(* them as soft, so no rule is stated for them here.                       *)
DatagramDelivered(maxlen, maxbufs, maxsg) ==
    \A ovf \in BOOLEAN : \A r \in RecvRequests(maxlen, maxbufs, maxsg, ovf) : r.type = "udp" =>
      \A d \in 1..maxlen * maxbufs + 2 :
        LET st == RecvStep(r, maxsg, ovf, d)
            rc == st.msg.read_count
        IN  ~st.msg.insist =>
              /\ st.out.ret = "SUCCESS"
              /\ st.out.req.n = Min({d, rc})
              /\ ("TRUNC" \in st.out.attrs <=> d > rc)

(* build_msghdr_send, on a request n of whose bytes are out, offers the    *)
(* kernel exactly the bytes not sent yet, in order.                        *)
SendResumesAfterSent(maxlen, maxbufs, maxsg) ==
    \A r \in SendRequests(maxlen, maxbufs, maxsg) :
        LET msg == build_msghdr_send(r, maxsg)
        IN  ~msg.insist => FlatIov(msg.iov) = SubSeq(SendBytes(r), r.n + 1, Len(SendBytes(r)))

(* The table of DoIO, which SocketIO uses for one call of doio_recv or     *)
(* doio_send, gives the DOIO_* code the byte-level code returns for every  *)
(* step in which the kernel moved cc >= 0 bytes.                           *)
DoIOAbstractsBytes(type, maxlen, maxbufs, maxsg) ==
    /\ \A ovf \in BOOLEAN : \A r \in RecvRequests(maxlen, maxbufs, maxsg, ovf) : r.type = type =>
         \A d \in 0..maxlen * maxbufs + 2 :
           LET st == RecvStep(r, maxsg, ovf, d)
           IN  ~st.msg.insist => doio_recv(r.type, TRUE, RecvClass(r, st)).ret = st.out.ret
    /\ \A r \in SendRequests(maxlen, maxbufs, maxsg) :
         LET msg == build_msghdr_send(r, maxsg)
         IN  \A cc \in 0..msg.write_count :
               ~msg.insist => doio_send(type, TRUE, SendClass(msg, cc)).ret
                                = SendStep(r, maxsg, cc).out.ret
=============================================================================
