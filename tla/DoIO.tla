-------------------------------- MODULE DoIO --------------------------------
(***************************************************************************)
(* The I/O engine of lib/isc/unix/socket.c: what one call of doio_recv or  *)
(* doio_send does with the kernel's answer, and the loop of internal_recv  *)
(* and internal_send that drains a socket's request list.                  *)
(*                                                                         *)
(* Bytes, buffers and iovecs are abstracted away: a kernel answer says     *)
(* only whether the call failed (and with which class of errno), read     *)
(* nothing, or moved too few or enough bytes for the request at the head.  *)
(***************************************************************************)
EXTENDS Sequences

(* Kernel answers to one recvmsg() or sendmsg(), classes of (cc, errno):   *)
(*   "again"   cc < 0, SOFT_ERROR(errno): EAGAIN, EWOULDBLOCK, EINTR, 0    *)
(*   "refused" cc < 0, ECONNREFUSED; ENETUNREACH and EHOSTUNREACH take     *)
(*             the same SOFT_OR_HARD branch with another result code       *)
(*   "nobufs"  cc < 0, ENOBUFS                                             *)
(*   "other"   cc < 0, any other errno                                     *)
(*   "zero"    cc = 0                                                      *)
(*   "short"   cc > 0, fewer bytes than the request still needs            *)
(*   "full"    cc > 0, the request is satisfied                            *)
KernelAnswers == {"again", "refused", "nobufs", "other", "zero", "short", "full"}

Keep   == "keep"   \* the sticky result is left alone
NoPost == "none"   \* no completion event is sent

(* ret is the DOIO_* code, post the result carried by the completion event *)
(* the call sends (NoPost if none), sticky the new recv_/send_result.      *)
Outcome(ret, post, sticky) == [ret |-> ret, post |-> post, sticky |-> sticky]

DoioSoft == Outcome("SOFT", NoPost, Keep)

(* The SOFT_OR_HARD macro: a network error is reported only on a socket    *)
(* marked connected, and becomes sticky only on a stream socket.           *)
SoftOrHard(type, connected, code) ==
    IF connected
    THEN Outcome("HARD", code, IF type = "tcp" THEN code ELSE Keep)
    ELSE DoioSoft

(* Mutation: doio_recv setting the sticky result on an unexpected errno   *)
(* but leaving the event's result at success.                             *)
doio_recv_result_lost(type, connected, k) ==
    CASE k = "again"   -> DoioSoft
      [] k = "refused" -> SoftOrHard(type, connected, "ConnRefused")
      [] k = "nobufs"  -> Outcome("HARD", "NoResources", Keep)
      [] k = "other"   -> Outcome("SUCCESS", "Success", "Unexpected")
      [] k = "zero"    -> IF type = "tcp" THEN Outcome("EOF", NoPost, "EOF")
                                          ELSE DoioSoft
      [] k = "short"   -> IF type = "tcp" THEN DoioSoft
                                          ELSE Outcome("SUCCESS", "Success", Keep)
      [] k = "full"    -> Outcome("SUCCESS", "Success", Keep)

(* Mutation: doio_recv posting a stream read as soon as any byte came.    *)
doio_recv_partial_posted(type, connected, k) ==
    CASE k = "again"   -> DoioSoft
      [] k = "refused" -> SoftOrHard(type, connected, "ConnRefused")
      [] k = "nobufs"  -> Outcome("HARD", "NoResources", Keep)
      [] k = "other"   -> Outcome("SUCCESS", "Unexpected", "Unexpected")
      [] k = "zero"    -> IF type = "tcp" THEN Outcome("EOF", NoPost, "EOF")
                                          ELSE DoioSoft
      [] k \in {"short", "full"} -> Outcome("SUCCESS", "Success", Keep)

(* doio_recv.  A zero-length read is EOF on a stream; on a datagram it     *)
(* leaves n < minimum = 1 and is soft.  A datagram is complete after any   *)
(* positive read (minimum is forced to 1).  Any other errno sets the       *)
(* sticky result and returns DOIO_SUCCESS, whatever the socket type.       *)
doio_recv(type, connected, k) ==
    CASE k = "again"   -> DoioSoft
      [] k = "refused" -> SoftOrHard(type, connected, "ConnRefused")
      [] k = "nobufs"  -> Outcome("HARD", "NoResources", Keep)
      [] k = "other"   -> Outcome("SUCCESS", "Unexpected", "Unexpected")
      [] k = "zero"    -> IF type = "tcp" THEN Outcome("EOF", NoPost, "EOF")
                                          ELSE DoioSoft
      [] k = "short"   -> IF type = "tcp" THEN DoioSoft
                                          ELSE Outcome("SUCCESS", "Success", Keep)
      [] k = "full"    -> Outcome("SUCCESS", "Success", Keep)

(* doio_send.  A short or zero-byte write leaves cc # write_count: soft.   *)
(* Any other errno sets the sticky send_result on either socket type.      *)
doio_send(type, connected, k) ==
    CASE k \in {"again", "zero", "short"} -> DoioSoft
      [] k = "refused" -> SoftOrHard(type, connected, "ConnRefused")
      [] k = "nobufs"  -> Outcome("HARD", "NoResources", Keep)
      [] k = "other"   -> Outcome("HARD", "Unexpected", "Unexpected")
      [] k = "full"    -> Outcome("SUCCESS", "Success", Keep)

doio(dir, type, connected, k) ==
    IF dir = "recv" THEN doio_recv(type, connected, k)
                    ELSE doio_send(type, connected, k)

NewSticky(res, out) == IF out.sticky = Keep THEN res ELSE out.sticky

(* A completion: the request (a record with id, task, mark, attached) and  *)
(* the result its done event carries.                                      *)
Done(dev, status) == [dev |-> dev, status |-> status]

(* The loop of internal_recv / internal_send over the list q, with sticky  *)
(* result res and the kernel's answers ks to the successive doio calls.    *)
(* A marker, or any request once res is not Success, completes with res;   *)
(* a soft answer ends the loop; EOF completes every queued request with    *)
(* EOF.  The value is the list left, the sticky result and the sequence of *)
(* completions in the order their events are sent.                         *)
RECURSIVE Drain(_, _, _, _, _, _)
Drain(dir, type, connected, q, res, ks) ==
    IF q = <<>> THEN [q |-> q, res |-> res, done |-> <<>>]
    ELSE LET dev == Head(q) IN
      IF dev.mark \/ res # "Success"
      THEN LET r == Drain(dir, type, connected, Tail(q), res, ks)
           IN  [r EXCEPT !.done = <<Done(dev, res)>> \o @]
      ELSE LET out == doio(dir, type, connected, Head(ks)) IN
        CASE out.ret = "SOFT" -> [q |-> q, res |-> res, done |-> <<>>]
          [] out.ret = "EOF"  -> [q |-> <<>>, res |-> out.sticky,
                                  done |-> [i \in DOMAIN q |-> Done(q[i], "EOF")]]
          [] OTHER -> LET r == Drain(dir, type, connected, Tail(q),
                                     NewSticky(res, out), Tail(ks))
                      IN  [r EXCEPT !.done = <<Done(dev, out.post)>> \o @]
=============================================================================
