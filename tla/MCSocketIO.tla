----------------------------- MODULE MCSocketIO -----------------------------
(***************************************************************************)
(* Model of SocketIO for TLC: two descriptors, two tasks, both socket      *)
(* types, and the kernel answers that take each branch of the I/O engine.  *)
(***************************************************************************)
EXTENDS SocketIO, MsgHdr, TLC

CONSTANTS t1, t2, all

MCTasks == {t1, t2}

(* One kernel answer for each distinct path of doio_recv and doio_send:    *)
(* "short" on a stream behaves as "again", on a datagram as "full", and    *)
(* "nobufs" as "full" but for the result it carries, which no property     *)
(* of this run compares.                                                   *)
MCRecvAnswers == {"again", "refused", "other", "zero", "full"}
MCSendAnswers == {"again", "refused", "other", "full"}

(* The byte accounting of MsgHdr is checked over buffers of up to 2      *)
(* bytes, lists of up to 3 buffers and ISC_SOCKET_MAXSCATTERGATHER = 2:    *)
(* enough for a list longer than the iovec array, a buffer left partly     *)
(* filled by a short read, a datagram longer than the room, and a stream   *)
(* region read in two steps.                                              *)
MCMaxLen  == 2
MCMaxBufs == 3
MCMaxSG   == 2

(* The byte-level checks, evaluated once for each socket type.            *)
MCTypes == {"tcp", "udp"}
RecvIovecsHold  == [t \in MCTypes |-> RecvIovecsWithinArray(t, MCMaxLen, MCMaxBufs, MCMaxSG)]
RecvKeepsHold   == [t \in MCTypes |-> RecvKeepsWhatKernelWrote(t, MCMaxLen, MCMaxBufs, MCMaxSG)]
DatagramsHold   == DatagramDelivered(MCMaxLen, MCMaxBufs, MCMaxSG)
SendResumeHolds == SendResumesAfterSent(MCMaxLen, MCMaxBufs, MCMaxSG)
DoIOTableHolds  == [t \in MCTypes |-> DoIOAbstractsBytes(t, MCMaxLen, MCMaxBufs, MCMaxSG)]

(* For every live socket, build_msghdr_recv on any request of its type     *)
(* stays inside its iovec array, the overflow slot included.               *)
MCRecvIovecsWithinArray == \A f \in Fds : Live(f) => RecvIovecsHold[sock[f].type]

(* For every live socket, doio_recv counts as received exactly the bytes   *)
(* the kernel wrote through the iovecs, on any request of its type.        *)
MCRecvKeepsWhatKernelWrote == \A f \in Fds : Live(f) => RecvKeepsHold[sock[f].type]

(* For every live datagram socket, a datagram is delivered with the bytes  *)
(* that fit and TRUNC exactly when it was cut.                             *)
MCDatagramDelivered == \A f \in Fds : Live(f) /\ sock[f].type = "udp" => DatagramsHold

(* For every live socket, build_msghdr_send after a short write offers     *)
(* exactly the bytes not yet sent, in order.                               *)
MCSendResumesAfterSent == \A f \in Fds : Live(f) => SendResumeHolds

(* For every live socket, the DoIO table the model of its request lists    *)
(* uses returns what the byte-level doio_recv and doio_send return.        *)
MCDoIOAbstractsBytes == \A f \in Fds : Live(f) => DoIOTableHolds[sock[f].type]

(* The symmetry of the two tasks: no action names a task but by \E.        *)
TaskSymmetry == Permutations(MCTasks)
=============================================================================
