------------------------------ MODULE SocketIO ------------------------------
(***************************************************************************)
(* The asynchronous socket subsystem of lib/isc/unix/socket.c: the socket  *)
(* manager's descriptor table and select() bitmaps, the control pipe, the  *)
(* watcher thread, the per-socket request lists and flags, the API calls   *)
(* that post requests, and the internal events that the watcher sends to   *)
(* the tasks, which run internal_recv, internal_send and internal_connect. *)
(*                                                                         *)
(* Every API call and every internal handler runs under the socket's lock  *)
(* and is one step.  The watcher holds the manager lock from the moment    *)
(* select() returns until it calls select() again, and takes one step per  *)
(* control message and per descriptor it scans, so API calls (which take   *)
(* only socket locks) interleave with its scan.  An INSIST that fails     *)
(* aborts the process: the step sets fault and nothing runs afterwards.    *)
(***************************************************************************)
EXTENDS DoIO, Integers, FiniteSets, FiniteSetsExt

CONSTANTS
    Fds,            \* socket descriptors the kernel may hand out (integers > 0)
    Tasks,          \* tasks that post requests and receive events
    NoTask,         \* the NULL task of isc_socket_cancel: every task
    Types,          \* socket types created: a subset of {"tcp", "udp"}
    RecvAnswers,    \* kernel answers to recvmsg(), a subset of KernelAnswers
    SendAnswers,    \* kernel answers to sendmsg(), a subset of KernelAnswers
    ConnectAnswers, \* answers to connect(): "ok", "inprogress", "refused", "other"
    SoErrorAnswers, \* SO_ERROR after a pending connect: "0", "inprogress",
                    \* "timedout", "refused", "other"
    UninitAttached, \* values the uninitialised ATTACHED bit of a new
                    \* socket event can have: a subset of BOOLEAN
    MaxCalls,       \* bound on API calls that post requests or cancel
    MaxCreates,     \* bound on isc_socket_create calls
    MaxRefs,        \* bound on references one socket's callers hold
    PipeCapacity,   \* messages the control pipe holds before write() fails
                    \* with EAGAIN
    AcceptAnswers   \* answers of accept() in internal_accept: "ok" (a new
                    \* descriptor), "again" (a soft errno), "other" (any other
                    \* errno, or make_nonblock failing); {} if nothing listens

ASSUME /\ Fds \subseteq Nat \ {0} /\ Fds # {}
       /\ NoTask \notin Tasks
       /\ Types \subseteq {"tcp", "udp"} /\ Types # {}
       /\ RecvAnswers \subseteq KernelAnswers /\ SendAnswers \subseteq KernelAnswers
       /\ ConnectAnswers \subseteq {"ok", "inprogress", "refused", "other"}
       /\ SoErrorAnswers \subseteq {"0", "inprogress", "timedout", "refused", "other"}
       /\ UninitAttached \subseteq BOOLEAN /\ UninitAttached # {}
       /\ {MaxCalls, MaxCreates, MaxRefs} \subseteq Nat
       /\ PipeCapacity \in Nat \ {0}
       /\ AcceptAnswers \subseteq {"ok", "again", "other"}

VARIABLES
    \* isc_socketmgr_t
    fdstate,    \* fdstate[]: "Closed", "Managed" or "ClosePending"
    read_fds,   \* descriptors the watcher selects for reading
    write_fds,  \* descriptors the watcher selects for writing
    maxfd,      \* highest descriptor ever managed (the control pipe is 0)
    nsockets,   \* sockets managed
    pipe,       \* messages in the control pipe: descriptors or SHUTDOWN
    stalled,    \* select_poke calls spinning on a full pipe: the thread,
                \* the lock it holds meanwhile, and the message
    mgr,        \* "running", "joining" (isc_socketmgr_destroy waits) or "destroyed"
    \* the watcher thread
    wpc,        \* "snap", "select", "locking", "relock", "ctl", "ctlsock", "scan"
                \* or "exit"
    readfds,    \* its copy of read_fds, then select()'s result
    writefds,   \* its copy of write_fds, then select()'s result
    wmaxfd,     \* its copy of maxfd + 1
    ctlready,   \* select() reported the control pipe readable
    wmsg,       \* the descriptor of the message read last, while the watcher
                \* waits for that socket's lock (0 otherwise)
    toscan,     \* descriptors it has still to scan after select()
    done,       \* SHUTDOWN seen
    \* isc_socket_t, one per descriptor slot
    sock,
    \* the task scheduler
    tq,         \* tq[t]: internal events queued on task t, in order
    taskRefs,   \* references to each task
    destroyer,  \* destroyer[f]: the thread that must call destroy() on f
    accepting,  \* accepting[t]: the descriptor and done event internal_accept
                \* on task t holds between unlocking the listener and
                \* registering the descriptor under the manager lock
    orphans,    \* new sockets of failed accepts handed to the application
    \* the callers, and history kept for the properties
    calls, creates, hist, fault

pokeVars    == <<pipe, stalled>>
mgrVars     == <<fdstate, read_fds, write_fds, maxfd, nsockets, pokeVars, mgr>>
watcherVars == <<wpc, readfds, writefds, wmaxfd, ctlready, wmsg, toscan, done>>
acceptVars  == <<accepting, orphans>>
taskVars    == <<tq, taskRefs, destroyer, acceptVars>>
vars == <<mgrVars, watcherVars, sock, taskVars, calls, creates, hist, fault>>

-----------------------------------------------------------------------------
SHUTDOWN == -1            \* SELECT_POKE_SHUTDOWN
NoActor  == "none"
MgrLock  == 0             \* the manager lock; a socket's lock is its descriptor
NoLock   == -1
NoFault  == "none"
Dirs     == {"recv", "send"}
Results  == {"Success", "ConnRefused", "NoResources", "Unexpected", "EOF",
             "Cancelled", "TimedOut"}

(* Field names of the per-direction state of a socket; "accept" has a     *)
(* list and a pending flag but no sticky result.                           *)
List(dir)    == CASE dir = "recv" -> "recv_list" [] dir = "send" -> "send_list"
                  [] dir = "accept" -> "accept_list"
Result(dir)  == IF dir = "recv" THEN "recv_result" ELSE "send_result"
Pending(dir) == CASE dir = "recv" -> "pending_recv" [] dir = "send" -> "pending_send"
                  [] dir = "accept" -> "pending_accept"
Answers(dir) == IF dir = "recv" THEN RecvAnswers ELSE SendAnswers

NoConnect == [id |-> 0, task |-> NoTask, mark |-> FALSE, attached |-> FALSE]

(* Mutation: allocate_socket leaving the creator's reference uncounted.   *)
NewSocketUnreferenced(type, gen) ==
    [type |-> type, gen |-> gen, references |-> 0, ext |-> 1,
     recv_result |-> "Success", send_result |-> "Success",
     recv_list |-> <<>>, send_list |-> <<>>, accept_list |-> <<>>,
     connect_ev |-> NoConnect,
     pending_recv |-> FALSE, pending_send |-> FALSE, pending_accept |-> FALSE,
     listener |-> FALSE, connected |-> FALSE, connecting |-> FALSE]

(* allocate_socket + isc_socket_create: one reference, empty lists.        *)
NewSocket(type, gen) ==
    [type |-> type, gen |-> gen, references |-> 1, ext |-> 1,
     recv_result |-> "Success", send_result |-> "Success",
     recv_list |-> <<>>, send_list |-> <<>>, accept_list |-> <<>>,
     connect_ev |-> NoConnect,
     pending_recv |-> FALSE, pending_send |-> FALSE, pending_accept |-> FALSE,
     listener |-> FALSE, connected |-> FALSE, connecting |-> FALSE]

Freed == [NewSocket("tcp", 0) EXCEPT !.references = 0, !.ext = 0]

NoHist == [maxId |-> 0, last |-> "none"]

(* No internal_accept in progress on a task. *)
NoAccept == [fd |-> 0, dev |-> NoConnect]

(* hist[f]: per direction the last completion, and whether the socket has  *)
(* an established connection: its last connect request that completed     *)
(* other than by cancel succeeded, or accept created it.                   *)
FreshHist == [recv |-> NoHist, send |-> NoHist, connectOK |-> FALSE]

(* The internal events readable_ev and writable_ev of socket f.            *)
IntEv(f, gen, ev, action) == [fd |-> f, gen |-> gen, ev |-> ev, action |-> action]

Live(f) == fdstate[f] = "Managed"
Running == fault = NoFault /\ mgr = "running"
WatcherHoldsLock == wpc \in {"snap", "ctl", "ctlsock", "scan"}

(* Locks held, and threads blocked, by select_poke calls spinning on a    *)
(* full pipe.                                                              *)
HeldLocks == {s.lock : s \in stalled}
Stalled(thr) == \E s \in stalled : s.thr = thr

(* A caller holding a reference to a live socket may call the API on it,  *)
(* once it gets the socket lock.                                           *)
CanCall(f) == Running /\ Live(f) /\ sock[f].ext > 0 /\ calls < MaxCalls /\ f \notin HeldLocks

(* The application does no I/O and no connect on a listening socket: the  *)
(* kernel fails recvmsg(), sendmsg() and connect() on one at once.         *)
CanIO(f) == CanCall(f) /\ ~sock[f].listener

(* Descriptors the kernel may hand out: closed, and not returned by an     *)
(* accept() whose internal_accept has yet to register it.                  *)
FreeFds == {g \in Fds : fdstate[g] = "Closed"} \ {accepting[t].fd : t \in Tasks}

Abort(site) == /\ fault' = site
               /\ UNCHANGED <<mgrVars, watcherVars, sock, taskVars, calls, creates, hist>>

(* Mutation: a poke skipped when one is already in the pipe.              *)
SelectPokeCoalesced(thr, lk, msg) ==
    /\ pipe' = IF pipe = <<>> THEN <<msg>> ELSE pipe
    /\ UNCHANGED stalled

(* select_poke(msg) by thread thr holding lock lk (a socket's descriptor,  *)
(* MgrLock or NoLock): write() of a full non-blocking pipe fails with      *)
(* EAGAIN and the loop retries, with the lock still held.                  *)
SelectPoke(thr, lk, msg) ==
    IF Len(pipe) < PipeCapacity
    THEN pipe' = Append(pipe, msg) /\ UNCHANGED stalled
    ELSE stalled' = stalled \cup {[thr |-> thr, lock |-> lk, msg |-> msg]} /\ UNCHANGED pipe

(* The pokes of the socket API and of the internal handlers, made under    *)
(* the socket lock.                                                        *)
Poke(thr, f) == SelectPoke(thr, f, f)

(* Sending the completions evs of direction dir of socket f: a request     *)
(* whose ATTACHED bit is set is sent with isc_task_sendanddetach, which    *)
(* drops a reference to its task.  hist records, per direction, the        *)
(* highest id and the result of the last completion that was not a cancel. *)
Detached(t, evs) == Cardinality({i \in DOMAIN evs : evs[i].dev.task = t /\ evs[i].dev.attached})

PostRefs(evs) == taskRefs' = [t \in Tasks |-> taskRefs[t] - Detached(t, evs)]

HistAfter(f, dir, evs) ==
    LET kept == SelectSeq(evs, LAMBDA e : e.status # "Cancelled")
    IN  IF kept = <<>> THEN hist
        ELSE [hist EXCEPT ![f][dir] =
                [maxId |-> Max({@.maxId} \cup {kept[i].dev.id : i \in DOMAIN kept}),
                 last  |-> kept[Len(kept)].status]]

-----------------------------------------------------------------------------
(* Mutation: registering a descriptor without raising maxfd.              *)
RaiseMaxfdUnraised(fd) == maxfd

(* manager->maxfd once descriptor fd is registered.  Nothing lowers it     *)
(* (destroy has only "XXX should reset manager->maxfd here").              *)
RaiseMaxfd(fd) == IF maxfd < fd THEN fd ELSE maxfd

(* isc_socket_create: the OS hands out the lowest free descriptor.         *)
Create(type) ==
    /\ Running /\ ~WatcherHoldsLock /\ MgrLock \notin HeldLocks /\ creates < MaxCreates
    /\ FreeFds # {}
    /\ LET f == Min(FreeFds) IN
         /\ sock' = [sock EXCEPT ![f] = NewSocket(type, creates + 1)]
         /\ fdstate' = [fdstate EXCEPT ![f] = "Managed"]
         /\ maxfd' = RaiseMaxfd(f)
    /\ nsockets' = nsockets + 1
    /\ creates' = creates + 1
    /\ UNCHANGED <<read_fds, write_fds, pokeVars, mgr, watcherVars, taskVars, calls, hist, fault>>

(* isc_socket_attach *)
Attach(f) ==
    /\ CanCall(f) /\ sock[f].ext < MaxRefs
    /\ sock' = [sock EXCEPT ![f].references = @ + 1, ![f].ext = @ + 1]
    /\ calls' = calls + 1
    /\ UNCHANGED <<mgrVars, watcherVars, taskVars, creates, hist, fault>>

(* isc_socket_detach: the last reference makes the caller destroy f.       *)
Detach(f) ==
    /\ Running /\ Live(f) /\ sock[f].ext > 0 /\ f \notin HeldLocks
    /\ sock' = [sock EXCEPT ![f].references = @ - 1, ![f].ext = @ - 1]
    /\ destroyer' = IF sock[f].references = 1 THEN [destroyer EXCEPT ![f] = "app"]
                                              ELSE destroyer
    /\ UNCHANGED <<mgrVars, watcherVars, tq, taskRefs, acceptVars, calls, creates, hist, fault>>

(* destroy + free_socket, run by whoever dropped the last reference: the   *)
(* INSISTs on the lists come first; the rest happens under the manager     *)
(* lock.                                                                   *)
DestroyOK(s) ==
    /\ s.recv_list = <<>> /\ s.send_list = <<>> /\ s.accept_list = <<>>
    /\ s.connect_ev = NoConnect /\ s.references = 0 /\ ~s.connecting
    /\ ~s.pending_recv /\ ~s.pending_send /\ ~s.pending_accept

Destroy(f) ==
    /\ fault = NoFault /\ destroyer[f] # NoActor
    /\ \/ /\ DestroyOK(sock[f])
          /\ ~WatcherHoldsLock /\ MgrLock \notin HeldLocks
          /\ fdstate' = [fdstate EXCEPT ![f] = "ClosePending"]
          /\ SelectPoke(destroyer[f], MgrLock, f)
          /\ nsockets' = nsockets - 1
          /\ sock' = [sock EXCEPT ![f] = Freed]
          /\ destroyer' = [destroyer EXCEPT ![f] = NoActor]
          /\ hist' = [hist EXCEPT ![f] = FreshHist]
          /\ UNCHANGED <<read_fds, write_fds, maxfd, mgr, watcherVars, tq, taskRefs, acceptVars,
                         calls, creates, fault>>
       \/ /\ ~DestroyOK(sock[f])
          /\ Abort("destroy: INSIST(lists empty)")

-----------------------------------------------------------------------------
(* isc_socket_recv/recvv (dir = "recv") and isc_socket_send/sendto/sendv/  *)
(* sendtov (dir = "send").  A request is tried at once when its list is    *)
(* empty; if it cannot complete it is queued, its task attached, and the   *)
(* watcher poked when the list was empty.  The new event's attributes are  *)
(* never initialised, so the ATTACHED bit a completion at once is sent     *)
(* with is whatever the allocator left there.                              *)
(* Mutation: ISC_LIST_PREPEND where the code appends.                     *)
EnqueueAtHead(f, dir, dev) ==
    /\ sock' = [sock EXCEPT ![f][List(dir)] = <<dev>> \o @]
    /\ taskRefs' = [taskRefs EXCEPT ![dev.task] = @ + 1]

Enqueue(f, dir, dev) ==
    /\ sock' = [sock EXCEPT ![f][List(dir)] = Append(@, dev)]
    /\ taskRefs' = [taskRefs EXCEPT ![dev.task] = @ + 1]

IO(f, t, dir) ==
    /\ CanIO(f)
    /\ calls' = calls + 1
    /\ \E garbage \in UninitAttached :
       LET s   == sock[f]
           dev == [id |-> calls + 1, task |-> t, mark |-> FALSE, attached |-> garbage]
       IN
       \/ /\ s[List(dir)] # <<>>
          /\ Enqueue(f, dir, [dev EXCEPT !.attached = TRUE])
          /\ UNCHANGED <<pokeVars, hist>>
       \/ /\ s[List(dir)] = <<>> /\ s[Result(dir)] # "Success"
          /\ PostRefs(<<Done(dev, s[Result(dir)])>>)
          /\ hist' = HistAfter(f, dir, <<Done(dev, s[Result(dir)])>>)
          /\ UNCHANGED <<sock, pokeVars>>
       \/ /\ s[List(dir)] = <<>> /\ s[Result(dir)] = "Success"
          /\ \E k \in Answers(dir) :
             LET out == doio(dir, s.type, s.connected, k)
                 evs == <<Done(dev, IF out.ret = "EOF" THEN "EOF" ELSE out.post)>>
             IN  \/ /\ out.ret = "SOFT"
                    /\ Enqueue(f, dir, [dev EXCEPT !.attached = TRUE])
                    /\ Poke("app", f)
                    /\ UNCHANGED hist
                 \/ /\ out.ret # "SOFT"
                    /\ sock' = [sock EXCEPT ![f][Result(dir)] = NewSticky(@, out)]
                    /\ PostRefs(evs)
                    /\ hist' = HistAfter(f, dir, evs)
                    /\ UNCHANGED pokeVars
    /\ UNCHANGED <<fdstate, read_fds, write_fds, maxfd, nsockets, mgr, watcherVars,
                   tq, destroyer, acceptVars, creates, fault>>

Recv(f, t) == IO(f, t, "recv")     \* isc_socket_recv
Send(f, t) == IO(f, t, "send")     \* isc_socket_sendto, through isc_socket_send

(* isc_socket_recvmark / isc_socket_sendmark.  On an empty list the done   *)
(* event is sent to dev->sender, which allocate_socketevent set to the     *)
(* socket, not to the task: isc_task_send gets a socket for a task.  On a  *)
(* non-empty list the marker is queued and the task attached, but the      *)
(* ATTACHED bit is left as the allocator left it.                          *)
Mark(f, t, dir) ==
    /\ CanIO(f)
    /\ \E garbage \in UninitAttached :
       \/ /\ sock[f][List(dir)] = <<>>
          /\ Abort("mark: isc_task_send(sock)")
       \/ /\ sock[f][List(dir)] # <<>>
          /\ Enqueue(f, dir, [id |-> calls + 1, task |-> t, mark |-> TRUE,
                              attached |-> garbage])
          /\ calls' = calls + 1
          /\ UNCHANGED <<mgrVars, watcherVars, tq, destroyer, acceptVars, creates, hist, fault>>

RecvMark(f, t) == Mark(f, t, "recv")
SendMark(f, t) == Mark(f, t, "send")

(* isc_socket_connect (REQUIRE !connecting).  Only the synchronous success *)
(* marks the socket connected.                                             *)
Connect(f, t) ==
    /\ CanIO(f) /\ ~sock[f].connecting
    /\ calls' = calls + 1
    /\ \E k \in ConnectAnswers :
       \/ /\ k \in {"ok", "refused", "other"}
          /\ sock' = [sock EXCEPT ![f].connected = (k = "ok")]
          /\ hist' = [hist EXCEPT ![f].connectOK = IF k = "other" THEN @ ELSE k = "ok"]
          /\ UNCHANGED <<pokeVars, taskRefs>>
       \/ /\ k = "inprogress"
          /\ taskRefs' = [taskRefs EXCEPT ![t] = @ + 1]
          /\ sock' = [sock EXCEPT ![f].connecting = TRUE,
                        ![f].connect_ev = [id |-> calls + 1, task |-> t,
                                           mark |-> FALSE, attached |-> TRUE]]
          /\ IF sock[f].connect_ev = NoConnect THEN Poke("app", f)
                                                ELSE UNCHANGED pokeVars
          /\ UNCHANGED hist
    /\ UNCHANGED <<fdstate, read_fds, write_fds, maxfd, nsockets, mgr, watcherVars,
                   tq, destroyer, acceptVars, creates, fault>>

(* isc_socket_listen: REQUIRE(!listener) on a stream socket.  listen()     *)
(* fails (ISC_R_UNEXPECTED, nothing changes) on a socket that is connected *)
(* or connecting, so only an idle socket becomes a listener.  It happens   *)
(* once per socket, so MaxCalls does not count it.                         *)
Listen(f) ==
    /\ CanIO(f) /\ AcceptAnswers # {} /\ sock[f].type = "tcp"
    /\ ~sock[f].connected /\ ~sock[f].connecting
    /\ sock[f].recv_list = <<>> /\ sock[f].send_list = <<>>
    /\ sock' = [sock EXCEPT ![f].listener = TRUE]
    /\ UNCHANGED <<mgrVars, watcherVars, taskVars, calls, creates, hist, fault>>

(* isc_socket_accept: allocate the new socket (one reference, fd -1, kept  *)
(* by the request alone), attach the task, poke the watcher if the list    *)
(* was empty, and queue the request.                                       *)
Accept(f, t) ==
    /\ CanCall(f) /\ sock[f].listener
    /\ calls' = calls + 1
    /\ sock' = [sock EXCEPT ![f].accept_list =
                  Append(@, [id |-> calls + 1, task |-> t, mark |-> FALSE, attached |-> TRUE])]
    /\ taskRefs' = [taskRefs EXCEPT ![t] = @ + 1]
    /\ IF sock[f].accept_list = <<>> THEN Poke("app", f) ELSE UNCHANGED pokeVars
    /\ UNCHANGED <<fdstate, read_fds, write_fds, maxfd, nsockets, mgr, watcherVars,
                   tq, destroyer, acceptVars, creates, hist, fault>>

(* isc_socket_cancel(sock, task, how): who = NoTask cancels every task's   *)
(* requests.  A cancelled accept frees its new socket (free_socket) and    *)
(* detaches its task.  Cancelling the connect clears connecting whatever   *)
(* task the connect belongs to, and connect_ev only when the task matches. *)
Cancel(f, who, how) ==
    /\ CanCall(f)
    /\ calls' = calls + 1
    /\ LET s == sock[f]
           Hit(dev) == who = NoTask \/ dev.task = who
           Kept(dir) == IF dir \in how THEN SelectSeq(s[List(dir)], LAMBDA d : ~Hit(d))
                                       ELSE s[List(dir)]
           Gone(dir) == IF dir \in how THEN SelectSeq(s[List(dir)], Hit) ELSE <<>>
           Cev == IF "connect" \in how /\ s.connect_ev # NoConnect /\ Hit(s.connect_ev)
                  THEN <<s.connect_ev>> ELSE <<>>
           gone == Gone("recv") \o Gone("send") \o Gone("accept") \o Cev
           evs == [i \in DOMAIN gone |-> Done(gone[i], "Cancelled")]
       IN
       \/ /\ "connect" \in how /\ s.connect_ev # NoConnect /\ ~s.connecting
          /\ Abort("cancel: INSIST(connecting)")
       \/ /\ ~("connect" \in how /\ s.connect_ev # NoConnect /\ ~s.connecting)
          /\ sock' = [sock EXCEPT ![f].recv_list = Kept("recv"),
                                  ![f].send_list = Kept("send"),
                                  ![f].accept_list = Kept("accept"),
                                  ![f].connecting = IF "connect" \in how
                                                    THEN FALSE ELSE @,
                                  ![f].connect_ev = IF Cev # <<>> THEN NoConnect ELSE @]
          /\ PostRefs(evs)
          /\ Poke("app", f)
          /\ UNCHANGED <<fdstate, read_fds, write_fds, maxfd, nsockets, mgr,
                         watcherVars, tq, destroyer, acceptVars, creates, hist, fault>>

-----------------------------------------------------------------------------
(* The watcher thread.  Under the manager lock it copies the bitmaps, then *)
(* unlocks and blocks in select().                                         *)
WatcherSnap ==
    /\ fault = NoFault /\ wpc = "snap"
    /\ readfds' = read_fds /\ writefds' = write_fds /\ wmaxfd' = maxfd + 1
    /\ wpc' = "select"
    /\ UNCHANGED <<mgrVars, ctlready, wmsg, toscan, done, sock, taskVars, calls, creates, hist, fault>>

(* select() returns a set of ready descriptors, the control pipe among     *)
(* them when it holds a message at that moment; which sockets the kernel   *)
(* reports ready is the environment's choice.  An interrupted select()     *)
(* (a soft errno) relocks (WatcherRelock) and takes a new copy.            *)
WatcherSelect ==
    /\ fault = NoFault /\ wpc = "select"
    /\ \/ /\ \E r \in SUBSET readfds, w \in SUBSET writefds :
               /\ r \cup w # {} \/ pipe # <<>>
               /\ readfds' = r /\ writefds' = w
          /\ ctlready' = (pipe # <<>>)
          /\ wpc' = "locking"
       \/ /\ wpc' = "relock"
          /\ UNCHANGED <<readfds, writefds, ctlready>>
    /\ UNCHANGED <<mgrVars, wmaxfd, wmsg, toscan, done, sock, taskVars, calls, creates, hist, fault>>

(* The lock the watcher's next step takes: the manager lock when select()  *)
(* has returned, the socket lock of the managed descriptor whose message   *)
(* it has read from the pipe, or of a descriptor whose bits select()       *)
(* reported in the scan (manager->fds[i] is NULL unless it is managed).    *)
WatcherNeeds ==
    LET i == IF toscan # {} THEN Min(toscan) ELSE 0
    IN  {lk \in {MgrLock} : wpc \in {"locking", "relock"}}
        \cup {g \in Fds : wpc = "ctlsock" /\ g = wmsg}
        \cup {g \in Fds : wpc = "scan" /\ g = i /\ Live(g) /\ g \in readfds \cup writefds}

(* The watcher waits for the manager lock, which API calls and destroy()   *)
(* may take first; the pipe is read only if select() reported it.          *)
WatcherLock ==
    /\ fault = NoFault /\ wpc = "locking" /\ WatcherNeeds \cap HeldLocks = {}
    /\ wpc' = IF ctlready THEN "ctl" ELSE "scan"
    /\ toscan' = {f \in Fds : f < wmaxfd}
    /\ wmaxfd' = 0 /\ ctlready' = FALSE      \* not read again in this round
    /\ UNCHANGED <<mgrVars, readfds, writefds, wmsg, done, sock, taskVars,
                   calls, creates, hist, fault>>

(* LOCK(&manager->lock) after an interrupted select(), before the next     *)
(* iteration of the do/while copies the bitmaps again.                    *)
WatcherRelock ==
    /\ fault = NoFault /\ wpc = "relock" /\ WatcherNeeds \cap HeldLocks = {}
    /\ wpc' = "snap"
    /\ UNCHANGED <<mgrVars, readfds, writefds, wmaxfd, ctlready, wmsg, toscan, done,
                   sock, taskVars, calls, creates, hist, fault>>

(* Re-arming of a managed descriptor on a poke (the watch-bit rule).  The  *)
(* read bit serves receives and accepts, which share readable_ev.          *)
(* Mutation: the read bit recomputed without looking at the pending flags. *)
ReadWantedWhilePending(s) == s.recv_list # <<>> \/ s.accept_list # <<>>

ReadWanted(s)  == (s.recv_list # <<>> \/ s.accept_list # <<>>)
                  /\ ~s.pending_recv /\ ~s.pending_accept
WriteWanted(s) == (s.send_list # <<>> /\ ~s.pending_send) \/ s.connecting

SetBit(set, f, on) == IF on THEN set \cup {f} ELSE set \ {f}

(* Mutation: close() without setting fdstate[] to CLOSED.                  *)
CloseFdKeepsPending(f) ==
    /\ UNCHANGED fdstate
    /\ read_fds' = read_fds \ {f} /\ write_fds' = write_fds \ {f}

(* Closing a ClosePending descriptor, in the control loop and in the scan. *)
CloseFd(f) ==
    /\ fdstate' = [fdstate EXCEPT ![f] = "Closed"]
    /\ read_fds' = read_fds \ {f} /\ write_fds' = write_fds \ {f}

(* One message read from the control pipe by select_readmsg, under the     *)
(* manager lock only: the read frees its slot before the watcher takes any *)
(* socket lock.  An empty pipe ends the loop; so does SHUTDOWN.  A message *)
(* for a managed descriptor leaves the watcher waiting for its socket lock *)
(* (WatcherCtlSock).                                                       *)
WatcherCtl ==
    /\ fault = NoFault /\ wpc = "ctl"
    /\ \/ /\ pipe = <<>>
          /\ wpc' = "scan"
          /\ UNCHANGED <<fdstate, read_fds, write_fds, pipe, wmsg, done>>
       \/ /\ pipe # <<>> /\ Head(pipe) = SHUTDOWN
          /\ done' = TRUE /\ wpc' = "scan" /\ pipe' = Tail(pipe)
          /\ UNCHANGED <<fdstate, read_fds, write_fds, wmsg>>
       \/ /\ pipe # <<>> /\ Head(pipe) \in Fds
          /\ pipe' = Tail(pipe)
          /\ LET f == Head(pipe) IN
             \/ /\ fdstate[f] = "ClosePending"
                /\ CloseFd(f)
                /\ UNCHANGED <<wpc, wmsg>>
             \/ /\ fdstate[f] = "Closed"
                /\ UNCHANGED <<fdstate, read_fds, write_fds, wpc, wmsg>>
             \/ /\ fdstate[f] = "Managed"
                /\ wpc' = "ctlsock" /\ wmsg' = f
                /\ UNCHANGED <<fdstate, read_fds, write_fds>>
          /\ UNCHANGED done
    /\ UNCHANGED <<maxfd, nsockets, stalled, mgr, readfds, writefds, wmaxfd, ctlready, toscan, sock,
                   taskVars, calls, creates, hist, fault>>

(* The wakeup of socket wmsg, under its lock: the watch-bit rule.          *)
WatcherCtlSock ==
    /\ fault = NoFault /\ wpc = "ctlsock" /\ WatcherNeeds \cap HeldLocks = {}
    /\ read_fds' = SetBit(read_fds, wmsg, ReadWanted(sock[wmsg]))
    /\ write_fds' = SetBit(write_fds, wmsg, WriteWanted(sock[wmsg]))
    /\ wpc' = "ctl" /\ wmsg' = 0
    /\ UNCHANGED <<fdstate, maxfd, nsockets, pokeVars, mgr, readfds, writefds, wmaxfd, ctlready,
                   toscan, done, sock, taskVars, calls, creates, hist, fault>>

(* dispatch_read / dispatch_write / dispatch_connect, on the pair [s, q]   *)
(* of the socket and the task queues; site names a failed INSIST.          *)
Enq(q, t, e) == [q EXCEPT ![t] = Append(@, e)]

Queued(q, f, ev) ==
    UNION {{<<t, i>> : i \in {j \in DOMAIN q[t] : q[t][j].fd = f /\ q[t][j].ev = ev}}
           : t \in Tasks}

(* Mutation: dispatch that does not mark the event pending.               *)
dispatch_io_unmarked(f, dir, w) ==
    LET s == w.s IN
    IF s[List(dir)] = <<>> THEN [w EXCEPT !.site = "dispatch: INSIST(ev != NULL)"]
    ELSE [w EXCEPT !.s = [s EXCEPT !.references = @ + 1],
                   !.q = Enq(w.q, Head(s[List(dir)]).task,
                             IntEv(f, s.gen, IF dir = "recv" THEN "readable" ELSE "writable",
                                   dir))]

dispatch_io(f, dir, w) ==
    LET s == w.s IN
    IF s[List(dir)] = <<>> THEN [w EXCEPT !.site = "dispatch: INSIST(ev != NULL)"]
    ELSE IF s[Pending(dir)] THEN [w EXCEPT !.site = "dispatch: INSIST(!pending)"]
    ELSE [w EXCEPT !.s = [s EXCEPT ![Pending(dir)] = TRUE, !.references = @ + 1],
                   !.q = Enq(w.q, Head(s[List(dir)]).task,
                             IntEv(f, s.gen, IF dir = "recv" THEN "readable" ELSE "writable",
                                   dir))]

(* Mutation: dispatch_accept queueing readable_ev without pending_accept. *)
dispatch_accept_unmarked(f, w) ==
    LET s == w.s IN
    IF s.accept_list = <<>> THEN [w EXCEPT !.site = "dispatch_accept: INSIST(ev != NULL)"]
    ELSE [w EXCEPT !.s = [s EXCEPT !.references = @ + 1],
                   !.q = Enq(w.q, Head(s.accept_list).task, IntEv(f, s.gen, "readable", "accept"))]

(* dispatch_accept: readable_ev, marked by pending_accept, to the task of  *)
(* the first accept request.                                               *)
dispatch_accept(f, w) ==
    LET s == w.s IN
    IF s.accept_list = <<>> THEN [w EXCEPT !.site = "dispatch_accept: INSIST(ev != NULL)"]
    ELSE IF s.pending_accept THEN [w EXCEPT !.site = "dispatch_accept: INSIST(!pending)"]
    ELSE [w EXCEPT !.s = [s EXCEPT !.pending_accept = TRUE, !.references = @ + 1],
                   !.q = Enq(w.q, Head(s.accept_list).task, IntEv(f, s.gen, "readable", "accept"))]

(* Mutation: dispatch_connect without the reference for its event.        *)
dispatch_connect_unreferenced(f, w) ==
    LET s == w.s IN
    IF s.connect_ev = NoConnect THEN [w EXCEPT !.site = "dispatch: INSIST(ev != NULL)"]
    ELSE [w EXCEPT !.q = Enq(w.q, s.connect_ev.task, IntEv(f, s.gen, "writable", "connect"))]

(* writable_ev carries no pending flag for a connect: if it is still on a  *)
(* task's queue, ISC_LIST_ENQUEUE links it a second time and corrupts it.  *)
dispatch_connect(f, w) ==
    LET s == w.s IN
    IF s.connect_ev = NoConnect THEN [w EXCEPT !.site = "dispatch: INSIST(ev != NULL)"]
    ELSE [s |-> [s EXCEPT !.references = @ + 1],
          q |-> Enq(w.q, s.connect_ev.task, IntEv(f, s.gen, "writable", "connect")),
          site |-> IF Queued(w.q, f, "writable") # {} THEN "task: event linked twice"
                                                      ELSE NoFault]

(* One descriptor of the scan loop, below the snapshot of maxfd.  A        *)
(* ClosePending descriptor is closed; otherwise a descriptor select()      *)
(* reported is dispatched unless its socket is dead (no references), and   *)
(* its bit cleared.  A readable listener gets dispatch_accept.             *)
WatcherScan ==
    /\ fault = NoFault /\ wpc = "scan" /\ WatcherNeeds \cap HeldLocks = {}
    /\ \/ /\ toscan = {}
          /\ wpc' = IF done THEN "exit" ELSE "snap"
          /\ readfds' = {} /\ writefds' = {}    \* not read again in this round
          /\ UNCHANGED <<fdstate, read_fds, write_fds, toscan, sock, tq, fault>>
       \/ /\ toscan # {}
          /\ LET i == Min(toscan) IN
             /\ toscan' = toscan \ {i}
             /\ \/ /\ fdstate[i] = "ClosePending"
                   /\ CloseFd(i)
                   /\ UNCHANGED <<readfds, writefds, sock, tq, fault>>
                \/ /\ fdstate[i] # "ClosePending"
                   /\ LET alive == Live(i) /\ sock[i].references > 0
                          w0 == [s |-> sock[i], q |-> tq, site |-> NoFault]
                          w1 == IF i \in readfds /\ alive
                                THEN IF w0.s.listener THEN dispatch_accept(i, w0)
                                                      ELSE dispatch_io(i, "recv", w0)
                                ELSE w0
                          w2 == IF i \in writefds /\ alive /\ w1.site = NoFault
                                THEN IF w1.s.connecting THEN dispatch_connect(i, w1)
                                                        ELSE dispatch_io(i, "send", w1)
                                ELSE w1
                      IN /\ read_fds' = read_fds \ (readfds \cap {i})
                         /\ UNCHANGED <<readfds, writefds>>
                         /\ write_fds' = write_fds \ (writefds \cap {i})
                         /\ sock' = IF Live(i) THEN [sock EXCEPT ![i] = w2.s] ELSE sock
                         /\ tq' = w2.q
                         /\ fault' = w2.site
                         /\ UNCHANGED fdstate
          /\ UNCHANGED wpc
    /\ UNCHANGED <<maxfd, nsockets, pokeVars, mgr, wmaxfd, ctlready, wmsg, done,
                   taskRefs, destroyer, acceptVars, calls, creates, hist>>

(* A select_poke spinning on a full pipe gets its message in once the      *)
(* watcher has read one, and its thread goes on (releasing its lock).      *)
PokeRetry ==
    /\ fault = NoFault /\ Len(pipe) < PipeCapacity
    /\ \E s \in stalled : /\ pipe' = Append(pipe, s.msg)
                         /\ stalled' = stalled \ {s}
    /\ UNCHANGED <<fdstate, read_fds, write_fds, maxfd, nsockets, mgr, watcherVars, sock,
                   taskVars, calls, creates, hist, fault>>

-----------------------------------------------------------------------------
(* Mutation: the drain loop returning without poking the watcher.         *)
RearmNever(t, f, q) == UNCHANGED pokeVars

(* The end of internal_recv / internal_send: poke the watcher if requests *)
(* are left on the list q.                                                 *)
Rearm(t, f, q) == IF q # <<>> THEN Poke(t, f) ELSE UNCHANGED pokeVars

(* internal_recv / internal_send on task t: drop the event's reference     *)
(* (destroying the socket if it was the last), then drain the list and     *)
(* poke the watcher if requests remain.                                    *)
InternalIO(t, f, dir) ==
    LET s == sock[f] IN
    \/ /\ s.references = 1
       /\ sock' = [sock EXCEPT ![f][Pending(dir)] = FALSE, ![f].references = 0]
       /\ destroyer' = [destroyer EXCEPT ![f] = t]
       /\ UNCHANGED <<pokeVars, taskRefs, hist>>
    \/ /\ s.references > 1
       /\ \E ks \in [1..Len(s[List(dir)]) -> Answers(dir)] :
          LET r == Drain(dir, s.type, s.connected, s[List(dir)], s[Result(dir)], ks)
          IN  /\ sock' = [sock EXCEPT ![f][Pending(dir)] = FALSE,
                                      ![f].references = @ - 1,
                                      ![f][List(dir)] = r.q,
                                      ![f][Result(dir)] = r.res]
              /\ PostRefs(r.done)
              /\ hist' = HistAfter(f, dir, r.done)
              /\ Rearm(t, f, r.q)
       /\ UNCHANGED destroyer

(* internal_connect: a soft SO_ERROR re-arms the connect; any other ends   *)
(* it and sends the done event with isc_task_sendanddetach.                *)
ConnectResult(k) ==
    CASE k = "0" -> "Success" [] k = "timedout" -> "TimedOut"
      [] k = "refused" -> "ConnRefused" [] OTHER -> "Unexpected"

InternalConnect(t, f) ==
    LET s == sock[f] IN
    \/ /\ s.references = 1
       /\ sock' = [sock EXCEPT ![f].references = 0]
       /\ destroyer' = [destroyer EXCEPT ![f] = t]
       /\ UNCHANGED <<pokeVars, taskRefs, hist>>
    \/ /\ s.references > 1 /\ s.connect_ev = NoConnect
       /\ sock' = [sock EXCEPT ![f].references = @ - 1]
       /\ UNCHANGED <<pokeVars, taskRefs, destroyer, hist>>
    \/ /\ s.references > 1 /\ s.connect_ev # NoConnect /\ s.connecting
       /\ \E k \in SoErrorAnswers :
          \/ /\ k = "inprogress"
             /\ sock' = [sock EXCEPT ![f].references = @ - 1]
             /\ Poke(t, f)
             /\ UNCHANGED <<taskRefs, hist>>
          \/ /\ k # "inprogress"
             /\ sock' = [sock EXCEPT ![f].references = @ - 1, ![f].connecting = FALSE,
                                     ![f].connect_ev = NoConnect]
             /\ PostRefs(<<Done(s.connect_ev, ConnectResult(k))>>)
             /\ hist' = [hist EXCEPT ![f].connectOK = (k = "0")]
             /\ UNCHANGED pokeVars
       /\ UNCHANGED destroyer

(* internal_accept on task t: drop the event's reference (destroying the   *)
(* listener if it was the last); with a request queued, call accept().    *)
(* A soft errno re-arms the listener.  Otherwise the request leaves the    *)
(* list and the watcher is poked if more remain.  A new descriptor is then *)
(* registered by AcceptRegister, with the listener unlocked; a failure     *)
(* (fd -1) sends the done event with ISC_R_UNEXPECTED at once, and with it *)
(* the new socket, which has fd -1 and one reference.                      *)
InternalAccept(t, f) ==
    LET s       == sock[f]
        dropped == [sock EXCEPT ![f].pending_accept = FALSE, ![f].references = @ - 1]
        dev     == Head(s.accept_list)
    IN
    \/ /\ s.references = 1
       /\ sock' = dropped
       /\ destroyer' = [destroyer EXCEPT ![f] = t]
       /\ UNCHANGED <<pokeVars, taskRefs, acceptVars>>
    \/ /\ s.references > 1 /\ s.accept_list = <<>>
       /\ sock' = dropped
       /\ UNCHANGED <<pokeVars, taskRefs, destroyer, acceptVars>>
    \/ /\ s.references > 1 /\ s.accept_list # <<>>
       /\ \E k \in AcceptAnswers :
          \/ /\ k = "again"
             /\ sock' = dropped
             /\ Poke(t, f)
             /\ UNCHANGED <<taskRefs, acceptVars>>
          \/ /\ k # "again" /\ (k = "ok" => FreeFds # {})
             /\ sock' = [dropped EXCEPT ![f].accept_list = Tail(@)]
             /\ Rearm(t, f, Tail(s.accept_list))
             /\ \/ /\ k = "ok"
                   /\ accepting' = [accepting EXCEPT ![t] = [fd |-> Min(FreeFds), dev |-> dev]]
                   /\ UNCHANGED <<taskRefs, orphans>>
                \/ /\ k = "other"
                   /\ PostRefs(<<Done(dev, "Unexpected")>>)
                   /\ orphans' = orphans + 1
                   /\ UNCHANGED accepting
       /\ UNCHANGED destroyer

(* The rest of internal_accept, with the listener unlocked: under the      *)
(* manager lock the new descriptor becomes MANAGED (fds[], fdstate[],      *)
(* maxfd, nsockets), then the done event carrying the new socket is sent   *)
(* with isc_task_sendanddetach.  Nothing checks that the manager has not   *)
(* been destroyed meanwhile.  hist records that the new stream socket has  *)
(* an established connection.                                              *)
AcceptRegister(t) ==
    /\ fault = NoFault /\ accepting[t] # NoAccept
    /\ ~WatcherHoldsLock /\ MgrLock \notin HeldLocks
    /\ LET g == accepting[t].fd IN
       /\ fdstate' = [fdstate EXCEPT ![g] = "Managed"]
       /\ sock' = [sock EXCEPT ![g] = NewSocket("tcp", creates + 1)]
       /\ maxfd' = RaiseMaxfd(g)
       /\ hist' = [hist EXCEPT ![g].connectOK = TRUE]
    /\ nsockets' = nsockets + 1
    /\ creates' = creates + 1
    /\ PostRefs(<<Done(accepting[t].dev, "Success")>>)
    /\ accepting' = [accepting EXCEPT ![t] = NoAccept]
    /\ UNCHANGED <<read_fds, write_fds, pokeVars, mgr, watcherVars, tq, destroyer, orphans,
                   calls, fault>>

(* The application detaching the new socket of a failed accept: its only   *)
(* reference goes, so isc_socket_detach calls destroy().  Under the        *)
(* manager lock that writes fds[-1] and fdstate[-1], pokes the watcher     *)
(* with message -1, which is SELECT_POKE_SHUTDOWN, and decrements          *)
(* nsockets, which never counted this socket.                              *)
DestroyOrphan ==
    /\ Running /\ orphans > 0 /\ ~WatcherHoldsLock /\ MgrLock \notin HeldLocks
    /\ SelectPoke("app", MgrLock, SHUTDOWN)
    /\ nsockets' = nsockets - 1
    /\ orphans' = orphans - 1
    /\ UNCHANGED <<fdstate, read_fds, write_fds, maxfd, mgr, watcherVars, sock, tq, taskRefs,
                   destroyer, accepting, calls, creates, hist, fault>>

(* A task runs the internal event at the head of its queue, under that     *)
(* socket's lock.  A task that is destroying a socket is blocked on the    *)
(* manager lock meanwhile, as is one finishing internal_accept, and one    *)
(* spinning in select_poke runs nothing.                                   *)
TaskRun(t) ==
    /\ fault = NoFault /\ tq[t] # <<>>
    /\ \A f \in Fds : destroyer[f] # t
    /\ accepting[t] = NoAccept
    /\ ~Stalled(t) /\ Head(tq[t]).fd \notin HeldLocks
    /\ LET e == Head(tq[t]) IN
       \/ /\ e.action \in Dirs
          /\ InternalIO(t, e.fd, e.action)
          /\ UNCHANGED <<acceptVars, fault>>
       \/ /\ e.action = "accept"
          /\ InternalAccept(t, e.fd)
          /\ UNCHANGED <<hist, fault>>
       \/ /\ e.action = "connect"
          /\ \/ /\ sock[e.fd].references > 1 /\ sock[e.fd].connect_ev # NoConnect
                /\ ~sock[e.fd].connecting
                /\ Abort("internal_connect: INSIST(connecting)")
             \/ /\ ~(sock[e.fd].references > 1 /\ sock[e.fd].connect_ev # NoConnect
                     /\ ~sock[e.fd].connecting)
                /\ InternalConnect(t, e.fd)
                /\ UNCHANGED <<acceptVars, fault>>
    /\ tq' = IF fault' = NoFault THEN [tq EXCEPT ![t] = Tail(@)] ELSE tq
    /\ UNCHANGED <<fdstate, read_fds, write_fds, maxfd, nsockets, mgr, watcherVars,
                   calls, creates>>

-----------------------------------------------------------------------------
(* Mutation: isc_socketmgr_destroy without waiting for the sockets.        *)
MgrDestroyEarly ==
    /\ Running /\ ~WatcherHoldsLock /\ MgrLock \notin HeldLocks
    /\ SelectPoke("app", NoLock, SHUTDOWN)
    /\ mgr' = "joining"
    /\ UNCHANGED <<fdstate, read_fds, write_fds, maxfd, nsockets, watcherVars, sock,
                   taskVars, calls, creates, hist, fault>>

(* isc_socketmgr_destroy: wait for nsockets = 0, send SHUTDOWN, join the   *)
(* watcher, then close what is still ClosePending.                         *)
MgrDestroy ==
    /\ Running /\ nsockets = 0 /\ ~WatcherHoldsLock /\ MgrLock \notin HeldLocks
    /\ SelectPoke("app", NoLock, SHUTDOWN)
    /\ mgr' = "joining"
    /\ UNCHANGED <<fdstate, read_fds, write_fds, maxfd, nsockets, watcherVars, sock,
                   taskVars, calls, creates, hist, fault>>

MgrJoin ==
    /\ fault = NoFault /\ mgr = "joining" /\ wpc = "exit"
    /\ fdstate' = [f \in Fds |-> IF fdstate[f] = "ClosePending" THEN "Closed"
                                                                ELSE fdstate[f]]
    /\ mgr' = "destroyed"
    /\ UNCHANGED <<read_fds, write_fds, maxfd, nsockets, pokeVars, watcherVars, sock,
                   taskVars, calls, creates, hist, fault>>

-----------------------------------------------------------------------------
Init ==
    /\ fdstate = [f \in Fds |-> "Closed"]
    /\ read_fds = {} /\ write_fds = {}
    /\ maxfd = 0 /\ nsockets = 0 /\ pipe = <<>> /\ stalled = {} /\ mgr = "running"
    /\ wpc = "snap" /\ readfds = {} /\ writefds = {} /\ wmaxfd = 0
    /\ ctlready = FALSE /\ wmsg = 0 /\ toscan = {} /\ done = FALSE
    /\ sock = [f \in Fds |-> Freed]
    /\ tq = [t \in Tasks |-> <<>>]
    /\ taskRefs = [t \in Tasks |-> 1]
    /\ destroyer = [f \in Fds |-> NoActor]
    /\ accepting = [t \in Tasks |-> NoAccept] /\ orphans = 0
    /\ calls = 0 /\ creates = 0
    /\ hist = [f \in Fds |-> FreshHist]
    /\ fault = NoFault

(* The parts of a socket isc_socket_cancel may be asked to cancel; accept  *)
(* only where something listens.                                           *)
CancelHow == {"recv", "send", "connect"} \cup (IF AcceptAnswers = {} THEN {} ELSE {"accept"})

Next ==
    \/ \E type \in Types : Create(type)
    \/ \E f \in Fds : Attach(f) \/ Detach(f) \/ Destroy(f)
    \/ \E f \in Fds, t \in Tasks : \/ Recv(f, t) \/ Send(f, t)
                                   \/ RecvMark(f, t) \/ SendMark(f, t)
                                   \/ Connect(f, t) \/ Accept(f, t)
    \/ \E f \in Fds : Listen(f)
    \/ \E f \in Fds, who \in Tasks \cup {NoTask}, how \in SUBSET CancelHow \ {{}} :
          Cancel(f, who, how)
    \/ WatcherSnap \/ WatcherSelect \/ WatcherLock \/ WatcherRelock
    \/ WatcherCtl \/ WatcherCtlSock \/ WatcherScan
    \/ PokeRetry
    \/ \E t \in Tasks : TaskRun(t) \/ AcceptRegister(t)
    \/ MgrDestroy \/ MgrJoin

Spec == Init /\ [][Next]_vars

(* An application that also detaches the new socket a failed accept hands  *)
(* it, as it detaches every socket it holds.                               *)
SpecDetachingFailedAccepts == Init /\ [][Next \/ DestroyOrphan]_vars

(* The threads the code runs are scheduled by the OS and the task manager: *)
(* the watcher and every task keep taking their steps; a select() whose    *)
(* control pipe is readable is not interrupted forever; a thread blocked   *)
(* on the manager lock (destroy()) gets it when the watcher keeps          *)
(* releasing it, as does internal_accept registering a new descriptor; a   *)
(* spinning select_poke gets its write in.  Application calls, kernel      *)
(* readiness and isc_socketmgr_destroy are never forced.                   *)
Fairness ==
    /\ WF_vars(WatcherSnap) /\ WF_vars(WatcherLock) /\ WF_vars(WatcherRelock)
    /\ WF_vars(WatcherCtl) /\ WF_vars(WatcherCtlSock) /\ WF_vars(WatcherScan)
    /\ SF_vars(WatcherSelect /\ ctlready')
    /\ \A t \in Tasks : WF_vars(TaskRun(t))
    /\ \A f \in Fds : SF_vars(Destroy(f))
    /\ \A t \in Tasks : SF_vars(AcceptRegister(t))
    /\ WF_vars(PokeRetry) /\ WF_vars(MgrJoin)

FairSpec == Spec /\ Fairness

(* The refinement mapping to SocketQueue: the ids on each list, the sticky *)
(* results, and the last completion of each direction.                     *)
Ids(q) == [i \in DOMAIN q |-> q[i].id]

SQ == INSTANCE SocketQueue
        WITH queue <- [f \in Fds |-> [d \in Dirs |-> Ids(sock[f][List(d)])]],
             res   <- [f \in Fds |-> [d \in Dirs |-> sock[f][Result(d)]]],
             done  <- [f \in Fds |-> [d \in Dirs |-> hist[f][d]]],
             MaxId <- MaxCalls

-----------------------------------------------------------------------------
TypeOK ==
    /\ fdstate \in [Fds -> {"Closed", "Managed", "ClosePending"}]
    /\ read_fds \subseteq Fds /\ write_fds \subseteq Fds
    /\ nsockets \in 0..Cardinality(Fds)
    /\ \A i \in DOMAIN pipe : pipe[i] \in Fds \cup {SHUTDOWN}
    /\ Len(pipe) <= PipeCapacity
    /\ \A s \in stalled : s.lock \in Fds \cup {MgrLock, NoLock} /\ s.msg \in Fds \cup {SHUTDOWN}
    /\ wpc \in {"snap", "select", "locking", "relock", "ctl", "ctlsock", "scan", "exit"}
    /\ wmsg \in Fds \cup {0} /\ (wpc = "ctlsock" => wmsg \in Fds)
    /\ toscan \subseteq Fds
    /\ \A f \in Fds : /\ sock[f].references \in Nat /\ sock[f].ext <= sock[f].references
                      /\ sock[f].recv_result \in Results /\ sock[f].send_result \in Results
    /\ \A t \in Tasks : \A i \in DOMAIN tq[t] : tq[t][i].fd \in Fds
    /\ destroyer \in [Fds -> Tasks \cup {"app", NoActor}]
    /\ \A t \in Tasks : accepting[t] = NoAccept \/ accepting[t].fd \in Fds
    /\ orphans \in Nat
    /\ fault \in STRING

(* A poke for f is in the control pipe, on its way there, or read by the   *)
(* watcher, which waits for f's lock to handle it.                         *)
Poked(f) == \/ \E i \in DOMAIN pipe : pipe[i] = f
            \/ \E s \in stalled : s.msg = f
            \/ wpc = "ctlsock" /\ wmsg = f

(* Events on task queues that name socket f's live incarnation.            *)
EventsFor(f, action) ==
    UNION {{<<t, i>> : i \in {j \in DOMAIN tq[t] : /\ tq[t][j].fd = f
                                               /\ tq[t][j].gen = sock[f].gen
                                               /\ tq[t][j].action = action}}
           : t \in Tasks}

(* No use after free: every internal event on a task's queue (dispatched   *)
(* by the watcher with references++) names a socket that destroy() has not *)
(* freed, in the incarnation it was sent for.                              *)
NoUseAfterFree ==
    \A t \in Tasks : \A i \in DOMAIN tq[t] :
        LET e == tq[t][i] IN fdstate[e.fd] = "Managed" /\ sock[e.fd].gen = e.gen

(* pending_recv / pending_send / pending_accept are set exactly while the  *)
(* socket's readable_ev / writable_ev is on a task's queue for that work:  *)
(* dispatch_read/write/accept set them, internal_recv/send/accept clear    *)
(* them, and nothing else touches them.                                    *)
PendingMatchesQueuedEvent ==
    \A f \in Fds : Live(f) =>
        \A dir \in Dirs \cup {"accept"} : sock[f][Pending(dir)] <=> EventsFor(f, dir) # {}

(* The watcher never select()s on a descriptor that is closed: both paths  *)
(* that close a ClosePending descriptor (the control message and the scan) *)
(* clear its bits, and the recomputation sets bits only of managed ones;   *)
(* nor does it watch for reading a socket whose readable_ev is in flight.  *)
WatchedFdsOpen ==
    /\ \A f \in read_fds \cup write_fds : fdstate[f] # "Closed"
    /\ \A f \in read_fds : Live(f) => ~sock[f].pending_recv

(* No lost wakeup for receives: a live socket with a receive queued and no *)
(* readable_ev in flight is watched for reading, or a poke for it is in    *)
(* the control pipe so that the watcher recomputes its bits.  Every path   *)
(* that leaves requests behind (isc_socket_recv queuing on an empty list,  *)
(* internal_recv stopping on a soft error, cancel) has to poke.            *)
RecvWatched ==
    \A f \in Fds :
        Live(f) /\ sock[f].references > 0 /\ ReadWanted(sock[f])
            => f \in read_fds \/ Poked(f)

(* The same for sends: a live socket with a send queued and no writable_ev *)
(* in flight for it is watched for writing, has a poke in the pipe, or has *)
(* writable_ev in flight for its connect, whose handler internal_connect   *)
(* would then have to re-arm the descriptor.                               *)
SendWatched ==
    \A f \in Fds :
        Live(f) /\ sock[f].references > 0 /\ sock[f].send_list # <<>> /\ ~sock[f].pending_send
            => \/ f \in write_fds
               \/ Poked(f)
               \/ EventsFor(f, "connect") # {}

(* Completions are in request order: every request still queued has a      *)
(* higher id than every request of its direction that has completed        *)
(* (other than by cancel), so isc_socket_recv/send never complete a new    *)
(* request at once while older ones wait, and the drain loops post in      *)
(* list order.                                                             *)
CompletionFIFO ==
    \A f \in Fds : Live(f) => \A dir \in Dirs :
        \A i \in DOMAIN sock[f][List(dir)] : sock[f][List(dir)][i].id > hist[f][dir].maxId

(* A sticky result is the result of the last completion of its direction:  *)
(* once recv_result or send_result is set, every later request and marker  *)
(* completes with it, whether it completes at once or from the drain loop. *)
StickyResultReplayed ==
    \A f \in Fds : Live(f) => \A dir \in Dirs :
        sock[f][Result(dir)] # "Success" => hist[f][dir].last = sock[f][Result(dir)]

(* Every descriptor the manager still owns, open or waiting to be closed, *)
(* is below the maxfd + 1 that the watcher hands to select() and walks in  *)
(* its scan.  The scan is where a CLOSE_PENDING descriptor is closed, so   *)
(* a maxfd lowered too early (the XXX in destroy) or not raised when a     *)
(* socket or an accepted connection is registered would leave it open,     *)
(* or its socket never served.                                             *)
MaxfdCoversManaged ==
    \A f \in Fds : fdstate[f] # "Closed" => f <= maxfd

(* After isc_socketmgr_destroy returns, no descriptor is left open and no  *)
(* internal event is left on a task for a socket that no longer exists.    *)
ShutdownQuiescent ==
    mgr = "destroyed" =>
        /\ \A f \in Fds : fdstate[f] = "Closed"
        /\ \A t \in Tasks : tq[t] = <<>>

(* The watcher's scan dispatches only work that is still there: for each   *)
(* descriptor left to scan that select() reported, a live socket still has *)
(* a request for dispatch_read / dispatch_write / dispatch_connect to take *)
(* (their INSIST(ev != NULL)) and no event of that kind already in flight. *)
WatcherDispatchesQueuedWork ==
    wpc = "scan" =>
        \A f \in toscan : Live(f) /\ sock[f].references > 0 =>
            /\ f \in readfds => ReadWanted(sock[f])
            /\ f \in writefds =>
                 IF sock[f].connecting THEN sock[f].connect_ev # NoConnect
                                       ELSE sock[f].send_list # <<>> /\ ~sock[f].pending_send

(* Each of a socket's two embedded internal events is on at most one task  *)
(* queue, at most once (ISC_LIST_ENQUEUE of a linked event corrupts the    *)
(* list).                                                                  *)
InternalEventQueuedOnce ==
    \A f \in Fds : \A ev \in {"readable", "writable"} : Cardinality(Queued(tq, f, ev)) <= 1

(* A socket is connecting exactly while it holds a connect request.        *)
ConnectingIffConnectEv ==
    \A f \in Fds : Live(f) => (sock[f].connecting <=> sock[f].connect_ev # NoConnect)

(* The watcher thread stops only when isc_socketmgr_destroy asks it to:   *)
(* it reads SELECT_POKE_SHUTDOWN from the control pipe only once the       *)
(* manager is no longer running, so a live manager's sockets keep being    *)
(* served.  Every select_poke of a socket's fd must therefore name a real  *)
(* descriptor, including the one destroy() sends for the new socket of a   *)
(* failed accept.                                                          *)
WatcherStopsOnlyAtShutdown == done => mgr # "running"

(* Task references are balanced: each task holds its own reference plus    *)
(* one per request of it still queued; every done event sent for a         *)
(* request that attached the task detaches it, and no other does.          *)
QueuedFor(t) ==
    LET Count(q) == Cardinality({i \in DOMAIN q : q[i].task = t})
    IN  MapThenSumSet(LAMBDA f : Count(sock[f].recv_list) + Count(sock[f].send_list)
                                 + Count(sock[f].accept_list)
                                 + (IF sock[f].connect_ev.task = t THEN 1 ELSE 0),
                      {f \in Fds : fdstate[f] # "Closed"})
        + Cardinality({u \in Tasks : accepting[u].dev.task = t})

TaskRefsAccounted == \A t \in Tasks : taskRefs[t] = 1 + QueuedFor(t)

(* Kernel errors on a datagram socket are soft (spec section 7, and the     *)
(* comment in doio_send): a UDP socket's sticky recv_result and send_result *)
(* stay Success, so one failed sendmsg()/recvmsg() does not fail every      *)
(* later request on that socket.                                           *)
DatagramResultsNeverSticky ==
    \A f \in Fds : Live(f) /\ sock[f].type = "udp" =>
        \A dir \in Dirs : sock[f][Result(dir)] = "Success"

(* A socket whose last connect completed with Success is connected, so that *)
(* SOFT_OR_HARD in doio_recv/doio_send treats ECONNREFUSED and the like as *)
(* hard, sticky errors on it, whether connect() succeeded at once in       *)
(* isc_socket_connect or later in internal_connect.                        *)
ConnectedAfterConnect ==
    \A f \in Fds : Live(f) /\ hist[f].connectOK => sock[f].connected

(* select_poke never deadlocks: a thread spinning on a full control pipe   *)
(* never holds the lock the watcher, the only reader of the pipe, is       *)
(* waiting for.  API calls and internal handlers poke under the socket     *)
(* lock, destroy() under the manager lock; the watcher takes the manager   *)
(* lock after select() and each socket's lock while it drains the pipe or  *)
(* scans.                                                                  *)
NoPokeDeadlock ==
    \A s \in stalled : Len(pipe) = PipeCapacity => s.lock \notin WatcherNeeds

(* The socket keeps the promises of SocketQueue: isc_socket_recv/send      *)
(* append, internal_recv/internal_send complete a head of the list, the    *)
(* sticky result changes only from Success and is replayed, cancel only    *)
(* removes requests, and destroy() retires a socket with empty lists.      *)
QueueSpec == SQ!Spec

(* A socket whose last reference is dropped has its descriptor closed by   *)
(* the watcher (or the process aborts on destroy()'s INSISTs): destroy()   *)
(* gets the manager lock, marks it ClosePending and pokes, and the watcher *)
(* closes it in its control loop or its scan.                              *)
DestroyedSocketClosed ==
    \A f \in Fds : destroyer[f] # NoActor ~> (fdstate[f] = "Closed" \/ fault # NoFault)

(* isc_socketmgr_destroy returns: its SHUTDOWN poke reaches the watcher,   *)
(* which exits, and the join completes.                                    *)
ShutdownCompletes ==
    mgr = "joining" ~> (mgr = "destroyed" \/ fault # NoFault)


(* select() returning with descriptor f readable, when the watcher's copy *)
(* of read_fds has it.  Whether the kernel does so is its choice.          *)
ReportsReadable(f) == WatcherSelect /\ wpc' = "locking" /\ f \in readfds'

(* A receive queued on a live socket is not forgotten: provided the kernel *)
(* keeps reporting a watched descriptor readable, readable_ev is sent to   *)
(* the socket's task (pending_recv), unless the list empties (completion   *)
(* by isc_socket_recv, cancel) or the socket or the manager goes away.     *)
(* It takes the poke of isc_socket_recv or of internal_recv's Rearm, the   *)
(* watcher's control loop setting the read bit, select() and the scan.     *)
RecvEventuallyDispatched ==
    \A f \in Fds :
        SF_vars(ReportsReadable(f)) =>
            (Live(f) /\ sock[f].references > 0 /\ sock[f].recv_list # <<>> /\ ~sock[f].pending_recv
                ~> \/ sock[f].pending_recv \/ sock[f].recv_list = <<>>
                   \/ ~Live(f) \/ mgr # "running" \/ fault # NoFault)
=============================================================================
