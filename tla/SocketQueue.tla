----------------------------- MODULE SocketQueue -----------------------------
(***************************************************************************)
(* What a socket of lib/isc/unix/socket.c promises the callers of its      *)
(* recv and send requests, with no watcher, pipe, task or kernel in sight: *)
(*                                                                         *)
(*  - a request gets a fresh id and joins the tail of its direction's list *)
(*    (or completes at once when the list is empty);                       *)
(*  - requests complete from the head of the list, in order, unless a      *)
(*    cancel takes any of them out;                                        *)
(*  - the sticky result of a direction only ever changes from Success,     *)
(*    and once set every completion of that direction carries it;          *)
(*  - a socket is retired only with both lists empty, and a new            *)
(*    incarnation of its descriptor starts afresh.                         *)
(*                                                                         *)
(* done[f][d] records the highest id and the result of the last            *)
(* completion of direction d of socket slot f that was not a cancel.      *)
(***************************************************************************)
EXTENDS Naturals, Sequences, SequencesExt

CONSTANTS
    Fds,        \* socket descriptor slots
    Results,    \* completion results, "Cancelled" among them
    MaxId       \* bound on request ids

VARIABLES queue, res, done

Dirs     == {"recv", "send"}
NotDone  == [maxId |-> 0, last |-> "none"]
Outcomes == Results \ {"Cancelled"}

qvars == <<queue, res, done>>

Init ==
    /\ queue = [f \in Fds |-> [d \in Dirs |-> <<>>]]
    /\ res   = [f \in Fds |-> [d \in Dirs |-> "Success"]]
    /\ done  = [f \in Fds |-> [d \in Dirs |-> NotDone]]

(* A request id is fresh when it is above every id its direction has seen. *)
Fresh(f, d, id) ==
    /\ id > done[f][d].maxId
    /\ \A i \in DOMAIN queue[f][d] : id > queue[f][d][i]

(* The result r of the last of a batch of completions, and the sticky      *)
(* result they leave behind.                                               *)
Sticky(f, d, r) ==
    \/ /\ res[f][d] # "Success"
       /\ r = res[f][d]
       /\ UNCHANGED res
    \/ /\ res[f][d] = "Success"
       /\ \E new \in Outcomes : /\ res' = [res EXCEPT ![f][d] = new]
                               /\ new # "Success" => r = new

Post(f, d, id) ==
    /\ Fresh(f, d, id)
    /\ queue' = [queue EXCEPT ![f][d] = Append(@, id)]
    /\ UNCHANGED <<res, done>>

CompleteAtOnce(f, d, id) ==
    /\ queue[f][d] = <<>> /\ Fresh(f, d, id)
    /\ \E r \in Outcomes : /\ done' = [done EXCEPT ![f][d] = [maxId |-> id, last |-> r]]
                           /\ Sticky(f, d, r)
    /\ UNCHANGED queue

(* The first n requests complete, the last of them with r.                *)
CompleteHead(f, d) ==
    \E n \in 1..Len(queue[f][d]), r \in Outcomes :
        /\ queue' = [queue EXCEPT ![f][d] = SubSeq(@, n + 1, Len(@))]
        /\ done' = [done EXCEPT ![f][d] = [maxId |-> queue[f][d][n], last |-> r]]
        /\ Sticky(f, d, r)

(* A cancel removes any requests of either direction.                     *)
Cancel(f) ==
    /\ \E kr \in AllSubSeqs(queue[f]["recv"]), ks \in AllSubSeqs(queue[f]["send"]) :
          queue' = [queue EXCEPT ![f] = [recv |-> kr, send |-> ks]]
    /\ UNCHANGED <<res, done>>

Retire(f) ==
    /\ \A d \in Dirs : queue[f][d] = <<>>
    /\ res' = [res EXCEPT ![f] = [d \in Dirs |-> "Success"]]
    /\ done' = [done EXCEPT ![f] = [d \in Dirs |-> NotDone]]
    /\ UNCHANGED queue

Next ==
    \/ \E f \in Fds, d \in Dirs, id \in 1..MaxId : Post(f, d, id) \/ CompleteAtOnce(f, d, id)
    \/ \E f \in Fds, d \in Dirs : CompleteHead(f, d)
    \/ \E f \in Fds : Cancel(f) \/ Retire(f)

Spec == Init /\ [][Next]_qvars

=============================================================================
