---------------------------- MODULE ClientGroup -----------------------------
(***************************************************************************)
(* A group of clients, one per path (rxplus/ws/client_group.py): program   *)
(* threads that send values, the thread that ends the group, and the loop  *)
(* thread of each child, which may fail as soon as the child is made.      *)
(*                                                                         *)
(* The lock of the group is not reentrant.  A child's output is a subject: *)
(* whoever subscribes after its end is told of the end at once, on the     *)
(* subscribing thread.                                                     *)
(***************************************************************************)
EXTENDS Integers, FiniteSets

CONSTANTS
    Callers,      \* program threads
    Paths,        \* the tags of the values
    Nobody,       \* no thread holds the lock
    MaxCalls,     \* bound: values sent
    MaxChildren   \* bound: children made

Children == 1..MaxChildren
NoChild == 0

VARIABLES
    lock,     \* the holder of _clients_lock
    clients,  \* _clients: per path its child, or NoChild
    stopped,  \* _stopped
    made,     \* children made so far
    child,    \* per child: its path, its end, who subscribed, its loop thread
    call,     \* per caller: where its call is, the path, the child
    calls,    \* calls made
    stopper,  \* where the end of the group is, and the children it took
    errors    \* children whose error went out on child_errors

vars == <<lock, clients, stopped, made, child, call, calls, stopper, errors>>

IdleCall(p) == [at |-> "idle", path |-> p, child |-> NoChild]

Init ==
    /\ lock = Nobody
    /\ clients = [p \in Paths |-> NoChild]
    /\ stopped = FALSE
    /\ made = 0
    /\ child = [c \in Children |-> [path |-> CHOOSE p \in Paths : TRUE, end |-> "none",
                                    bridged |-> FALSE, loop |-> "none"]]
    /\ call = [th \in Callers |-> IdleCall(CHOOSE p \in Paths : TRUE)]
    /\ calls = 0
    /\ stopper = [at |-> "none", taken |-> {}]
    /\ errors = {}

-----------------------------------------------------------------------------
(* on_next and open_path: _ensure_client under the lock.                   *)

CallOnly == UNCHANGED <<stopped, stopper>>

Sends(th) ==
    /\ call[th].at = "idle"
    /\ calls < MaxCalls
    /\ calls' = calls + 1
    /\ \E p \in Paths : call' = [call EXCEPT ![th] = [IdleCall(p) EXCEPT !.at = "lock"]]
    /\ CallOnly
    /\ UNCHANGED <<lock, clients, made, child, errors>>

(* Nothing once stopped; a child that exists; or a new one, whose loop     *)
(* thread runs from now on.                                                *)
EnsuresClient(th) ==
    LET p == call[th].path
    IN  /\ call[th].at = "lock"
        /\ lock = Nobody
        /\ \/ /\ stopped
              /\ call' = [call EXCEPT ![th].at = "idle"]
              /\ UNCHANGED <<lock, clients, made, child>>
           \/ /\ ~stopped /\ clients[p] # NoChild
              /\ call' = [call EXCEPT ![th].at = "send", ![th].child = clients[p]]
              /\ UNCHANGED <<lock, clients, made, child>>
           \/ /\ ~stopped /\ clients[p] = NoChild
              /\ made < MaxChildren
              /\ made' = made + 1
              /\ lock' = th
              /\ clients' = [clients EXCEPT ![p] = made']
              /\ child' = [child EXCEPT ![made'].path = p, ![made'].loop = "run"]
              /\ call' = [call EXCEPT ![th].at = "bridge", ![th].child = made']
    /\ CallOnly
    /\ UNCHANGED <<calls, errors>>

(* _bridge, still under the lock.                                          *)
Bridges(th) ==
    LET c == call[th].child
    IN  /\ call[th].at = "bridge"
        /\ \/ /\ child[c].end = "none"
              /\ child' = [child EXCEPT ![c].bridged = TRUE]
              /\ lock' = Nobody
              /\ call' = [call EXCEPT ![th].at = "send"]
           \/ /\ child[c].end # "none"
              /\ call' = [call EXCEPT ![th].at = "forget"]
              /\ UNCHANGED <<child, lock>>
        /\ CallOnly
        /\ UNCHANGED <<clients, made, calls, errors>>

(* forget(): only the child that the path still has is removed, and only   *)
(* its error is reported.                                                  *)
Forgets(c) ==
    /\ lock = Nobody
    /\ IF clients[child[c].path] = c
       THEN /\ clients' = [clients EXCEPT ![child[c].path] = NoChild]
            /\ errors' = IF child[c].end = "error" THEN errors \union {c} ELSE errors
       ELSE UNCHANGED <<clients, errors>>

(* The same forget() on the thread that holds the lock.                    *)
ForgetsInBridge(th) ==
    /\ call[th].at = "forget"
    /\ Forgets(call[th].child)
    /\ call' = [call EXCEPT ![th].at = "send"]
    /\ CallOnly
    /\ UNCHANGED <<lock, made, child, calls>>

(* The value goes to the child, whose own queue is another module's.       *)
Delivers(th) ==
    /\ call[th].at = "send"
    /\ call' = [call EXCEPT ![th].at = "idle", ![th].child = NoChild]
    /\ CallOnly
    /\ UNCHANGED <<lock, clients, made, child, calls, errors>>

Caller(th) ==
    \/ Sends(th) \/ EnsuresClient(th) \/ Bridges(th) \/ ForgetsInBridge(th) \/ Delivers(th)

-----------------------------------------------------------------------------
(* The loop thread of child c.                                             *)

LoopOnly == UNCHANGED <<stopped, made, call, calls>>

(* Its retries are exhausted.                                              *)
Fails(c) ==
    /\ child[c].loop = "run"
    /\ child[c].end = "none"
    /\ child' = [child EXCEPT ![c].end = "error",
                              ![c].loop = IF child[c].bridged THEN "forget" ELSE "ended"]
    /\ UNCHANGED <<lock, clients, errors, stopper>>
    /\ LoopOnly

LoopForgets(c) ==
    /\ child[c].loop = "forget"
    /\ Forgets(c)
    /\ child' = [child EXCEPT ![c].loop = "ended"]
    /\ UNCHANGED <<lock, stopper>>
    /\ LoopOnly

-----------------------------------------------------------------------------
(* on_completed and on_error of the group.                                 *)

StopsChildren ==
    /\ stopper.at = "none"
    /\ lock = Nobody
    /\ stopped' = TRUE
    /\ stopper' = [at |-> "children", taken |-> {clients[p] : p \in Paths} \ {NoChild}]
    /\ clients' = [p \in Paths |-> NoChild]
    /\ UNCHANGED <<lock, made, child, call, calls, errors>>

CompletesChild ==
    /\ stopper.at = "children"
    /\ \E c \in stopper.taken :
          /\ stopper' = [stopper EXCEPT !.taken = @ \ {c}]
          /\ child' = IF child[c].end # "none" THEN child
                      ELSE [child EXCEPT ![c].end = "completed",
                                ![c].loop = IF child[c].bridged THEN "forget" ELSE "ended"]
    /\ UNCHANGED <<lock, clients, stopped, made, call, calls, errors>>

GroupEnds ==
    /\ stopper.at = "children" /\ stopper.taken = {}
    /\ stopper' = [stopper EXCEPT !.at = "done"]
    /\ UNCHANGED <<lock, clients, stopped, made, child, call, calls, errors>>

Stopper == StopsChildren \/ CompletesChild \/ GroupEnds

Next ==
    \/ Stopper
    \/ \E th \in Callers : Caller(th)
    \/ \E c \in Children : Fails(c) \/ LoopForgets(c)

(* A thread that can go on does; children need not fail, nobody need call  *)
(* and the group need not be ended.                                        *)
GoesOn(th) == EnsuresClient(th) \/ Bridges(th) \/ ForgetsInBridge(th) \/ Delivers(th)

Spec ==
    /\ Init /\ [][Next]_vars
    /\ \A th \in Callers : SF_vars(GoesOn(th))
    /\ \A c \in Children : SF_vars(LoopForgets(c))
    /\ WF_vars(CompletesChild \/ GroupEnds)

-----------------------------------------------------------------------------

(* The docstring of the group: "A child that ends with an error (e.g. its  *)
(* retries are exhausted) is removed, ... the group and its other children *)
(* go on, and the next value for that path starts a new child."            *)
FailedChildRemoved ==
    \A c \in Children :
        child[c].end = "error" ~> \A p \in Paths : clients[p] # c
=============================================================================
