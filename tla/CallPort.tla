------------------------------ MODULE CallPort ------------------------------
(***************************************************************************)
(* What one upstream process promises its callers, whatever goes on inside *)
(* UpstreamWorker (src/irigate/upstream.py): a call is forwarded at most   *)
(* once, calls start in the order in which they were submitted, and one at *)
(* a time if the process takes no more; a reply that has been fixed is     *)
(* never changed, and every caller gets its answer back or is told that    *)
(* its time is up.                                                         *)
(* Worker is shown to implement this specification.                        *)
(***************************************************************************)
EXTENDS Naturals, Sequences

CONSTANTS Calls,   \* the calls that may be submitted, each one once
          Serial   \* whether calls run one at a time

VARIABLES line,     \* the submitted calls that have not started, in order
          running,  \* the calls being executed by the upstream process
          reply,    \* the reply fixed for each call
          caller    \* what each caller is doing

portVars == <<line, running, reply, caller>>

Replies == {"none", "pending", "ok", "toolError", "failed", "cancelled"}
Fixed(r) == r \notin {"none", "pending"}

PortInit ==
    /\ line = <<>>
    /\ running = {}
    /\ reply = [c \in Calls |-> "none"]
    /\ caller = [c \in Calls |-> "new"]

Submit(c) ==
    /\ caller[c] = "new"
    /\ line' = Append(line, c)
    /\ reply' = [reply EXCEPT ![c] = "pending"]
    /\ caller' = [caller EXCEPT ![c] = "waiting"]
    /\ UNCHANGED running

Decline(c) ==
    /\ caller[c] = "new"
    /\ caller' = [caller EXCEPT ![c] = "refused"]
    /\ UNCHANGED <<line, running, reply>>

Begin ==
    /\ line # <<>>
    /\ Serial => running = {}
    /\ line' = Tail(line)
    /\ running' = running \union {Head(line)}
    /\ UNCHANGED <<reply, caller>>

Finish(c) ==
    /\ c \in running
    /\ running' = running \ {c}
    /\ \/ /\ reply[c] = "pending"
          /\ \E r \in {"ok", "toolError", "failed"} : reply' = [reply EXCEPT ![c] = r]
       \/ Fixed(reply[c]) /\ UNCHANGED reply
    /\ UNCHANGED <<line, caller>>

(* The process is lost or killed: replies that were still open become      *)
(* failures, calls may vanish from the line and from the process together. *)
Break ==
    /\ line' \in {line, <<>>}
    /\ running' \subseteq running
    /\ \E S \in SUBSET {c \in Calls : reply[c] = "pending"} :
          /\ {c \in Calls : reply[c] = "pending"} \ S
                \subseteq {line'[i] : i \in DOMAIN line'} \union running'
          /\ reply' = [c \in Calls |-> IF c \in S THEN "failed" ELSE reply[c]]
    /\ UNCHANGED caller

GiveUp(c) ==
    /\ caller[c] = "waiting"
    /\ \/ caller' = [caller EXCEPT ![c] = "abandoned"] /\ UNCHANGED reply
       \/ /\ caller' = [caller EXCEPT ![c] = "timedOut"]
          /\ reply' = [reply EXCEPT ![c] = IF reply[c] = "pending" THEN "cancelled" ELSE reply[c]]
    /\ UNCHANGED <<line, running>>

Answer(c) ==
    /\ caller[c] = "waiting"
    /\ Fixed(reply[c])
    /\ caller' = [caller EXCEPT ![c] = "answered"]
    /\ UNCHANGED <<line, running, reply>>

PortNext ==
    \/ Begin \/ Break
    \/ \E c \in Calls : Submit(c) \/ Decline(c) \/ Finish(c) \/ GiveUp(c) \/ Answer(c)

(* A caller waits for a bounded time only.                                 *)
PortSpec ==
    /\ PortInit /\ [][PortNext]_portVars
    /\ \A c \in Calls : WF_portVars(Answer(c) \/ GiveUp(c))
=============================================================================
