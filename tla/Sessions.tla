------------------------------ MODULE Sessions ------------------------------
(***************************************************************************)
(* What a varlink service promises to each of its connections, without     *)
(* buffers, events or references: the calls of a connection are served one *)
(* at a time and in the order in which they were sent; a call is answered  *)
(* by any number of continued replies, if it asked for more, and then by   *)
(* one last reply; a oneway call gets no reply but possibly an error.      *)
(* When a connection ends, the last replies may be lost, but never one     *)
(* between two that arrive.                                                *)
(***************************************************************************)
EXTENDS Naturals, Sequences, FiniteSets

CONSTANTS Connections, Kinds

VARIABLES requests,  \* requests[c]: the kinds of messages sent on c
          phase,     \* phase[c]: "open" or "over"
          active,    \* active[c]: the call that is served, 0 for none
          served,    \* served[c]: the calls taken up to now
          answers    \* answers[c]: the replies, oldest first

vars == <<requests, phase, active, served, answers>>

Callable == {"plain", "more", "oneway"}

ActiveKind(c) == requests[c][active[c]]

Given(c) == Cardinality({j \in DOMAIN answers[c] : answers[c][j].call = active[c]})

Reply(c, kind) ==
    answers' = [answers EXCEPT ![c] =
                  Append(@, [call |-> active[c], n |-> Given(c) + 1, kind |-> kind])]

Ask(c) ==
    /\ phase[c] = "open"
    /\ \E kind \in Kinds : requests' = [requests EXCEPT ![c] = Append(@, kind)]
    /\ UNCHANGED <<phase, active, served, answers>>

Take(c) ==
    /\ phase[c] = "open" /\ active[c] = 0
    /\ \E i \in DOMAIN requests[c] :
         /\ requests[c][i] \in Callable
         /\ \A j \in served[c] : j < i
         /\ active' = [active EXCEPT ![c] = i]
         /\ served' = [served EXCEPT ![c] = @ \cup {i}]
    /\ UNCHANGED <<requests, phase, answers>>

Continue(c) ==
    /\ active[c] # 0 /\ ActiveKind(c) = "more"
    /\ Reply(c, "continues")
    /\ UNCHANGED <<requests, phase, active, served>>

Answer(c) ==
    /\ active[c] # 0
    /\ \/ ActiveKind(c) # "oneway" /\ Reply(c, "final")
       \/ Reply(c, "error")
    /\ active' = [active EXCEPT ![c] = 0]
    /\ UNCHANGED <<requests, phase, served>>

Complete(c) ==
    /\ active[c] # 0 /\ ActiveKind(c) = "oneway"
    /\ active' = [active EXCEPT ![c] = 0]
    /\ UNCHANGED <<requests, phase, served, answers>>

\* The service ends the connection, or its client does, or one after the
\* other.
End(c) ==
    /\ phase' = [phase EXCEPT ![c] = "over"]
    /\ active' = [active EXCEPT ![c] = 0]
    /\ served' = [served EXCEPT ![c] = {}]
    /\ \E n \in 0..Len(answers[c]) :
         answers' = [answers EXCEPT ![c] = SubSeq(@, 1, n)]
    /\ UNCHANGED requests

Init ==
    /\ requests = [c \in Connections |-> <<>>]
    /\ phase = [c \in Connections |-> "open"]
    /\ active = [c \in Connections |-> 0]
    /\ served = [c \in Connections |-> {}]
    /\ answers = [c \in Connections |-> <<>>]

Next == \E c \in Connections :
          Ask(c) \/ Take(c) \/ Continue(c) \/ Answer(c) \/ Complete(c) \/ End(c)

Spec == Init /\ [][Next]_vars
=============================================================================
