------------------------------ MODULE Replies -------------------------------
(***************************************************************************)
(* What a connection promises to the program that makes calls on it: the   *)
(* replies come back to the callbacks in the order of the calls, each call *)
(* gets continued replies only if it asked for more, one last reply at     *)
(* most, and a oneway call or a call that could not be sent gets none.     *)
(***************************************************************************)
EXTENDS Naturals, Sequences

CONSTANT Kinds  \* the kinds of calls

VARIABLES issued,  \* the calls, oldest first; "void" for one that failed
          got      \* the replies the callbacks were executed with

vars == <<issued, got>>

Finished(i) == \E j \in DOMAIN got : got[j].call = i /\ got[j].kind = "final"

Open(i) == issued[i] \in {"plain", "more"} /\ ~Finished(i)

Issue == /\ \E kind \in Kinds \cup {"void"} : issued' = Append(issued, kind)
         /\ UNCHANGED got

Deliver(i, kind) ==
    /\ Open(i) /\ \A j \in 1..(i - 1) : ~Open(j)
    /\ kind = "continues" => issued[i] = "more"
    /\ got' = Append(got, [call |-> i, kind |-> kind])
    /\ UNCHANGED issued

\* The connection is closed: nothing is promised any more.
End == issued' = <<>> /\ got' = <<>>

Init == issued = <<>> /\ got = <<>>

Next == \/ Issue \/ End
        \/ \E i \in DOMAIN issued, kind \in {"continues", "final"} : Deliver(i, kind)

Spec == Init /\ [][Next]_vars
=============================================================================
