----------------------------- MODULE BytePipes ------------------------------
(***************************************************************************)
(* What a channel promises to the programs at its two ends: each stream is *)
(* a pipe.  Its sink gets what its source wrote, in order and without gaps *)
(* (so that two counters describe it), and learns of the end of the stream *)
(* only when it has got everything.  A pipe whose sink refuses a write is  *)
(* broken; what its source writes after that may be lost.                  *)
(***************************************************************************)
EXTENDS Naturals

CONSTANT Streams

VARIABLE pipe   \* taken and given of each stream, and the state it is in

Init == pipe = [s \in Streams |-> [taken |-> 0, given |-> 0, state |-> "flow"]]

(* The source writes, and ends; the sink reads, and learns of the end.     *)
Write(p, q)  == /\ p.state = "flow" /\ q.taken > p.taken
                /\ q = [p EXCEPT !.taken = q.taken]
Finish(p, q) == /\ p.state = "flow" /\ q = [p EXCEPT !.state = "eof"]
Read(p, q)   == /\ p.state \in {"flow", "eof"}
                /\ p.given < q.given /\ q.given <= p.taken
                /\ q = [p EXCEPT !.given = q.given]
End(p, q)    == /\ p.state = "eof" /\ p.given = p.taken
                /\ q = [p EXCEPT !.state = "ended"]

(* The sink refuses a write; with that step and from then on anything that
   is written may get lost.                                                *)
Break(p, q)  == /\ p.state # "ended" /\ q.state = "broken"
                /\ q.taken >= p.taken /\ p.given <= q.given /\ q.given <= p.taken

Next == \A s \in Streams :
          \/ pipe'[s] = pipe[s]
          \/ Write(pipe[s], pipe'[s]) \/ Finish(pipe[s], pipe'[s])
          \/ Read(pipe[s], pipe'[s])  \/ End(pipe[s], pipe'[s])
          \/ Break(pipe[s], pipe'[s])

Spec == Init /\ [][Next]_pipe
=============================================================================
