---------------------------- MODULE MCMessageTower ----------------------------
(***************************************************************************)
(* Instances of the message-based control tower for TLC.                   *)
(***************************************************************************)
EXTENDS MessageTower

Setting(expo, lambda, tl, tp, to) ==
  [expo |-> expo, lambda |-> lambda, tl |-> tl, tp |-> tp, to |-> to]

\* [Config Default]: every time random.
RandomSettings == {Setting(TRUE, 1, 1, 1, 1)}

\* Constant times, take-offs no longer than landings: on a small scale from
\* several times the load the runway can carry to a fraction of it, with the
\* take-offs meeting the landings in every phase; and on the scale of
\* [Config simp], with its landing and take-off times exchanged.
PunctualSettings ==
  {Setting(FALSE, lambda, tl, tp, to) :
     <<lambda, tl, tp, to>> \in
       {v \in (1..12) \X (1..4) \X (0..12) \X (0..4) : v[4] <= v[2]}}
  \cup
  {Setting(FALSE, lambda, tl, 240, to) :
     <<lambda, tl, to>> \in (38..50) \X {20, 25} \X {15, 20}}
=============================================================================
