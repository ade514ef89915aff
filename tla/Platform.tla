------------------------------ MODULE Platform -------------------------------
(***************************************************************************)
(* What the modules of the api-server's administrative parts share: the    *)
(* part a behaviour is about, and the number of things that people, the    *)
(* network and other programs may still do in it.  The parts share no      *)
(* state, so an invariant of one holds of all of them together as soon as  *)
(* it holds of the behaviours in which only that part moves.               *)
(***************************************************************************)
EXTENDS Integers, Sequences, FiniteSets

CONSTANTS
    NULL,
    MaxOps      \* bound: per part, how many outside events a behaviour has

ASSUME PlatformAssumption == \A p \in DOMAIN MaxOps : MaxOps[p] \in Nat

VARIABLES
    part,
    ops

PlatformInit(parts) == part \in parts /\ ops = 0

(* One more outside event in this part. *)
Op == ops < MaxOps[part] /\ ops' = ops + 1 /\ UNCHANGED part
NoOp == UNCHANGED <<part, ops>>
=============================================================================
