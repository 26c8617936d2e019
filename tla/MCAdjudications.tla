--------------------------- MODULE MCAdjudications ---------------------------
(* Values of the constants of Adjudications for TLC. *)
EXTENDS Adjudications, TLC

\* Amounts count eighths of a cent, and a column keeps them rounded half away from
\* zero.  Two eighths stand for finalize.ts's 1e-9, which is as far from half a cent.
Cent == 8
MCStored == [a \in Amounts |-> Cent * ((a + Cent \div 2) \div Cent)]
MCTolerance == 2

\* Every claim claims a cent.
MCClaimed == [c \in Claims |-> Cent]

StoreSymmetry == Permutations(Calls) \cup Permutations(Requests) \cup Permutations(Users)
=============================================================================
