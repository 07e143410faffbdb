---------------------------- MODULE MCProcess ----------------------------
(***************************************************************************)
(* Instances of Process for TLC.                                           *)
(***************************************************************************)
EXTENDS Process

CONSTANTS p1, p2, p3

\* What the program does: Main stops any process, and a worker that wants
\* equipment stops any other; also a run() without a module stops itself.
AnyoneMayStop == (Procs \cup {Main}) \X Procs

\* Every process has one stopper: Main stops p1, p1 stops p2, p2 stops p3.
ChainMayStop == {<<Main, p1>>, <<p1, p2>>, <<p2, p3>>}
===========================================================================
