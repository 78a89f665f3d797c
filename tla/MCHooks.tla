------------------------------ MODULE MCHooks ------------------------------
(* The main thread calls every hooked function, the second thread one of   *)
(* each class.                                                             *)
EXTENDS Hooks

CONSTANTS t1, t2

Opt(dmt, annot, nondet, regular, dbug) ==
  [dmt |-> dmt, annot |-> annot, nondet |-> nondet, regular |-> regular, dbug |-> dbug]

MCCalls ==
  [t \in Threads |->
    IF t = t1 THEN Hooked \ NotIntercepted
    ELSE {"send", "pthread_exit"}]
MCOptions ==
  {Opt(TRUE, TRUE, TRUE, TRUE, FALSE), Opt(TRUE, TRUE, TRUE, FALSE, TRUE),
   Opt(FALSE, TRUE, FALSE, TRUE, FALSE)}
=============================================================================
