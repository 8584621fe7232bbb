----------------------- MODULE MCSchedulingStateMachine -----------------------
(***************************************************************************)
(* Model of SchedulingStateMachine: five tasks over two addresses.          *)
(***************************************************************************)
EXTENDS SchedulingStateMachine

R(a) == [address |-> a, usage |-> "readonly"]
W(a) == [address |-> a, usage |-> "writable"]

MCLockContexts ==
    [readA |-> <<R("a")>>, writeA |-> <<W("a")>>, readB |-> <<R("b")>>,
     both |-> <<W("b"), W("a")>>, mixed |-> <<W("a"), R("b")>>,
     crossed |-> <<R("a"), W("b")>>]

MCTransactions == DOMAIN MCLockContexts
=============================================================================
