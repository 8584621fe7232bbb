---------------------------- MODULE MCInvocation ----------------------------
(***************************************************************************)
(* Model of Invocation: two programs that run in VMs, a builtin that pays  *)
(* and one that does not, and a program that is not deployed; a data       *)
(* account of the first program and its signing address.                   *)
(***************************************************************************)
EXTENDS Invocation, SequencesExt

CONSTANTS P, Q, B, F, Z, D, S

MCPrograms == {P, Q, B, F, Z}
MCAccounts == MCPrograms \cup {D, S}
MCKind == [x \in MCPrograms |-> CASE x \in {P, Q} -> "vm"
                                  [] x \in {B, F} -> "builtin"
                                  [] x = Z -> "missing"]
MCBuiltinCost == [x \in MCPrograms |-> IF x = B THEN 1 ELSE 0]
MCOwner == [x \in MCAccounts |-> IF x = D THEN P ELSE B]
MCPdas == [x \in MCPrograms |-> IF x = P THEN {D} ELSE {}]
MCLamports == [x \in MCAccounts |-> IF x = D THEN 1 ELSE 0]

m(account, signer, writable) ==
    [account |-> account, signer |-> signer, writable |-> writable]
r(program, metas) == [program |-> program, metas |-> metas, signers |-> {}]

\* All programs and the sysvar, and the data account twice, writable or not.
All(writable) ==
    <<m(P, FALSE, FALSE), m(Q, FALSE, TRUE), m(B, FALSE, FALSE), m(F, FALSE, FALSE),
      m(Z, FALSE, FALSE), m(S, FALSE, FALSE), m(D, FALSE, writable),
      m(D, FALSE, writable)>>

MCTopLevel == {r(p, All(w)) : p \in {P, B}, w \in BOOLEAN}

\* D and S, D twice with flags that differ, and everything again.
MCRequests ==
    {r(p, All(FALSE)) : p \in {P, Q, B}}
        \cup {r(Z, << >>), r(F, << >>)}
        \cup {[program |-> Q, signers |-> {D},
               metas |-> <<m(S, FALSE, FALSE), m(D, FALSE, FALSE),
                           m(D, TRUE, FALSE), m(D, FALSE, TRUE)>>]}
        \cup {r(Q, <<m(D, FALSE, TRUE), m(Q, FALSE, TRUE), m(P, FALSE, FALSE)>>)}
        \cup {[program |-> Q, signers |-> {D}, metas |-> <<m(S, TRUE, FALSE)>>]}

\* The first loop of prepare_next_instruction as it runs.
FirstLoop(metas) ==
    FoldLeft(LAMBDA done, meta :
                IF IndicesOf(done, meta.account) = {} THEN Append(done, meta)
                ELSE LET first  == FirstOf(done, meta.account)
                         joined == Joined(done[first], meta)
                     IN  Append([done EXCEPT ![first] = joined], joined),
             << >>, metas)

\* Deduplicated is what the loop computes.
ASSUME DeduplicationAssumption ==
    \A n \in 0 .. 4 :
        \A metas \in [1 .. n -> [account : {P, D}, signer : BOOLEAN, writable : BOOLEAN]] :
            Deduplicated(metas) = FirstLoop(metas)
=============================================================================
