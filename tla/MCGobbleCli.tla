---------------------------- MODULE MCGobbleCli ----------------------------
(***************************************************************************)
(* Model of GobbleCli: two lookup tables, two upgradeable programs with    *)
(* their programdata, one of which may turn out not to be a program, a     *)
(* program that holds its image, a plain account and the sysvar.           *)
(***************************************************************************)
EXTENDS GobbleCli

CONSTANTS T1, T2, P, PD, R, RD, L, W, I, Old, New, Bad

MCKeys == {T1, T2, P, PD, R, RD, L, W, I}

Plain == [kind |-> "plain"]
Table(addresses) == [kind |-> "table", addresses |-> addresses]
Loader(elf) == [kind |-> "loader", elf |-> elf]
Upgradeable(key) == [kind |-> "upgradeable", programdata |-> key]
Programdata(elf) == [kind |-> "programdata", elf |-> elf]

MCLedgerStates == [k \in MCKeys |->
    CASE k = T1 -> {Table(<<P, W>>), Table(<<P, W, L>>), Missing}
      [] k = T2 -> {Table(<<L, I>>), Plain}
      [] k = P  -> {Upgradeable(PD), Missing}
      [] k = PD -> {Programdata(Old), Programdata(New)}
      [] k = R  -> {Upgradeable(RD), Upgradeable(None)}
      [] k = RD -> {Programdata(Old), Programdata(Bad), Missing}
      [] k = L  -> {Loader(Old), Loader(Bad)}
      [] k = W  -> {Plain}
      [] k = I  -> {Plain, Missing}]

MCFirstLedger == [k \in MCKeys |->
    CASE k = T1 -> Table(<<P, W>>)
      [] k = T2 -> Table(<<L, I>>)
      [] k = P  -> Upgradeable(PD)
      [] k = PD -> Programdata(Old)
      [] k = R  -> Upgradeable(RD)
      [] k = RD -> Programdata(Old)
      [] k = L  -> Loader(Old)
      [] k = W  -> Plain
      [] k = I  -> Missing]

Lookups(table, writes, reads) == [table |-> table, writable |-> writes, readonly |-> reads]

\* Two legacy messages, one whose two tables both have writable and read-only
\* addresses, and one that looks past the end of a table that may be extended.
MCMessages ==
    { [static |-> <<R, P, I>>, lookups |-> << >>, watches |-> TRUE],
      [static |-> <<W>>, lookups |-> << >>, watches |-> FALSE],
      [static |-> <<R>>, watches |-> TRUE,
       lookups |-> <<Lookups(T1, <<2>>, <<1>>), Lookups(T2, <<1>>, <<2>>)>>],
      [static |-> <<W>>, watches |-> TRUE, lookups |-> <<Lookups(T1, << >>, <<3>>)>>] }
=============================================================================
