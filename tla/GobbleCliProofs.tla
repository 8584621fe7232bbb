--------------------------- MODULE GobbleCliProofs ---------------------------
(***************************************************************************)
(* What GobbleCli promises of its images, its verdict and the addresses it *)
(* resolves, for every set of messages and addresses, whatever the ledger  *)
(* holds and however it changes between the calls.                         *)
(***************************************************************************)
EXTENDS GobbleCli, TLAPS, WellFoundedInduction

\* The message, and what its tables and the ledger hold.
KeysType ==
    /\ phase \notin {"start", "exited"} => message \in Messages
    /\ tables \in Seq(Accounts)
    /\ phase = "lookups" => Len(tables) <= Len(message.lookups)
    /\ writable \in Seq(Keys) /\ readonly \in Seq(Keys) /\ keys \in Seq(Keys)

LedgerType ==
    /\ ledger \in [Keys -> Accounts]
    /\ seen = [tables |-> seen.tables, accounts |-> seen.accounts,
               programdata |-> seen.programdata]

\* What was fetched is what the call for the accounts saw.
FetchedOK ==
    /\ fetched = [k \in DOMAIN keys |-> seen.accounts[keys[k]]]
    /\ \A k \in DOMAIN keys : fetched[k] \in Accounts

\* The accounts are built from it.
AccountsOK ==
    phase = "accounts" =>
        transaction_accounts = [k \in DOMAIN keys |-> AccountOf(keys[k], fetched[k])]

\* Program p names d.
Names(p, d) ==
    \E k \in DOMAIN keys :
        keys[k] = p /\ NamesProgramdata(fetched[k]) /\ fetched[k].programdata = d

\* The two vectors stay side by side.
VectorsOK ==
    /\ examined \in Nat
    /\ programdata_keys \in Seq(Keys) /\ program_ids \in Seq(Keys)
    /\ Len(program_ids) = Len(programdata_keys)
    /\ \A j \in 1 .. Len(program_ids) : Names(program_ids[j], programdata_keys[j])

\* Before any program is loaded.
Early == {"start", "tables", "lookups", "resolved", "fetched", "accounts"}

NothingLoaded ==
    phase \in Early =>
        /\ examined = 0 /\ programdata_keys = << >> /\ program_ids = << >>
        /\ cache = [k \in Keys |-> None]

\* The programs loaded first are those that hold their image.
HoldsImage(p) ==
    \E k \in DOMAIN keys :
        keys[k] = p /\ seen.accounts[p].kind = "loader" /\ seen.accounts[p].elf = cache[p]

LoadersFirst ==
    phase = "programs" => \A p \in Keys : cache[p] # None => HoldsImage(p)

VerdictOK ==
    /\ phase # "exited" => exit_code = None
    /\ phase = "executed" => execution.result # None
    /\ CleanVerdictIsEarned

IInv ==
    /\ KeysType
    /\ LedgerType
    /\ FetchedOK
    /\ AccountsOK
    /\ VectorsOK
    /\ NothingLoaded
    /\ LoadersFirst
    /\ ProgramsRunTheirOwnImage
    /\ VerdictOK

\* The accounts of the ledger.
LEMMA AccountFacts ==
    ASSUME NEW account \in Accounts
    PROVE  /\ account.kind = "table" => account.addresses \in Seq(Keys)
           /\ account.kind = "upgradeable" => account.programdata \in Keys \cup {None}
           /\ Addresses(account) \in Seq(Keys)
<1>1. /\ account.kind = "table" => account.addresses \in Seq(Keys)
      /\ account.kind = "upgradeable" => account.programdata \in Keys \cup {None}
  BY CliAssumption DEF Accounts
<1> QED
  BY <1>1 DEF Addresses

\* The messages.
LEMMA MessageFacts ==
    ASSUME NEW m \in Messages
    PROVE  /\ m.static \in Seq(Keys)
           /\ m.lookups \in Seq([table : Keys, writable : Seq(Nat), readonly : Seq(Nat)])
BY CliAssumption

\* Indexes within a table select addresses.
LEMMA Selected ==
    ASSUME NEW indexes \in Seq(Nat), NEW addresses \in Seq(Keys), Within(indexes, addresses)
    PROVE  At(indexes, addresses) \in Seq(Keys)
<1>1. \A j \in 1 .. Len(indexes) : addresses[indexes[j]] \in Keys
  BY DEF Within
<1>2. At(indexes, addresses) = [j \in 1 .. Len(indexes) |-> addresses[indexes[j]]]
  BY DEF At
<1> QED
  BY <1>1, <1>2

\* A call returns accounts of the ledger.
LEMMA Fetched ==
    ASSUME LedgerType, NEW ks \in Seq(Keys)
    PROVE  Fetch(ks) \in Seq(Accounts) /\ Len(Fetch(ks)) = Len(ks)
<1>1. \A j \in 1 .. Len(ks) : ledger[ks[j]] \in Accounts
  BY DEF LedgerType
<1>2. Fetch(ks) = [j \in 1 .. Len(ks) |-> ledger[ks[j]]]
  BY DEF Fetch
<1> QED
  BY <1>1, <1>2

\* Nothing has happened at first.
LEMMA InitInvariant == Init => IInv
<1> SUFFICES ASSUME Init PROVE IInv
  OBVIOUS
<1> USE DEF Init
<1>1. KeysType
  BY DEF KeysType
<1>2. LedgerType
  BY CliAssumption DEF LedgerType
<1>3. FetchedOK /\ AccountsOK
  BY DEF FetchedOK, AccountsOK
<1>4. VectorsOK /\ NothingLoaded /\ LoadersFirst
  BY DEF VectorsOK, NothingLoaded, LoadersFirst
<1>5. ProgramsRunTheirOwnImage
  BY DEF ProgramsRunTheirOwnImage
<1>6. VerdictOK
  BY CliAssumption DEF VerdictOK, CleanVerdictIsEarned
<1> QED
  BY <1>1, <1>2, <1>3, <1>4, <1>5, <1>6 DEF IInv

\* The addresses of one table are resolved.
LEMMA ResolveKeeps == ASSUME IInv, ResolveLookup PROVE KeysType'
<1>1. /\ message \in Messages /\ tables \in Seq(Accounts) /\ tables # << >>
      /\ Len(tables) <= Len(message.lookups)
  BY DEF IInv, KeysType, ResolveLookup
<1>2. Head(tables) \in Accounts /\ Tail(tables) \in Seq(Accounts)
      /\ Len(Tail(tables)) = Len(tables) - 1 /\ Len(tables) > 0 /\ Len(tables) \in Nat
  BY <1>1
<1>3. Lookup \in [table : Keys, writable : Seq(Nat), readonly : Seq(Nat)]
      /\ Len(message.lookups) \in Nat
  <2> DEFINE L == [table : Keys, writable : Seq(Nat), readonly : Seq(Nat)]
  <2>1. message.lookups \in Seq(L)
    BY <1>1, MessageFacts
  <2> HIDE DEF L
  <2>2. Lookup \in L /\ Len(message.lookups) \in Nat
    BY <1>1, <1>2, <2>1 DEF Lookup
  <2> QED
    BY <2>2 DEF L
<1>4. /\ At(Lookup.writable, Addresses(Head(tables))) \in Seq(Keys)
      /\ At(Lookup.readonly, Addresses(Head(tables))) \in Seq(Keys)
  BY <1>2, <1>3, AccountFacts, Selected DEF ResolveLookup, TableResolves
<1>5. writable' \in Seq(Keys) /\ readonly' \in Seq(Keys)
  BY <1>4 DEF ResolveLookup, IInv, KeysType
<1> QED
  BY <1>1, <1>2, <1>3, <1>5 DEF ResolveLookup, IInv, KeysType

\* The accounts are fetched.
LEMMA FetchKeeps == ASSUME IInv, FetchAccounts PROVE IInv'
<1> USE DEF FetchAccounts
<1>1. message \in Messages /\ writable \in Seq(Keys) /\ readonly \in Seq(Keys)
  BY DEF IInv, KeysType
<1>2. keys' \in Seq(Keys)
  BY <1>1, MessageFacts
<1>3. KeysType'
  BY <1>2 DEF IInv, KeysType
<1>4. seen' = [tables |-> seen.tables, accounts |-> ledger, programdata |-> seen.programdata]
  BY DEF IInv, LedgerType
<1>5. LedgerType'
  BY <1>4 DEF IInv, LedgerType, outside
<1>6. fetched' = [k \in DOMAIN keys' |-> ledger[keys'[k]]]
  BY DEF Fetch
<1>7. FetchedOK'
  <2>1. \A k \in DOMAIN keys' : keys'[k] \in Keys
    BY <1>2
  <2> QED
    BY <2>1, <1>4, <1>6 DEF FetchedOK, IInv, LedgerType
<1>8. NothingLoaded' /\ VectorsOK'
  BY DEF IInv, NothingLoaded, VectorsOK, Early, upgradeable
<1>9. ProgramsRunTheirOwnImage'
  BY DEF IInv, NothingLoaded, Early, ProgramsRunTheirOwnImage
<1>10. AccountsOK' /\ LoadersFirst' /\ VerdictOK'
  BY DEF IInv, AccountsOK, LoadersFirst, VerdictOK, CleanVerdictIsEarned
<1> QED
  BY <1>3, <1>5, <1>7, <1>8, <1>9, <1>10 DEF IInv

\* The programs that hold their image are loaded.
LEMMA BuildKeeps == ASSUME IInv, BuildCache PROVE LoadersFirst' /\ ProgramsRunTheirOwnImage'
<1> USE DEF BuildCache
<1>1. transaction_accounts = [k \in DOMAIN keys |-> AccountOf(keys[k], fetched[k])]
  BY DEF IInv, AccountsOK
<1>2. ASSUME NEW p \in Keys, cache'[p] # None
      PROVE  HoldsImage(p)'
  <2> DEFINE own == {k \in DOMAIN keys :
                        /\ keys[k] = p
                        /\ transaction_accounts[k].kind = "loader"
                        /\ transaction_accounts[k].elf # BadElf}
  <2>1. own # {} /\ cache'[p] = transaction_accounts[CHOOSE k \in own : TRUE].elf
    BY <1>2
  <2>2. PICK k \in own : cache'[p] = transaction_accounts[k].elf
    BY <2>1
  <2>3. k \in DOMAIN keys /\ keys[k] = p /\ transaction_accounts[k] = fetched[k]
    BY <1>1 DEF AccountOf, Constructed
  <2>4. fetched[k] = seen.accounts[p]
    BY <2>3 DEF IInv, FetchedOK
  <2> QED
    BY <2>2, <2>3, <2>4 DEF HoldsImage
<1>3. LoadersFirst'
  BY <1>2 DEF LoadersFirst
<1>4. ProgramsRunTheirOwnImage'
  BY <1>2 DEF ProgramsRunTheirOwnImage, HoldsImage
<1> QED
  BY <1>3, <1>4

\* An account is examined; both vectors grow, or neither.
LEMMA CollectKeeps == ASSUME IInv, CollectUpgradeable PROVE VectorsOK'
<1> USE DEF CollectUpgradeable
<1> DEFINE k == examined + 1
<1>1. /\ examined \in Nat /\ keys \in Seq(Keys) /\ k \in DOMAIN keys /\ examined' = k
      /\ programdata_keys \in Seq(Keys) /\ program_ids \in Seq(Keys)
      /\ Len(program_ids) = Len(programdata_keys)
  BY DEF IInv, KeysType, VectorsOK
<1>2. Collect(keys[k], fetched[k])
  BY <1>1
<1>3. fetched[k] \in Accounts /\ keys[k] \in Keys
  BY <1>1 DEF IInv, FetchedOK
<1>4. \A p, d : Names(p, d)' <=> Names(p, d)
  BY DEF Names, NamesProgramdata
<1> HIDE DEF k
<1>5. CASE NamesProgramdata(fetched[k])
  <2>1. /\ programdata_keys' = Append(programdata_keys, fetched[k].programdata)
        /\ program_ids' = Append(program_ids, keys[k])
    BY <1>2, <1>5 DEF Collect
  <2>2. fetched[k].programdata \in Keys
    BY <1>3, <1>5, AccountFacts DEF NamesProgramdata
  <2>3. Names(keys[k], fetched[k].programdata)
    BY <1>1, <1>5 DEF Names
  <2>4. \A j \in 1 .. Len(program_ids) : Names(program_ids[j], programdata_keys[j])
    BY DEF IInv, VectorsOK
  <2>5. /\ Len(program_ids') = Len(program_ids) + 1
        /\ \A j \in 1 .. Len(program_ids) :
              program_ids'[j] = program_ids[j] /\ programdata_keys'[j] = programdata_keys[j]
        /\ program_ids'[Len(program_ids) + 1] = keys[k]
        /\ programdata_keys'[Len(program_ids) + 1] = fetched[k].programdata
        /\ Len(programdata_keys') = Len(program_ids) + 1
        /\ programdata_keys' \in Seq(Keys) /\ program_ids' \in Seq(Keys)
    BY <1>1, <1>3, <2>1, <2>2
  <2>6. \A j \in 1 .. Len(program_ids') : Names(program_ids'[j], programdata_keys'[j])
    BY <1>1, <2>3, <2>4, <2>5
  <2> QED
    BY <1>1, <1>4, <2>5, <2>6 DEF VectorsOK
<1>6. CASE ~NamesProgramdata(fetched[k])
  <2>1. UNCHANGED <<programdata_keys, program_ids>>
    BY <1>2, <1>6 DEF Collect
  <2> QED
    BY <1>1, <1>4, <2>1 DEF IInv, VectorsOK
<1> QED
  BY <1>5, <1>6

\* Programs get the image of the programdata that they name.
LEMMA LoadKeeps == ASSUME IInv, LoadUpgradeable PROVE ProgramsRunTheirOwnImage' /\ LedgerType'
<1> USE DEF LoadUpgradeable
<1>1. seen' = [tables |-> seen.tables, accounts |-> seen.accounts, programdata |-> ledger]
  BY DEF IInv, LedgerType
<1>2. ASSUME NEW p \in Keys, cache'[p] # None
      PROVE  \E k \in DOMAIN keys :
        /\ keys[k] = p
        /\ LET account == seen'.accounts[p]
           IN  \/ account.kind = "loader" /\ account.elf = cache'[p]
               \/ /\ account.kind = "upgradeable"
                  /\ account.programdata # None
                  /\ seen'.programdata[account.programdata].kind = "programdata"
                  /\ seen'.programdata[account.programdata].elf = cache'[p]
  <2> DEFINE programdata == Fetch(programdata_keys)
             own == {j \in DOMAIN program_ids \cap DOMAIN programdata :
                        /\ program_ids[j] = p
                        /\ programdata[j].kind = "programdata"
                        /\ programdata[j].elf # BadElf}
  <2>1. cache'[p] = IF own = {} THEN cache[p] ELSE programdata[CHOOSE j \in own : TRUE].elf
    OBVIOUS
  <2> HIDE DEF own
  <2>2. CASE own = {}
    <3>1. HoldsImage(p) /\ cache'[p] = cache[p]
      BY <1>2, <2>1, <2>2 DEF IInv, LoadersFirst, Collected
    <3> QED
      BY <1>1, <3>1 DEF HoldsImage
  <2>3. CASE own # {}
    <3>1. PICK j \in own : cache'[p] = programdata[j].elf
      BY <2>1, <2>3
    <3>2. /\ j \in DOMAIN program_ids /\ j \in DOMAIN programdata_keys
          /\ program_ids[j] = p /\ programdata[j] = ledger[programdata_keys[j]]
          /\ programdata[j].kind = "programdata"
      BY <3>1 DEF own, Fetch
    <3>3. Names(p, programdata_keys[j])
      BY <3>2 DEF IInv, VectorsOK
    <3>4. PICK k \in DOMAIN keys : /\ keys[k] = p /\ NamesProgramdata(fetched[k])
                                   /\ fetched[k].programdata = programdata_keys[j]
      BY <3>3 DEF Names
    <3>5. fetched[k] = seen.accounts[p]
      BY <3>4 DEF IInv, FetchedOK
    <3> QED
      BY <1>1, <3>1, <3>2, <3>4, <3>5 DEF NamesProgramdata
  <2> QED
    BY <2>2, <2>3
<1>3. ProgramsRunTheirOwnImage'
  BY <1>2 DEF ProgramsRunTheirOwnImage
<1>4. LedgerType'
  BY <1>1 DEF IInv, LedgerType, outside
<1> QED
  BY <1>3, <1>4

\* What the steps outside the loading of programs leave alone.
kept == <<keys, fetched, cache, upgradeable, seen>>

\* The invariant of the images follows from what such a step leaves alone.
LEMMA Unaffected ==
    ASSUME IInv, UNCHANGED kept, phase' # "accounts", phase' # "programs",
           phase \in Early \/ phase' \notin Early
    PROVE  /\ FetchedOK' /\ AccountsOK' /\ VectorsOK' /\ NothingLoaded' /\ LoadersFirst'
           /\ ProgramsRunTheirOwnImage'
<1> USE DEF kept, upgradeable
<1>1. FetchedOK' /\ AccountsOK' /\ LoadersFirst'
  BY DEF IInv, FetchedOK, AccountsOK, LoadersFirst
<1>2. VectorsOK'
  BY DEF IInv, VectorsOK, Names, NamesProgramdata
<1>3. NothingLoaded'
  BY DEF IInv, NothingLoaded
<1>4. ProgramsRunTheirOwnImage'
  BY DEF IInv, ProgramsRunTheirOwnImage
<1> QED
  BY <1>1, <1>2, <1>3, <1>4

\* Every step of main and of the cluster keeps the invariant.
LEMMA NextInvariant == IInv /\ [Next]_vars => IInv'
<1> SUFFICES ASSUME IInv, [Next]_vars PROVE IInv'
  OBVIOUS
<1> USE DEF outside
<1>1. ASSUME NEW m \in Messages, Decode(m) PROVE IInv'
  <2> USE <1>1 DEF Decode
  <2>1. KeysType' /\ LedgerType' /\ VerdictOK'
    BY DEF IInv, KeysType, LedgerType, VerdictOK, CleanVerdictIsEarned
  <2>2. /\ UNCHANGED kept /\ phase' # "accounts" /\ phase' # "programs"
        /\ phase \in Early
    BY DEF kept, Early
  <2> QED
    BY <2>1, <2>2, Unaffected DEF IInv
<1>2. CASE FetchTables
  <2> USE <1>2 DEF FetchTables
  <2> DEFINE L == [table : Keys, writable : Seq(Nat), readonly : Seq(Nat)]
             ks == [j \in DOMAIN message.lookups |-> message.lookups[j].table]
  <2>1. message.lookups \in Seq(L)
    BY MessageFacts DEF IInv, KeysType
  <2>2. ks \in Seq(Keys) /\ Len(ks) = Len(message.lookups) /\ Len(ks) \in Nat
    <3>1. \A j \in 1 .. Len(message.lookups) : message.lookups[j] \in L
      <4> HIDE DEF L
      <4> QED
        BY <2>1
    <3>2. \A j \in 1 .. Len(message.lookups) : message.lookups[j].table \in Keys
      BY <3>1
    <3>3. DOMAIN message.lookups = 1 .. Len(message.lookups) /\ Len(message.lookups) \in Nat
      <4> HIDE DEF L
      <4> QED
        BY <2>1
    <3> QED
      BY <3>2, <3>3
  <2>3. tables' \in Seq(Accounts) /\ Len(tables') = Len(message.lookups)
    BY <2>2, Fetched DEF IInv
  <2>4. KeysType'
    BY <2>2, <2>3 DEF IInv, KeysType
  <2>5. seen' = [tables |-> ledger, accounts |-> seen.accounts, programdata |-> seen.programdata]
    BY DEF IInv, LedgerType
  <2>6. LedgerType' /\ VerdictOK'
    BY <2>5 DEF IInv, LedgerType, VerdictOK, CleanVerdictIsEarned
  <2>7. UNCHANGED <<keys, fetched, cache, upgradeable>> /\ seen'.accounts = seen.accounts
    BY <2>5
  <2>8. FetchedOK' /\ AccountsOK' /\ LoadersFirst'
    BY <2>7 DEF IInv, FetchedOK, AccountsOK, LoadersFirst
  <2>9. NothingLoaded' /\ VectorsOK'
    BY <2>7 DEF IInv, NothingLoaded, VectorsOK, Early, upgradeable
  <2>10. ProgramsRunTheirOwnImage'
    BY <2>7 DEF IInv, NothingLoaded, Early, ProgramsRunTheirOwnImage
  <2> QED
    BY <2>4, <2>6, <2>8, <2>9, <2>10 DEF IInv
<1>3. CASE ResolveLookup
  <2>1. KeysType'
    BY <1>3, ResolveKeeps
  <2>2. LedgerType' /\ VerdictOK'
    BY <1>3 DEF ResolveLookup, IInv, LedgerType, VerdictOK, CleanVerdictIsEarned
  <2>3. /\ UNCHANGED kept /\ phase' # "accounts" /\ phase' # "programs"
        /\ phase \in Early
    BY <1>3 DEF ResolveLookup, kept, Early
  <2> QED
    BY <2>1, <2>2, <2>3, Unaffected DEF IInv
<1>4. ASSUME Bail PROVE IInv'
  <2> USE <1>4 DEF Bail, local
  <2>1. KeysType' /\ LedgerType' /\ VerdictOK'
    BY DEF IInv, KeysType, LedgerType, VerdictOK, CleanVerdictIsEarned
  <2>2. /\ UNCHANGED kept /\ phase' # "accounts" /\ phase' # "programs"
        /\ phase' \notin Early
    BY DEF kept, Early
  <2> QED
    BY <2>1, <2>2, Unaffected DEF IInv
<1>5. CASE LookupFails \/ Fails
  BY <1>4, <1>5 DEF LookupFails, Fails
<1>6. CASE FetchAccounts
  BY <1>6, FetchKeeps
<1>7. CASE BuildAccounts
  <2> USE <1>7 DEF BuildAccounts
  <2>1. KeysType' /\ LedgerType' /\ VerdictOK'
    BY DEF IInv, KeysType, LedgerType, VerdictOK, CleanVerdictIsEarned
  <2>2. FetchedOK' /\ LoadersFirst'
    BY DEF IInv, FetchedOK, LoadersFirst
  <2>3. AccountsOK'
    BY DEF AccountsOK, AccountOf
  <2>4. NothingLoaded' /\ VectorsOK'
    BY DEF IInv, NothingLoaded, VectorsOK, Early, upgradeable
  <2>5. ProgramsRunTheirOwnImage'
    BY DEF IInv, ProgramsRunTheirOwnImage
  <2> QED
    BY <2>1, <2>2, <2>3, <2>4, <2>5 DEF IInv
<1>8. CASE BuildCache
  <2>1. LoadersFirst' /\ ProgramsRunTheirOwnImage'
    BY <1>8, BuildKeeps
  <2> USE <1>8 DEF BuildCache
  <2>2. KeysType' /\ LedgerType' /\ VerdictOK'
    BY DEF IInv, KeysType, LedgerType, VerdictOK, CleanVerdictIsEarned
  <2>3. FetchedOK' /\ AccountsOK' /\ NothingLoaded'
    BY DEF IInv, FetchedOK, AccountsOK, NothingLoaded, Early
  <2>4. VectorsOK'
    BY DEF IInv, VectorsOK, Names, NamesProgramdata, upgradeable
  <2> QED
    BY <2>1, <2>2, <2>3, <2>4 DEF IInv
<1>9. CASE CollectUpgradeable
  <2>1. VectorsOK'
    BY <1>9, CollectKeeps
  <2> USE <1>9 DEF CollectUpgradeable
  <2>2. KeysType' /\ LedgerType' /\ VerdictOK'
    BY DEF IInv, KeysType, LedgerType, VerdictOK, CleanVerdictIsEarned
  <2>3. FetchedOK' /\ AccountsOK' /\ NothingLoaded'
    BY DEF IInv, FetchedOK, AccountsOK, NothingLoaded, Early
  <2>4. LoadersFirst'
    BY DEF IInv, LoadersFirst, HoldsImage
  <2>5. ProgramsRunTheirOwnImage'
    BY DEF IInv, ProgramsRunTheirOwnImage
  <2> QED
    BY <2>1, <2>2, <2>3, <2>4, <2>5 DEF IInv
<1>10. CASE LoadUpgradeable
  <2>1. ProgramsRunTheirOwnImage' /\ LedgerType'
    BY <1>10, LoadKeeps
  <2> USE <1>10 DEF LoadUpgradeable, Collected
  <2>2. KeysType' /\ VerdictOK'
    BY DEF IInv, KeysType, VerdictOK, CleanVerdictIsEarned
  <2>3. seen'.accounts = seen.accounts
    BY DEF IInv, LedgerType
  <2>4. FetchedOK' /\ AccountsOK' /\ NothingLoaded' /\ LoadersFirst'
    BY <2>3 DEF IInv, FetchedOK, AccountsOK, NothingLoaded, Early, LoadersFirst
  <2>5. VectorsOK'
    BY DEF IInv, VectorsOK, Names, NamesProgramdata, upgradeable
  <2> QED
    BY <2>1, <2>2, <2>4, <2>5 DEF IInv
<1>11. CASE NothingUpgradeable \/ FetchSysvars
  <2> USE <1>11 DEF NothingUpgradeable, FetchSysvars, Collected, local
  <2>1. KeysType' /\ LedgerType' /\ VerdictOK'
    BY DEF IInv, KeysType, LedgerType, VerdictOK, CleanVerdictIsEarned
  <2>2. /\ UNCHANGED kept /\ phase' # "accounts" /\ phase' # "programs"
        /\ phase' \notin Early
    BY DEF kept, Early
  <2> QED
    BY <2>1, <2>2, Unaffected DEF IInv
<1>12. ASSUME NEW r \in {"ok", "err"}, NEW forbidden \in BOOLEAN, Execute(r, forbidden)
       PROVE  IInv'
  <2> USE <1>12 DEF Execute
  <2>1. KeysType' /\ LedgerType'
    BY DEF IInv, KeysType, LedgerType
  <2>2. VerdictOK'
    BY CliAssumption DEF IInv, VerdictOK, CleanVerdictIsEarned
  <2>3. /\ UNCHANGED kept /\ phase' # "accounts" /\ phase' # "programs"
        /\ phase' \notin Early
    BY DEF kept, Early
  <2> QED
    BY <2>1, <2>2, <2>3, Unaffected DEF IInv
<1>13. CASE Report
  <2> USE <1>13 DEF Report, local
  <2>1. KeysType' /\ LedgerType'
    BY DEF IInv, KeysType, LedgerType
  <2>2. VerdictOK'
    BY DEF IInv, VerdictOK, CleanVerdictIsEarned, ExitCode
  <2>3. /\ UNCHANGED kept /\ phase' # "accounts" /\ phase' # "programs"
        /\ phase' \notin Early
    BY DEF kept, Early
  <2> QED
    BY <2>1, <2>2, <2>3, Unaffected DEF IInv
<1>14. ASSUME UNCHANGED <<phase, local, exit_code, seen>>, LedgerType' PROVE IInv'
  <2> USE <1>14 DEF local
  <2>1. KeysType' /\ VerdictOK'
    BY DEF IInv, KeysType, VerdictOK, CleanVerdictIsEarned
  <2>2. FetchedOK' /\ AccountsOK' /\ NothingLoaded'
    BY DEF IInv, FetchedOK, AccountsOK, AccountOf, NothingLoaded, upgradeable
  <2>3. VectorsOK'
    BY DEF IInv, VectorsOK, Names, NamesProgramdata, upgradeable
  <2>4. LoadersFirst' /\ ProgramsRunTheirOwnImage'
    BY DEF IInv, LoadersFirst, HoldsImage, ProgramsRunTheirOwnImage
  <2> QED
    BY <2>1, <2>2, <2>3, <2>4 DEF IInv
<1>15. ASSUME NEW k \in Keys, LedgerChanges(k) PROVE IInv'
  <2>1. LedgerType'
    <3>1. PICK account \in LedgerStates[k] : ledger' = [ledger EXCEPT ![k] = account]
      BY <1>15 DEF LedgerChanges
    <3>2. account \in Accounts
      BY DEF Accounts
    <3> QED
      BY <1>15, <3>1, <3>2 DEF LedgerChanges, IInv, LedgerType
  <2> QED
    BY <1>14, <1>15, <2>1 DEF LedgerChanges
<1>16. ASSUME UNCHANGED vars PROVE IInv'
  BY <1>14, <1>16 DEF vars, IInv, LedgerType
<1> QED
  BY <1>1, <1>2, <1>3, <1>5, <1>6, <1>7, <1>8, <1>9, <1>10, <1>11, <1>12, <1>13, <1>15,
     <1>16 DEF Next, Main, Exited

\* The inductive invariant: what main has fetched, built and collected agrees with
\* what the calls saw, at each of its steps.
THEOREM Invariance == Spec => []IInv
<1> QED
  BY InitInvariant, NextInvariant, PTL DEF Spec

\* For any message and any ledger, however it changes between the calls: a program
\* runs its own image, though load_upgradeable_programs skips accounts and carries
\* ids and programdata in two vectors.
THEOREM ProgramsRunTheirOwnImageHolds == Spec => []ProgramsRunTheirOwnImage
<1>1. IInv => ProgramsRunTheirOwnImage
  BY DEF IInv
<1> QED
  BY <1>1, Invariance, PTL

\* Exit code 0 is only given to an execution that took place and recorded nothing.
THEOREM CleanVerdictIsEarnedHolds == Spec => []CleanVerdictIsEarned
<1>1. IInv => CleanVerdictIsEarned
  BY DEF IInv, VerdictOK
<1> QED
  BY <1>1, Invariance, PTL

-----------------------------------------------------------------------------
\* The addresses of the message: what the loop of resolve_address_lookups has
\* collected is what the tables of the lookups behind it hold.

\* Every set of natural numbers has a least one.
LEMMA LeastNumber ==
    ASSUME NEW T \in SUBSET Nat, T # {}
    PROVE  \E m \in T : \A n \in T : m <= n
<1>1. PICK m \in T : \A n \in T : ~(<<n, m>> \in OpToRel(<, Nat))
  BY NatLessThanWellFounded, WFMin, Zenon
<1>2. \A n \in T : ~(n < m)
  BY <1>1, Zenon DEF OpToRel
<1> QED
  BY <1>2

\* Induction, with the set of the numbers that have a property in place of it.
LEMMA Induction ==
    ASSUME NEW S, 0 \in S, \A n \in Nat : n \in S => n + 1 \in S
    PROVE  \A n \in Nat : n \in S
<1> SUFFICES ASSUME NEW k \in Nat, k \notin S PROVE FALSE
  OBVIOUS
<1>1. PICK m \in Nat \ S : \A n \in Nat \ S : m <= n
  BY LeastNumber
<1>2. m # 0 /\ m - 1 \in Nat
  BY <1>1
<1>3. m - 1 \in S
  BY <1>1, <1>2
<1> QED
  BY <1>1, <1>2, <1>3

\* The function that FlattenSeq defines recursively.
Flattens(h, s) ==
    h = [i \in 1 .. Len(s) |-> IF i = 1 THEN s[i] ELSE h[i - 1] \o s[i]]

\* It exists,
LEMMA FlattensExists ==
    ASSUME NEW K, NEW s \in Seq(Seq(K))
    PROVE  \E h \in [1 .. Len(s) -> Seq(K)] : Flattens(h, s)
<1> DEFINE Prefix(n) == \E h \in [1 .. n -> Seq(K)] : h = [i \in 1 .. n |-> IF i = 1 THEN s[i] ELSE h[i - 1] \o s[i]]
           S == {n \in Nat : n <= Len(s) => Prefix(n)}
<1>0. Len(s) \in Nat /\ \A i \in 1 .. Len(s) : s[i] \in Seq(K)
  OBVIOUS
<1> HIDE DEF Prefix
<1>1. 0 \in S
  <2>1. Prefix(0)
    <3> DEFINE h == [i \in 1 .. 0 |-> <<>>]
    <3>1. h \in [1 .. 0 -> Seq(K)] /\ h = [i \in 1 .. 0 |-> IF i = 1 THEN s[i] ELSE h[i - 1] \o s[i]]
      OBVIOUS
    <3> QED
      BY <3>1, Zenon DEF Prefix
  <2> QED
    BY <2>1
<1>2. ASSUME NEW n \in Nat, n \in S PROVE n + 1 \in S
  <2> SUFFICES ASSUME n + 1 <= Len(s) PROVE Prefix(n + 1)
    OBVIOUS
  <2>1. PICK h \in [1 .. n -> Seq(K)] : h = [i \in 1 .. n |-> IF i = 1 THEN s[i] ELSE h[i - 1] \o s[i]]
    <3>1. Prefix(n)
      BY <1>0, <1>2
    <3> QED
      BY <3>1, Zenon DEF Prefix
  <2> DEFINE g == [i \in 1 .. n + 1 |-> IF i = n + 1 THEN (IF n = 0 THEN s[1] ELSE h[n] \o s[n + 1]) ELSE h[i]]
  <2>2. ASSUME NEW i \in 1 .. n + 1 PROVE g[i] \in Seq(K) /\ g[i] = IF i = 1 THEN s[i] ELSE g[i - 1] \o s[i]
    <3>1. CASE i = n + 1
      BY <1>0, <2>1, <3>1
    <3>2. CASE i # n + 1
      <4>1. i \in 1 .. n /\ g[i] = h[i] /\ (i # 1 => i - 1 \in 1 .. n /\ g[i - 1] = h[i - 1])
        BY <3>2
      <4>2. h[i] = IF i = 1 THEN s[i] ELSE h[i - 1] \o s[i]
        BY <2>1, <4>1, Zenon
      <4> QED
        BY <4>1, <4>2
    <3> QED
      BY <3>1, <3>2
  <2>3. g \in [1 .. n + 1 -> Seq(K)] /\ g = [i \in 1 .. n + 1 |-> IF i = 1 THEN s[i] ELSE g[i - 1] \o s[i]]
    <3> HIDE DEF g
    <3> SUFFICES DOMAIN g = 1 .. n + 1 /\ g = [i \in 1 .. n + 1 |-> g[i]]
      BY <2>2
    <3> QED
      BY DEF g
  <2> HIDE DEF g
  <2> QED
    BY <2>3, Zenon DEF Prefix
<1>3. \A n \in Nat : n \in S
  <2> HIDE DEF S
  <2> QED
    BY <1>1, <1>2, Induction
<1>4. Prefix(Len(s))
  BY <1>0, <1>3
<1> QED
  BY <1>4, Zenon DEF Flattens, Prefix

\* and FlattenSeq adds the sequences one by one.
LEMMA FlattenAppend ==
    ASSUME NEW K, NEW s \in Seq(Seq(K)), NEW x \in Seq(K)
    PROVE  FlattenSeq(s) \in Seq(K) /\ FlattenSeq(Append(s, x)) = FlattenSeq(s) \o x
<1> DEFINE t == Append(s, x)
           n == Len(s)
           f == CHOOSE h : Flattens(h, s)
           g == CHOOSE h : Flattens(h, t)
<1>1. /\ t \in Seq(Seq(K)) /\ n \in Nat /\ Len(t) = n + 1 /\ t[n + 1] = x
      /\ \A i \in 1 .. n : t[i] = s[i]
  OBVIOUS
<1> HIDE DEF t, n
<1>2. FlattenSeq(s) = IF n = 0 THEN s ELSE f[n]
  BY DEF FlattenSeq, Flattens, n
<1>3. FlattenSeq(t) = g[n + 1]
  BY <1>1 DEF FlattenSeq, Flattens
<1>4. PICK fs \in [1 .. n -> Seq(K)] : Flattens(fs, s)
  BY FlattensExists, Zenon DEF n
<1>5. PICK gs \in [1 .. n + 1 -> Seq(K)] : Flattens(gs, t)
  BY <1>1, FlattensExists, Zenon
<1>6. Flattens(f, s) /\ Flattens(g, t)
  BY <1>4, <1>5, Zenon
<1> HIDE DEF f, g
<1>7. /\ DOMAIN f = 1 .. n /\ \A i \in 1 .. n : f[i] = IF i = 1 THEN s[i] ELSE f[i - 1] \o s[i]
      /\ \A i \in 1 .. n : fs[i] = IF i = 1 THEN s[i] ELSE fs[i - 1] \o s[i]
      /\ \A i \in 1 .. n + 1 : g[i] = IF i = 1 THEN t[i] ELSE g[i - 1] \o t[i]
  BY <1>1, <1>4, <1>6, Zenon DEF Flattens, n
<1>8. ASSUME NEW i \in 1 .. n PROVE f[i] = fs[i] /\ g[i] = fs[i]
  <2> DEFINE S == {j \in Nat : j \in 1 .. n => f[j] = fs[j] /\ g[j] = fs[j]}
  <2>1. 0 \in S
    OBVIOUS
  <2>2. ASSUME NEW j \in Nat, j \in S PROVE j + 1 \in S
    <3> SUFFICES ASSUME j + 1 \in 1 .. n PROVE f[j + 1] = fs[j + 1] /\ g[j + 1] = fs[j + 1]
      OBVIOUS
    <3>1. CASE j = 0
      <4>1. 1 \in 1 .. n /\ 1 \in 1 .. n + 1 /\ j + 1 = 1
        BY <1>1, <3>1
      <4>2. f[1] = s[1] /\ fs[1] = s[1] /\ g[1] = s[1]
        BY <1>1, <1>7, <4>1
      <4> QED
        BY <4>1, <4>2
    <3>2. CASE j # 0
      <4>1. j \in 1 .. n /\ j + 1 \in 1 .. n + 1 /\ j + 1 # 1 /\ (j + 1) - 1 = j
        BY <1>1, <3>2
      <4>2. f[j] = fs[j] /\ g[j] = fs[j]
        BY <2>2, <4>1
      <4>3. f[j + 1] = f[j] \o s[j + 1] /\ fs[j + 1] = fs[j] \o s[j + 1]
        BY <1>7, <4>1
      <4>4. g[j + 1] = g[j] \o s[j + 1]
        BY <1>1, <1>7, <4>1
      <4> QED
        BY <4>2, <4>3, <4>4
    <3> QED
      BY <3>1, <3>2
  <2>3. \A j \in Nat : j \in S
    <3> HIDE DEF S
    <3> QED
      BY <2>1, <2>2, Induction
  <2>4. i \in Nat
    BY <1>1
  <2> QED
    BY <2>3, <2>4
<1>9. CASE n = 0
  <2>1. s = <<>> /\ g[1] = x
    BY <1>1, <1>7, <1>9 DEF n
  <2> QED
    BY <1>2, <1>3, <1>9, <2>1 DEF t
<1>10. CASE n # 0
  <2>1. n \in 1 .. n /\ n + 1 \in 1 .. n + 1 /\ n + 1 # 1 /\ (n + 1) - 1 = n
    BY <1>1, <1>10
  <2>2. g[n + 1] = g[n] \o x
    BY <1>1, <1>7, <2>1
  <2>3. f[n] \in Seq(K) /\ g[n] = f[n]
    BY <1>4, <1>8, <2>1
  <2> QED
    BY <1>2, <1>3, <1>10, <2>2, <2>3 DEF t
<1> QED
  BY <1>9, <1>10

\* What lookup j loads, and what the first n lookups load.
Loaded(j, indexes) == At(indexes, Addresses(seen.tables[message.lookups[j].table]))
WritableParts(n) == [j \in 1 .. n |-> Loaded(j, message.lookups[j].writable)]
ReadonlyParts(n) == [j \in 1 .. n |-> Loaded(j, message.lookups[j].readonly)]

\* The lookups resolved so far.
Done == Len(message.lookups) - Len(tables)

\* The loop has collected the addresses of the lookups behind it; the tables it
\* still holds are those of the lookups ahead of it.
LookupsOK ==
    /\ Done \in Nat
    /\ \A j \in 1 .. Len(tables) : tables[j] = seen.tables[message.lookups[Done + j].table]
    /\ WritableParts(Done) \in Seq(Seq(Keys)) /\ writable = FlattenSeq(WritableParts(Done))
    /\ ReadonlyParts(Done) \in Seq(Seq(Keys)) /\ readonly = FlattenSeq(ReadonlyParts(Done))

\* The inductive invariant of the addresses.
AddressesOK ==
    /\ phase \in {"start", "tables"} => tables = << >> /\ writable = << >> /\ readonly = << >>
    /\ phase \in {"start", "tables", "lookups", "resolved"} => keys = << >>
    /\ phase = "resolved" => tables = << >>
    /\ phase \in {"lookups", "resolved"} => LookupsOK
    /\ KeysFollowMessage

\* A lookup that resolves adds its own addresses after the others.
LEMMA ResolveAdds == ASSUME IInv, AddressesOK, ResolveLookup PROVE AddressesOK'
<1> DEFINE n == Done
           w == At(Lookup.writable, Addresses(Head(tables)))
           r == At(Lookup.readonly, Addresses(Head(tables)))
<1>1. /\ message \in Messages /\ tables \in Seq(Accounts) /\ tables # << >>
      /\ LookupsOK /\ keys = << >> /\ n \in Nat
  BY DEF IInv, KeysType, ResolveLookup, AddressesOK, LookupsOK
<1>2. /\ Head(tables) \in Accounts /\ Head(tables) = tables[1]
      /\ Len(tables) \in Nat /\ Len(tables) > 0 /\ Len(Tail(tables)) = Len(tables) - 1
      /\ \A j \in 1 .. Len(tables) - 1 : Tail(tables)[j] = tables[j + 1]
  BY <1>1
<1>3. Len(message.lookups) \in Nat /\ message.lookups[n + 1] \in
         [table : Keys, writable : Seq(Nat), readonly : Seq(Nat)]
  <2> DEFINE L == [table : Keys, writable : Seq(Nat), readonly : Seq(Nat)]
  <2>1. message.lookups \in Seq(L)
    BY <1>1, MessageFacts
  <2> HIDE DEF L
  <2>2. Len(message.lookups) \in Nat
    BY <2>1
  <2>3. n + 1 \in 1 .. Len(message.lookups)
    BY <1>1, <1>2, <2>2 DEF Done
  <2>4. message.lookups[n + 1] \in L
    BY <2>1, <2>3
  <2> QED
    BY <2>2, <2>4 DEF L
<1>4. /\ w \in Seq(Keys) /\ r \in Seq(Keys)
      /\ Lookup = message.lookups[n + 1]
  <2>1. Lookup = message.lookups[n + 1]
    BY DEF Lookup, Done
  <2> QED
    BY <1>2, <1>3, <2>1, AccountFacts, Selected DEF ResolveLookup, TableResolves
<1>5. /\ w = Loaded(n + 1, message.lookups[n + 1].writable)
      /\ r = Loaded(n + 1, message.lookups[n + 1].readonly)
  <2>1. tables[1] = seen.tables[message.lookups[n + 1].table]
    BY <1>1, <1>2 DEF LookupsOK
  <2> QED
    BY <1>2, <1>4, <2>1 DEF Loaded
<1>6. Done' = n + 1 /\ Len(tables') = Len(tables) - 1
  BY <1>1, <1>2, <1>3 DEF Done, ResolveLookup
<1> HIDE DEF n, w, r
<1>7. UNCHANGED <<message, seen, keys>>
  BY DEF ResolveLookup
<1>8. /\ WritableParts(n + 1) = Append(WritableParts(n), w)
      /\ ReadonlyParts(n + 1) = Append(ReadonlyParts(n), r)
  <2>1. /\ WritableParts(n) \in Seq(Seq(Keys)) /\ Len(WritableParts(n)) = n
        /\ ReadonlyParts(n) \in Seq(Seq(Keys)) /\ Len(ReadonlyParts(n)) = n
    BY <1>1 DEF LookupsOK, n, WritableParts, ReadonlyParts
  <2> QED
    BY <1>1, <1>5, <2>1 DEF WritableParts, ReadonlyParts
<1>9. /\ WritableParts(n + 1) \in Seq(Seq(Keys)) /\ writable' = FlattenSeq(WritableParts(n + 1))
      /\ ReadonlyParts(n + 1) \in Seq(Seq(Keys)) /\ readonly' = FlattenSeq(ReadonlyParts(n + 1))
  <2>1. /\ WritableParts(n) \in Seq(Seq(Keys)) /\ writable = FlattenSeq(WritableParts(n))
        /\ ReadonlyParts(n) \in Seq(Seq(Keys)) /\ readonly = FlattenSeq(ReadonlyParts(n))
    BY <1>1 DEF LookupsOK, n
  <2>2. writable' = writable \o w /\ readonly' = readonly \o r
    BY DEF ResolveLookup, w, r
  <2> QED
    <3>1. /\ FlattenSeq(Append(WritableParts(n), w)) = writable \o w
          /\ FlattenSeq(Append(ReadonlyParts(n), r)) = readonly \o r
      BY <1>4, <2>1, FlattenAppend
    <3>2. /\ Append(WritableParts(n), w) \in Seq(Seq(Keys))
          /\ Append(ReadonlyParts(n), r) \in Seq(Seq(Keys))
      BY <1>4, <2>1
    <3> QED
      BY <1>8, <2>2, <3>1, <3>2
<1>10. \A j \in 1 .. Len(tables') : tables'[j] = seen.tables[message.lookups[n + 1 + j].table]
  <2> SUFFICES ASSUME NEW j \in 1 .. Len(tables')
               PROVE  tables'[j] = seen.tables[message.lookups[n + 1 + j].table]
    OBVIOUS
  <2>1. j \in 1 .. Len(tables) - 1 /\ j + 1 \in 1 .. Len(tables) /\ n + (j + 1) = n + 1 + j
    BY <1>1, <1>2, <1>6
  <2>2. tables'[j] = tables[j + 1]
    BY <1>2, <2>1 DEF ResolveLookup
  <2>3. tables[j + 1] = seen.tables[message.lookups[n + (j + 1)].table]
    BY <1>1, <2>1 DEF LookupsOK, n
  <2> QED
    BY <2>1, <2>2, <2>3
<1>11. LookupsOK'
  <2>1. /\ WritableParts(Done)' = WritableParts(n + 1)
        /\ ReadonlyParts(Done)' = ReadonlyParts(n + 1)
    BY <1>6, <1>7 DEF WritableParts, ReadonlyParts, Loaded
  <2> QED
    BY <1>1, <1>6, <1>7, <1>9, <1>10, <2>1 DEF LookupsOK
<1>12. /\ phase' \in {"lookups", "resolved"}
       /\ phase' = "resolved" => tables' = << >>
  BY <1>1, <1>2 DEF ResolveLookup
<1> QED
  BY <1>1, <1>7, <1>11, <1>12 DEF AddressesOK, KeysFollowMessage

\* The tables are fetched; none is resolved yet.
LEMMA TablesStart == ASSUME IInv, AddressesOK, FetchTables PROVE AddressesOK'
<1> DEFINE L == [table : Keys, writable : Seq(Nat), readonly : Seq(Nat)]
<1>1. message \in Messages /\ message.lookups \in Seq(L)
  BY MessageFacts DEF IInv, KeysType, FetchTables
<1>2. DOMAIN message.lookups = 1 .. Len(message.lookups) /\ Len(message.lookups) \in Nat
  <2> HIDE DEF L
  <2> QED
    BY <1>1
<1>3. /\ tables' = [j \in 1 .. Len(message.lookups) |-> ledger[message.lookups[j].table]]
      /\ seen'.tables = ledger
  BY <1>2 DEF FetchTables, Fetch, IInv, LedgerType
<1>4. Len(tables') = Len(message.lookups) /\ Done' = 0
  <2>1. message' = message
    BY DEF FetchTables
  <2> QED
    BY <1>2, <1>3, <2>1 DEF Done
<1>5. /\ writable' = << >> /\ readonly' = << >> /\ keys' = << >> /\ message' = message
      /\ phase' = "lookups"
  BY DEF FetchTables, AddressesOK
<1>6. WritableParts(Done)' = << >> /\ ReadonlyParts(Done)' = << >>
  BY <1>4 DEF WritableParts, ReadonlyParts
<1>7. FlattenSeq(<< >>) = << >>
  BY DEF FlattenSeq
<1>8. << >> \in Seq(Seq(Keys))
  OBVIOUS
<1>9. \A j \in 1 .. Len(tables') : tables'[j] = seen'.tables[message'.lookups[Done' + j].table]
  BY <1>2, <1>3, <1>4, <1>5
<1>10. LookupsOK'
  BY <1>4, <1>5, <1>6, <1>7, <1>8, <1>9 DEF LookupsOK
<1> QED
  BY <1>5, <1>10 DEF AddressesOK, KeysFollowMessage

\* A message without lookups has nothing to resolve.
LEMMA DecodeStarts ==
    ASSUME IInv, AddressesOK, NEW m \in Messages, Decode(m) PROVE AddressesOK'
<1>1. /\ tables' = << >> /\ writable' = << >> /\ readonly' = << >> /\ keys' = << >>
      /\ message' = m /\ phase' = IF m.lookups = << >> THEN "resolved" ELSE "tables"
  BY DEF Decode, AddressesOK
<1>2. ASSUME phase' = "resolved" PROVE LookupsOK'
  <2>1. Len(message'.lookups) = 0 /\ Len(tables') = 0 /\ Done' = 0
    BY <1>1, <1>2 DEF Done
  <2>2. WritableParts(Done)' = << >> /\ ReadonlyParts(Done)' = << >>
    BY <2>1 DEF WritableParts, ReadonlyParts
  <2>3. FlattenSeq(<< >>) = << >>
    BY DEF FlattenSeq
  <2>4. << >> \in Seq(Seq(Keys))
    OBVIOUS
  <2>5. \A j \in 1 .. Len(tables') : tables'[j] = seen'.tables[message'.lookups[Done' + j].table]
    BY <2>1
  <2> QED
    BY <1>1, <2>1, <2>2, <2>3, <2>4, <2>5 DEF LookupsOK
<1> QED
  BY <1>1, <1>2 DEF AddressesOK, KeysFollowMessage

\* Once every lookup is resolved the keys are put together.
LEMMA KeysStart == ASSUME IInv, AddressesOK, FetchAccounts PROVE AddressesOK'
<1> DEFINE L == [table : Keys, writable : Seq(Nat), readonly : Seq(Nat)]
<1>1. message \in Messages /\ message.lookups \in Seq(L)
  BY MessageFacts DEF IInv, KeysType, FetchAccounts
<1>2. DOMAIN message.lookups = 1 .. Len(message.lookups) /\ Len(message.lookups) \in Nat
  <2> HIDE DEF L
  <2> QED
    BY <1>1
<1>3. LookupsOK /\ tables = << >> /\ Done = Len(message.lookups)
  BY <1>2 DEF AddressesOK, FetchAccounts, Done
<1>4. keys' = message.static \o FlattenSeq(WritableParts(Done)) \o FlattenSeq(ReadonlyParts(Done))
  BY <1>3 DEF FetchAccounts, LookupsOK
<1>5. message' = message /\ seen'.tables = seen.tables /\ phase' = "fetched"
  BY DEF FetchAccounts, IInv, LedgerType
<1>6. /\ WritableParts(Done) =
            [j \in DOMAIN message'.lookups |->
                At(message'.lookups[j].writable, Addresses(seen'.tables[message'.lookups[j].table]))]
      /\ ReadonlyParts(Done) =
            [j \in DOMAIN message'.lookups |->
                At(message'.lookups[j].readonly, Addresses(seen'.tables[message'.lookups[j].table]))]
  BY <1>2, <1>3, <1>5 DEF WritableParts, ReadonlyParts, Loaded
<1>7. KeysFollowMessage'
  BY <1>4, <1>5, <1>6 DEF KeysFollowMessage
<1> QED
  BY <1>5, <1>7 DEF AddressesOK

\* No later step touches the message, its tables as they were seen or the keys.
LEMMA AddressesKept ==
    ASSUME AddressesOK, UNCHANGED <<message, tables, writable, readonly, keys, seen.tables>>,
           phase' = phase \/ phase' \notin {"start", "tables", "lookups", "resolved"}
    PROVE  AddressesOK'
<1>1. KeysFollowMessage'
  BY DEF AddressesOK, KeysFollowMessage
<1>2. ASSUME LookupsOK PROVE LookupsOK'
  <2>1. Done' = Done
    BY DEF Done
  <2>2. WritableParts(Done)' = WritableParts(Done) /\ ReadonlyParts(Done)' = ReadonlyParts(Done)
    BY <2>1 DEF WritableParts, ReadonlyParts, Loaded
  <2> QED
    BY <1>2, <2>1, <2>2 DEF LookupsOK
<1> QED
  BY <1>1, <1>2 DEF AddressesOK

\* Every step keeps the invariant of the addresses.
LEMMA AddressesNext == IInv /\ AddressesOK /\ [Next]_vars => AddressesOK'
<1> SUFFICES ASSUME IInv, AddressesOK, [Next]_vars PROVE AddressesOK'
  OBVIOUS
<1>1. ASSUME LookupFails \/ Fails \/ BuildAccounts \/ BuildCache \/ CollectUpgradeable
             \/ NothingUpgradeable \/ FetchSysvars \/ Report \/ UNCHANGED vars
      PROVE  AddressesOK'
  BY <1>1, AddressesKept
     DEF LookupFails, Fails, Bail, BuildAccounts, BuildCache, CollectUpgradeable,
         NothingUpgradeable, FetchSysvars, Report, vars, local, Collected
<1>2. CASE LoadUpgradeable
  <2>1. seen'.tables = seen.tables
    BY <1>2 DEF LoadUpgradeable, IInv, LedgerType
  <2> QED
    BY <1>2, <2>1, AddressesKept DEF LoadUpgradeable
<1>3. ASSUME NEW r \in {"ok", "err"}, NEW forbidden \in BOOLEAN, Execute(r, forbidden)
      PROVE  AddressesOK'
  BY <1>3, AddressesKept DEF Execute
<1>4. ASSUME NEW k \in Keys, LedgerChanges(k) PROVE AddressesOK'
  BY <1>4, AddressesKept DEF LedgerChanges, local
<1> QED
  BY <1>1, <1>2, <1>3, <1>4, DecodeStarts, TablesStart, ResolveAdds, KeysStart
     DEF Next, Main, Exited

\* For any message, however many tables it names and whatever they hold: the keys
\* of the instructions' indexes are the message's own, then all the writable
\* addresses, then all the read-only ones, as resolve_address_lookups promises.
THEOREM KeysFollowMessageHolds == Spec => []KeysFollowMessage
<1>1. Init => AddressesOK
  BY DEF Init, AddressesOK, KeysFollowMessage
<1>2. AddressesOK => KeysFollowMessage
  BY DEF AddressesOK
<1> QED
  BY <1>1, <1>2, AddressesNext, Invariance, PTL DEF Spec
=============================================================================
