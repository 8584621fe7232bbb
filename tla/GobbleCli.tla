------------------------------ MODULE GobbleCli ------------------------------
(***************************************************************************)
(* The command line tool, from its arguments to its exit code              *)
(* (gobble/src/main.rs).                                                   *)
(*                                                                         *)
(* main resolves the message's lookup tables, fetches its accounts, the    *)
(* programdata of its upgradeable programs and the cluster's sysvars, each *)
(* in an RPC call of its own that may fail, while the ledger goes on       *)
(* changing; it executes one instruction and turns the accesses its        *)
(* programs made into an exit code.  What the execution does is the        *)
(* subject of module Invocation, the offsets of module SysvarOffsets.      *)
(***************************************************************************)
EXTENDS Integers, Sequences, SequencesExt

CONSTANTS
    Keys,           \* addresses on the ledger
    Sysvar,         \* the instructions sysvar
    Messages,       \* what may be asked: static keys, lookups, any range watched
    LedgerStates,   \* the accounts each key may hold, Missing included
    FirstLedger,    \* what they hold when the tool starts
    Elfs,           \* program images
    BadElf,         \* an image the loader rejects
    MaxChanges,     \* bounds the changes of the ledger in the model
    None

\* An account is a plain one, an address lookup table, a program with its image
\* (loader), a program that names its programdata (upgradeable; None if its
\* data is not that of a program), or such programdata.
Missing == [kind |-> "missing"]
Constructed == [kind |-> "constructed"]

\* What the ledger may hold anywhere.
Accounts == UNION {LedgerStates[k] : k \in Keys}

ASSUME CliAssumption ==
    /\ Sysvar \in Keys
    /\ DOMAIN LedgerStates = Keys /\ FirstLedger \in [Keys -> Accounts]
    /\ \A k \in Keys : FirstLedger[k] \in LedgerStates[k]
    /\ \A k \in Keys : \A account \in LedgerStates[k] :
          /\ account.kind = "table" => account.addresses \in Seq(Keys)
          /\ account.kind = "upgradeable" => account.programdata \in Keys \cup {None}
    /\ \A m \in Messages :
          /\ m.static \in Seq(Keys)
          /\ m.watches \in BOOLEAN
          /\ m.lookups \in Seq([table : Keys, writable : Seq(Nat), readonly : Seq(Nat)])
    /\ BadElf \in Elfs /\ None \notin Elfs
    /\ None # 0 /\ None # "ok" /\ None # "err"
    /\ MaxChanges \in Nat

VARIABLES
    phase,          \* the step main is at
    message,        \* the decoded transaction
    tables,         \* alt_accounts, with the lookups still to be resolved
    writable,       \* LoadedAddresses
    readonly,
    keys,           \* all_account_keys
    fetched,        \* fetched_accounts
    transaction_accounts,
    cache,          \* program_cache: the image of each program loaded
    examined,       \* accounts that load_upgradeable_programs has looked at
    programdata_keys,
    program_ids,
    execution,      \* exec_result, and whether forbidden_accesses has any
    exit_code,
    ledger,         \* external: what the cluster holds now
    changes,
    seen            \* history: the ledger each call was answered from

upgradeable == <<examined, programdata_keys, program_ids>>
local == <<message, tables, writable, readonly, keys, fetched,
           transaction_accounts, cache, upgradeable, execution>>
outside == <<ledger, changes>>
vars == <<phase, local, exit_code, outside, seen>>

NoExecution == [result |-> None, forbidden |-> FALSE]

Init ==
    /\ phase = "start"
    /\ message = None
    /\ tables = << >>
    /\ writable = << >> /\ readonly = << >> /\ keys = << >>
    /\ fetched = << >> /\ transaction_accounts = << >>
    /\ cache = [k \in Keys |-> None]
    /\ examined = 0 /\ programdata_keys = << >> /\ program_ids = << >>
    /\ execution = NoExecution
    /\ exit_code = None
    /\ ledger = FirstLedger
    /\ changes = 0
    /\ seen = [tables |-> None, accounts |-> None, programdata |-> None]

\* An error reaches the end of main, which exits with 1.
Bail ==
    /\ phase' = "exited" /\ exit_code' = 1
    /\ UNCHANGED <<local, outside, seen>>

\* fetch_accounts: one call, answered from the ledger as it is then.
Fetch(ks) == [j \in DOMAIN ks |-> ledger[ks[j]]]

-----------------------------------------------------------------------------
\* Decoding, lines 413 to 427; the message's addresses, lines 435 to 458.

Decode(m) ==
    /\ phase = "start"
    /\ message' = m
    /\ phase' = IF m.lookups = << >> THEN "resolved" ELSE "tables"
    /\ UNCHANGED <<tables, writable, readonly, keys, fetched, transaction_accounts,
                   cache, upgradeable, execution, exit_code, outside, seen>>

FetchTables ==
    /\ phase = "tables"
    /\ tables' = Fetch([j \in DOMAIN message.lookups |-> message.lookups[j].table])
    /\ seen' = [seen EXCEPT !.tables = ledger]
    /\ phase' = "lookups"
    /\ UNCHANGED <<message, writable, readonly, keys, fetched, transaction_accounts,
                   cache, upgradeable, execution, exit_code, outside>>

\* parse_alt_addresses: data too short for a table holds no address.
Addresses(account) == IF account.kind = "table" THEN account.addresses ELSE << >>

Within(indexes, addresses) ==
    \A j \in DOMAIN indexes : indexes[j] \in DOMAIN addresses

At(indexes, addresses) == [j \in DOMAIN indexes |-> addresses[indexes[j]]]

\* The lookup the loop of resolve_address_lookups is at.
Lookup == message.lookups[Len(message.lookups) - Len(tables) + 1]
TableResolves ==
    /\ Head(tables) # Missing
    /\ Within(Lookup.writable, Addresses(Head(tables)))
    /\ Within(Lookup.readonly, Addresses(Head(tables)))

\* Mutant: the read-only addresses follow the writable ones of the same table.
MutantResolveLookup ==
    /\ phase = "lookups" /\ tables # << >> /\ TableResolves
    /\ writable' = writable \o At(Lookup.writable, Addresses(Head(tables)))
                            \o At(Lookup.readonly, Addresses(Head(tables)))
    /\ tables' = Tail(tables)
    /\ phase' = IF Len(tables) = 1 THEN "resolved" ELSE "lookups"
    /\ UNCHANGED <<message, readonly, keys, fetched, transaction_accounts, cache,
                   upgradeable, execution, exit_code, outside, seen>>

ResolveLookup ==
    /\ phase = "lookups" /\ tables # << >> /\ TableResolves
    /\ writable' = writable \o At(Lookup.writable, Addresses(Head(tables)))
    /\ readonly' = readonly \o At(Lookup.readonly, Addresses(Head(tables)))
    /\ tables' = Tail(tables)
    /\ phase' = IF Len(tables) = 1 THEN "resolved" ELSE "lookups"
    /\ UNCHANGED <<message, keys, fetched, transaction_accounts, cache, upgradeable,
                   execution, exit_code, outside, seen>>

\* "not found", or an index past the end of the table.
LookupFails ==
    /\ phase = "lookups" /\ tables # << >> /\ ~TableResolves
    /\ Bail

-----------------------------------------------------------------------------
\* The accounts of the transaction, lines 466 to 495.

FetchAccounts ==
    /\ phase = "resolved"
    /\ keys' = message.static \o writable \o readonly
    /\ fetched' = Fetch(keys')
    /\ seen' = [seen EXCEPT !.accounts = ledger]
    /\ phase' = "fetched"
    /\ UNCHANGED <<message, tables, writable, readonly, transaction_accounts, cache,
                   upgradeable, execution, exit_code, outside>>

\* The sysvar is the one constructed from the message, whatever was fetched; an
\* account that is not found is a default one.
AccountOf(key, account) ==
    IF key = Sysvar THEN Constructed
    ELSE IF account = Missing THEN [kind |-> "plain"]
    ELSE account

BuildAccounts ==
    /\ phase = "fetched"
    /\ transaction_accounts' = [k \in DOMAIN keys |-> AccountOf(keys[k], fetched[k])]
    /\ phase' = "accounts"
    /\ UNCHANGED <<message, tables, writable, readonly, keys, fetched, cache,
                   upgradeable, execution, exit_code, outside, seen>>

-----------------------------------------------------------------------------
\* The program cache, lines 515 to 542.

\* build_program_cache; an image that is rejected is only warned of.
BuildCache ==
    /\ phase = "accounts"
    /\ cache' = [p \in Keys |->
          LET own == {k \in DOMAIN keys :
                         /\ keys[k] = p
                         /\ transaction_accounts[k].kind = "loader"
                         /\ transaction_accounts[k].elf # BadElf}
          IN  IF own = {} THEN None
              ELSE transaction_accounts[CHOOSE k \in own : TRUE].elf]
    /\ phase' = "programs"
    /\ UNCHANGED <<message, tables, writable, readonly, keys, fetched,
                   transaction_accounts, upgradeable, execution, exit_code, outside, seen>>

NamesProgramdata(account) ==
    account.kind = "upgradeable" /\ account.programdata # None

\* Mutant: the program is noted before its data is looked at.
MutantCollect(key, account) ==
    /\ programdata_keys' = IF NamesProgramdata(account)
                           THEN Append(programdata_keys, account.programdata)
                           ELSE programdata_keys
    /\ program_ids' = IF account.kind = "upgradeable" THEN Append(program_ids, key)
                      ELSE program_ids

\* One account of the first loop of load_upgradeable_programs, which fills two
\* vectors side by side.
Collect(key, account) ==
    IF NamesProgramdata(account)
    THEN /\ programdata_keys' = Append(programdata_keys, account.programdata)
         /\ program_ids' = Append(program_ids, key)
    ELSE UNCHANGED <<programdata_keys, program_ids>>

CollectUpgradeable ==
    /\ phase = "programs" /\ examined < Len(keys)
    /\ examined' = examined + 1
    /\ Collect(keys[examined'], fetched[examined'])
    /\ UNCHANGED <<phase, message, tables, writable, readonly, keys, fetched,
                   transaction_accounts, cache, execution, exit_code, outside, seen>>

Collected == phase = "programs" /\ examined = Len(keys)

\* Programdata that is gone, is too short or is rejected leaves its program out.
LoadUpgradeable ==
    /\ Collected /\ programdata_keys # << >>
    /\ LET programdata == Fetch(programdata_keys)
       IN  cache' = [p \in Keys |->
              LET own == {j \in DOMAIN program_ids \cap DOMAIN programdata :
                             /\ program_ids[j] = p
                             /\ programdata[j].kind = "programdata"
                             /\ programdata[j].elf # BadElf}
              IN  IF own = {} THEN cache[p]
                  ELSE programdata[CHOOSE j \in own : TRUE].elf]
    /\ seen' = [seen EXCEPT !.programdata = ledger]
    /\ phase' = "sysvars"
    /\ UNCHANGED <<message, tables, writable, readonly, keys, fetched,
                   transaction_accounts, upgradeable, execution, exit_code, outside>>

NothingUpgradeable ==
    /\ Collected /\ programdata_keys = << >>
    /\ phase' = "sysvars"
    /\ UNCHANGED <<local, exit_code, outside, seen>>

\* The sysvar cache takes what the call returns; its content does not matter here.
FetchSysvars ==
    /\ phase = "sysvars"
    /\ phase' = "ready"
    /\ UNCHANGED <<local, exit_code, outside, seen>>

-----------------------------------------------------------------------------
\* Execution and verdict, lines 601 to 693.

\* The execution is module Invocation's: it may fail, and programs that are
\* loaded may read what is watched.
Execute(result, forbidden) ==
    /\ phase = "ready"
    /\ forbidden => message.watches /\ \E p \in Keys : cache[p] # None
    /\ execution' = [result |-> result, forbidden |-> forbidden]
    /\ phase' = "executed"
    /\ UNCHANGED <<message, tables, writable, readonly, keys, fetched,
                   transaction_accounts, cache, upgradeable, exit_code, outside, seen>>

\* Mutant: the accesses of an execution that failed are not looked at.
MutantExitCode == IF execution.forbidden /\ execution.result = "ok" THEN 1 ELSE 0

ExitCode == IF execution.forbidden THEN 1 ELSE 0

Report ==
    /\ phase = "executed"
    /\ exit_code' = ExitCode
    /\ phase' = "exited"
    /\ UNCHANGED <<local, outside, seen>>

\* Every other error: arguments and transactions that cannot be read, offsets
\* that cannot be computed, calls that fail or time out, instructions that
\* cannot be prepared.
Fallible == {"start", "tables", "resolved", "accounts", "programs", "sysvars", "ready"}

Calls(step) == step = "programs" => Collected /\ programdata_keys # << >>

Fails ==
    /\ phase \in Fallible /\ Calls(phase)
    /\ Bail

-----------------------------------------------------------------------------
Exited == phase = "exited" /\ UNCHANGED vars

\* External: the cluster, between the calls.
LedgerChanges(k) ==
    /\ phase # "exited"
    /\ changes < MaxChanges
    /\ \E account \in LedgerStates[k] \ {ledger[k]} :
          ledger' = [ledger EXCEPT ![k] = account]
    /\ changes' = changes + 1
    /\ UNCHANGED <<phase, local, exit_code, seen>>

Main ==
    \/ \E m \in Messages : Decode(m)
    \/ FetchTables \/ ResolveLookup \/ LookupFails
    \/ FetchAccounts \/ BuildAccounts \/ BuildCache
    \/ CollectUpgradeable \/ LoadUpgradeable \/ NothingUpgradeable \/ FetchSysvars
    \/ \E result \in {"ok", "err"}, forbidden \in BOOLEAN : Execute(result, forbidden)
    \/ Report \/ Fails

Next == Main \/ Exited \/ \E k \in Keys : LedgerChanges(k)

Spec == Init /\ [][Next]_vars

-----------------------------------------------------------------------------
\* The addresses of a message are its own, then those of all its writable
\* lookups, then those of all its read-only ones: what SanitizedMessage lets its
\* instructions' indexes mean, and so do the fetched accounts.  A table that
\* changes later changes nothing.
KeysFollowMessage ==
    LET loaded(j, indexes) == At(indexes, Addresses(seen.tables[message.lookups[j].table]))
    IN  keys # << >> =>
            keys = message.static
                \o FlattenSeq([j \in DOMAIN message.lookups |->
                                  loaded(j, message.lookups[j].writable)])
                \o FlattenSeq([j \in DOMAIN message.lookups |->
                                  loaded(j, message.lookups[j].readonly)])

\* A program runs the image that its own account holds or that the programdata
\* its account names held at the second call, never another program's, though
\* ids and programdata travel in two vectors and some accounts are skipped.
ProgramsRunTheirOwnImage ==
    \A p \in Keys : cache[p] # None => \E k \in DOMAIN keys :
        /\ keys[k] = p
        /\ LET account == seen.accounts[p]
           IN  \/ account.kind = "loader" /\ account.elf = cache[p]
               \/ /\ account.kind = "upgradeable"
                  /\ account.programdata # None
                  /\ seen.programdata[account.programdata].kind = "programdata"
                  /\ seen.programdata[account.programdata].elf = cache[p]

\* Exit code 0 is given only to an execution that took place and recorded no
\* forbidden access, whether or not it failed; none of the errors on the way
\* ends as a clean verdict.
CleanVerdictIsEarned ==
    exit_code = 0 => execution.result # None /\ ~execution.forbidden

\* gobble/README.md:24: exit code 1 says that a forbidden access was detected.
ExitOneMeansDetected == exit_code = 1 => execution.forbidden
=============================================================================
