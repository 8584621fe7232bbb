----------------------------- MODULE ProgramCache -----------------------------
(***************************************************************************)
(* The cache of compiled programs that all banks of a validator share       *)
(* (agave/program-runtime/src/loaded_programs.rs), with the transaction     *)
(* batches that extract programs from it, load what is missing together and *)
(* merge back what they deploy (svm/src/transaction_processor.rs), and the  *)
(* replay thread that makes banks, moves the root, drops duplicate slots    *)
(* and recompiles programs before an epoch boundary (runtime/src/bank.rs,   *)
(* bank_forks.rs).                                                          *)
(*                                                                         *)
(* The account of a program is abstracted to the slot of its deployment and *)
(* whether it is open.  A batch keeps the accounts of its bank as it found  *)
(* them: account locks, or the bank being frozen, keep them as they are.    *)
(* Each hold of the cache's lock is one step.  The waiter's cookie is kept  *)
(* as `fresh`: no task has finished since the batch read it.  Usage         *)
(* counters are left out, so eviction chooses freely.  There is one epoch   *)
(* boundary, at which the runtime environment changes; builtins, loaders v1 *)
(* and v2 and loader migration are left out.                                *)
(***************************************************************************)
EXTENDS Integers, Sequences, FiniteSets, SequencesExt

CONSTANTS
    Programs,
    LoaderV4,             \* the programs of loader v4; the others are of v3
    Broken,               \* programs that fail verification after the boundary
    Batches,              \* threads that process or simulate transactions
    MaxSlot,              \* bound on slots
    PreparationStart,     \* first slot of the recompilation phase
    EpochStart,           \* first slot of the new epoch
    HighestSlotAtStartup,
    ShrinkTo,             \* entries that stay loaded, 90% of 512 in the code
    LeftBehindRun,        \* whether simulations go on in a bank that the root leaves behind
    None

VARIABLES
    banks,                \* BankForks: ancestors, accounts and flags of each bank
    root,                 \* of BankForks
    entries,              \* slot versions of each program, sorted by effective slot
    loading_entries,      \* batch that is loading the program
    latest_root_slot,
    preparation,          \* EpochBoundaryPreparation
    replay,               \* the thread that makes banks and moves the root
    batches,
    replaced              \* history: "Unexpected replacement of an entry"

vars == <<banks, root, entries, loading_entries, latest_root_slot, preparation,
          replay, batches, replaced>>

(* ------------------------------- entries -------------------------------- *)

Entry(kind, dep, eff, env) == [kind |-> kind, dep |-> dep, eff |-> eff, env |-> env]

new_tombstone(kind, slot, env) == Entry(kind, slot, slot, env)

is_tombstone(e) == e.kind \in {"FailedVerification", "Closed", "DelayVisibility"}

is_implicit_delay_visibility_tombstone(e, slot) ==
    e.eff - e.dep = 1 /\ slot >= e.dep /\ slot < e.eff

\* PartialEq of ProgramCacheEntry: the environment is not compared.
Same(e, f) == e.eff = f.eff /\ e.dep = f.dep /\ is_tombstone(e) = is_tombstone(f)

MutantMatches(e, env) == e.env \in {None, env} \/ is_tombstone(e)

matches_environment(e, env) == e.env \in {None, env}

Environment(slot) == IF slot >= EpochStart THEN "new" ELSE "old"

Verifies(p, env) == env = "old" \/ p \notin Broken

load_program_with_pubkey(p, account, slot, env) ==
    IF ~account.open THEN new_tombstone("Closed", slot, None)
    ELSE IF Verifies(p, env) THEN Entry("Loaded", account.dep, account.dep + 1, env)
    ELSE new_tombstone("FailedVerification", account.dep, env)

(* ----------------------------- the fork graph ---------------------------- *)

Largest(S) == CHOOSE n \in S : \A m \in S : m <= n

relationship(a, b) ==
    LET known_slot_range == root .. Largest(DOMAIN banks) IN
    IF {a, b} \ known_slot_range # {} THEN "Unknown"
    ELSE IF a = b THEN "Equal"
    ELSE IF b \in DOMAIN banks /\ a \in banks[b].ancestors THEN "Ancestor"
    ELSE IF a \in DOMAIN banks /\ b \in banks[a].ancestors THEN "Descendant"
    ELSE "Unrelated"

MutantVisibleTo(e, slot) == e.dep <= latest_root_slot \/ e.dep <= slot

VisibleTo(e, slot) ==
    e.dep <= latest_root_slot \/ relationship(e.dep, slot) \in {"Equal", "Ancestor"}

(* ------------------------------ the versions ----------------------------- *)

\* The order of slot_versions, as a caller with environment env sees it.
Before(e, f, env) ==
    \/ e.eff < f.eff
    \/ e.eff = f.eff /\ e.dep < f.dep
    \/ e.eff = f.eff /\ e.dep = f.dep
       /\ ~matches_environment(e, env) /\ matches_environment(f, env)

\* binary_search_by: a version that ties with the entry, or a place between a
\* smaller and a greater one.  Which of them is unspecified when the versions are
\* not sorted in the caller's order.
Searches(versions, entry, env) ==
    LET Smaller(i) == i = 0 \/ Before(versions[i], entry, env)
        Greater(i) == i = Len(versions) + 1 \/ Before(entry, versions[i], env)
    IN  {[found |-> TRUE, at |-> i] :
            i \in {i \in DOMAIN versions : ~Smaller(i) /\ ~Greater(i)}}
        \cup {[found |-> FALSE, at |-> i] :
            i \in {i \in 1 .. Len(versions) + 1 : Smaller(i - 1) /\ Greater(i)}}

\* The entries of the same deployment make way, unless they are for another
\* environment.
Overwrite(versions, entry) ==
    LET Stays(e) == \/ e.dep # entry.dep
                    \/ None \notin {e.env, entry.env} /\ e.env # entry.env
                    \/ Same(e, entry)
    IN  SelectSeq(versions, Stays)

\* The outcomes of assign_program.
assign_program(versions, entry, env) ==
    LET Outcome(r) ==
          IF ~r.found
          THEN [versions |-> Overwrite(InsertAt(versions, r.at, entry), entry),
                occupied |-> FALSE]
          ELSE IF versions[r.at].kind = "Unloaded" /\ entry.kind = "Loaded"
          THEN [versions |-> Overwrite([versions EXCEPT ![r.at] = entry], entry),
                occupied |-> FALSE]
          ELSE [versions |-> versions, occupied |-> TRUE]
    IN  {Outcome(r) : r \in Searches(versions, entry, env)}

MatchesCriteria(e, account, v4) ==
    IF account.open \/ v4 THEN e.dep >= account.dep ELSE is_tombstone(e)

\* The version that extract returns to a batch, None on a miss.  The versions
\* are searched backwards; one of another environment restricts the rest of the
\* search to its own deployment.
Extracted(p, batch) ==
    LET v == entries[p]
        stops == {i \in DOMAIN v :
                    /\ VisibleTo(v[i], batch.slot)
                    /\ \/ batch.slot >= v[i].eff
                       \/ is_implicit_delay_visibility_tombstone(v[i], batch.slot)}
        foreign == {i \in stops : /\ batch.slot >= v[i].eff
                                  /\ ~matches_environment(v[i], Environment(batch.slot))}
        same == {i \in stops \ foreign : v[i].dep = v[Largest(stops)].dep}
        candidates == IF Largest(stops) \in foreign THEN same ELSE stops
        e == v[Largest(candidates)]
    IN  IF stops = {} \/ candidates = {} THEN None
        ELSE IF batch.slot < e.eff THEN new_tombstone("DelayVisibility", e.dep, None)
        ELSE IF \/ batch.check
                   /\ ~MatchesCriteria(e, batch.accounts[p], p \in LoaderV4)
                \/ e.kind = "Unloaded"
        THEN None
        ELSE e

\* prune: what is left of the versions when the root moves.
Pruned(versions, new_root, upcoming) ==
    LET v == versions
        rooted == {i \in DOMAIN v : /\ v[i].dep < new_root
                                    /\ \/ relationship(v[i].dep, new_root) = "Ancestor"
                                       \/ v[i].dep <= latest_root_slot}
        OtherEnvironment(e, f) == None \notin {e.env, f.env} /\ e.env # f.env
        Keep(i) ==
            /\ \/ /\ v[i].dep >= new_root
                  /\ relationship(v[i].dep, new_root) \in {"Equal", "Descendant"}
               \/ /\ i \in rooted
                  /\ i = Largest(rooted) \/ OtherEnvironment(v[i], v[Largest(rooted)])
            /\ upcoming => matches_environment(v[i], "new")
        kept == SelectSeq([i \in DOMAIN v |-> i], Keep)
    IN  [i \in DOMAIN kept |-> v[kept[i]]]

MutantPruneBySlot(versions, slots) ==
    LET first == CHOOSE s \in slots : \A t \in slots : s <= t IN
    SelectSeq(versions, LAMBDA e : e.dep # first)

prune_by_deployment_slot(versions, slots) ==
    SelectSeq(versions, LAMBDA e : e.dep \notin slots)

(* ------------------------------- the batches ----------------------------- *)

IdleBatch ==
    [at |-> "idle", slot |-> 0, simulated |-> FALSE, check |-> FALSE, write |-> None,
     accounts |-> [p \in Programs |-> None], missing |-> {}, task |-> None,
     found |-> [p \in Programs |-> None], modified |-> None, fresh |-> FALSE,
     dirty |-> FALSE, deploy_env |-> "old"]

Wanted(batch) == {p \in Programs : batch.accounts[p] # None}

Active(b) == batches[b].at # "idle"

Descendants(slot) == {s \in DOMAIN banks : slot \in banks[s].ancestors}

LeftBehind(new_root) == DOMAIN banks \ Descendants(new_root)

\* Locks of the accounts in the bank that is being built.
Conflict(batch, slot, want, write) ==
    /\ batch.at # "idle" /\ ~batch.simulated /\ batch.slot = slot
    /\ batch.write \in want \/ write \in Wanted(batch)

\* get_environments_for_epoch, for the epoch in which a deployment takes effect.
DeploymentEnvironment(slot) ==
    IF slot + 1 >= EpochStart /\ preparation.prepared THEN "new" ELSE Environment(slot)

\* A batch of transactions on the bank that is being built, or a simulation on a
\* frozen one.  Simulations change nothing.
Start(b) ==
    /\ ~Active(b)
    /\ \E slot \in DOMAIN banks, want \in SUBSET Programs \ {{}} :
       \E write \in IF banks[slot].frozen THEN {None} ELSE want \cup {None} :
         /\ replay.at = "set_root" /\ slot \in LeftBehind(replay.slot)
              => LeftBehindRun /\ banks[slot].frozen
         /\ ~banks[slot].frozen => \A c \in Batches : ~Conflict(batches[c], slot, want, write)
         /\ batches' = [batches EXCEPT ![b] =
              [IdleBatch EXCEPT
                 !.at = "extract", !.slot = slot, !.simulated = banks[slot].frozen,
                 !.check = banks[slot].check, !.write = write, !.missing = want,
                 !.deploy_env = IF write = None THEN @ ELSE DeploymentEnvironment(slot),
                 !.accounts = [p \in Programs |->
                                 IF p \in want THEN banks[slot].accounts[p] ELSE None]]]
    /\ UNCHANGED <<banks, root, entries, loading_entries, latest_root_slot,
                   preparation, replay, replaced>>

\* One turn of the loop of replenish_program_cache, up to the release of the read
\* lock.  The first missing program that nobody loads becomes this batch's task.
extract(b) ==
    /\ batches[b].at = "extract"
    /\ \E missing \in SUBSET batches[b].missing :
         /\ \A p \in batches[b].missing : p \in missing <=> Extracted(p, batches[b]) = None
         /\ LET vacant == {p \in missing : loading_entries[p] = None} IN
            \E task \in IF vacant = {} THEN {None} ELSE vacant :
              /\ batches' = [batches EXCEPT
                   ![b].found = [p \in Programs |->
                       IF p \in batches[b].missing \ missing
                       THEN Extracted(p, batches[b]) ELSE @[p]],
                   ![b].missing = missing, ![b].task = task, ![b].fresh = missing # {},
                   ![b].at = IF task # None THEN "load"
                             ELSE IF missing = {} THEN "ready" ELSE "wait"]
              /\ loading_entries' = [p \in Programs |->
                   IF p = task THEN b ELSE loading_entries[p]]
    /\ UNCHANGED <<banks, root, entries, latest_root_slot, preparation, replay, replaced>>

MutantNotify(waiters) == waiters

\* LoadingTaskWaiter::notify changes the cookie.
notify(waiters) == [b \in Batches |-> [waiters[b] EXCEPT !.fresh = FALSE]]

\* The load, which reads only what the batch has locked, and the submission of
\* its result.  A batch that may not replace an entry gives up.
finish_cooperative_loading_task(b) ==
    LET p == batches[b].task
        slot == batches[b].slot
        env == Environment(slot)
    IN  /\ batches[b].at = "load"
        /\ loading_entries' = [loading_entries EXCEPT ![p] = None]
        /\ \E r \in assign_program(entries[p],
                      load_program_with_pubkey(p, batches[b].accounts[p], slot, env), env) :
             /\ entries' = [entries EXCEPT ![p] = r.versions]
             /\ replaced' = (replaced \/ r.occupied)
             /\ \E limit_to_load_programs \in IF batches[b].simulated THEN {TRUE} ELSE BOOLEAN :
                batches' = notify([batches EXCEPT ![b] =
                  IF r.occupied /\ limit_to_load_programs THEN IdleBatch
                  ELSE [@ EXCEPT !.at = "extract", !.task = None, !.dirty = TRUE]])
        /\ UNCHANGED <<banks, root, latest_root_slot, preparation, replay>>

\* LoadingTaskWaiter::wait returns once the cookie has changed.
wait(b) ==
    /\ batches[b].at = "wait"
    /\ ~batches[b].fresh
    /\ batches' = [batches EXCEPT ![b].at = "extract"]
    /\ UNCHANGED <<banks, root, entries, loading_entries, latest_root_slot,
                   preparation, replay, replaced>>

\* ProgramCacheForTxBatch::find
find(batch, p) ==
    IF /\ batch.found[p] # None
       /\ is_implicit_delay_visibility_tombstone(batch.found[p], batch.slot)
    THEN new_tombstone("DelayVisibility", batch.found[p].dep, None)
    ELSE batch.found[p]

\* What a transaction can do to a program it has write-locked: upgrade or deploy
\* it, close or retract it; never twice in a slot.
Modifications(p, account, slot, env) ==
    LET Deploy == [account |-> [dep |-> slot, open |-> TRUE],
                   entry |-> Entry("Loaded", slot, slot + 1, env)]
        Close == [account |-> [account EXCEPT !.open = FALSE],
                  entry |-> new_tombstone("Closed", slot, None)]
    IN  IF account.dep = slot THEN {}
        ELSE {m \in {Deploy} : Verifies(p, env) /\ account.open = (p \notin LoaderV4)}
             \cup {m \in {Close} : account.open}

\* evict_using_2s_random_selection: each chosen candidate unloads the first entry
\* that equals it.
Evictions ==
    LET loaded == {<<p, i>> \in Programs \X (1 .. Largest({Len(entries[q]) : q \in Programs})) :
                     i <= Len(entries[p]) /\ entries[p][i].kind = "Loaded"}
        num_to_unload == Cardinality(loaded) - ShrinkTo
        Hit(chosen, p, i) == \E c \in chosen :
            /\ c[1] = p
            /\ Same(entries[p][i], entries[p][c[2]])
            /\ \A j \in 1 .. i - 1 : ~Same(entries[p][j], entries[p][c[2]])
        Unloaded(chosen) == [p \in Programs |-> [i \in DOMAIN entries[p] |->
            IF entries[p][i].kind = "Loaded" /\ Hit(chosen, p, i)
            THEN [entries[p][i] EXCEPT !.kind = "Unloaded"] ELSE entries[p][i]]]
    IN  {Unloaded(S) : S \in {S \in SUBSET loaded :
            Cardinality(S) = IF num_to_unload > 0 THEN num_to_unload ELSE 0}}

\* The transactions run, and the cache is shrunk if this batch added to it.
execute(b) ==
    LET batch == batches[b]
        p == batch.write
        After(m) == IF m = None THEN batch
                    ELSE [batch EXCEPT !.accounts[p] = m.account, !.found[p] = m.entry,
                                       !.modified = m.entry, !.dirty = TRUE]
    IN  /\ batch.at = "ready"
        /\ \E m \in {None} \cup IF p = None THEN {}
                                ELSE Modifications(p, batch.accounts[p], batch.slot,
                                                   batch.deploy_env) :
             /\ batches' = [batches EXCEPT ![b] =
                  IF batch.simulated THEN IdleBatch ELSE [After(m) EXCEPT !.at = "commit"]]
             /\ entries' \in IF After(m).dirty THEN Evictions ELSE {entries}
        /\ UNCHANGED <<banks, root, loading_entries, latest_root_slot, preparation,
                       replay, replaced>>

\* commit_transactions: the accounts are stored and the modified entry is merged.
commit(b) ==
    LET batch == batches[b]
        p == batch.write
    IN  /\ batch.at = "commit"
        /\ batches' = [batches EXCEPT ![b] = IdleBatch]
        /\ IF batch.modified = None THEN UNCHANGED <<banks, entries, replaced>>
           ELSE /\ banks' = [banks EXCEPT ![batch.slot].accounts[p] = batch.accounts[p]]
                /\ \E r \in assign_program(entries[p], batch.modified,
                                           Environment(batch.slot)) :
                     /\ entries' = [entries EXCEPT ![p] = r.versions]
                     /\ replaced' = (replaced \/ r.occupied)
        /\ UNCHANGED <<root, loading_entries, latest_root_slot, preparation, replay>>

(* --------------------------- the replay thread --------------------------- *)

Idle == [at |-> "idle", slot |-> 0, parent |-> 0, key |-> None]

Used(slots) == {b \in Batches : Active(b) /\ batches[b].slot \in slots}

InsertBank(slot, parent) ==
    banks' = [s \in DOMAIN banks \cup {slot} |->
                IF s # slot THEN banks[s]
                ELSE [ancestors |-> banks[parent].ancestors \cup {slot},
                      accounts |-> banks[parent].accounts,
                      frozen |-> FALSE, check |-> root < HighestSlotAtStartup]]

Versions(p) == Cardinality({i \in DOMAIN entries[p] : entries[p][i].kind = "Loaded"})

\* new_from_parent with prepare_program_cache_for_upcoming_feature_set, then the
\* insertion in BankForks.  The phase before a boundary is long enough that some
\* bank of it has been made before the boundary is crossed.
NewBank(slot, parent) ==
    /\ replay = Idle
    /\ parent \in DOMAIN banks /\ banks[parent].frozen
    /\ slot > parent /\ slot \notin DOMAIN banks
    /\ slot >= EpochStart /\ parent < EpochStart => preparation.prepared
    /\ IF preparation.prepared /\ \E p \in Programs : preparation.programs_to_recompile[p] > 0
       THEN \E p \in Programs :
              /\ preparation.programs_to_recompile[p] > 0
              /\ preparation' = [preparation EXCEPT !.programs_to_recompile[p] = @ - 1]
              /\ replay' = [at |-> "recompile", slot |-> slot, parent |-> parent, key |-> p]
              /\ UNCHANGED banks
       ELSE /\ preparation' =
                 IF ~preparation.prepared /\ slot \in PreparationStart .. EpochStart - 1
                 THEN [prepared |-> TRUE,
                       programs_to_recompile |-> [p \in Programs |-> Versions(p)]]
                 ELSE preparation
            /\ InsertBank(slot, parent)
            /\ UNCHANGED replay
    /\ UNCHANGED <<root, entries, loading_entries, latest_root_slot, batches, replaced>>

\* The recompiled program enters the cache without a loading task.
Recompile ==
    LET p == replay.key IN
    /\ replay.at = "recompile"
    /\ \E r \in assign_program(entries[p],
                  load_program_with_pubkey(p, banks[replay.parent].accounts[p],
                                           replay.slot, "new"), "new") :
         /\ entries' = [entries EXCEPT ![p] = r.versions]
         /\ replaced' = (replaced \/ r.occupied)
    /\ InsertBank(replay.slot, replay.parent)
    /\ replay' = Idle
    /\ UNCHANGED <<root, loading_entries, latest_root_slot, preparation, batches>>

freeze(slot) ==
    /\ slot \in DOMAIN banks /\ ~banks[slot].frozen
    /\ Used({slot}) = {}
    /\ banks' = [banks EXCEPT ![slot].frozen = TRUE]
    /\ UNCHANGED <<root, entries, loading_entries, latest_root_slot, preparation,
                   replay, batches, replaced>>

\* prune_program_cache: before the root moves.
prune(new_root) ==
    LET concluded == preparation.prepared /\ new_root >= EpochStart IN
    /\ replay = Idle
    /\ new_root \in DOMAIN banks \ {root} /\ banks[new_root].frozen
    /\ \A b \in Used(LeftBehind(new_root)) : batches[b].simulated /\ LeftBehindRun
    /\ entries' = [p \in Programs |-> Pruned(entries[p], new_root, concluded)]
    /\ preparation' = IF concluded
                      THEN [prepared |-> FALSE, programs_to_recompile |-> [p \in Programs |-> 0]]
                      ELSE preparation
    /\ latest_root_slot' = new_root
    /\ replay' = [Idle EXCEPT !.at = "set_root", !.slot = new_root]
    /\ UNCHANGED <<banks, root, loading_entries, batches, replaced>>

\* set_root, which drops every bank that is not a descendant.
set_root ==
    LET kept == Descendants(replay.slot) IN
    /\ replay.at = "set_root"
    /\ root' = replay.slot
    /\ banks' = [s \in kept |-> banks[s]]
    /\ replay' = Idle
    /\ UNCHANGED <<entries, loading_entries, latest_root_slot, preparation, batches, replaced>>

\* A duplicate slot and its descendants are dropped, to be replayed in another
\* version.  Their accounts are purged, so no batch is followed through a dump.
dump(slot) ==
    LET dropped == Descendants(slot) IN
    /\ replay = Idle
    /\ slot \in DOMAIN banks \ {root}
    /\ Used(dropped) = {}
    /\ banks' = [s \in DOMAIN banks \ dropped |-> banks[s]]
    /\ entries' = [p \in Programs |-> prune_by_deployment_slot(entries[p], dropped)]
    /\ UNCHANGED <<root, loading_entries, latest_root_slot, preparation, replay,
                   batches, replaced>>

(* ----------------------------- specification ----------------------------- *)

\* A cold cache, on a frozen bank with all programs deployed.
Init ==
    /\ root = 0
    /\ banks = [s \in {0} |->
                  [ancestors |-> {0}, frozen |-> TRUE, check |-> HighestSlotAtStartup > 0,
                   accounts |-> [p \in Programs |-> [dep |-> 0, open |-> TRUE]]]]
    /\ entries = [p \in Programs |-> <<>>]
    /\ loading_entries = [p \in Programs |-> None]
    /\ latest_root_slot = 0
    /\ preparation = [prepared |-> FALSE, programs_to_recompile |-> [p \in Programs |-> 0]]
    /\ replay = Idle
    /\ batches = [b \in Batches |-> IdleBatch]
    /\ replaced = FALSE

Slots == 0 .. MaxSlot

Next ==
    \/ \E b \in Batches : Start(b)
    \/ \E b \in Batches : extract(b)
    \/ \E b \in Batches : finish_cooperative_loading_task(b)
    \/ \E b \in Batches : wait(b)
    \/ \E b \in Batches : execute(b)
    \/ \E b \in Batches : commit(b)
    \/ \E slot, parent \in Slots : NewBank(slot, parent)
    \/ Recompile
    \/ \E slot \in Slots : freeze(slot)
    \/ \E slot \in Slots : prune(slot)
    \/ set_root
    \/ \E slot \in Slots : dump(slot)

Spec == Init /\ [][Next]_vars

(* ------------------------------ properties ------------------------------- *)

\* The batch would run the version of the program that its own bank has: the last
\* one deployed on its fork, compiled for its epoch; a tombstone if that is
\* closed, not yet visible or fails verification.
RunsOwnVersion(batch, p) ==
    LET account == batch.accounts[p]
        e == find(batch, p)
    IN  IF ~account.open THEN e.kind = "Closed"
        ELSE IF account.dep = batch.slot THEN e.kind = "DelayVisibility"
        ELSE /\ e.dep = account.dep
             /\ e.env = Environment(batch.slot)
             /\ e.kind = IF Verifies(p, e.env) THEN "Loaded" ELSE "FailedVerification"

Running == {b \in Batches : batches[b].at \in {"ready", "commit"}}

\* ProgramCacheForTxBatch holds the entry valid for the slot in which a
\* transaction is executed, after any interleaving of loads, evictions,
\* deployments, pruning and dumps.
VersionIsValid ==
    \A b \in Running : \A p \in Wanted(batches[b]) : RunsOwnVersion(batches[b], p)

\* assign_program never finds a version where it does not expect one
\* (debug_assert "Unexpected replacement of an entry").
NoUnexpectedReplacement == ~replaced

\* No program runs that was compiled or rejected for the feature set of another
\* epoch, whatever was recompiled in advance, and none that fails verification
\* in the epoch of the batch (matches_environment, set_environments,
\* get_environments_for_epoch).
EnvironmentMatches ==
    \A b \in Running : \A p \in Wanted(batches[b]) :
      LET e == find(batches[b], p)
          env == Environment(batches[b].slot)
      IN  /\ e.kind \in {"Loaded", "FailedVerification"} => e.env = env
          /\ e.kind = "Loaded" <=> e.env = env /\ Verifies(p, env)

\* Loading together makes progress (replenish_program_cache).  Whoever waits waits
\* for a batch that is loading one of its programs, so no wake-up is lost and
\* nobody waits in a circle; and a version that a batch has loaded is one that it
\* finds when it looks again, so it does not load for ever.
LoadingProceeds ==
    [][\A b \in Batches :
         /\ batches[b].at = "wait" /\ batches[b].fresh =>
              \E p \in batches[b].missing :
                 /\ loading_entries[p] \notin {b, None}
                 /\ batches[loading_entries[p]].at = "load"
         /\ \A p \in Programs : batches[b].task = p /\ batches'[b].at = "extract" =>
              Extracted(p, batches[b])' # None]_vars
=============================================================================
