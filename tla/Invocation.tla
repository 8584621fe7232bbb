----------------------------- MODULE Invocation -----------------------------
(***************************************************************************)
(* Programs calling programs.                                              *)
(*                                                                         *)
(* InvokeContext (agave/program-runtime/src/invoke_context.rs) runs one    *)
(* top-level instruction, as the CLI asks, and every instruction its       *)
(* programs invoke: it prepares an instruction (prepare_next_instruction), *)
(* pushes it on the stack and the trace that TransactionContext keeps      *)
(* (agave/transaction-context/src/transaction.rs), runs the program, a     *)
(* builtin or a VM (execute, agave/program-runtime/src/vm.rs), and pops.   *)
(* Each VM has a tracker of its own; what it recorded is collected when    *)
(* the VM ends, whatever its result.  An error ends every caller in turn.  *)
(*                                                                         *)
(* Indices into the trace count from 1; the last entry of the trace is the *)
(* one reserved for the next instruction.                                  *)
(***************************************************************************)
EXTENDS Integers, Sequences, FiniteSets, Functions

CONSTANTS
    Programs,           \* program accounts
    Accounts,           \* the accounts of the transaction, programs included
    Sysvar,             \* the instructions sysvar
    Kind,               \* "vm", "builtin", or "missing" for each program
    BuiltinCost,        \* $cu_to_consume of each builtin
    Owner,              \* the owner of each account
    Pdas,               \* the addresses each program can sign for
    TopLevel,           \* top-level instructions the message may hold
    Requests,           \* what programs may invoke
    InstructionIndex,   \* --instruction-index: which one the CLI executes
    InitialLamports,    \* of the accounts
    Budget,             \* compute_unit_limit
    InvokeUnits,        \* what a cross-program invocation costs
    HeapCost,           \* what a heap costs
    StackCapacity,      \* max_instruction_stack_depth
    TraceCapacity,      \* max_instruction_trace_length
    PoolSize,           \* MAX_INSTRUCTION_STACK_DEPTH
    MaxBuiltinSteps,    \* bounds the code of a builtin
    None

\* An instruction: the program, its account metas in order, and the addresses
\* the caller signs for, which translate_signers derives from its own address.
Metas == [account : Accounts, signer : BOOLEAN, writable : BOOLEAN]

ASSUME InvocationAssumption ==
    /\ IsFiniteSet(Accounts) /\ Programs \subseteq Accounts
    /\ Sysvar \in Accounts \ Programs
    /\ Kind \in [Programs -> {"vm", "builtin", "missing"}]
    /\ BuiltinCost \in [Programs -> Nat]
    /\ Owner \in [Accounts -> Accounts]
    /\ Pdas \in [Programs -> SUBSET Accounts]
    /\ \A r \in TopLevel \cup Requests :
          /\ r.program \in Programs
          /\ r.metas \in Seq(Metas)
          /\ r.signers \subseteq Accounts
    /\ InitialLamports \in [Accounts -> Nat]
    /\ {Budget, InvokeUnits, HeapCost, StackCapacity, TraceCapacity, PoolSize,
        MaxBuiltinSteps, InstructionIndex} \subseteq Nat
    /\ StackCapacity > 0 /\ PoolSize > 0
    /\ None \notin Accounts \cup Nat

VARIABLES
    control,                    \* where the runtime is
    result,                     \* of the instruction that is ending
    instruction_trace,          \* the program, caller and nesting level of each
    instruction_accounts,       \* the metas of each
    instruction_stack,          \* indices into the trace
    current_executing_instruction,
    syscall_context,            \* the index of the VM it belongs to, or None
    frames,                     \* the running programs, as Rust's stack holds them
    top_level_instruction_index,
    sysvar_index,               \* the index stored at the end of the sysvar
    lamports,
    lamports_delta,
    compute_meter,
    pool,                       \* VmMemoryPool: items, next_empty; those in use,
                                \* and how many were ever made
    forbidden_memory_accesses,  \* collected: how many, by the index of the reader
    delivered                   \* history: the forbidden reads, counted the same way

transaction == <<instruction_trace, instruction_accounts, instruction_stack,
                 current_executing_instruction, top_level_instruction_index,
                 sysvar_index>>
money == <<lamports, lamports_delta>>
report == <<forbidden_memory_accesses, delivered>>
vars == <<control, result, transaction, syscall_context, frames, money,
          compute_meter, pool, report>>

Top(s) == s[Len(s)]
Pop1(s) == SubSeq(s, 1, Len(s) - 1)

\* The indices that instructions are pushed with.
Readers == 1 .. TraceCapacity

\* What configure_next_instruction has not set yet.
EmptyFrame == [program |-> None, caller |-> None, nesting_level |-> 0]

Init ==
    /\ control = "idle" /\ result = "ok"
    /\ instruction_trace = <<EmptyFrame>>
    /\ instruction_accounts = << >>
    /\ instruction_stack = << >>
    /\ current_executing_instruction = 0
    /\ syscall_context = << >>
    /\ frames = << >>
    /\ top_level_instruction_index = 0
    /\ sysvar_index = 0
    /\ lamports = InitialLamports
    /\ lamports_delta = 0
    /\ compute_meter = Budget
    /\ pool = [items |-> [k \in 1 .. PoolSize |-> k], next_empty |-> PoolSize,
               dirty |-> {}, made |-> PoolSize]
    /\ forbidden_memory_accesses = [i \in Readers |-> 0]
    /\ delivered = [i \in Readers |-> 0]

Current == Top(instruction_stack)
CurrentProgram == instruction_trace[Current].program
ProgramAt(level) == instruction_trace[instruction_stack[level]].program

\* saturating_sub: consume and consume_checked leave 0 when there is not enough.
Charged(amount) == IF compute_meter < amount THEN 0 ELSE compute_meter - amount

-----------------------------------------------------------------------------
\* Preparing an instruction.

IndicesOf(metas, a) == {k \in DOMAIN metas : metas[k].account = a}
FirstOf(metas, a) == CHOOSE k \in IndicesOf(metas, a) :
                        \A j \in IndicesOf(metas, a) : k <= j

\* The account a as an instruction has it: the entry its map leads to.
MetaOf(metas, a) == metas[FirstOf(metas, a)]

Joined(m, n) == [m EXCEPT !.signer = @ \/ n.signer, !.writable = @ \/ n.writable]

\* The occurrences whose flags entry k has when the first loop is over: the
\* first occurrence is raised by every later one, a later one takes what the
\* first one has when it is added.
MergedInto(metas, k) ==
    {j \in IndicesOf(metas, metas[k].account) :
        k = FirstOf(metas, metas[k].account) \/ j <= k}

\* First loop of prepare_next_instruction: a repeated account raises the flags
\* of its first occurrence and takes them.
Deduplicated(metas) ==
    [k \in DOMAIN metas |->
        [account  |-> metas[k].account,
         signer   |-> \E j \in MergedInto(metas, k) : metas[j].signer,
         writable |-> \E j \in MergedInto(metas, k) : metas[j].writable]]

\* Second loop: later occurrences take the flags of the first one again.
Propagated(metas) ==
    [k \in DOMAIN metas |-> Joined(metas[k], MetaOf(metas, metas[k].account))]

CurrentMetas == instruction_accounts[Current]

\* Mutant: only the first account is checked.
MutantPrivileged(metas, signers) ==
    \A k \in DOMAIN metas : k = 1 =>
        /\ IndicesOf(CurrentMetas, metas[k].account) # {}
        /\ metas[k].writable => MetaOf(CurrentMetas, metas[k].account).writable
        /\ metas[k].signer => \/ MetaOf(CurrentMetas, metas[k].account).signer
                              \/ metas[k].account \in signers

\* The checks of the second loop, on the first occurrence of each account.
Privileged(metas, signers) ==
    \A k \in DOMAIN metas : k = FirstOf(metas, metas[k].account) =>
        /\ IndicesOf(CurrentMetas, metas[k].account) # {}
        /\ metas[k].writable => MetaOf(CurrentMetas, metas[k].account).writable
        /\ metas[k].signer => \/ MetaOf(CurrentMetas, metas[k].account).signer
                              \/ metas[k].account \in signers

\* prepare_next_instruction succeeds; the program must be an account of the caller.
Allowed(r) ==
    /\ Privileged(Deduplicated(r.metas), r.signers \cap Pdas[CurrentProgram])
    /\ IndicesOf(CurrentMetas, r.program) # {}

\* The entry of the trace that the next instruction is given.
Prepared == instruction_trace[Len(instruction_trace)]

\* configure_next_instruction
Configure(program, metas, caller) ==
    /\ instruction_trace' =
          [instruction_trace EXCEPT ![Len(instruction_trace)] =
              [Prepared EXCEPT !.program = program,
                               !.caller = IF caller = None THEN @ ELSE caller]]
    /\ instruction_accounts' = Append(instruction_accounts, metas)
    /\ UNCHANGED <<instruction_stack, current_executing_instruction,
                   top_level_instruction_index, sysvar_index>>

\* prepare_next_top_level_instruction: the message gives one set of flags per
\* account, so occurrences agree as they are.
PrepareTopLevel(r) ==
    /\ control = "idle"
    /\ Configure(r.program, r.metas, None)
    /\ control' = "prepared"
    /\ UNCHANGED <<result, syscall_context, frames, money, compute_meter, pool,
                   report>>

\* The error of a call ends its caller; without a caller it ends the execution.
FailCaller ==
    /\ control' = IF instruction_stack = << >> THEN "done" ELSE "leaving"
    /\ result' = "err"

-----------------------------------------------------------------------------
\* process_instruction: push.

Nesting == Len(instruction_stack)

\* Mutant: the bottom of the stack is not looked at.
MutantReenters ==
    /\ \E level \in 2 .. Nesting : ProgramAt(level) = Prepared.program
    /\ CurrentProgram # Prepared.program

\* "Reentrancy not allowed unless caller is calling itself"
Reenters ==
    /\ \E level \in 1 .. Nesting : ProgramAt(level) = Prepared.program
    /\ CurrentProgram # Prepared.program

Unbalanced == Nesting > 0 /\ lamports_delta # 0
TraceFull == Len(instruction_trace) > TraceCapacity

TooDeep == Nesting >= StackCapacity

\* The trace as TransactionContext::push leaves it when the frame is balanced.
Leveled == [instruction_trace EXCEPT
               ![Len(instruction_trace)].nesting_level = Nesting]

PushReentrant ==
    /\ control = "prepared" /\ Reenters
    /\ FailCaller
    /\ UNCHANGED <<transaction, syscall_context, frames, money, compute_meter,
                   pool, report>>

\* The context pushed for the call stays behind when the push fails.
PushFails ==
    /\ control = "prepared" /\ ~Reenters
    /\ Unbalanced \/ TraceFull \/ TooDeep
    /\ syscall_context' = Append(syscall_context, None)
    /\ instruction_trace' = IF Unbalanced THEN instruction_trace
                            ELSE IF TraceFull THEN Leveled
                            ELSE Append(Leveled, EmptyFrame)
    /\ FailCaller
    /\ UNCHANGED <<instruction_accounts, instruction_stack,
                   current_executing_instruction, top_level_instruction_index,
                   sysvar_index, frames, money, compute_meter, pool, report>>

Push ==
    /\ control = "prepared" /\ ~Reenters
    /\ ~Unbalanced /\ ~TraceFull /\ ~TooDeep
    /\ syscall_context' = Append(syscall_context, None)
    /\ instruction_trace' = Append(Leveled, EmptyFrame)
    /\ instruction_stack' = Append(instruction_stack, Len(instruction_trace))
    /\ current_executing_instruction' = Len(instruction_trace)
    /\ sysvar_index' = top_level_instruction_index
    /\ frames' = Append(frames, [kind |-> "none", buffer |-> None,
                                 accesses |-> 0, watched |-> FALSE,
                                 start |-> compute_meter, steps |-> 0])
    /\ control' = "pushed" /\ result' = "ok"
    /\ UNCHANGED <<instruction_accounts, top_level_instruction_index, money,
                   compute_meter, pool, report>>

-----------------------------------------------------------------------------
\* process_executable_chain: entering the program.

\* UnsupportedProgramId: the owner is no loader, or the program is not cached
\* or not deployed.
EnterMissing ==
    /\ control = "pushed" /\ Kind[CurrentProgram] = "missing"
    /\ control' = "popping" /\ result' = "err"
    /\ UNCHANGED <<transaction, syscall_context, frames, money, compute_meter,
                   pool, report>>

\* declare_process_instruction charges a builtin before it runs.
EnterBuiltin ==
    /\ control = "pushed" /\ Kind[CurrentProgram] = "builtin"
    /\ compute_meter' = Charged(BuiltinCost[CurrentProgram])
    /\ frames' = [frames EXCEPT ![Nesting].kind = "builtin"]
    /\ IF compute_meter < BuiltinCost[CurrentProgram]
       THEN control' = "popping" /\ result' = "err"
       ELSE control' = "running" /\ UNCHANGED result
    /\ UNCHANGED <<transaction, syscall_context, money, pool, report>>

\* Pool::get, or a new buffer when the pool is empty.
Lent == IF pool.next_empty = 0 THEN pool.made + 1 ELSE pool.items[pool.next_empty]

PoolAfterGet ==
    IF pool.next_empty = 0
    THEN [pool EXCEPT !.made = @ + 1, !.dirty = @ \cup {Lent}]
    ELSE [pool EXCEPT !.items[pool.next_empty] = None, !.next_empty = @ - 1,
                      !.dirty = @ \cup {Lent}]

\* Mutant: a put counts the slot and does not fill it.
MutantPoolAfterPut(buffer) ==
    IF pool.next_empty = PoolSize
    THEN [pool EXCEPT !.dirty = @ \ {buffer}]
    ELSE [pool EXCEPT !.next_empty = @ + 1, !.dirty = @ \ {buffer}]

\* Pool::put resets the buffer; a full pool drops it.
PoolAfterPut(buffer) ==
    IF pool.next_empty = PoolSize
    THEN [pool EXCEPT !.dirty = @ \ {buffer}]
    ELSE [pool EXCEPT !.items[pool.next_empty + 1] = buffer, !.next_empty = @ + 1,
                      !.dirty = @ \ {buffer}]

\* create_vm! charges for the heap before it takes buffers from the pool.
EnterVmUnpaid ==
    /\ control = "pushed" /\ Kind[CurrentProgram] = "vm"
    /\ compute_meter < HeapCost
    /\ compute_meter' = 0
    /\ control' = "popping" /\ result' = "err"
    /\ UNCHANGED <<transaction, syscall_context, frames, money, pool, report>>

\* The sysvar's forbidden bytes are watched in every VM that maps the sysvar.
EnterVm ==
    /\ control = "pushed" /\ Kind[CurrentProgram] = "vm"
    /\ compute_meter >= HeapCost
    /\ compute_meter' = compute_meter - HeapCost
    /\ pool' = PoolAfterGet
    /\ syscall_context' = [syscall_context EXCEPT ![Len(syscall_context)] = Current]
    /\ frames' = [frames EXCEPT ![Nesting] =
          [@ EXCEPT !.kind = "vm", !.buffer = Lent,
                    !.watched = IndicesOf(CurrentMetas, Sysvar) # {}]]
    /\ control' = "running"
    /\ UNCHANGED <<result, transaction, money, report>>

-----------------------------------------------------------------------------
\* What a running program does.  A VM pays for every instruction it executes.

InVm == control = "running" /\ frames[Nesting].kind = "vm" /\ compute_meter > 0
InBuiltin == /\ control = "running" /\ frames[Nesting].kind = "builtin"
             /\ frames[Nesting].steps < MaxBuiltinSteps
Stepped == [frames EXCEPT ![Nesting].steps = @ + 1]

\* A load of forbidden bytes, possible only where the sysvar is mapped.
ReadForbidden ==
    /\ InVm
    /\ IndicesOf(CurrentMetas, Sysvar) # {}
    /\ compute_meter' = compute_meter - 1
    /\ delivered' = [delivered EXCEPT ![Current] = @ + 1]
    /\ frames' = IF frames[Nesting].watched
                 THEN [frames EXCEPT ![Nesting].accesses = @ + 1]
                 ELSE frames
    /\ UNCHANGED <<control, result, transaction, syscall_context, money, pool,
                   forbidden_memory_accesses>>

\* set_lamports succeeds.
MayChange(a, balance) ==
    /\ IndicesOf(CurrentMetas, a) # {}
    /\ Owner[a] # CurrentProgram => balance >= lamports[a]
    /\ MetaOf(CurrentMetas, a).writable

Delta(a, balance) == lamports_delta + balance - lamports[a]

\* Mutant: the VM does not pay for the instruction.
MutantSetLamports(a, balance) ==
    /\ \/ InVm /\ UNCHANGED <<compute_meter, frames>>
       \/ InBuiltin /\ frames' = Stepped /\ UNCHANGED compute_meter
    /\ IF MayChange(a, balance)
       THEN /\ lamports' = [lamports EXCEPT ![a] = balance]
            /\ lamports_delta' = Delta(a, balance)
            /\ UNCHANGED <<control, result>>
       ELSE control' = "leaving" /\ result' = "err" /\ UNCHANGED money
    /\ UNCHANGED <<transaction, syscall_context, pool, report>>

\* A balance the program sets.  A VM's reach the accounts when it calls or
\* returns, one at a time and with these checks; an error ends it.
SetLamports(a, balance) ==
    /\ \/ InVm /\ compute_meter' = compute_meter - 1 /\ UNCHANGED frames
       \/ InBuiltin /\ frames' = Stepped /\ UNCHANGED compute_meter
    /\ IF MayChange(a, balance)
       THEN /\ lamports' = [lamports EXCEPT ![a] = balance]
            /\ lamports_delta' = Delta(a, balance)
            /\ UNCHANGED <<control, result>>
       ELSE control' = "leaving" /\ result' = "err" /\ UNCHANGED money
    /\ UNCHANGED <<transaction, syscall_context, pool, report>>

\* A call: cpi_common charges a VM before it prepares the instruction,
\* native_invoke charges a builtin nothing.
Invoke(r) ==
    /\ \/ InVm /\ compute_meter' = Charged(InvokeUnits) /\ UNCHANGED frames
       \/ InBuiltin /\ frames' = Stepped /\ UNCHANGED compute_meter
    /\ IF /\ frames[Nesting].kind = "vm" => compute_meter >= InvokeUnits
          /\ Allowed(r)
       THEN /\ Configure(r.program, Propagated(Deduplicated(r.metas)), Current)
            /\ control' = "prepared"
            /\ UNCHANGED result
       ELSE control' = "leaving" /\ result' = "err" /\ UNCHANGED transaction
    /\ UNCHANGED <<syscall_context, money, pool, report>>

\* A fault of the VM takes what is left of the meter.
Faults ==
    /\ control = "running" /\ frames[Nesting].kind = "vm"
    /\ compute_meter' = 0
    /\ control' = "leaving" /\ result' = "err"
    /\ UNCHANGED <<transaction, syscall_context, frames, money, pool, report>>

\* The program exits, with its own status, and a VM pays for the exit.
Exits(status) ==
    /\ \/ InVm /\ compute_meter' = compute_meter - 1
       \/ /\ control = "running" /\ frames[Nesting].kind = "builtin"
          /\ UNCHANGED compute_meter
    /\ control' = "leaving" /\ result' = status
    /\ UNCHANGED <<transaction, syscall_context, frames, money, pool, report>>

-----------------------------------------------------------------------------
\* The end of a program.

\* Mutant: only a program that succeeded is asked for its accesses.
MutantCollected ==
    IF result = "ok"
    THEN [forbidden_memory_accesses EXCEPT ![Current] = @ + frames[Nesting].accesses]
    ELSE forbidden_memory_accesses

\* execute extends the list before it looks at the result.
Collected ==
    [forbidden_memory_accesses EXCEPT ![Current] = @ + frames[Nesting].accesses]

LeaveVm ==
    /\ control = "leaving" /\ frames[Nesting].kind = "vm"
    /\ forbidden_memory_accesses' = Collected
    /\ pool' = PoolAfterPut(frames[Nesting].buffer)
    /\ control' = "popping"
    /\ UNCHANGED <<result, transaction, syscall_context, frames, money,
                   compute_meter, delivered>>

\* BuiltinProgramsMustConsumeComputeUnits
LeaveBuiltin ==
    /\ control = "leaving" /\ frames[Nesting].kind = "builtin"
    /\ control' = "popping"
    /\ result' = IF frames[Nesting].start = compute_meter THEN "err" ELSE result
    /\ UNCHANGED <<transaction, syscall_context, frames, money, compute_meter,
                   pool, report>>

\* Mutant: the balance is not verified.
MutantOutcome == result

\* pop verifies that the lamports of the instruction balance.
Outcome == IF lamports_delta # 0 THEN "err" ELSE result

\* Mutant: the system call context stays on its stack.
MutantPop ==
    /\ control = "popping"
    /\ UNCHANGED syscall_context
    /\ instruction_stack' = Pop1(instruction_stack)
    /\ frames' = Pop1(frames)
    /\ result' = Outcome
    /\ current_executing_instruction' = IF Nesting > 1 THEN Top(instruction_stack')
                                        ELSE current_executing_instruction
    /\ top_level_instruction_index' = IF Nesting > 1 THEN top_level_instruction_index
                                      ELSE top_level_instruction_index + 1
    /\ control' = IF Nesting = 1 THEN "done"
                  ELSE IF Outcome = "ok" THEN "running" ELSE "leaving"
    /\ UNCHANGED <<instruction_trace, instruction_accounts, sysvar_index, money,
                   compute_meter, pool, report>>

\* process_instruction pops whatever the result; the caller goes on or fails.
Pop ==
    /\ control = "popping"
    /\ syscall_context' = Pop1(syscall_context)
    /\ instruction_stack' = Pop1(instruction_stack)
    /\ frames' = Pop1(frames)
    /\ result' = Outcome
    /\ current_executing_instruction' = IF Nesting > 1 THEN Top(instruction_stack')
                                        ELSE current_executing_instruction
    /\ top_level_instruction_index' = IF Nesting > 1 THEN top_level_instruction_index
                                      ELSE top_level_instruction_index + 1
    /\ control' = IF Nesting = 1 THEN "done"
                  ELSE IF Outcome = "ok" THEN "running" ELSE "leaving"
    /\ UNCHANGED <<instruction_trace, instruction_accounts, sysvar_index, money,
                   compute_meter, pool, report>>

\* The CLI has the result and the accesses, and exits.
Done == control = "done" /\ UNCHANGED vars

Amounts == 0 .. FoldFunction(+, 0, InitialLamports)

Step ==
    \/ \E r \in TopLevel : PrepareTopLevel(r)
    \/ PushReentrant \/ PushFails \/ Push
    \/ EnterMissing \/ EnterBuiltin \/ EnterVmUnpaid \/ EnterVm
    \/ ReadForbidden
    \/ \E a \in Accounts, balance \in Amounts : SetLamports(a, balance)
    \/ \E r \in Requests : Invoke(r)
    \/ Faults
    \/ \E status \in {"ok", "err"} : Exits(status)
    \/ LeaveVm \/ LeaveBuiltin \/ Pop

Next == Step \/ Done

\* The runtime is one thread that does not stop before its work is done.
Spec == Init /\ [][Next]_vars /\ WF_vars(Step)

-----------------------------------------------------------------------------
Live == control \in {"pushed", "running"}

\* get_syscall_context hands out the last context: while programs run it is the
\* one create_vm set for the running VM, also after calls that returned.
ContextsFollowStack ==
    Live => /\ Len(syscall_context) = Nesting
            /\ \A level \in 1 .. Nesting :
                  frames[level].kind = "vm" =>
                      syscall_context[level] = instruction_stack[level]

\* An account is writable or a signer in a called instruction only if it is so
\* in the top-level one, or signs as an address of a program that is calling; and
\* all its occurrences in the instruction agree, however its metas repeat it.
PrivilegesHaveASource ==
    Live => \A upper \in 2 .. Nesting :
        LET metas == instruction_accounts[instruction_stack[upper]]
            first == instruction_accounts[instruction_stack[1]]
        IN  \A k \in DOMAIN metas :
              LET meta == metas[k] IN
              /\ meta.writable => MetaOf(first, meta.account).writable
              /\ meta.signer =>
                    \/ MetaOf(first, meta.account).signer
                    \/ \E level \in 1 .. upper - 1 :
                           meta.account \in Pdas[ProgramAt(level)]
              /\ meta = MetaOf(metas, meta.account)

\* A program is on the stack at one place only, or at places next to each
\* other: it calls itself, but nothing it called calls it back.
NoIndirectReentry ==
    \A low, high \in 1 .. Nesting :
        low < high /\ ProgramAt(low) = ProgramAt(high) =>
            \A level \in low .. high : ProgramAt(level) = ProgramAt(low)

\* Every forbidden read of every VM, at any depth and whether or not it or its
\* callers fail, is in the list the verdict is taken from.
ReadsAreCollected == control = "done" => forbidden_memory_accesses = delivered

\* A VM has its buffers from create_vm! until execute gives them back.
HasBuffer(level) ==
    frames[level].kind = "vm" /\ ~(level = Nesting /\ control = "popping")

\* The buffers of running VMs are theirs alone, a buffer waits in the pool once,
\* and only after it was reset, and the pool is full again when the execution
\* is over, however many buffers were made because it was empty.
BuffersAreExclusive ==
    LET waiting == {pool.items[k] : k \in 1 .. pool.next_empty}
    IN  /\ waiting \cap (pool.dirty \cup {None}) = {}
        /\ \A j, k \in 1 .. pool.next_empty : pool.items[j] = pool.items[k] => j = k
        /\ \A level \in 1 .. Nesting : HasBuffer(level) =>
              /\ frames[level].buffer \in pool.dirty
              /\ \A other \in 1 .. Nesting : other # level /\ HasBuffer(other) =>
                    frames[other].buffer # frames[level].buffer
        /\ control = "done" => pool.dirty = {} /\ pool.next_empty = PoolSize

Total(balances) == FoldFunction(+, 0, balances)

\* An execution that succeeds neither creates nor destroys lamports, however
\* its calls moved them: each push and each pop catches an imbalance.
SuccessConservesLamports ==
    control = "done" /\ result = "ok" => Total(lamports) = Total(InitialLamports)

\* The execution ends: every VM pays for what it does, and the trace bounds the
\* calls.
Terminates == <>(control = "done")

\* What the router (programs/router/src/lib.rs:71) relies on: the index in the
\* sysvar is the index of the instruction being executed.
SysvarNamesExecutedInstruction ==
    control = "running" => sysvar_index = InstructionIndex
=============================================================================
