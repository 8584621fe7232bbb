-------------------------- MODULE InvocationProofs --------------------------
(***************************************************************************)
(* What Invocation promises, for every set of programs and accounts, every *)
(* message and request, every budget and every capacity.                   *)
(*                                                                         *)
(* IInv, the inductive invariant, says how the stacks that invoke_context  *)
(* and TransactionContext keep fit together, in the states of a success    *)
(* and in those of an error on its way to the top.  MoneyOK, a second one, *)
(* is about the lamports; what the fold over the balances does is proved   *)
(* by induction over the size of sets.                                     *)
(***************************************************************************)
EXTENDS Invocation, FiniteSetTheorems, WellFoundedInduction, TLAPS

\* An entry of the trace, and what Rust's stack holds of a running program.
TraceType == [program : Programs \cup {None}, caller : Nat \cup {None}, nesting_level : Nat]
FrameType == [kind : {"none", "vm", "builtin"}, buffer : Nat \cup {None}, accesses : Nat,
              watched : BOOLEAN, start : Nat, steps : Nat]

Controls == {"idle", "prepared", "pushed", "running", "leaving", "popping", "done"}

TransactionType ==
    /\ instruction_trace \in Seq(TraceType)
    /\ instruction_accounts \in Seq(Seq(Metas))
    /\ instruction_stack \in Seq(Nat)

FramesType ==
    /\ frames \in Seq(FrameType)
    /\ syscall_context \in Seq(Nat \cup {None})

PoolType ==
    /\ pool.items \in [1 .. PoolSize -> Nat \cup {None}]
    /\ pool.next_empty \in 0 .. PoolSize
    /\ pool.dirty \in SUBSET Nat
    /\ pool.made \in Nat
    /\ pool = [items |-> pool.items, next_empty |-> pool.next_empty,
               dirty |-> pool.dirty, made |-> pool.made]

ReadsType ==
    /\ forbidden_memory_accesses \in [Readers -> Nat]
    /\ delivered \in [Readers -> Nat]

TypeOK ==
    /\ control \in Controls /\ result \in {"ok", "err"} /\ compute_meter \in Nat
    /\ TransactionType /\ FramesType /\ PoolType /\ ReadsType

\* The stack holds indices of configured instructions, in the order in which
\* they were pushed; the last entry of the trace is not among them.
StackOK ==
    /\ Len(frames) = Nesting
    /\ Len(instruction_trace) > 0
    /\ \A level \in 1 .. Nesting :
          /\ instruction_stack[level] \in Readers
          /\ instruction_stack[level] < Len(instruction_trace)
          /\ instruction_stack[level] <= Len(instruction_accounts)
          /\ ProgramAt(level) \in Programs
    /\ \A low, high \in 1 .. Nesting :
          low < high => instruction_stack[low] < instruction_stack[high]

\* What is on the stack at each place of the runtime.
ControlOK ==
    /\ control \in {"idle", "done"} => Nesting = 0
    /\ control \in {"pushed", "running", "leaving", "popping"} => Nesting > 0
    /\ control = "prepared" => Prepared.program \in Programs
    /\ control = "pushed" => frames[Nesting].kind = "none"

\* No error is on its way to the top.
Healthy ==
    \/ control \in {"idle", "prepared", "pushed", "running"}
    \/ control \in {"leaving", "popping"} /\ result = "ok"

\* Only a call that failed leaves metas without an instruction, or a context
\* without a program; no program goes on after that.
TraceOK ==
    /\ control = "prepared" => Len(instruction_accounts) = Len(instruction_trace)
    /\ control # "prepared" /\ Healthy =>
          Len(instruction_accounts) + 1 = Len(instruction_trace)

ContextsOK ==
    Healthy => /\ Len(syscall_context) = Nesting
               /\ \A level \in 1 .. Nesting :
                     frames[level].kind = "vm" =>
                         syscall_context[level] = instruction_stack[level]

\* What prepare_next_instruction has checked of metas against the caller's.
Granted(metas, caller, signs) ==
    \A k \in DOMAIN metas :
        /\ IndicesOf(caller, metas[k].account) # {}
        /\ metas[k].writable => MetaOf(caller, metas[k].account).writable
        /\ metas[k].signer => \/ MetaOf(caller, metas[k].account).signer
                              \/ metas[k].account \in signs
        /\ metas[k] = MetaOf(metas, metas[k].account)

GrantedOK ==
    control = "prepared" /\ Nesting > 0 =>
        Granted(instruction_accounts[Len(instruction_accounts)], CurrentMetas,
                Pdas[CurrentProgram])

\* PrivilegesHaveASource, also after an error.
SourcesOK ==
    \A upper \in 2 .. Nesting :
        LET metas == instruction_accounts[instruction_stack[upper]]
            first == instruction_accounts[instruction_stack[1]]
        IN  \A k \in DOMAIN metas :
              LET meta == metas[k] IN
              /\ meta.writable => MetaOf(first, meta.account).writable
              /\ meta.signer =>
                    \/ MetaOf(first, meta.account).signer
                    \/ \E level \in 1 .. upper - 1 :
                           meta.account \in Pdas[ProgramAt(level)]
              /\ meta = MetaOf(metas, meta.account)

\* A VM that maps the sysvar is watched, and what it read is what was collected
\* and what its tracker holds.
ReadsOK ==
    /\ \A level \in 1 .. Nesting : HasBuffer(level) =>
          /\ IndicesOf(instruction_accounts[instruction_stack[level]], Sysvar) # {} =>
                frames[level].watched
          /\ delivered[instruction_stack[level]] =
                forbidden_memory_accesses[instruction_stack[level]] + frames[level].accesses
    /\ \A i \in Readers :
          (\A level \in 1 .. Nesting : HasBuffer(level) => instruction_stack[level] # i) =>
              delivered[i] = forbidden_memory_accesses[i]
    /\ \A level \in 1 .. Nesting : frames[level].kind = "none" => frames[level].accesses = 0

\* Every buffer is in the pool, with a VM, or dropped; the ones with VMs are the
\* dirty ones, and the pool lacks at most as many as there are of them.
PoolOK ==
    /\ pool.dirty \subseteq 1 .. pool.made
    /\ IsFiniteSet(pool.dirty)
    /\ pool.next_empty + Cardinality(pool.dirty) >= PoolSize
    /\ \A k \in 1 .. pool.next_empty :
          pool.items[k] \in 1 .. pool.made /\ pool.items[k] \notin pool.dirty
    /\ \A j, k \in 1 .. pool.next_empty : pool.items[j] = pool.items[k] => j = k
    /\ \A level \in 1 .. Nesting : HasBuffer(level) => frames[level].buffer \in pool.dirty
    /\ \A low, high \in 1 .. Nesting :
          HasBuffer(low) /\ HasBuffer(high) /\ low # high =>
              frames[low].buffer # frames[high].buffer
    /\ \A b \in pool.dirty :
          \E level \in 1 .. Nesting : HasBuffer(level) /\ frames[level].buffer = b

IInv ==
    /\ TypeOK
    /\ StackOK
    /\ ControlOK
    /\ TraceOK
    /\ ContextsOK
    /\ GrantedOK
    /\ SourcesOK
    /\ NoIndirectReentry
    /\ ReadsOK
    /\ PoolOK

(* ------------------------- metas of an instruction ---------------------- *)

\* FirstOf finds an occurrence whenever there is one.
LEMMA FirstOfFacts ==
    ASSUME NEW metas \in Seq(Metas), NEW a, IndicesOf(metas, a) # {}
    PROVE  /\ FirstOf(metas, a) \in DOMAIN metas
           /\ metas[FirstOf(metas, a)].account = a
<1> DEFINE S == IndicesOf(metas, a)
<1>1. S \subseteq Nat
  BY DEF IndicesOf
<1>2. PICK k \in S : \A j \in S : ~(<<j, k>> \in OpToRel(<, Nat))
  BY <1>1, NatLessThanWellFounded, WFMin, Zenon
<1>3. \A j \in S : k <= j
  <2> SUFFICES ASSUME NEW j \in S PROVE k <= j
    OBVIOUS
  <2>1. j \in Nat /\ k \in Nat
    BY <1>1, <1>2, Zenon
  <2>2. ~(j < k)
    BY <1>2, <2>1, Zenon DEF OpToRel
  <2> QED
    BY <2>1, <2>2
<1>4. FirstOf(metas, a) \in S
  BY <1>2, <1>3, Zenon DEF FirstOf
<1> QED
  BY <1>4 DEF IndicesOf

\* Where two sequences name the same accounts, accounts are found at the same
\* places.
LEMMA SamePlaces ==
    ASSUME NEW metas, NEW others, DOMAIN others = DOMAIN metas,
           \A k \in DOMAIN metas : others[k].account = metas[k].account, NEW a
    PROVE  IndicesOf(others, a) = IndicesOf(metas, a) /\ FirstOf(others, a) = FirstOf(metas, a)
<1>1. IndicesOf(others, a) = IndicesOf(metas, a)
  BY DEF IndicesOf
<1> QED
  BY <1>1 DEF FirstOf

\* What the two loops of prepare_next_instruction leave: every occurrence of an
\* account has the flags that were checked on the first one.
LEMMA PreparedMetas ==
    ASSUME NEW metas \in Seq(Metas)
    PROVE  LET once == Deduplicated(metas)
               done == Propagated(once)
           IN  /\ once \in Seq(Metas) /\ done \in Seq(Metas)
               /\ DOMAIN once = DOMAIN metas /\ DOMAIN done = DOMAIN metas
               /\ \A k \in DOMAIN metas :
                     /\ FirstOf(once, metas[k].account) \in DOMAIN metas
                     /\ once[k].account = metas[k].account
                     /\ done[k] = once[FirstOf(once, metas[k].account)]
                     /\ done[k] = MetaOf(done, done[k].account)
<1> DEFINE once == Deduplicated(metas)
           done == Propagated(once)
           n == Len(metas)
<1>1. n \in Nat /\ DOMAIN metas = 1 .. n /\ \A k \in 1 .. n : metas[k] \in Metas
  OBVIOUS
<1>2. /\ once = [k \in 1 .. n |-> once[k]]
      /\ \A k \in 1 .. n : /\ once[k].account = metas[k].account
                           /\ once[k] \in Metas
                           /\ once[k].signer = (\E j \in MergedInto(metas, k) : metas[j].signer)
                           /\ once[k].writable = (\E j \in MergedInto(metas, k) : metas[j].writable)
  BY <1>1, Zenon DEF Deduplicated, Metas
<1>3. once \in Seq(Metas) /\ DOMAIN once = 1 .. n
  <2>1. once \in [1 .. n -> Metas]
    BY <1>1 DEF Deduplicated, Metas
  <2> HIDE DEF once
  <2> QED
    BY <1>1, <2>1
<1> HIDE DEF once
<1>4. ASSUME NEW k \in 1 .. n
      PROVE  LET f == FirstOf(once, metas[k].account)
             IN  /\ f \in 1 .. n /\ f = FirstOf(metas, metas[k].account)
                 /\ metas[f].account = metas[k].account
                 /\ once[k].signer => once[f].signer
                 /\ once[k].writable => once[f].writable
  <2> DEFINE a == metas[k].account
             f == FirstOf(metas, a)
  <2>1. FirstOf(once, a) = f
    <3>1. DOMAIN once = DOMAIN metas /\ \A j \in DOMAIN metas : once[j].account = metas[j].account
      BY <1>1, <1>2, <1>3, Zenon
    <3> QED
      BY <3>1, SamePlaces
  <2>2. k \in IndicesOf(metas, a)
    BY <1>1 DEF IndicesOf
  <2>3. f \in 1 .. n /\ metas[f].account = a
    BY <1>1, <2>2, FirstOfFacts
  <2>4. MergedInto(metas, k) \subseteq MergedInto(metas, f)
    BY <2>3 DEF MergedInto
  <2> QED
    BY <1>2, <2>1, <2>3, <2>4, Zenon
<1>5. ASSUME NEW k \in 1 .. n
      PROVE  LET f == FirstOf(once, metas[k].account)
             IN  done[k] = Joined(once[k], once[f]) /\ done[k] = once[f]
  <2> DEFINE f == FirstOf(once, metas[k].account)
  <2>1. done[k] = Joined(once[k], once[f])
    BY <1>2, <1>3, Zenon DEF Propagated, MetaOf
  <2>2. /\ f \in 1 .. n /\ once[k] \in Metas /\ once[f] \in Metas
        /\ once[f].account = once[k].account
        /\ once[k].signer => once[f].signer
        /\ once[k].writable => once[f].writable
    BY <1>2, <1>4, Zenon
  <2> HIDE DEF f
  <2>3. Joined(once[k], once[f]) = once[f]
    BY <2>2, Zenon DEF Joined, Metas
  <2> QED
    BY <2>1, <2>3 DEF f
<1>6. DOMAIN done = 1 .. n /\ \A k \in 1 .. n : done[k] \in Metas /\ done[k].account = metas[k].account
  <2>1. DOMAIN done = 1 .. n
    BY <1>3, Zenon DEF Propagated
  <2>2. ASSUME NEW k \in 1 .. n
        PROVE  done[k] \in Metas /\ done[k].account = metas[k].account
    <3>1. PICK f : f = FirstOf(once, metas[k].account)
      OBVIOUS
    <3>2. f \in 1 .. n /\ metas[f].account = metas[k].account
      BY <1>4, <3>1, Zenon
    <3>3. done[k] = once[f]
      BY <1>5, <3>1, Zenon
    <3> QED
      BY <1>2, <3>2, <3>3, Zenon
  <2> QED
    BY <2>1, <2>2, Zenon
<1>7. done \in Seq(Metas)
  <2>1. done = [k \in 1 .. n |-> done[k]]
    BY <1>3 DEF Propagated
  <2> QED
    BY <1>1, <1>6, <2>1
<1> HIDE DEF done
<1>8. ASSUME NEW k \in 1 .. n PROVE done[k] = MetaOf(done, done[k].account)
  <2> DEFINE a == metas[k].account
  <2>1. FirstOf(done, a) = FirstOf(metas, a) /\ FirstOf(once, a) = FirstOf(metas, a)
    <3>1. DOMAIN once = DOMAIN metas /\ \A j \in DOMAIN metas : once[j].account = metas[j].account
      BY <1>1, <1>2, <1>3, Zenon
    <3>2. DOMAIN done = DOMAIN metas /\ \A j \in DOMAIN metas : done[j].account = metas[j].account
      BY <1>1, <1>6
    <3> QED
      BY <3>1, <3>2, SamePlaces
  <2>2. FirstOf(metas, a) \in 1 .. n /\ metas[FirstOf(metas, a)].account = a
    BY <1>4
  <2>3. done[FirstOf(metas, a)] = once[FirstOf(metas, a)] /\ done[k] = once[FirstOf(metas, a)]
    BY <1>5, <2>1, <2>2
  <2> QED
    BY <1>6, <2>1, <2>3 DEF MetaOf
<1> QED
  BY <1>1, <1>2, <1>3, <1>4, <1>5, <1>6, <1>7, <1>8, Zenon DEF once, done

(* ----------------------- steps that move no stack ----------------------- *)

\* The constants as the proofs use them.
LEMMA ConstantFacts ==
    /\ StackCapacity \in Nat /\ TraceCapacity \in Nat /\ PoolSize \in Nat /\ PoolSize > 0
    /\ Budget \in Nat /\ InvokeUnits \in Nat /\ HeapCost \in Nat
    /\ BuiltinCost \in [Programs -> Nat]
    /\ None \notin Nat /\ None \notin Programs
    /\ \A r \in TopLevel \cup Requests : r.program \in Programs /\ r.metas \in Seq(Metas)
BY InvocationAssumption

\* The program starts with everything empty and the pool full.
LEMMA InitIInv == Init => IInv
<1> SUFFICES ASSUME Init PROVE IInv
  OBVIOUS
<1> USE DEF Init
<1>1. Nesting = 0 /\ Len(frames) = 0 /\ Len(syscall_context) = 0 /\ Len(instruction_accounts) = 0
      /\ Len(instruction_trace) = 1
  BY DEF Nesting
<1>2. TypeOK
  <2>1. TransactionType /\ FramesType /\ ReadsType
    BY ConstantFacts DEF TransactionType, FramesType, ReadsType, TraceType, EmptyFrame
  <2>2. PoolType
    BY ConstantFacts DEF PoolType
  <2> QED
    BY <2>1, <2>2, ConstantFacts DEF TypeOK, Controls
<1>3. StackOK /\ ControlOK /\ TraceOK /\ ContextsOK
  BY <1>1 DEF StackOK, ControlOK, TraceOK, ContextsOK
<1>4. GrantedOK /\ SourcesOK /\ NoIndirectReentry
  BY <1>1 DEF GrantedOK, SourcesOK, NoIndirectReentry
<1>5. ReadsOK
  BY <1>1 DEF ReadsOK
<1>6. PoolOK
  BY <1>1, ConstantFacts, FS_EmptySet DEF PoolOK
<1> QED
  BY <1>2, <1>3, <1>4, <1>5, <1>6 DEF IInv

\* PoolOK looks at the pool and at the buffers of the VMs.
LEMMA StackBuffers ==
    ASSUME Nesting \in Nat, PoolOK, pool' = pool, Nesting' = Nesting,
           \A level \in 1 .. Nesting : HasBuffer(level)' <=> HasBuffer(level),
           \A level \in 1 .. Nesting : frames'[level].buffer = frames[level].buffer
    PROVE  PoolOK'
BY DEF PoolOK

\* A step that leaves stacks, pool and accesses alone, and the programs their
\* kinds and buffers, keeps everything.
LEMMA Quiet ==
    ASSUME IInv,
           UNCHANGED <<instruction_trace, instruction_accounts, instruction_stack,
                       syscall_context, pool, forbidden_memory_accesses, delivered>>,
           control # "popping",
           control' \in {"running", "leaving", "popping", "done"},
           control' = "done" <=> Nesting = 0,
           control' = "popping" => frames[Nesting].kind # "vm",
           Healthy' => Healthy /\ control # "prepared",
           result' \in {"ok", "err"}, compute_meter' \in Nat,
           frames' \in Seq(FrameType), Len(frames') = Len(frames),
           \A level \in 1 .. Nesting :
              /\ frames'[level].kind = "vm" <=> frames[level].kind = "vm"
              /\ frames'[level].kind = "none" => frames[level].kind = "none"
              /\ frames'[level].buffer = frames[level].buffer
              /\ frames'[level].accesses = frames[level].accesses
              /\ frames'[level].watched = frames[level].watched
    PROVE  IInv'
<1> USE DEF IInv
<1>1. Nesting \in Nat /\ Nesting' = Nesting /\ Len(frames) = Nesting
  BY DEF TypeOK, TransactionType, StackOK, Nesting
<1>2. \A level \in 1 .. Nesting : HasBuffer(level)' <=> HasBuffer(level)
  BY <1>1 DEF HasBuffer
<1>3. TypeOK'
  BY DEF TypeOK, TransactionType, FramesType, PoolType, ReadsType, Controls
<1>4. StackOK'
  BY <1>1 DEF StackOK, ProgramAt
<1>5. ControlOK'
  BY <1>1 DEF ControlOK
<1>6. TraceOK'
  BY DEF TraceOK
<1>7. ContextsOK'
  BY <1>1 DEF ContextsOK
<1>8. GrantedOK'
  BY Zenon DEF GrantedOK
<1>9. SourcesOK' /\ NoIndirectReentry'
  BY <1>1 DEF SourcesOK, NoIndirectReentry, ProgramAt
<1>10. ReadsOK'
  BY <1>1, <1>2, ZenonT(30) DEF ReadsOK
<1>11. PoolOK'
  BY <1>1, <1>2, StackBuffers
<1> QED
  BY <1>3, <1>4, <1>5, <1>6, <1>7, <1>8, <1>9, <1>10, <1>11

\* Nothing changes.
LEMMA StutterKeeps ==
    ASSUME IInv, UNCHANGED vars
    PROVE  IInv'
<1> USE DEF IInv, vars, transaction, report
<1>1. TypeOK' /\ StackOK' /\ ControlOK'
  BY DEF TypeOK, TransactionType, FramesType, PoolType, ReadsType, StackOK, ControlOK,
     ProgramAt, Nesting, Prepared
<1>2. TraceOK' /\ ContextsOK'
  BY DEF TraceOK, ContextsOK, Healthy, Nesting
<1>3. GrantedOK' /\ SourcesOK' /\ NoIndirectReentry'
  BY DEF GrantedOK, SourcesOK, NoIndirectReentry, ProgramAt, Nesting, CurrentMetas, Current,
     CurrentProgram, Granted, Top
<1>4. ReadsOK' /\ PoolOK'
  BY ZenonT(30) DEF ReadsOK, PoolOK, HasBuffer, Nesting
<1> QED
  BY <1>1, <1>2, <1>3, <1>4

\* What the type invariant and StackOK say of the stacks and the meter.
LEMMA Basics ==
    ASSUME IInv
    PROVE  /\ Nesting \in Nat /\ Len(frames) = Nesting /\ frames \in Seq(FrameType)
           /\ \A level \in 1 .. Nesting : frames[level] \in FrameType
           /\ compute_meter \in Nat /\ result \in {"ok", "err"} /\ control \in Controls
           /\ (instruction_stack = << >>) <=> (Nesting = 0)
           /\ control \in {"pushed", "running", "leaving", "popping"} =>
                 Nesting > 0 /\ CurrentProgram \in Programs
<1> USE DEF IInv
<1>1. /\ Nesting \in Nat /\ Len(frames) = Nesting /\ frames \in Seq(FrameType)
      /\ compute_meter \in Nat /\ result \in {"ok", "err"} /\ control \in Controls
      /\ instruction_stack \in Seq(Nat)
  BY DEF TypeOK, TransactionType, FramesType, StackOK, Nesting
<1>2. \A level \in 1 .. Nesting : frames[level] \in FrameType
  BY <1>1
<1>3. (instruction_stack = << >>) <=> (Nesting = 0)
  BY <1>1 DEF Nesting
<1>4. control \in {"pushed", "running", "leaving", "popping"} =>
                 Nesting > 0 /\ CurrentProgram \in Programs
  BY <1>1 DEF ControlOK, StackOK, CurrentProgram, ProgramAt, Current, Top, Nesting
<1> QED
  BY <1>1, <1>2, <1>3, <1>4

\* A frame that only counts a step, or learns that it is a builtin's.
LEMMA TopFrame ==
    ASSUME IInv, Nesting > 0,
           \/ frames' = frames
           \/ frames' = Stepped
           \/ control = "pushed" /\ frames' = [frames EXCEPT ![Nesting].kind = "builtin"]
    PROVE  /\ frames' \in Seq(FrameType) /\ Len(frames') = Len(frames)
           /\ \A level \in 1 .. Nesting :
              /\ frames'[level].kind = "vm" <=> frames[level].kind = "vm"
              /\ frames'[level].kind = "none" => frames[level].kind = "none"
              /\ frames'[level].buffer = frames[level].buffer
              /\ frames'[level].accesses = frames[level].accesses
              /\ frames'[level].watched = frames[level].watched
<1>1. /\ Nesting \in Nat /\ Len(frames) = Nesting /\ frames \in Seq(FrameType)
      /\ \A level \in 1 .. Nesting : frames[level] \in FrameType
  BY Basics
<1>2. CASE frames' = frames
  BY <1>1, <1>2
<1>3. CASE frames' = Stepped
  <2>1. /\ frames[Nesting] \in FrameType /\ Nesting \in 1 .. Len(frames)
        /\ frames' = [frames EXCEPT ![Nesting] = [frames[Nesting] EXCEPT !.steps = @ + 1]]
    BY <1>1, <1>3 DEF Stepped
  <2>2. [frames[Nesting] EXCEPT !.steps = @ + 1] \in FrameType
    <3>1. \A f \in FrameType : [f EXCEPT !.steps = f.steps + 1] \in FrameType
      BY DEF FrameType
    <3> QED
      BY <2>1, <3>1
  <2>3. frames' \in Seq(FrameType) /\ Len(frames') = Len(frames)
    BY <1>1, <2>1, <2>2
  <2> QED
    BY <1>1, <2>1, <2>3, SMTT(30) DEF FrameType
<1>4. CASE control = "pushed" /\ frames' = [frames EXCEPT ![Nesting].kind = "builtin"]
  <2>1. /\ frames[Nesting] \in FrameType /\ Nesting \in 1 .. Len(frames)
        /\ frames' = [frames EXCEPT ![Nesting] = [frames[Nesting] EXCEPT !.kind = "builtin"]]
        /\ frames[Nesting].kind = "none"
    BY <1>1, <1>4 DEF IInv, ControlOK
  <2>2. [frames[Nesting] EXCEPT !.kind = "builtin"] \in FrameType
    BY <2>1 DEF FrameType
  <2>3. frames' \in Seq(FrameType) /\ Len(frames') = Len(frames)
    BY <1>1, <2>1, <2>2
  <2> QED
    BY <1>1, <2>1, <2>3, SMTT(30) DEF FrameType
<1> QED
  BY <1>2, <1>3, <1>4

\* The steps of a program that end it or change no more than lamports, and the
\* end of a builtin.
LEMMA QuietStepsKeep ==
    ASSUME IInv,
           \/ PushReentrant \/ EnterMissing \/ EnterBuiltin \/ EnterVmUnpaid \/ Faults
           \/ LeaveBuiltin
           \/ \E status \in {"ok", "err"} : Exits(status)
           \/ \E a \in Accounts, balance \in Amounts : SetLamports(a, balance)
    PROVE  IInv'
<1>1. /\ Nesting \in Nat /\ Len(frames) = Nesting /\ frames \in Seq(FrameType)
      /\ compute_meter \in Nat /\ result \in {"ok", "err"}
      /\ (instruction_stack = << >>) <=> (Nesting = 0)
      /\ control \in {"pushed", "running", "leaving", "popping"} =>
           Nesting > 0 /\ CurrentProgram \in Programs
  BY Basics
<1>2. control = "pushed" => frames[Nesting].kind = "none"
  BY DEF IInv, ControlOK
<1>3. CASE PushReentrant
  BY <1>1, <1>3, Quiet DEF PushReentrant, FailCaller, transaction, report, Healthy
<1>4. CASE EnterMissing \/ EnterVmUnpaid
  BY <1>1, <1>2, <1>4, TopFrame, Quiet
     DEF EnterMissing, EnterVmUnpaid, transaction, report, Healthy
<1>5. CASE EnterBuiltin
  <2>1. Charged(BuiltinCost[CurrentProgram]) \in Nat
    BY <1>1, <1>5, ConstantFacts DEF Charged, EnterBuiltin
  <2> QED
    BY <1>1, <1>2, <1>5, <2>1, TopFrame, Quiet
       DEF EnterBuiltin, transaction, report, Healthy
<1>6. CASE Faults
  BY <1>1, <1>6, TopFrame, Quiet DEF Faults, transaction, report, Healthy
<1>7. CASE LeaveBuiltin
  BY <1>1, <1>7, TopFrame, Quiet DEF LeaveBuiltin, transaction, report, Healthy
<1>8. ASSUME NEW status \in {"ok", "err"}, Exits(status) PROVE IInv'
  <2>1. control = "running" /\ compute_meter' \in Nat
    BY <1>1, <1>8 DEF Exits, InVm
  <2> QED
    BY <1>1, <1>8, <2>1, TopFrame, Quiet DEF Exits, transaction, report, Healthy
<1>9. ASSUME NEW a \in Accounts, NEW balance \in Amounts, SetLamports(a, balance) PROVE IInv'
  <2>1. /\ control = "running" /\ compute_meter' \in Nat
        /\ frames' = frames \/ frames' = Stepped
    BY <1>1, <1>9 DEF SetLamports, InVm, InBuiltin
  <2>2. /\ UNCHANGED <<transaction, syscall_context, pool, report>>
        /\ \/ UNCHANGED <<control, result>>
           \/ control' = "leaving" /\ result' = "err"
    BY <1>9, Zenon DEF SetLamports
  <2> QED
    BY <1>1, <2>1, <2>2, TopFrame, Quiet DEF transaction, report, Healthy
<1> QED
  BY <1>3, <1>4, <1>5, <1>6, <1>7, <1>8, <1>9

(* ------------------------ preparing and pushing ------------------------- *)

\* SourcesOK looks at the metas and programs of the stack and at nothing else.
LEMMA StackSources ==
    ASSUME Nesting \in Nat, SourcesOK, Nesting' \in Nat, Nesting' <= Nesting,
           \A level \in 1 .. Nesting' :
              /\ instruction_accounts'[instruction_stack'[level]]
                    = instruction_accounts[instruction_stack[level]]
              /\ ProgramAt(level)' = ProgramAt(level)
    PROVE  SourcesOK'
<1> SUFFICES ASSUME NEW upper \in 2 .. Nesting',
                    NEW k \in DOMAIN instruction_accounts'[instruction_stack'[upper]]
             PROVE  LET metas == instruction_accounts'[instruction_stack'[upper]]
                        first == instruction_accounts'[instruction_stack'[1]]
                        meta == metas[k]
                    IN  /\ meta.writable => MetaOf(first, meta.account).writable
                        /\ meta.signer =>
                              \/ MetaOf(first, meta.account).signer
                              \/ \E level \in 1 .. upper - 1 :
                                     meta.account \in Pdas[ProgramAt(level)']
                        /\ meta = MetaOf(metas, meta.account)
  BY DEF SourcesOK
<1>1. /\ upper \in 2 .. Nesting /\ 1 \in 1 .. Nesting' /\ upper \in 1 .. Nesting'
      /\ \A level \in 1 .. upper - 1 : level \in 1 .. Nesting'
  OBVIOUS
<1>2. /\ instruction_accounts'[instruction_stack'[upper]] = instruction_accounts[instruction_stack[upper]]
      /\ instruction_accounts'[instruction_stack'[1]] = instruction_accounts[instruction_stack[1]]
      /\ \A level \in 1 .. upper - 1 : ProgramAt(level)' = ProgramAt(level)
  BY <1>1
<1> QED
  BY <1>1, <1>2 DEF SourcesOK

\* configure_next_instruction writes the entry of the trace that no instruction
\* of the stack has.
LEMMA ConfigureKeeps ==
    ASSUME IInv, NEW program \in Programs, NEW metas \in Seq(Metas), NEW caller \in Nat \cup {None},
           Configure(program, metas, caller),
           control \in {"idle", "running"}, control' = "prepared",
           Nesting > 0 => Granted(metas, CurrentMetas, Pdas[CurrentProgram]),
           frames' = frames \/ (Nesting > 0 /\ frames' = Stepped), compute_meter' \in Nat,
           UNCHANGED <<result, syscall_context, pool, forbidden_memory_accesses, delivered>>
    PROVE  IInv'
<1> USE DEF IInv
<1> DEFINE n == Len(instruction_trace)
<1>1. /\ Nesting \in Nat /\ Nesting' = Nesting /\ Len(frames) = Nesting
      /\ instruction_stack' = instruction_stack
  BY DEF TypeOK, TransactionType, StackOK, Nesting, Configure
<1>16. /\ n \in Nat \ {0} /\ instruction_trace \in Seq(TraceType)
       /\ instruction_trace[n] \in TraceType
       /\ instruction_accounts \in Seq(Seq(Metas)) /\ Len(instruction_accounts) + 1 = n
  BY DEF TypeOK, TransactionType, StackOK, TraceOK, Healthy
<1>2. /\ frames' \in Seq(FrameType) /\ Len(frames') = Nesting
      /\ \A level \in 1 .. Nesting :
              /\ frames'[level].kind = "vm" <=> frames[level].kind = "vm"
              /\ frames'[level].kind = "none" => frames[level].kind = "none"
              /\ frames'[level].buffer = frames[level].buffer
              /\ frames'[level].accesses = frames[level].accesses
              /\ frames'[level].watched = frames[level].watched
  <2>1. CASE Nesting > 0
    BY <1>1, <2>1, TopFrame, Zenon
  <2>2. CASE Nesting = 0
    BY <1>1, <2>2, Basics
  <2> QED
    BY <1>1, <2>1, <2>2
<1>3. \A level \in 1 .. Nesting : HasBuffer(level)' <=> HasBuffer(level)
  BY <1>1, <1>2 DEF HasBuffer
<1>4. /\ instruction_trace' \in Seq(TraceType) /\ Len(instruction_trace') = n
      /\ instruction_trace'[n].program = program
      /\ \A i \in 1 .. n - 1 : instruction_trace'[i] = instruction_trace[i]
  <2> DEFINE old == instruction_trace[n]
             e == [old EXCEPT !.program = program,
                              !.caller = IF caller = None THEN old.caller ELSE caller]
  <2>1. e \in TraceType /\ e.program = program
    BY <1>16, Zenon DEF TraceType
  <2>2. instruction_trace' = [instruction_trace EXCEPT ![n] = e]
    BY DEF Configure, Prepared
  <2> HIDE DEF e
  <2> QED
    BY <1>16, <2>1, <2>2
<1>5. /\ instruction_accounts' = Append(instruction_accounts, metas)
      /\ instruction_accounts' \in Seq(Seq(Metas)) /\ Len(instruction_accounts') = n
      /\ instruction_accounts'[n] = metas
      /\ \A i \in 1 .. n - 1 : instruction_accounts'[i] = instruction_accounts[i]
  <2>1. instruction_accounts' = Append(instruction_accounts, metas)
    BY DEF Configure
  <2> QED
    BY <1>16, <2>1
<1>6. \A level \in 1 .. Nesting :
         /\ instruction_stack[level] \in 1 .. n - 1
         /\ instruction_accounts'[instruction_stack[level]] = instruction_accounts[instruction_stack[level]]
         /\ ProgramAt(level)' = ProgramAt(level)
  <2> SUFFICES ASSUME NEW level \in 1 .. Nesting
               PROVE  /\ instruction_stack[level] \in 1 .. n - 1
                      /\ instruction_accounts'[instruction_stack[level]]
                            = instruction_accounts[instruction_stack[level]]
                      /\ ProgramAt(level)' = ProgramAt(level)
    OBVIOUS
  <2>1. instruction_stack[level] \in 1 .. n - 1
    BY <1>1, <1>16 DEF StackOK, Readers
  <2> HIDE DEF n
  <2> QED
    BY <1>1, <1>4, <1>5, <2>1, Zenon DEF ProgramAt
<1> HIDE DEF n
<1>7. TypeOK'
  BY <1>1, <1>2, <1>4, <1>5, Zenon DEF TypeOK, TransactionType, FramesType, PoolType,
     ReadsType, Controls
<1>8. StackOK'
  <2>1. Len(frames') = Nesting' /\ Len(instruction_trace') > 0
    BY <1>1, <1>2, <1>4, <1>16 DEF n
  <2>2. ASSUME NEW level \in 1 .. Nesting
        PROVE  /\ instruction_stack[level] \in Readers /\ ProgramAt(level)' \in Programs
               /\ instruction_stack[level] < Len(instruction_trace')
               /\ instruction_stack[level] <= Len(instruction_accounts')
    <3>1. /\ instruction_stack[level] \in 1 .. n - 1 /\ ProgramAt(level)' = ProgramAt(level)
          /\ Len(instruction_trace') = n /\ Len(instruction_accounts') = n /\ n \in Nat
      BY <1>4, <1>5, <1>6, <1>16
    <3>2. instruction_stack[level] \in Readers /\ ProgramAt(level) \in Programs
      BY Zenon DEF StackOK
    <3> QED
      BY <3>1, <3>2
  <2> QED
    BY <1>1, <2>1, <2>2 DEF StackOK
<1>9. ControlOK'
  BY <1>1, <1>4 DEF ControlOK, Prepared
<1>10. TraceOK'
  BY <1>4, <1>5 DEF TraceOK
<1>11. ContextsOK'
  BY <1>1, <1>2 DEF ContextsOK, Healthy
<1>12. GrantedOK'
  <2> SUFFICES ASSUME Nesting > 0
               PROVE  Granted(metas, CurrentMetas', Pdas[CurrentProgram'])
    BY <1>1, <1>5, Zenon DEF GrantedOK
  <2>1. CurrentMetas' = CurrentMetas /\ CurrentProgram' = CurrentProgram
    BY <1>1, <1>6 DEF CurrentMetas, CurrentProgram, ProgramAt, Current, Top, Nesting
  <2> QED
    BY <2>1
<1>13. SourcesOK' /\ NoIndirectReentry'
  <2>1. \A level \in 1 .. Nesting :
           /\ instruction_accounts'[instruction_stack'[level]]
                 = instruction_accounts[instruction_stack[level]]
           /\ ProgramAt(level)' = ProgramAt(level)
    BY <1>1, <1>6
  <2>2. SourcesOK'
    BY <1>1, <2>1, StackSources
  <2>3. NoIndirectReentry'
    BY <1>1, <2>1 DEF NoIndirectReentry
  <2> QED
    BY <2>2, <2>3
<1>14. ReadsOK'
  BY <1>1, <1>2, <1>3, <1>6, Zenon DEF ReadsOK
<1>15. PoolOK'
  <2>1. \A level \in 1 .. Nesting : frames'[level].buffer = frames[level].buffer
    BY <1>2
  <2> QED
    BY <1>1, <1>3, <2>1, StackBuffers
<1> QED
  BY <1>7, <1>8, <1>9, <1>10, <1>11, <1>12, <1>13, <1>14, <1>15

\* The top-level instruction is prepared as the message has it.
LEMMA PrepareTopLevelKeeps ==
    ASSUME IInv, NEW r \in TopLevel, PrepareTopLevel(r)
    PROVE  IInv'
<1>1. r.program \in Programs /\ r.metas \in Seq(Metas) /\ Nesting = 0 /\ compute_meter \in Nat
  BY ConstantFacts, Basics DEF PrepareTopLevel, IInv, ControlOK
<1>2. /\ Configure(r.program, r.metas, None) /\ control = "idle" /\ control' = "prepared"
      /\ frames' = frames /\ compute_meter' \in Nat
      /\ UNCHANGED <<result, syscall_context, pool, forbidden_memory_accesses, delivered>>
  BY <1>1 DEF PrepareTopLevel, report
<1>3. Nesting > 0 => Granted(r.metas, CurrentMetas, Pdas[CurrentProgram])
  BY <1>1
<1> QED
  BY <1>1, <1>2, <1>3, ConfigureKeeps, Zenon

\* A call that is allowed grants no more than its caller has.
LEMMA AllowedGrants ==
    ASSUME IInv, control = "running", NEW r \in Requests, Allowed(r)
    PROVE  /\ Propagated(Deduplicated(r.metas)) \in Seq(Metas)
           /\ Granted(Propagated(Deduplicated(r.metas)), CurrentMetas, Pdas[CurrentProgram])
<1> DEFINE once == Deduplicated(r.metas)
           done == Propagated(once)
<1>1. r.metas \in Seq(Metas)
  BY ConstantFacts, Zenon
<1>2. /\ once \in Seq(Metas) /\ done \in Seq(Metas)
      /\ DOMAIN once = DOMAIN r.metas /\ DOMAIN done = DOMAIN r.metas
      /\ \A k \in DOMAIN r.metas :
            /\ FirstOf(once, r.metas[k].account) \in DOMAIN r.metas
            /\ once[k].account = r.metas[k].account
            /\ done[k] = once[FirstOf(once, r.metas[k].account)]
            /\ done[k] = MetaOf(done, done[k].account)
  BY <1>1, PreparedMetas, Zenon
<1> HIDE DEF once, done
<1>3. Privileged(once, r.signers \cap Pdas[CurrentProgram])
  BY DEF Allowed, once
<1>4. ASSUME NEW k \in DOMAIN done
      PROVE  /\ IndicesOf(CurrentMetas, done[k].account) # {}
             /\ done[k].writable => MetaOf(CurrentMetas, done[k].account).writable
             /\ done[k].signer => \/ MetaOf(CurrentMetas, done[k].account).signer
                                  \/ done[k].account \in Pdas[CurrentProgram]
             /\ done[k] = MetaOf(done, done[k].account)
  <2> DEFINE f == FirstOf(once, r.metas[k].account)
  <2>1. f \in DOMAIN once /\ done[k] = once[f] /\ done[k] = MetaOf(done, done[k].account)
    BY <1>2, Zenon
  <2>2. once[f].account = r.metas[k].account
    <3>1. IndicesOf(once, r.metas[k].account) # {}
      BY <1>2 DEF IndicesOf
    <3> QED
      BY <1>2, <3>1, FirstOfFacts
  <2>3. f = FirstOf(once, once[f].account)
    BY <2>2
  <2> HIDE DEF f
  <2> QED
    BY <1>3, <2>1, <2>3 DEF Privileged
<1> QED
  BY <1>2, <1>4 DEF Granted, once, done

\* A call: what the caller pays and what it grants.
LEMMA InvokeKeeps ==
    ASSUME IInv, NEW r \in Requests, Invoke(r)
    PROVE  IInv'
<1>1. /\ control = "running" /\ compute_meter' \in Nat
      /\ frames' = frames \/ frames' = Stepped
  BY Basics, ConstantFacts DEF Invoke, InVm, InBuiltin, Charged
<1>2. /\ Nesting \in Nat /\ Nesting > 0 /\ result \in {"ok", "err"}
      /\ (instruction_stack = << >>) <=> (Nesting = 0)
  BY <1>1, Basics
<1>3. CASE /\ Allowed(r)
           /\ Configure(r.program, Propagated(Deduplicated(r.metas)), Current)
           /\ control' = "prepared" /\ UNCHANGED result
  <2>1. r.program \in Programs /\ Current \in Nat
    BY <1>2, ConstantFacts DEF IInv, StackOK, Current, Top, Nesting, Readers
  <2>2. UNCHANGED <<syscall_context, pool, forbidden_memory_accesses, delivered>>
    BY DEF Invoke, report
  <2> QED
    BY <1>1, <1>2, <1>3, <2>1, <2>2, AllowedGrants, ConfigureKeeps
<1>4. CASE control' = "leaving" /\ result' = "err" /\ UNCHANGED transaction
  <2>1. UNCHANGED <<syscall_context, pool, forbidden_memory_accesses, delivered>>
    BY DEF Invoke, report
  <2> QED
    BY <1>1, <1>2, <1>4, <2>1, TopFrame, Quiet DEF transaction, Healthy
<1> QED
  BY <1>3, <1>4, Zenon DEF Invoke

\* push sets the level of the entry; the programs of the trace stay.
LEMMA LeveledFacts ==
    ASSUME IInv
    PROVE  LET n == Len(instruction_trace)
               more == Append(Leveled, EmptyFrame)
           IN  /\ n \in Nat \ {0}
               /\ Leveled \in Seq(TraceType) /\ Len(Leveled) = n
               /\ more \in Seq(TraceType) /\ Len(more) = n + 1
               /\ \A i \in 1 .. n : /\ Leveled[i].program = instruction_trace[i].program
                                    /\ more[i].program = instruction_trace[i].program
<1> DEFINE n == Len(instruction_trace)
           e == [instruction_trace[n] EXCEPT !.nesting_level = Nesting]
<1>1. n \in Nat \ {0} /\ instruction_trace \in Seq(TraceType) /\ Nesting \in Nat
  BY DEF IInv, TypeOK, TransactionType, StackOK, Nesting
<1>2. instruction_trace[n] \in TraceType
  BY <1>1
<1>3. e \in TraceType /\ e.program = instruction_trace[n].program
  BY <1>1, <1>2, Zenon DEF TraceType
<1>4. Leveled = [instruction_trace EXCEPT ![n] = e]
  BY DEF Leveled
<1>5. EmptyFrame \in TraceType
  BY DEF EmptyFrame, TraceType
<1> HIDE DEF e, n
<1>6. /\ Leveled \in Seq(TraceType) /\ Len(Leveled) = n
      /\ \A i \in 1 .. n : Leveled[i].program = instruction_trace[i].program
  BY <1>1, <1>3, <1>4 DEF n
<1>7. /\ Append(Leveled, EmptyFrame) \in Seq(TraceType)
      /\ Len(Append(Leveled, EmptyFrame)) = n + 1
      /\ \A i \in 1 .. n : Append(Leveled, EmptyFrame)[i] = Leveled[i]
  BY <1>1, <1>5, <1>6
<1> QED
  BY <1>1, <1>6, <1>7 DEF n

\* A push that fails leaves a context behind, and an error that no caller
\* survives.
LEMMA PushFailsKeeps ==
    ASSUME IInv, PushFails
    PROVE  IInv'
<1> USE DEF IInv
<1> DEFINE n == Len(instruction_trace)
<1>1. /\ control = "prepared" /\ result' = "err" /\ control' \in {"done", "leaving"}
      /\ control' = "done" <=> instruction_stack = << >>
      /\ UNCHANGED <<instruction_accounts, instruction_stack, frames, compute_meter, pool,
                     forbidden_memory_accesses, delivered>>
  BY DEF PushFails, FailCaller, report
<1>2. /\ Nesting \in Nat /\ Nesting' = Nesting /\ Len(frames) = Nesting
      /\ (instruction_stack = << >>) <=> (Nesting = 0)
  BY <1>1, Basics DEF Nesting
<1>3. syscall_context \in Seq(Nat \cup {None}) /\ syscall_context' \in Seq(Nat \cup {None})
  <2>1. syscall_context \in Seq(Nat \cup {None}) /\ syscall_context' = Append(syscall_context, None)
    BY DEF TypeOK, FramesType, PushFails
  <2> QED
    BY <2>1
<1>4. /\ n \in Nat \ {0} /\ instruction_trace' \in Seq(TraceType) /\ Len(instruction_trace') >= n
      /\ \A i \in 1 .. n : instruction_trace'[i].program = instruction_trace[i].program
  <2>1. \/ instruction_trace' = instruction_trace
        \/ instruction_trace' = Leveled
        \/ instruction_trace' = Append(Leveled, EmptyFrame)
    BY DEF PushFails
  <2>2. instruction_trace \in Seq(TraceType) /\ n \in Nat \ {0}
    BY DEF TypeOK, TransactionType, StackOK
  <2> QED
    BY <2>1, <2>2, LeveledFacts, SMTT(30)
<1>5. \A level \in 1 .. Nesting :
         /\ instruction_stack[level] \in 1 .. n
         /\ ProgramAt(level)' = ProgramAt(level)
         /\ HasBuffer(level)' <=> HasBuffer(level)
  <2> SUFFICES ASSUME NEW level \in 1 .. Nesting
               PROVE  /\ instruction_stack[level] \in 1 .. n
                      /\ ProgramAt(level)' = ProgramAt(level)
                      /\ HasBuffer(level)' <=> HasBuffer(level)
    OBVIOUS
  <2>1. instruction_stack[level] \in 1 .. n
    BY <1>4 DEF StackOK, Readers
  <2> QED
    BY <1>1, <1>2, <1>4, <2>1 DEF ProgramAt, HasBuffer
<1> HIDE DEF n
<1>6. TypeOK'
  BY <1>1, <1>3, <1>4, Zenon DEF TypeOK, TransactionType, FramesType, PoolType, ReadsType,
     Controls
<1>7. StackOK'
  <2>1. ASSUME NEW level \in 1 .. Nesting
        PROVE  /\ instruction_stack[level] \in Readers /\ ProgramAt(level)' \in Programs
               /\ instruction_stack[level] < Len(instruction_trace')
    <3>1. /\ instruction_stack[level] \in Readers /\ ProgramAt(level) \in Programs
          /\ instruction_stack[level] < n
      BY Zenon DEF StackOK, n
    <3>2. Len(instruction_trace') \in Nat
      BY <1>4
    <3> QED
      BY <1>4, <1>5, <3>1, <3>2
  <2>2. Len(instruction_trace') > 0
    BY <1>4
  <2> QED
    BY <1>1, <1>2, <2>1, <2>2 DEF StackOK
<1>8. ControlOK' /\ TraceOK' /\ ContextsOK' /\ GrantedOK'
  BY <1>1, <1>2 DEF ControlOK, TraceOK, ContextsOK, GrantedOK, Healthy
<1>9. SourcesOK'
  BY <1>1, <1>2, <1>5, StackSources
<1>10. NoIndirectReentry'
  BY <1>1, <1>2, <1>5 DEF NoIndirectReentry
<1>11. ReadsOK'
  BY <1>1, <1>2, <1>5, Zenon DEF ReadsOK
<1>12. PoolOK'
  BY <1>1, <1>2, <1>5, StackBuffers
<1> QED
  BY <1>6, <1>7, <1>8, <1>9, <1>10, <1>11, <1>12

\* A push: the new program is not on the stack, or is the one at the top.
LEMMA PushKeeps ==
    ASSUME IInv, Push
    PROVE  IInv'
<1> USE DEF IInv
<1> DEFINE n == Len(instruction_trace)
           frame == [kind |-> "none", buffer |-> None, accesses |-> 0, watched |-> FALSE,
                     start |-> compute_meter, steps |-> 0]
<1>0. PICK N \in Nat : N = Nesting
  BY DEF TypeOK, TransactionType, Nesting
<1>1. /\ control = "prepared" /\ control' = "pushed" /\ result' = "ok"
      /\ ~Reenters /\ n <= TraceCapacity
      /\ UNCHANGED <<instruction_accounts, compute_meter, pool, forbidden_memory_accesses, delivered>>
  <2>1. n \in Nat /\ TraceCapacity \in Nat
    BY ConstantFacts DEF TypeOK, TransactionType
  <2> QED
    BY <2>1 DEF Push, report, TraceFull
<1>2. /\ N \in Nat /\ Len(frames) = N /\ frames \in Seq(FrameType) /\ compute_meter \in Nat
      /\ instruction_stack \in Seq(Nat) /\ Len(instruction_stack) = N
      /\ syscall_context \in Seq(Nat \cup {None}) /\ Len(syscall_context) = N
  BY <1>0, <1>1, Basics, Zenon DEF TypeOK, TransactionType, FramesType, ContextsOK, Healthy,
     Nesting
<1>3. /\ n \in Nat \ {0} /\ instruction_trace' \in Seq(TraceType) /\ Len(instruction_trace') = n + 1
      /\ \A i \in 1 .. n : instruction_trace'[i].program = instruction_trace[i].program
      /\ Len(instruction_accounts) = n
  BY <1>1, LeveledFacts DEF Push, TraceOK
<1>4. /\ instruction_stack' \in Seq(Nat) /\ Len(instruction_stack') = N + 1
      /\ instruction_stack'[N + 1] = n
      /\ \A level \in 1 .. N : instruction_stack'[level] = instruction_stack[level]
  <2>1. instruction_stack' = Append(instruction_stack, n)
    BY DEF Push
  <2> QED
    BY <1>2, <1>3, <2>1
<1>5. /\ frames' \in Seq(FrameType) /\ Len(frames') = N + 1
      /\ frames'[N + 1] = frame
      /\ \A level \in 1 .. N : frames'[level] = frames[level]
  <2>1. frames' = Append(frames, frame)
    BY DEF Push
  <2>2. frame \in FrameType
    BY <1>2 DEF FrameType
  <2> HIDE DEF frame
  <2> QED
    BY <1>2, <2>1, <2>2
<1>6. /\ syscall_context' \in Seq(Nat \cup {None}) /\ Len(syscall_context') = N + 1
      /\ \A level \in 1 .. N : syscall_context'[level] = syscall_context[level]
  <2>1. syscall_context' = Append(syscall_context, None)
    BY DEF Push
  <2> QED
    BY <1>2, <2>1
<1>7. Nesting' = N + 1 /\ frames'[N + 1].kind = "none" /\ frames'[N + 1].accesses = 0
  BY <1>4, <1>5 DEF Nesting
<1> HIDE DEF n, frame
<1>8. \A level \in 1 .. N :
         /\ instruction_stack[level] \in 1 .. n - 1 /\ instruction_stack[level] \in Readers
         /\ ProgramAt(level) \in Programs /\ ProgramAt(level)' = ProgramAt(level)
         /\ HasBuffer(level)' <=> HasBuffer(level)
  <2> SUFFICES ASSUME NEW level \in 1 .. N
               PROVE  /\ instruction_stack[level] \in 1 .. n - 1
                      /\ instruction_stack[level] \in Readers
                      /\ ProgramAt(level) \in Programs /\ ProgramAt(level)' = ProgramAt(level)
                      /\ HasBuffer(level)' <=> HasBuffer(level)
    OBVIOUS
  <2>1. /\ instruction_stack[level] \in Readers /\ instruction_stack[level] \in 1 .. n - 1
        /\ ProgramAt(level) \in Programs
    BY <1>0, <1>3 DEF StackOK, Readers, n
  <2>2. ProgramAt(level)' = ProgramAt(level)
    BY <1>3, <1>4, <2>1 DEF ProgramAt
  <2>3. HasBuffer(level)' <=> HasBuffer(level)
    BY <1>1, <1>5, Zenon DEF HasBuffer
  <2> QED
    BY <2>1, <2>2, <2>3
<1>9. /\ ProgramAt(N + 1)' = Prepared.program /\ Prepared.program \in Programs
      /\ ~HasBuffer(N + 1)'
  BY <1>1, <1>3, <1>4, <1>7 DEF ProgramAt, Prepared, HasBuffer, ControlOK, n
<1>10. TypeOK'
  BY <1>1, <1>3, <1>4, <1>5, <1>6, Zenon
     DEF TypeOK, TransactionType, FramesType, PoolType, ReadsType, Controls
<1>11. StackOK'
  <2>1. n \in Readers
    BY <1>1, <1>3, ConstantFacts DEF Readers
  <2>2. \A level \in 1 .. N + 1 :
           /\ instruction_stack'[level] \in Readers
           /\ instruction_stack'[level] < Len(instruction_trace')
           /\ instruction_stack'[level] <= Len(instruction_accounts')
           /\ ProgramAt(level)' \in Programs
    <3> SUFFICES ASSUME NEW level \in 1 .. N + 1
                 PROVE  /\ instruction_stack'[level] \in Readers
                        /\ instruction_stack'[level] < Len(instruction_trace')
                        /\ instruction_stack'[level] <= Len(instruction_accounts')
                        /\ ProgramAt(level)' \in Programs
      OBVIOUS
    <3>1. CASE level = N + 1
      BY <1>1, <1>3, <1>4, <1>9, <2>1, <3>1
    <3>2. CASE level \in 1 .. N
      BY <1>1, <1>3, <1>4, <1>8, <3>2, SMTT(30)
    <3> QED
      BY <1>2, <3>1, <3>2
  <2>3. \A low, high \in 1 .. N + 1 :
           low < high => instruction_stack'[low] < instruction_stack'[high]
    <3> SUFFICES ASSUME NEW low \in 1 .. N + 1, NEW high \in 1 .. N + 1, low < high
                 PROVE  instruction_stack'[low] < instruction_stack'[high]
      OBVIOUS
    <3>1. low \in 1 .. N
      BY <1>2
    <3>2. CASE high = N + 1
      <4>1. /\ instruction_stack'[high] = n /\ instruction_stack'[low] = instruction_stack[low]
            /\ instruction_stack[low] \in 1 .. n - 1 /\ n \in Nat
        BY <1>3, <1>4, <1>8, <3>1, <3>2, Zenon
      <4> QED
        BY <4>1
    <3>3. CASE high \in 1 .. N
      BY <1>0, <1>4, <3>1, <3>3, Zenon DEF StackOK
    <3> QED
      BY <1>2, <3>2, <3>3
  <2> QED
    BY <1>3, <1>5, <1>7, <2>2, <2>3 DEF StackOK
<1>12. ControlOK' /\ TraceOK'
  BY <1>1, <1>2, <1>3, <1>7 DEF ControlOK, TraceOK
<1>13. ContextsOK'
  <2>1. ASSUME NEW level \in 1 .. N + 1, frames'[level].kind = "vm"
        PROVE  syscall_context'[level] = instruction_stack'[level]
    <3>1. level \in 1 .. N
      BY <1>2, <1>7, <2>1
    <3> QED
      BY <1>0, <1>1, <1>4, <1>5, <1>6, <2>1, <3>1, Zenon DEF ContextsOK, Healthy
  <2> QED
    BY <1>6, <1>7, <2>1, Zenon DEF ContextsOK
<1>14. GrantedOK'
  BY <1>1 DEF GrantedOK
<1>15. NoIndirectReentry'
  <2> SUFFICES ASSUME NEW low \in 1 .. N + 1, NEW high \in 1 .. N + 1, low < high,
                      ProgramAt(low)' = ProgramAt(high)', NEW level \in low .. high
               PROVE  ProgramAt(level)' = ProgramAt(low)'
    BY <1>7 DEF NoIndirectReentry
  <2>1. low \in 1 .. N
    BY <1>2
  <2>2. CASE high \in 1 .. N
    BY <1>0, <1>8, <2>1, <2>2 DEF NoIndirectReentry
  <2>3. CASE high = N + 1
    <3>1. ProgramAt(low) = Prepared.program
      BY <1>8, <1>9, <2>1, <2>3
    <3>2. CurrentProgram = Prepared.program
      BY <1>0, <1>1, <2>1, <3>1, Zenon DEF Reenters
    <3>3. N \in 1 .. N /\ ProgramAt(N) = Prepared.program
      BY <1>0, <1>2, <2>1, <3>2 DEF CurrentProgram, ProgramAt, Current, Top, Nesting
    <3>4. CASE level = N + 1
      BY <2>3, <3>4
    <3>5. CASE level \in low .. N
      BY <1>0, <1>2, <1>8, <2>1, <3>1, <3>3, <3>5 DEF NoIndirectReentry
    <3> QED
      BY <1>2, <2>1, <2>3, <3>4, <3>5
  <2> QED
    BY <1>2, <2>2, <2>3
<1>16. SourcesOK'
  <2> DEFINE M(level) == instruction_accounts'[instruction_stack'[level]]
  <2>1. \A level \in 1 .. N : M(level) = instruction_accounts[instruction_stack[level]]
    BY <1>1, <1>4, Zenon
  <2>2. N > 0 => M(N) = CurrentMetas /\ ProgramAt(N)' = CurrentProgram
    BY <1>0, <1>2, <1>8, <2>1 DEF CurrentMetas, CurrentProgram, ProgramAt, Current, Top,
       Nesting
  <2>3. N > 0 => Granted(M(N + 1), M(N), Pdas[ProgramAt(N)'])
    BY <1>0, <1>1, <1>3, <1>4, <2>2, Zenon DEF GrantedOK
  <2>4. \A level \in 1 .. N + 1 : M(level) \in Seq(Metas)
    <3> SUFFICES ASSUME NEW level \in 1 .. N + 1
                 PROVE  instruction_accounts'[instruction_stack'[level]] \in Seq(Metas)
      BY Zenon
    <3> HIDE DEF M
    <3>1. /\ instruction_stack'[level] \in Readers
          /\ instruction_stack'[level] <= Len(instruction_accounts')
      BY <1>7, <1>11, Zenon DEF StackOK
    <3>2. instruction_accounts' \in Seq(Seq(Metas))
      BY <1>10, Zenon DEF TypeOK, TransactionType
    <3>3. Len(instruction_accounts') \in Nat /\ TraceCapacity \in Nat
      BY <3>2, ConstantFacts
    <3>4. instruction_stack'[level] \in 1 .. Len(instruction_accounts')
      BY <3>1, <3>3 DEF Readers
    <3> QED
      BY <3>2, <3>4
  <2> HIDE DEF M
  <2>5. ASSUME NEW upper \in 2 .. N + 1, NEW k \in DOMAIN M(upper)
        PROVE  /\ M(upper)[k].writable => MetaOf(M(1), M(upper)[k].account).writable
               /\ M(upper)[k].signer =>
                     \/ MetaOf(M(1), M(upper)[k].account).signer
                     \/ \E level \in 1 .. upper - 1 :
                            M(upper)[k].account \in Pdas[ProgramAt(level)']
               /\ M(upper)[k] = MetaOf(M(upper), M(upper)[k].account)
    <3>0. \A up \in 2 .. N : \A j \in DOMAIN M(up) :
             /\ M(up)[j].writable => MetaOf(M(1), M(up)[j].account).writable
             /\ M(up)[j].signer =>
                   \/ MetaOf(M(1), M(up)[j].account).signer
                   \/ \E level \in 1 .. up - 1 : M(up)[j].account \in Pdas[ProgramAt(level)']
             /\ M(up)[j] = MetaOf(M(up), M(up)[j].account)
      <4> SUFFICES ASSUME NEW up \in 2 .. N, NEW j \in DOMAIN M(up)
                   PROVE  /\ M(up)[j].writable => MetaOf(M(1), M(up)[j].account).writable
                          /\ M(up)[j].signer =>
                                \/ MetaOf(M(1), M(up)[j].account).signer
                                \/ \E level \in 1 .. up - 1 :
                                       M(up)[j].account \in Pdas[ProgramAt(level)']
                          /\ M(up)[j] = MetaOf(M(up), M(up)[j].account)
        OBVIOUS
      <4>1. /\ M(up) = instruction_accounts[instruction_stack[up]]
            /\ M(1) = instruction_accounts[instruction_stack[1]]
            /\ \A level \in 1 .. up - 1 : ProgramAt(level)' = ProgramAt(level)
        BY <1>2, <1>8, <2>1
      <4> QED
        BY <1>0, <4>1 DEF SourcesOK
    <3>1. CASE upper \in 2 .. N
      BY <3>0, <3>1, Zenon
    <3>2. CASE upper = N + 1
      <4> DEFINE meta == M(N + 1)[k]
                 f == FirstOf(M(N), meta.account)
      <4>1. N \in 1 .. N
        BY <1>2, <3>2
      <4>2. /\ IndicesOf(M(N), meta.account) # {}
            /\ meta.writable => M(N)[f].writable
            /\ meta.signer => M(N)[f].signer \/ meta.account \in Pdas[ProgramAt(N)']
            /\ meta = MetaOf(M(N + 1), meta.account)
        BY <1>2, <2>3, <3>2, <4>1 DEF Granted, MetaOf
      <4>3. f \in DOMAIN M(N) /\ M(N)[f].account = meta.account
        BY <1>2, <2>4, <4>1, <4>2, FirstOfFacts
      <4> HIDE DEF meta, f
      <4>4. /\ meta.writable => MetaOf(M(1), meta.account).writable
            /\ meta.signer =>
                  \/ MetaOf(M(1), meta.account).signer
                  \/ \E level \in 1 .. N : meta.account \in Pdas[ProgramAt(level)']
        <5>1. CASE N = 1
          BY <4>1, <4>2, <5>1, Zenon DEF MetaOf, f
        <5>2. CASE N # 1
          <6>1. N \in 2 .. N /\ \A level \in 1 .. N - 1 : level \in 1 .. N
            BY <1>2, <4>1, <5>2
          <6>2. /\ M(N)[f].writable => MetaOf(M(1), meta.account).writable
                /\ M(N)[f].signer =>
                   \/ MetaOf(M(1), meta.account).signer
                   \/ \E level \in 1 .. N - 1 : meta.account \in Pdas[ProgramAt(level)']
            BY <3>0, <4>3, <6>1, Zenon
          <6> QED
            BY <4>1, <4>2, <6>1, <6>2, Zenon
        <5> QED
          BY <5>1, <5>2, Zenon
      <4> QED
        BY <1>2, <3>2, <4>2, <4>4 DEF meta
    <3> QED
      BY <1>2, <3>1, <3>2
  <2> QED
    BY <1>7, <2>5, Zenon DEF SourcesOK, M
<1>17. ReadsOK'
  <2>1. \A level \in 1 .. N + 1 : HasBuffer(level)' => level \in 1 .. N
    BY <1>2, <1>9
  <2>2. \A level \in 1 .. N + 1 : HasBuffer(level)' =>
           /\ IndicesOf(instruction_accounts'[instruction_stack'[level]], Sysvar) # {} =>
                frames'[level].watched
           /\ delivered'[instruction_stack'[level]] =
                forbidden_memory_accesses'[instruction_stack'[level]] + frames'[level].accesses
    BY <1>0, <1>1, <1>4, <1>5, <1>8, <2>1, Zenon DEF ReadsOK
  <2>3. ASSUME NEW i \in Readers,
               \A level \in 1 .. N + 1 : HasBuffer(level)' => instruction_stack'[level] # i
        PROVE  delivered'[i] = forbidden_memory_accesses'[i]
    <3>1. \A level \in 1 .. N : HasBuffer(level) => instruction_stack[level] # i
      BY <1>2, <1>4, <1>8, <2>3
    <3> QED
      BY <1>0, <1>1, <3>1 DEF ReadsOK
  <2>4. \A level \in 1 .. N + 1 : frames'[level].kind = "none" => frames'[level].accesses = 0
    BY <1>0, <1>2, <1>5, <1>7, SMTT(30) DEF ReadsOK
  <2> QED
    BY <1>7, <2>2, <2>3, <2>4 DEF ReadsOK
<1>18. PoolOK'
  <2>1. \A level \in 1 .. N + 1 : HasBuffer(level)' => level \in 1 .. N /\ HasBuffer(level)
    BY <1>2, <1>8, <1>9
  <2>2. \A level \in 1 .. N + 1 : HasBuffer(level)' => frames'[level].buffer \in pool.dirty
    BY <1>0, <1>5, <2>1, Zenon DEF PoolOK
  <2>3. \A low, high \in 1 .. N + 1 :
           HasBuffer(low)' /\ HasBuffer(high)' /\ low # high =>
              frames'[low].buffer # frames'[high].buffer
    <3> SUFFICES ASSUME NEW low \in 1 .. N + 1, NEW high \in 1 .. N + 1,
                        HasBuffer(low)', HasBuffer(high)', low # high
                 PROVE  frames'[low].buffer # frames'[high].buffer
      OBVIOUS
    <3>1. /\ low \in 1 .. N /\ high \in 1 .. N /\ HasBuffer(low) /\ HasBuffer(high)
          /\ frames'[low] = frames[low] /\ frames'[high] = frames[high]
      BY <1>5, <2>1
    <3> QED
      BY <1>0, <3>1 DEF PoolOK
  <2>4. \A b \in pool.dirty :
           \E level \in 1 .. N + 1 : HasBuffer(level)' /\ frames'[level].buffer = b
    <3> SUFFICES ASSUME NEW b \in pool.dirty
                 PROVE  \E level \in 1 .. N + 1 : HasBuffer(level)' /\ frames'[level].buffer = b
      BY Zenon
    <3>1. PICK level \in 1 .. N : HasBuffer(level) /\ frames[level].buffer = b
      BY <1>0, Zenon DEF PoolOK
    <3>2. level \in 1 .. N + 1 /\ frames'[level] = frames[level] /\ HasBuffer(level)'
      BY <1>2, <1>5, <1>8, <3>1
    <3> QED
      BY <3>1, <3>2
  <2> QED
    BY <1>1, <1>7, <2>2, <2>3, <2>4, Zenon DEF PoolOK
<1> QED
  BY <1>10, <1>11, <1>12, <1>13, <1>14, <1>15, <1>16, <1>17, <1>18, Zenon

\* What does not change with the stack and the trace.
LEMMA SameStack ==
    ASSUME IInv, UNCHANGED transaction, Len(frames') = Len(frames),
           control \in {"pushed", "running", "leaving", "popping"},
           control' \in {"pushed", "running", "leaving", "popping"},
           Healthy' => Healthy,
           control' = "pushed" => frames'[Nesting].kind = "none"
    PROVE  /\ Nesting' = Nesting
           /\ TransactionType' /\ StackOK' /\ ControlOK' /\ TraceOK' /\ GrantedOK' /\ SourcesOK'
           /\ NoIndirectReentry'
<1> USE DEF IInv
<1>1. /\ Nesting \in Nat /\ Nesting' = Nesting
      /\ \A level \in 1 .. Nesting : ProgramAt(level)' = ProgramAt(level)
      /\ UNCHANGED <<instruction_trace, instruction_accounts, instruction_stack>>
  BY Basics, Zenon DEF transaction, Nesting, ProgramAt
<1>2. TransactionType' /\ StackOK'
  BY <1>1, Zenon DEF TypeOK, TransactionType, StackOK
<1>3. ControlOK' /\ TraceOK' /\ GrantedOK'
  BY <1>1, Basics, Zenon DEF ControlOK, TraceOK, GrantedOK
<1>4. SourcesOK'
  BY <1>1, StackSources
<1>5. NoIndirectReentry'
  BY <1>1 DEF NoIndirectReentry
<1> QED
  BY <1>1, <1>2, <1>3, <1>4, <1>5, Zenon

\* Pool::get lends a buffer that no VM has, the pool's last or a new one.
LEMMA GetFacts ==
    ASSUME PoolType, PoolOK, pool' = PoolAfterGet
    PROVE  /\ PoolType'
           /\ Lent \notin pool.dirty /\ Lent \in Nat
           /\ pool'.dirty = pool.dirty \cup {Lent}
           /\ pool'.dirty \subseteq 1 .. pool'.made
           /\ IsFiniteSet(pool'.dirty)
           /\ pool'.next_empty + Cardinality(pool'.dirty) >= PoolSize
           /\ \A k \in 1 .. pool'.next_empty :
                 pool'.items[k] \in 1 .. pool'.made /\ pool'.items[k] \notin pool'.dirty
           /\ \A j, k \in 1 .. pool'.next_empty : pool'.items[j] = pool'.items[k] => j = k
<1>1. /\ pool.items \in [1 .. PoolSize -> Nat \cup {None}]
      /\ pool.next_empty \in 0 .. PoolSize /\ pool.dirty \in SUBSET Nat /\ pool.made \in Nat
      /\ pool.dirty \subseteq 1 .. pool.made
      /\ \A k \in 1 .. pool.next_empty :
            pool.items[k] \in 1 .. pool.made /\ pool.items[k] \notin pool.dirty
      /\ \A j, k \in 1 .. pool.next_empty : pool.items[j] = pool.items[k] => j = k
      /\ PoolSize \in Nat
  BY ConstantFacts, Zenon DEF PoolType, PoolOK
<1>2. /\ IsFiniteSet(pool.dirty) /\ Cardinality(pool.dirty) \in Nat
      /\ pool.next_empty + Cardinality(pool.dirty) >= PoolSize
  BY FS_CardinalityType, Zenon DEF PoolOK
<1>3. Lent \notin pool.dirty /\ Lent \in Nat
  BY <1>1 DEF Lent
<1>4. IsFiniteSet(pool.dirty \cup {Lent})
      /\ Cardinality(pool.dirty \cup {Lent}) = Cardinality(pool.dirty) + 1
  BY <1>2, <1>3, FS_AddElement, Zenon
<1>5. CASE pool.next_empty = 0
  <2>1. /\ pool'.items = pool.items /\ pool'.next_empty = 0 /\ pool'.made = pool.made + 1
        /\ pool'.dirty = pool.dirty \cup {Lent} /\ Lent = pool.made + 1
        /\ pool' = [items |-> pool'.items, next_empty |-> pool'.next_empty,
                    dirty |-> pool'.dirty, made |-> pool'.made]
    BY <1>5, Zenon DEF PoolType, PoolAfterGet, Lent
  <2>2. PoolType'
    BY <1>1, <1>3, <2>1 DEF PoolType
  <2> QED
    BY <1>1, <1>2, <1>3, <1>4, <1>5, <2>1, <2>2
<1>6. CASE pool.next_empty # 0
  <2>1. /\ pool'.items = [pool.items EXCEPT ![pool.next_empty] = None]
        /\ pool'.next_empty = pool.next_empty - 1 /\ pool'.made = pool.made
        /\ pool'.dirty = pool.dirty \cup {Lent} /\ Lent = pool.items[pool.next_empty]
        /\ pool' = [items |-> pool'.items, next_empty |-> pool'.next_empty,
                    dirty |-> pool'.dirty, made |-> pool'.made]
    BY <1>6, Zenon DEF PoolType, PoolAfterGet, Lent
  <2>2. PoolType'
    BY <1>1, <1>3, <1>6, <2>1 DEF PoolType
  <2>3. /\ pool'.next_empty + Cardinality(pool'.dirty) >= PoolSize
        /\ pool'.dirty \subseteq 1 .. pool'.made
    BY <1>1, <1>2, <1>4, <1>6, <2>1, SMTT(30)
  <2>4. \A k \in 1 .. pool'.next_empty :
           k \in 1 .. pool.next_empty /\ k # pool.next_empty /\ pool'.items[k] = pool.items[k]
    BY <1>1, <1>6, <2>1
  <2>5. \A k \in 1 .. pool'.next_empty : pool'.items[k] # Lent
    BY <1>1, <1>6, <2>1, <2>4
  <2> QED
    BY <1>1, <1>3, <1>4, <2>1, <2>2, <2>3, <2>4, <2>5
<1> QED
  BY <1>5, <1>6, Zenon

\* Pool::put takes a buffer back, or drops it when it is full.
LEMMA PutFacts ==
    ASSUME PoolType, PoolOK, NEW buffer \in pool.dirty, pool' = PoolAfterPut(buffer)
    PROVE  /\ PoolType'
           /\ pool'.dirty = pool.dirty \ {buffer}
           /\ pool'.dirty \subseteq 1 .. pool'.made
           /\ IsFiniteSet(pool'.dirty)
           /\ pool'.next_empty + Cardinality(pool'.dirty) >= PoolSize
           /\ \A k \in 1 .. pool'.next_empty :
                 pool'.items[k] \in 1 .. pool'.made /\ pool'.items[k] \notin pool'.dirty
           /\ \A j, k \in 1 .. pool'.next_empty : pool'.items[j] = pool'.items[k] => j = k
<1>1. /\ pool.items \in [1 .. PoolSize -> Nat \cup {None}]
      /\ pool.next_empty \in 0 .. PoolSize /\ pool.dirty \in SUBSET Nat /\ pool.made \in Nat
      /\ pool.dirty \subseteq 1 .. pool.made
      /\ \A k \in 1 .. pool.next_empty :
            pool.items[k] \in 1 .. pool.made /\ pool.items[k] \notin pool.dirty
      /\ \A j, k \in 1 .. pool.next_empty : pool.items[j] = pool.items[k] => j = k
      /\ PoolSize \in Nat /\ buffer \in 1 .. pool.made
  BY ConstantFacts, Zenon DEF PoolType, PoolOK
<1>2. /\ IsFiniteSet(pool.dirty) /\ Cardinality(pool.dirty) \in Nat
      /\ pool.next_empty + Cardinality(pool.dirty) >= PoolSize
  BY FS_CardinalityType, Zenon DEF PoolOK
<1>3. /\ IsFiniteSet(pool.dirty \ {buffer})
      /\ Cardinality(pool.dirty \ {buffer}) = Cardinality(pool.dirty) - 1
      /\ Cardinality(pool.dirty \ {buffer}) \in Nat
  BY <1>2, FS_RemoveElement, FS_CardinalityType, Zenon
<1>4. CASE pool.next_empty = PoolSize
  <2>1. /\ pool'.items = pool.items /\ pool'.next_empty = PoolSize /\ pool'.made = pool.made
        /\ pool'.dirty = pool.dirty \ {buffer}
        /\ pool' = [items |-> pool'.items, next_empty |-> pool'.next_empty,
                    dirty |-> pool'.dirty, made |-> pool'.made]
    BY <1>4, Zenon DEF PoolType, PoolAfterPut
  <2>2. PoolType'
    BY <1>1, <2>1 DEF PoolType
  <2> QED
    BY <1>1, <1>2, <1>3, <1>4, <2>1, <2>2
<1>5. CASE pool.next_empty # PoolSize
  <2>1. /\ pool'.items = [pool.items EXCEPT ![pool.next_empty + 1] = buffer]
        /\ pool'.next_empty = pool.next_empty + 1 /\ pool'.made = pool.made
        /\ pool'.dirty = pool.dirty \ {buffer}
        /\ pool' = [items |-> pool'.items, next_empty |-> pool'.next_empty,
                    dirty |-> pool'.dirty, made |-> pool'.made]
    BY <1>5, Zenon DEF PoolType, PoolAfterPut
  <2>2. PoolType'
    BY <1>1, <1>5, <2>1 DEF PoolType
  <2>3. pool'.next_empty + Cardinality(pool'.dirty) >= PoolSize
    BY <1>1, <1>2, <1>3, <2>1
  <2>4. /\ pool'.items[pool.next_empty + 1] = buffer
        /\ \A k \in 1 .. pool.next_empty : pool'.items[k] = pool.items[k]
    BY <1>1, <1>5, <2>1
  <2>5. \A k \in 1 .. pool'.next_empty : k \in 1 .. pool.next_empty \/ k = pool.next_empty + 1
    BY <1>1, <2>1
  <2> QED
    BY <1>1, <1>3, <2>1, <2>2, <2>3, <2>4, <2>5, SMTT(30)
<1> QED
  BY <1>4, <1>5, Zenon

\* create_vm!: the VM gets its buffer, its context and its watch.
LEMMA EnterVmKeeps ==
    ASSUME IInv, EnterVm
    PROVE  IInv'
<1> USE DEF IInv
<1>0. PICK N \in Nat \ {0} : N = Nesting
  BY Basics DEF EnterVm
<1> DEFINE watched == IndicesOf(CurrentMetas, Sysvar) # {}
           frame == [frames[N] EXCEPT !.kind = "vm", !.buffer = Lent, !.watched = watched]
<1>1. /\ control = "pushed" /\ control' = "running" /\ result' = result
      /\ UNCHANGED transaction /\ UNCHANGED report
      /\ UNCHANGED <<instruction_accounts, instruction_stack, forbidden_memory_accesses, delivered>>
      /\ pool' = PoolAfterGet
      /\ syscall_context' = [syscall_context EXCEPT ![Len(syscall_context)] = Current]
      /\ frames' = [frames EXCEPT ![N] = frame]
      /\ compute_meter' = compute_meter - HeapCost /\ compute_meter >= HeapCost
  BY <1>0 DEF EnterVm, transaction, report
<1>2. /\ Len(frames) = N /\ frames \in Seq(FrameType) /\ frames[N] \in FrameType
      /\ frames[N].kind = "none" /\ compute_meter \in Nat
  BY <1>0, <1>1, Basics DEF ControlOK
<1>3. PoolType /\ PoolOK /\ pool' = PoolAfterGet
  BY <1>1, Zenon DEF TypeOK
<1>4. /\ PoolType'
      /\ Lent \notin pool.dirty /\ Lent \in Nat
      /\ pool'.dirty = pool.dirty \cup {Lent}
      /\ pool'.dirty \subseteq 1 .. pool'.made
      /\ IsFiniteSet(pool'.dirty)
      /\ pool'.next_empty + Cardinality(pool'.dirty) >= PoolSize
      /\ \A k \in 1 .. pool'.next_empty :
            pool'.items[k] \in 1 .. pool'.made /\ pool'.items[k] \notin pool'.dirty
      /\ \A j, k \in 1 .. pool'.next_empty : pool'.items[j] = pool'.items[k] => j = k
  BY <1>3, GetFacts
<1>5. /\ frame \in FrameType
      /\ frame.kind = "vm" /\ frame.buffer = Lent /\ frame.watched = watched
      /\ frame.accesses = frames[N].accesses
  BY <1>2, <1>4, Zenon DEF FrameType
<1> HIDE DEF frame
<1>6. /\ frames' \in Seq(FrameType) /\ Len(frames') = N /\ frames'[N] = frame
      /\ \A level \in 1 .. N - 1 : frames'[level] = frames[level]
  BY <1>1, <1>2, <1>5
<1>7. /\ Nesting' = N /\ TransactionType' /\ StackOK' /\ ControlOK' /\ TraceOK' /\ GrantedOK'
      /\ SourcesOK' /\ NoIndirectReentry'
  BY <1>0, <1>1, <1>2, <1>6, SameStack, Zenon DEF Healthy
<1>8. /\ ~HasBuffer(N) /\ HasBuffer(N)'
      /\ \A level \in 1 .. N - 1 : HasBuffer(level)' <=> HasBuffer(level)
  BY <1>0, <1>1, <1>2, <1>5, <1>6, <1>7, Zenon DEF HasBuffer
<1>9. /\ syscall_context' \in Seq(Nat \cup {None}) /\ Len(syscall_context') = N
      /\ syscall_context'[N] = instruction_stack[N]
      /\ \A level \in 1 .. N - 1 : syscall_context'[level] = syscall_context[level]
  <2>1. syscall_context \in Seq(Nat \cup {None}) /\ Len(syscall_context) = N
    BY <1>0, <1>1 DEF TypeOK, FramesType, ContextsOK, Healthy
  <2>2. Current = instruction_stack[N] /\ Current \in Nat
    <3>1. Current = instruction_stack[N]
      BY <1>0 DEF Current, Top, Nesting
    <3>2. instruction_stack[N] \in Nat
      BY <1>0 DEF StackOK, Readers
    <3> QED
      BY <3>1, <3>2
  <2> QED
    BY <1>1, <2>1, <2>2
<1>10. TypeOK'
  <2>1. compute_meter' \in Nat
    BY <1>1, <1>2, ConstantFacts
  <2> QED
    BY <1>1, <1>4, <1>6, <1>7, <1>9, <2>1, Zenon DEF TypeOK, FramesType, ReadsType, Controls
<1>11. ContextsOK'
  <2>1. \A level \in 1 .. N : frames'[level].kind = "vm" =>
           syscall_context'[level] = instruction_stack'[level]
    <3> SUFFICES ASSUME NEW level \in 1 .. N, frames'[level].kind = "vm"
                 PROVE  syscall_context'[level] = instruction_stack[level]
      BY <1>1
    <3>1. CASE level = N
      BY <1>9, <3>1, Zenon
    <3>2. CASE level \in 1 .. N - 1
      BY <1>0, <1>1, <1>6, <1>9, <3>2, Zenon DEF ContextsOK, Healthy
    <3> QED
      BY <3>1, <3>2
  <2> QED
    BY <1>7, <1>9, <2>1, Zenon DEF ContextsOK
<1>12. ReadsOK'
  <2>1. /\ IndicesOf(instruction_accounts[instruction_stack[N]], Sysvar) # {} => frames'[N].watched
        /\ frames'[N].accesses = 0
    <3>1. frames[N].accesses = 0
      BY <1>0, <1>2 DEF ReadsOK
    <3>2. CurrentMetas = instruction_accounts[instruction_stack[N]]
      BY <1>0 DEF CurrentMetas, Current, Top, Nesting
    <3> QED
      BY <1>5, <1>6, <3>1, <3>2, Zenon
  <2>2. /\ instruction_stack[N] \in Readers
        /\ \A level \in 1 .. N - 1 : instruction_stack[level] # instruction_stack[N]
    <3>1. \A level \in 1 .. N - 1 : instruction_stack[level] < instruction_stack[N]
      BY <1>0 DEF StackOK
    <3>2. \A level \in 1 .. N : instruction_stack[level] \in Readers
      BY <1>0, Zenon DEF StackOK
    <3> QED
      BY <3>1, <3>2 DEF Readers
  <2>3. delivered[instruction_stack[N]] = forbidden_memory_accesses[instruction_stack[N]]
    BY <1>0, <1>8, <2>2 DEF ReadsOK
  <2>4. forbidden_memory_accesses[instruction_stack[N]] \in Nat
    BY <2>2, Zenon DEF TypeOK, ReadsType
  <2>5. \A level \in 1 .. N : HasBuffer(level)' =>
          /\ IndicesOf(instruction_accounts'[instruction_stack'[level]], Sysvar) # {} =>
                frames'[level].watched
          /\ delivered'[instruction_stack'[level]] =
                forbidden_memory_accesses'[instruction_stack'[level]] + frames'[level].accesses
    <3> SUFFICES ASSUME NEW level \in 1 .. N, HasBuffer(level)'
                 PROVE  /\ IndicesOf(instruction_accounts[instruction_stack[level]], Sysvar) # {} =>
                             frames'[level].watched
                        /\ delivered[instruction_stack[level]] =
                             forbidden_memory_accesses[instruction_stack[level]]
                                + frames'[level].accesses
      BY <1>1, Zenon
    <3>1. CASE level = N
      BY <2>1, <2>3, <2>4, <3>1
    <3>2. CASE level \in 1 .. N - 1
      BY <1>0, <1>6, <1>8, <3>2, Zenon DEF ReadsOK
    <3> QED
      BY <3>1, <3>2
  <2>6. ASSUME NEW i \in Readers,
               \A level \in 1 .. N : HasBuffer(level)' => instruction_stack'[level] # i
        PROVE  delivered'[i] = forbidden_memory_accesses'[i]
    <3>1. \A level \in 1 .. N : HasBuffer(level) => HasBuffer(level)'
      BY <1>8
    <3> QED
      BY <1>0, <1>1, <2>6, <3>1 DEF ReadsOK
  <2>7. \A level \in 1 .. N : frames'[level].kind = "none" => frames'[level].accesses = 0
    BY <1>0, <1>5, <1>6 DEF ReadsOK
  <2> QED
    BY <1>7, <2>5, <2>6, <2>7 DEF ReadsOK
<1>13. PoolOK'
  <2>1. \A level \in 1 .. N - 1 : HasBuffer(level) => frames[level].buffer \in pool.dirty
    BY <1>0 DEF PoolOK
  <2>2. \A level \in 1 .. N : HasBuffer(level)' => frames'[level].buffer \in pool'.dirty
    BY <1>4, <1>5, <1>6, <1>8, <2>1
  <2>3. ASSUME NEW low \in 1 .. N, NEW high \in 1 .. N, HasBuffer(low)', HasBuffer(high)', low # high
        PROVE  frames'[low].buffer # frames'[high].buffer
    <3>1. CASE low = N
      BY <1>4, <1>5, <1>6, <1>8, <2>1, <2>3, <3>1
    <3>2. CASE high = N
      BY <1>4, <1>5, <1>6, <1>8, <2>1, <2>3, <3>2
    <3>3. CASE low \in 1 .. N - 1 /\ high \in 1 .. N - 1
      BY <1>0, <1>6, <1>8, <2>3, <3>3, Zenon DEF PoolOK
    <3> QED
      BY <3>1, <3>2, <3>3
  <2>4. ASSUME NEW b \in pool'.dirty
        PROVE  \E level \in 1 .. N : HasBuffer(level)' /\ frames'[level].buffer = b
    <3>1. CASE b = Lent
      BY <1>5, <1>6, <1>8, <3>1
    <3>2. CASE b \in pool.dirty
      <4>1. PICK level \in 1 .. N : HasBuffer(level) /\ frames[level].buffer = b
        BY <1>0, <3>2, Zenon DEF PoolOK
      <4>2. level \in 1 .. N - 1
        BY <1>8, <4>1
      <4> QED
        BY <1>6, <1>8, <4>1, <4>2, Zenon
    <3> QED
      BY <1>4, <3>1, <3>2, Zenon
  <2> QED
    BY <1>4, <1>7, <2>2, <2>3, <2>4, Zenon DEF PoolOK
<1> QED
  BY <1>7, <1>10, <1>11, <1>12, <1>13

\* A forbidden read of a VM is in its tracker: the VM maps the sysvar, so it is
\* watched.
LEMMA ReadForbiddenKeeps ==
    ASSUME IInv, ReadForbidden
    PROVE  IInv'
<1> USE DEF IInv
<1>0. PICK N \in Nat \ {0} : N = Nesting
  BY Basics DEF ReadForbidden, InVm
<1> DEFINE i == instruction_stack[N]
           frame == [frames[N] EXCEPT !.accesses = @ + 1]
<1>1. /\ control = "running" /\ control' = "running" /\ result' = result
      /\ UNCHANGED transaction
      /\ UNCHANGED <<instruction_accounts, instruction_stack, forbidden_memory_accesses,
                     syscall_context, pool>>
      /\ compute_meter' = compute_meter - 1 /\ compute_meter > 0
      /\ frames[N].kind = "vm" /\ Current = i
      /\ IndicesOf(instruction_accounts[i], Sysvar) # {}
      /\ delivered' = [delivered EXCEPT ![i] = @ + 1]
  BY <1>0 DEF ReadForbidden, InVm, transaction, CurrentMetas, Current, Top, Nesting
<1>2. /\ Len(frames) = N /\ frames \in Seq(FrameType) /\ frames[N] \in FrameType
      /\ compute_meter \in Nat
  BY <1>0, Basics
<1>3. HasBuffer(N) /\ frames[N].watched
  BY <1>0, <1>1 DEF ReadsOK, HasBuffer
<1>4. frames' = [frames EXCEPT ![N] = frame]
  BY <1>0, <1>3 DEF ReadForbidden
<1>5. /\ frame \in FrameType /\ frame.kind = "vm" /\ frame.buffer = frames[N].buffer
      /\ frame.watched = frames[N].watched /\ frame.accesses = frames[N].accesses + 1
      /\ frames[N].accesses \in Nat
  <2>1. \A f \in FrameType :
           LET more == [f EXCEPT !.accesses = f.accesses + 1]
           IN  /\ more \in FrameType /\ more.kind = f.kind /\ more.buffer = f.buffer
               /\ more.watched = f.watched /\ more.accesses = f.accesses + 1
               /\ f.accesses \in Nat
    BY DEF FrameType
  <2> QED
    BY <1>1, <1>2, <2>1
<1>6. /\ i \in Readers /\ i \in Nat
      /\ \A level \in 1 .. N - 1 : instruction_stack[level] # i
  <2>1. \A level \in 1 .. N : instruction_stack[level] \in Readers
    BY <1>0 DEF StackOK
  <2>2. \A level \in 1 .. N - 1 : instruction_stack[level] < i
    BY <1>0 DEF StackOK
  <2> QED
    BY <2>1, <2>2 DEF Readers
<1>7. /\ delivered \in [Readers -> Nat] /\ forbidden_memory_accesses \in [Readers -> Nat]
      /\ delivered' \in [Readers -> Nat]
      /\ delivered'[i] = delivered[i] + 1
      /\ \A j \in Readers : j # i => delivered'[j] = delivered[j]
  <2>1. delivered \in [Readers -> Nat] /\ forbidden_memory_accesses \in [Readers -> Nat]
    BY DEF TypeOK, ReadsType
  <2> HIDE DEF i
  <2> QED
    BY <1>1, <1>6, <2>1
<1> HIDE DEF frame, i
<1>8. /\ frames' \in Seq(FrameType) /\ Len(frames') = N /\ frames'[N] = frame
      /\ \A level \in 1 .. N - 1 : frames'[level] = frames[level]
  BY <1>2, <1>4, <1>5
<1>9. /\ Nesting' = N /\ TransactionType' /\ StackOK' /\ ControlOK' /\ TraceOK' /\ GrantedOK'
      /\ SourcesOK' /\ NoIndirectReentry'
  BY <1>0, <1>1, <1>2, <1>8, SameStack, Zenon DEF Healthy
<1>10. \A level \in 1 .. N : /\ HasBuffer(level)' <=> HasBuffer(level)
                             /\ frames'[level].kind = frames[level].kind
                             /\ frames'[level].buffer = frames[level].buffer
                             /\ frames'[level].watched = frames[level].watched
  BY <1>0, <1>1, <1>5, <1>8, <1>9 DEF HasBuffer
<1>11. TypeOK'
  <2>1. compute_meter' \in Nat
    BY <1>1, <1>2
  <2> QED
    BY <1>1, <1>7, <1>8, <1>9, <2>1, Zenon DEF TypeOK, FramesType, PoolType, ReadsType,
       Controls
<1>12. ContextsOK'
  BY <1>0, <1>1, <1>9, <1>10, Zenon DEF ContextsOK, Healthy
<1>13. PoolOK'
  BY <1>0, <1>1, <1>9, <1>10, StackBuffers, Zenon
<1>14. ReadsOK'
  <2>1. ASSUME NEW level \in 1 .. N, HasBuffer(level)'
        PROVE  /\ IndicesOf(instruction_accounts[instruction_stack[level]], Sysvar) # {} =>
                    frames'[level].watched
               /\ delivered'[instruction_stack[level]] =
                    forbidden_memory_accesses[instruction_stack[level]] + frames'[level].accesses
    <3>1. /\ HasBuffer(level)
          /\ IndicesOf(instruction_accounts[instruction_stack[level]], Sysvar) # {} =>
                frames[level].watched
          /\ delivered[instruction_stack[level]] =
                forbidden_memory_accesses[instruction_stack[level]] + frames[level].accesses
      BY <1>0, <1>10, <2>1, Zenon DEF ReadsOK
    <3>2. instruction_stack[level] \in Readers
      BY <1>0, Zenon DEF StackOK
    <3>3. CASE level = N
      BY <1>5, <1>6, <1>7, <1>8, <3>1, <3>3 DEF i
    <3>4. CASE level \in 1 .. N - 1
      BY <1>6, <1>7, <1>8, <3>1, <3>2, <3>4, Zenon
    <3>5. level = N \/ level \in 1 .. N - 1
      OBVIOUS
    <3> QED
      BY <3>3, <3>4, <3>5, Zenon
  <2>2. ASSUME NEW j \in Readers,
               \A level \in 1 .. N : HasBuffer(level)' => instruction_stack'[level] # j
        PROVE  delivered'[j] = forbidden_memory_accesses'[j]
    <3>1. \A level \in 1 .. N : HasBuffer(level) => instruction_stack[level] # j
      BY <1>1, <1>10, <2>2
    <3>2. j # i
      BY <1>3, <3>1 DEF i
    <3>3. delivered[j] = forbidden_memory_accesses[j]
      BY <1>0, <3>1, Zenon DEF ReadsOK
    <3> QED
      BY <1>1, <1>7, <3>2, <3>3, Zenon
  <2>3. ASSUME NEW level \in 1 .. N, frames'[level].kind = "none"
        PROVE  frames'[level].accesses = 0
    <3>1. level \in 1 .. N - 1
      BY <1>5, <1>8, <2>3
    <3> QED
      BY <1>0, <1>8, <2>3, <3>1, Zenon DEF ReadsOK
  <2> QED
    BY <1>1, <1>9, <2>1, <2>2, <2>3, Zenon DEF ReadsOK
<1> QED
  BY <1>9, <1>11, <1>12, <1>13, <1>14

\* execute collects the accesses and gives the buffer back, whatever the result.
LEMMA LeaveVmKeeps ==
    ASSUME IInv, LeaveVm
    PROVE  IInv'
<1> USE DEF IInv
<1>0. PICK N \in Nat \ {0} : N = Nesting
  BY Basics DEF LeaveVm
<1> DEFINE i == instruction_stack[N]
           b == frames[N].buffer
<1>1. /\ control = "leaving" /\ control' = "popping" /\ result' = result
      /\ UNCHANGED transaction
      /\ UNCHANGED <<instruction_accounts, instruction_stack, delivered,
                     syscall_context, frames, compute_meter>>
      /\ frames[N].kind = "vm" /\ pool' = PoolAfterPut(b)
      /\ forbidden_memory_accesses' =
            [forbidden_memory_accesses EXCEPT ![i] = @ + frames[N].accesses]
  BY <1>0, Zenon DEF LeaveVm, Collected, transaction, Current, Top, Nesting
<1>2. /\ Len(frames) = N /\ frames \in Seq(FrameType) /\ frames[N] \in FrameType
      /\ frames[N].accesses \in Nat
  BY <1>0, Basics DEF FrameType
<1>3. HasBuffer(N)
  BY <1>0, <1>1, Zenon DEF HasBuffer
<1>4. PoolType /\ PoolOK /\ b \in pool.dirty
  BY <1>0, <1>3 DEF TypeOK, PoolOK
<1>5. /\ PoolType'
      /\ pool'.dirty = pool.dirty \ {b}
      /\ pool'.dirty \subseteq 1 .. pool'.made
      /\ IsFiniteSet(pool'.dirty)
      /\ pool'.next_empty + Cardinality(pool'.dirty) >= PoolSize
      /\ \A k \in 1 .. pool'.next_empty :
            pool'.items[k] \in 1 .. pool'.made /\ pool'.items[k] \notin pool'.dirty
      /\ \A j, k \in 1 .. pool'.next_empty : pool'.items[j] = pool'.items[k] => j = k
  <2> HIDE DEF b
  <2> QED
    BY <1>1, <1>4, PutFacts, Zenon
<1>6. /\ i \in Readers /\ i \in Nat
      /\ \A level \in 1 .. N - 1 : instruction_stack[level] # i
  <2>1. \A level \in 1 .. N : instruction_stack[level] \in Readers
    BY <1>0 DEF StackOK
  <2>2. \A level \in 1 .. N - 1 : instruction_stack[level] < i
    BY <1>0 DEF StackOK
  <2> QED
    BY <2>1, <2>2 DEF Readers
<1>7. /\ forbidden_memory_accesses' \in [Readers -> Nat]
      /\ forbidden_memory_accesses'[i] = forbidden_memory_accesses[i] + frames[N].accesses
      /\ \A j \in Readers : j # i => forbidden_memory_accesses'[j] = forbidden_memory_accesses[j]
  <2>1. forbidden_memory_accesses \in [Readers -> Nat]
    BY Zenon DEF TypeOK, ReadsType
  <2> HIDE DEF i
  <2> QED
    BY <1>1, <1>2, <1>6, <2>1
<1>8. delivered[i] = forbidden_memory_accesses[i] + frames[N].accesses
  BY <1>0, <1>3 DEF ReadsOK
<1> HIDE DEF i, b
<1>9. /\ Nesting' = N /\ TransactionType' /\ StackOK' /\ ControlOK' /\ TraceOK' /\ GrantedOK'
      /\ SourcesOK' /\ NoIndirectReentry'
  BY <1>0, <1>1, <1>2, SameStack, Zenon DEF Healthy
<1>10. /\ ~HasBuffer(N)'
       /\ \A level \in 1 .. N - 1 : HasBuffer(level)' <=> HasBuffer(level)
  BY <1>0, <1>1, <1>9 DEF HasBuffer
<1>11. TypeOK'
  BY <1>1, <1>5, <1>7, <1>9 DEF TypeOK, FramesType, ReadsType, Controls
<1>12. ContextsOK'
  BY <1>0, <1>1, <1>9, Zenon DEF ContextsOK, Healthy
<1>13. PoolOK'
  <2>1. \A level \in 1 .. N - 1 : HasBuffer(level) =>
           frames[level].buffer \in pool.dirty /\ frames[level].buffer # b
    BY <1>0, <1>3 DEF PoolOK, b
  <2>2. \A level \in 1 .. N : HasBuffer(level)' => level \in 1 .. N - 1 /\ HasBuffer(level)
    BY <1>10
  <2>3. \A level \in 1 .. N : HasBuffer(level)' => frames'[level].buffer \in pool'.dirty
    BY <1>1, <1>5, <2>1, <2>2, Zenon
  <2>4. \A low, high \in 1 .. N :
          HasBuffer(low)' /\ HasBuffer(high)' /\ low # high =>
              frames'[low].buffer # frames'[high].buffer
    BY <1>0, <1>1, <2>2, Zenon DEF PoolOK
  <2>5. ASSUME NEW x \in pool'.dirty
        PROVE  \E level \in 1 .. N : HasBuffer(level)' /\ frames'[level].buffer = x
    <3>1. PICK level \in 1 .. N : HasBuffer(level) /\ frames[level].buffer = x
      BY <1>0, <1>5, <2>5, Zenon DEF PoolOK
    <3>2. level \in 1 .. N - 1
      BY <1>5, <2>5, <3>1 DEF b
    <3> QED
      BY <1>1, <1>10, <3>1, <3>2, Zenon
  <2> QED
    BY <1>5, <1>9, <2>3, <2>4, <2>5, Zenon DEF PoolOK
<1>14. ReadsOK'
  <2>1. ASSUME NEW level \in 1 .. N, HasBuffer(level)'
        PROVE  /\ IndicesOf(instruction_accounts[instruction_stack[level]], Sysvar) # {} =>
                    frames[level].watched
               /\ delivered[instruction_stack[level]] =
                    forbidden_memory_accesses'[instruction_stack[level]] + frames[level].accesses
    <3>1. level \in 1 .. N - 1 /\ HasBuffer(level)
      BY <1>10, <2>1
    <3>2. instruction_stack[level] \in Readers /\ instruction_stack[level] # i
      BY <1>0, <1>6, <3>1 DEF StackOK
    <3> QED
      BY <1>0, <1>7, <3>1, <3>2, Zenon DEF ReadsOK
  <2>2. ASSUME NEW j \in Readers,
               \A level \in 1 .. N : HasBuffer(level)' => instruction_stack'[level] # j
        PROVE  delivered'[j] = forbidden_memory_accesses'[j]
    <3>1. CASE j = i
      BY <1>1, <1>7, <1>8, <3>1
    <3>2. CASE j # i
      <4>1. \A level \in 1 .. N : HasBuffer(level) => instruction_stack[level] # j
        BY <1>1, <1>10, <2>2, <3>2 DEF i
      <4> QED
        BY <1>0, <1>1, <1>7, <3>2, <4>1, Zenon DEF ReadsOK
    <3> QED
      BY <3>1, <3>2, Zenon
  <2>3. \A level \in 1 .. N : frames'[level].kind = "none" => frames'[level].accesses = 0
    BY <1>0, <1>1, Zenon DEF ReadsOK
  <2> QED
    BY <1>1, <1>9, <2>1, <2>2, <2>3, ZenonT(30) DEF ReadsOK
<1> QED
  BY <1>9, <1>11, <1>12, <1>13, <1>14

\* pop removes a program that has given its buffer back, and its context.
LEMMA PopKeeps ==
    ASSUME IInv, Pop
    PROVE  IInv'
<1> USE DEF IInv
<1>0. PICK N \in Nat \ {0} : N = Nesting
  BY Basics DEF Pop
<1>1. /\ control = "popping" /\ result' = Outcome
      /\ control' = IF N = 1 THEN "done" ELSE IF Outcome = "ok" THEN "running" ELSE "leaving"
      /\ UNCHANGED <<instruction_trace, instruction_accounts, compute_meter, pool,
                     forbidden_memory_accesses, delivered>>
  BY <1>0 DEF Pop, report
<1>2. /\ Len(frames) = N /\ frames \in Seq(FrameType)
      /\ Len(instruction_stack) = N /\ instruction_stack \in Seq(Nat)
      /\ syscall_context \in Seq(Nat \cup {None}) /\ result \in {"ok", "err"}
  BY <1>0, Basics, Zenon DEF TypeOK, TransactionType, FramesType, Nesting
<1>3. /\ frames' \in Seq(FrameType) /\ Len(frames') = N - 1
      /\ \A level \in 1 .. N - 1 : frames'[level] = frames[level]
  BY <1>2 DEF Pop, Pop1
<1>4. /\ instruction_stack' \in Seq(Nat) /\ Len(instruction_stack') = N - 1
      /\ \A level \in 1 .. N - 1 : instruction_stack'[level] = instruction_stack[level]
  BY <1>2 DEF Pop, Pop1
<1>5. syscall_context' \in Seq(Nat \cup {None})
  <2>1. syscall_context' = SubSeq(syscall_context, 1, Len(syscall_context) - 1)
    BY DEF Pop, Pop1
  <2> QED
    BY <1>2, <2>1
<1>6. /\ Outcome \in {"ok", "err"}
      /\ Outcome = "ok" => result = "ok"
      /\ control' \in {"done", "running", "leaving"}
      /\ control' = "done" <=> N = 1
      /\ Healthy' => Healthy
  <2>1. Outcome \in {"ok", "err"} /\ (Outcome = "ok" => result = "ok")
    BY <1>2 DEF Outcome
  <2> QED
    BY <1>1, <2>1 DEF Healthy
<1>7. Nesting' = N - 1
  BY <1>4, Zenon DEF Nesting
<1>8. \A level \in 1 .. N - 1 :
         /\ ProgramAt(level)' = ProgramAt(level)
         /\ HasBuffer(level)' <=> HasBuffer(level)
  BY <1>0, <1>1, <1>3, <1>4, <1>6, <1>7 DEF ProgramAt, HasBuffer
<1>9. ~HasBuffer(N)
  BY <1>0, <1>1 DEF HasBuffer
<1>10. TypeOK'
  <2>1. TransactionType' /\ FramesType' /\ PoolType' /\ ReadsType' /\ compute_meter' \in Nat
    BY <1>1, <1>3, <1>4, <1>5
       DEF TypeOK, TransactionType, FramesType, PoolType, ReadsType
  <2>2. control' \in Controls
    BY <1>6 DEF Controls
  <2>3. result' = Outcome /\ Outcome \in {"ok", "err"}
    BY <1>1, <1>6, Zenon
  <2> QED
    BY <2>1, <2>2, <2>3, Zenon DEF TypeOK
<1>11. StackOK'
  BY <1>0, <1>1, <1>3, <1>4, <1>7, <1>8, SMTT(30) DEF StackOK
<1>12. ControlOK' /\ TraceOK' /\ GrantedOK'
  BY <1>1, <1>6, <1>7 DEF ControlOK, TraceOK, GrantedOK
<1>13. ContextsOK'
  <2> SUFFICES ASSUME Healthy'
               PROVE  /\ Len(syscall_context') = N - 1
                      /\ \A level \in 1 .. N - 1 : frames'[level].kind = "vm" =>
                            syscall_context'[level] = instruction_stack'[level]
    BY <1>7, Zenon DEF ContextsOK
  <2>1. /\ Len(syscall_context) = N
        /\ \A level \in 1 .. N : frames[level].kind = "vm" =>
              syscall_context[level] = instruction_stack[level]
    BY <1>0, <1>6, Zenon DEF ContextsOK
  <2>2. /\ Len(syscall_context') = N - 1
        /\ \A level \in 1 .. N - 1 : syscall_context'[level] = syscall_context[level]
    <3>1. syscall_context' = SubSeq(syscall_context, 1, N - 1)
      BY <2>1, Zenon DEF Pop, Pop1
    <3> QED
      BY <1>2, <2>1, <3>1
  <2> QED
    BY <1>3, <1>4, <2>1, <2>2
<1>14. SourcesOK'
  <2>1. \A level \in 1 .. Nesting' :
           /\ instruction_accounts'[instruction_stack'[level]]
                 = instruction_accounts[instruction_stack[level]]
           /\ ProgramAt(level)' = ProgramAt(level)
    BY <1>1, <1>4, <1>7, <1>8, Zenon
  <2> QED
    BY <1>0, <1>7, <2>1, StackSources
<1>15. NoIndirectReentry'
  BY <1>0, <1>7, <1>8 DEF NoIndirectReentry
<1>16. ReadsOK'
  <2>1. \A level \in 1 .. N - 1 : HasBuffer(level)' =>
          /\ IndicesOf(instruction_accounts'[instruction_stack'[level]], Sysvar) # {} =>
                frames'[level].watched
          /\ delivered'[instruction_stack'[level]] =
                forbidden_memory_accesses'[instruction_stack'[level]] + frames'[level].accesses
    <3> SUFFICES ASSUME NEW level \in 1 .. N - 1, HasBuffer(level)'
                 PROVE  /\ IndicesOf(instruction_accounts[instruction_stack[level]], Sysvar) # {} =>
                              frames[level].watched
                        /\ delivered[instruction_stack[level]] =
                              forbidden_memory_accesses[instruction_stack[level]]
                                 + frames[level].accesses
      BY <1>1, <1>3, <1>4, Zenon
    <3>1. HasBuffer(level) /\ level \in 1 .. N
      BY <1>8
    <3> QED
      BY <1>0, <3>1, Zenon DEF ReadsOK
  <2>2. ASSUME NEW j \in Readers,
               \A level \in 1 .. N - 1 : HasBuffer(level)' => instruction_stack'[level] # j
        PROVE  delivered'[j] = forbidden_memory_accesses'[j]
    <3>1. \A level \in 1 .. N : HasBuffer(level) => instruction_stack[level] # j
      BY <1>4, <1>8, <1>9, <2>2
    <3> QED
      BY <1>0, <1>1, <3>1, Zenon DEF ReadsOK
  <2>3. \A level \in 1 .. N - 1 : frames'[level].kind = "none" => frames'[level].accesses = 0
    BY <1>0, <1>3 DEF ReadsOK
  <2> QED
    BY <1>7, <2>1, <2>2, <2>3, Zenon DEF ReadsOK
<1>17. PoolOK'
  <2>1. \A level \in 1 .. N - 1 : HasBuffer(level)' => frames'[level].buffer \in pool.dirty
    <3> SUFFICES ASSUME NEW level \in 1 .. N - 1, HasBuffer(level)'
                 PROVE  frames[level].buffer \in pool.dirty
      BY <1>3, Zenon
    <3>1. HasBuffer(level) /\ level \in 1 .. N
      BY <1>8
    <3> QED
      BY <1>0, <3>1, Zenon DEF PoolOK
  <2>2. \A low, high \in 1 .. N - 1 :
          HasBuffer(low)' /\ HasBuffer(high)' /\ low # high =>
              frames'[low].buffer # frames'[high].buffer
    <3> SUFFICES ASSUME NEW low \in 1 .. N - 1, NEW high \in 1 .. N - 1,
                        HasBuffer(low)', HasBuffer(high)', low # high
                 PROVE  frames[low].buffer # frames[high].buffer
      BY <1>3
    <3>1. HasBuffer(low) /\ HasBuffer(high) /\ low \in 1 .. N /\ high \in 1 .. N
      BY <1>8
    <3> QED
      BY <1>0, <3>1, Zenon DEF PoolOK
  <2>3. ASSUME NEW x \in pool.dirty
        PROVE  \E level \in 1 .. N - 1 : HasBuffer(level)' /\ frames'[level].buffer = x
    <3>1. PICK level \in 1 .. N : HasBuffer(level) /\ frames[level].buffer = x
      BY <1>0 DEF PoolOK
    <3>2. level \in 1 .. N - 1
      BY <1>9, <3>1
    <3> QED
      BY <1>3, <1>8, <3>1, <3>2, Zenon
  <2> QED
    BY <1>1, <1>7, <2>1, <2>2, <2>3, Zenon DEF PoolOK
<1> QED
  BY <1>10, <1>11, <1>12, <1>13, <1>14, <1>15, <1>16, <1>17, Zenon

-----------------------------------------------------------------------------
\* Every step of the runtime keeps the invariant.
LEMMA NextKeeps == IInv /\ [Next]_vars => IInv'
<1> SUFFICES ASSUME IInv, [Next]_vars PROVE IInv'
  OBVIOUS
<1>1. CASE UNCHANGED vars
  BY <1>1, StutterKeeps
<1>2. CASE Done
  BY <1>2, StutterKeeps, Zenon DEF Done
<1>3. CASE Step
  <2>1. ASSUME NEW r \in TopLevel, PrepareTopLevel(r) PROVE IInv'
    BY <2>1, PrepareTopLevelKeeps
  <2>2. ASSUME NEW r \in Requests, Invoke(r) PROVE IInv'
    BY <2>2, InvokeKeeps
  <2>3. CASE PushFails
    BY <2>3, PushFailsKeeps
  <2>4. CASE Push
    BY <2>4, PushKeeps, Zenon
  <2>5. CASE EnterVm
    BY <2>5, EnterVmKeeps
  <2>6. CASE ReadForbidden
    BY <2>6, ReadForbiddenKeeps
  <2>7. CASE LeaveVm
    BY <2>7, LeaveVmKeeps
  <2>8. CASE Pop
    BY <2>8, PopKeeps
  <2>9. CASE \/ PushReentrant \/ EnterMissing \/ EnterBuiltin \/ EnterVmUnpaid \/ Faults
             \/ LeaveBuiltin
             \/ \E status \in {"ok", "err"} : Exits(status)
             \/ \E a \in Accounts, balance \in Amounts : SetLamports(a, balance)
    BY <2>9, QuietStepsKeep
  <2> QED
    BY <1>3, <2>1, <2>2, <2>3, <2>4, <2>5, <2>6, <2>7, <2>8, <2>9, Zenon DEF Step
<1> QED
  BY <1>1, <1>2, <1>3 DEF Next

\* The runtime is always in a state of the invariant.
THEOREM Invariance == Spec => []IInv
<1>1. Init => IInv
  BY InitIInv
<1>2. IInv /\ [Next]_vars => IInv'
  BY NextKeeps
<1> QED
  BY <1>1, <1>2, PTL DEF Spec

\* While programs run, the contexts of push and pop are those of the stack: the
\* last one, which get_syscall_context hands out, is the running VM's.
THEOREM ContextsFollowStackHolds == Spec => []ContextsFollowStack
<1>1. IInv => ContextsFollowStack
  BY DEF IInv, ContextsOK, ContextsFollowStack, Live, Healthy
<1> QED
  BY <1>1, Invariance, PTL

\* prepare_next_instruction lets no account become writable or a signer on the
\* way down the stack, whatever the programs, metas and signers are.
THEOREM PrivilegesHaveASourceHolds == Spec => []PrivilegesHaveASource
<1>1. IInv => PrivilegesHaveASource
  BY Zenon DEF IInv, SourcesOK, PrivilegesHaveASource
<1> QED
  BY <1>1, Invariance, PTL

\* push refuses a program that is on the stack below its top.
THEOREM NoIndirectReentryHolds == Spec => []NoIndirectReentry
<1>1. IInv => NoIndirectReentry
  BY DEF IInv
<1> QED
  BY <1>1, Invariance, PTL

\* execute hands every forbidden read of every VM to the verdict, before it looks
\* at the result: when the execution is over none is missing and none is
\* counted twice.
THEOREM ReadsAreCollectedHolds == Spec => []ReadsAreCollected
<1>1. IInv => ReadsAreCollected
  <2> SUFFICES ASSUME IInv, control = "done"
               PROVE  forbidden_memory_accesses = delivered
    BY Zenon DEF ReadsAreCollected
  <2>1. Nesting = 0
    BY Zenon DEF IInv, ControlOK
  <2>2. \A i \in Readers : delivered[i] = forbidden_memory_accesses[i]
    BY <2>1 DEF IInv, ReadsOK
  <2>3. forbidden_memory_accesses \in [Readers -> Nat] /\ delivered \in [Readers -> Nat]
    BY Zenon DEF IInv, TypeOK, ReadsType
  <2> QED
    BY <2>2, <2>3
<1> QED
  BY <1>1, Invariance, PTL

\* The VM memory pool gives a buffer to one VM at a time, hands out only buffers
\* that were reset, and is full when the execution is over, for every depth of
\* the stack and every size of the pool.
THEOREM BuffersAreExclusiveHolds == Spec => []BuffersAreExclusive
<1>1. IInv => BuffersAreExclusive
  <2> SUFFICES ASSUME IInv PROVE BuffersAreExclusive
    BY Zenon
  <2>1. /\ \A k \in 1 .. pool.next_empty :
              pool.items[k] \in 1 .. pool.made /\ pool.items[k] \notin pool.dirty
        /\ pool.made \in Nat
        /\ pool.next_empty \in 0 .. PoolSize
        /\ pool.next_empty + Cardinality(pool.dirty) >= PoolSize
    BY Zenon DEF IInv, TypeOK, PoolType, PoolOK
  <2>2. \A k \in 1 .. pool.next_empty : pool.items[k] # None
    BY <2>1, ConstantFacts
  <2>3. ASSUME control = "done"
        PROVE  pool.dirty = {} /\ pool.next_empty = PoolSize
    <3>1. Nesting = 0
      BY <2>3, Zenon DEF IInv, ControlOK
    <3>2. pool.dirty = {}
      BY <3>1 DEF IInv, PoolOK
    <3>3. Cardinality(pool.dirty) = 0
      BY <3>2, FS_EmptySet
    <3> QED
      BY <2>1, <3>2, <3>3, ConstantFacts
  <2> QED
    BY <2>1, <2>2, <2>3 DEF BuffersAreExclusive, IInv, PoolOK
<1> QED
  BY <1>1, Invariance, PTL

-----------------------------------------------------------------------------
\* A set of numbers that has a member has a least one.
LEMMA LeastNumber ==
    ASSUME NEW T \in SUBSET Nat, T # {}
    PROVE  \E m \in T : \A n \in T : m <= n
<1>1. PICK m \in T : \A n \in T : ~(<<n, m>> \in OpToRel(<, Nat))
  BY NatLessThanWellFounded, WFMin, Zenon
<1>2. \A n \in T : ~(n < m)
  BY <1>1, Zenon DEF OpToRel
<1> QED
  BY <1>2

\* Induction over the numbers in S.
LEMMA Induction ==
    ASSUME NEW S, 0 \in S, \A n \in Nat : n \in S => n + 1 \in S
    PROVE  \A n \in Nat : n \in S
<1> SUFFICES ASSUME NEW k \in Nat, k \notin S PROVE FALSE
  OBVIOUS
<1>1. PICK m \in Nat \ S : \A n \in Nat \ S : m <= n
  BY LeastNumber, Zenon
<1>2. m # 0 /\ m - 1 \in Nat
  BY <1>1
<1>3. m - 1 \in S
  BY <1>1, <1>2
<1> QED
  BY <1>1, <1>2, <1>3

\* The fold of Total adds up one account after the other, in some order that the
\* set alone decides.
Some(s) == CHOOSE x \in s : TRUE
SumOf(f, g, s) == IF s = {} THEN 0 ELSE f[Some(s)] + g[s \ {Some(s)}]
Adds(g, f, S) == g = [s \in SUBSET S |-> SumOf(f, g, s)]
Partial(g, f, S, n) == g = [s \in {r \in SUBSET S : Cardinality(r) <= n} |-> SumOf(f, g, s)]

\* Total, unfolded.
LEMMA TotalAdds ==
    ASSUME NEW f
    PROVE  Total(f) = (CHOOSE g : Adds(g, f, DOMAIN f))[DOMAIN f]
BY Zenon DEF Total, FoldFunction, FoldFunctionOnSet, MapThenFoldSet, Adds, SumOf, Some

\* A set without one of its members is smaller.
LEMMA SomeRemoved ==
    ASSUME NEW S, IsFiniteSet(S), NEW s \in SUBSET S, s # {}
    PROVE  /\ Some(s) \in s /\ IsFiniteSet(s) /\ IsFiniteSet(s \ {Some(s)})
           /\ Cardinality(s) \in Nat /\ Cardinality(s \ {Some(s)}) = Cardinality(s) - 1
<1>1. Some(s) \in s
  BY DEF Some
<1>2. IsFiniteSet(s) 
  BY FS_Subset
<1> QED
  BY <1>1, <1>2, FS_RemoveElement, FS_CardinalityType

\* The recursion of the fold has a solution.
LEMMA SumExists ==
    ASSUME NEW f, NEW S, IsFiniteSet(S)
    PROVE  \E g : Adds(g, f, S)
<1> DEFINE Below(n) == {r \in SUBSET S : Cardinality(r) <= n}
           N == {n \in Nat : \E g : Partial(g, f, S, n)}
<1>0. \A r \in SUBSET S : IsFiniteSet(r) /\ Cardinality(r) \in Nat
  BY FS_Subset, FS_CardinalityType
<1>1. 0 \in N
  <2> DEFINE g == [s \in Below(0) |-> 0]
  <2>1. \A s \in Below(0) : s = {}
    BY <1>0, FS_EmptySet
  <2>2. Partial(g, f, S, 0)
    BY <2>1 DEF Partial, SumOf
  <2> QED
    BY <2>2
<1>2. ASSUME NEW n \in Nat, n \in N PROVE n + 1 \in N
  <2>1. PICK g : Partial(g, f, S, n)
    BY <1>2, Zenon
  <2> DEFINE h == [s \in Below(n + 1) |-> SumOf(f, g, s)]
  <2>2. ASSUME NEW s \in Below(n + 1) PROVE SumOf(f, g, s) = SumOf(f, h, s)
    <3>1. CASE s = {}
      BY <3>1, Zenon DEF SumOf
    <3>2. CASE s # {}
      <4>1. s \ {Some(s)} \in Below(n) /\ s \ {Some(s)} \in Below(n + 1)
        BY <3>2, <1>0, SomeRemoved
      <4>2. h[s \ {Some(s)}] = g[s \ {Some(s)}]
        BY <2>1, <4>1, Zenon DEF Partial
      <4> QED
        BY <4>2, Zenon DEF SumOf
    <3> QED
      BY <3>1, <3>2, Zenon
  <2>3. Partial(h, f, S, n + 1)
    BY <2>2 DEF Partial
  <2> QED
    BY <2>3
<1>3. Cardinality(S) \in N
  BY <1>0, <1>1, <1>2, Induction, Zenon
<1>4. PICK g : Partial(g, f, S, Cardinality(S))
  BY <1>3
<1>5. \A r \in SUBSET S : Cardinality(r) <= Cardinality(S)
  BY FS_Subset, Zenon
<1> QED
  BY <1>4, <1>5, Zenon DEF Partial, Adds

\* Changing one balance changes the sum by the difference.
LEMMA SumChanges ==
    ASSUME NEW S, IsFiniteSet(S), NEW f \in [S -> Int], NEW e \in [S -> Int],
           NEW a \in S, \A x \in S \ {a} : e[x] = f[x],
           NEW g, Adds(g, f, S), NEW h, Adds(h, e, S)
    PROVE  g[S] \in Int /\ h[S] = g[S] + e[a] - f[a]
<1> DEFINE Right(s) == /\ g[s] \in Int /\ h[s] \in Int
                       /\ h[s] = IF a \in s THEN g[s] + e[a] - f[a] ELSE g[s]
           N == {n \in Nat : \A s \in SUBSET S : Cardinality(s) = n => Right(s)}
<1>0. \A r \in SUBSET S : IsFiniteSet(r) /\ Cardinality(r) \in Nat
  BY FS_Subset, FS_CardinalityType, Zenon
<1>f. \A s \in SUBSET S : g[s] = SumOf(f, g, s) /\ h[s] = SumOf(e, h, s)
  BY Zenon DEF Adds
<1>1. 0 \in N
  <2> SUFFICES ASSUME NEW s \in SUBSET S, Cardinality(s) = 0 PROVE Right(s)
    BY Zenon
  <2>1. s = {}
    BY <1>0, FS_EmptySet
  <2>2. g[s] = 0 /\ h[s] = 0 /\ a \notin s
    BY <2>1, <1>f, Zenon DEF SumOf
  <2> QED
    BY <2>2
<1>2. ASSUME NEW n \in Nat, n \in N PROVE n + 1 \in N
  <2> SUFFICES ASSUME NEW s \in SUBSET S, Cardinality(s) = n + 1 PROVE Right(s)
    OBVIOUS
  <2>1. s # {}
    BY FS_EmptySet
  <2>2. PICK x : x = Some(s)
    BY Zenon
  <2>3. x \in s /\ x \in S /\ Cardinality(s \ {x}) = n /\ s \ {x} \in SUBSET S
    <3>1. Some(s) \in s /\ Cardinality(s \ {Some(s)}) = Cardinality(s) - 1
      BY <2>1, SomeRemoved, Zenon
    <3> QED
      BY <2>2, <3>1
  <2>4. Right(s \ {x})
    BY <1>2, <2>3
  <2>5. g[s] = f[x] + g[s \ {x}] /\ h[s] = e[x] + h[s \ {x}]
    BY <2>1, <2>2, <1>f, Zenon DEF SumOf
  <2>6. f[x] \in Int /\ e[x] \in Int /\ f[a] \in Int /\ e[a] \in Int
    BY <2>3, Zenon
  <2>7. CASE x = a
    <3>1. a \in s /\ a \notin s \ {x}
      BY <2>3, <2>7, Zenon
    <3>2. g[s \ {x}] \in Int /\ h[s \ {x}] = g[s \ {x}]
      BY <2>4, <3>1, Zenon
    <3>3. g[s] \in Int /\ h[s] \in Int /\ h[s] = g[s] + e[a] - f[a]
      BY <2>5, <2>6, <2>7, <3>2
    <3> QED
      BY <3>1, <3>3, Zenon
  <2>8. CASE x # a
    <3>1. e[x] = f[x] /\ (a \in s <=> a \in s \ {x})
      BY <2>3, <2>8
    <3>2. CASE a \in s
      <4>1. h[s \ {x}] = g[s \ {x}] + e[a] - f[a] /\ g[s \ {x}] \in Int
        BY <2>4, <3>1, <3>2, Zenon
      <4>2. g[s] \in Int /\ h[s] \in Int /\ h[s] = g[s] + e[a] - f[a]
        <5>1. h[s \ {x}] \in Int
          BY <2>4, Zenon
        <5> QED
          BY <2>5, <2>6, <3>1, <4>1, <5>1
      <4> QED
        BY <3>2, <4>2, Zenon
    <3>3. CASE a \notin s
      <4>1. h[s \ {x}] = g[s \ {x}] /\ g[s \ {x}] \in Int
        BY <2>4, <3>1, <3>3, Zenon
      <4>2. g[s] \in Int /\ h[s] \in Int /\ h[s] = g[s]
        BY <2>5, <2>6, <3>1, <4>1
      <4> QED
        BY <3>3, <4>2, Zenon
    <3> QED
      BY <3>2, <3>3, Zenon
  <2> QED
    BY <2>7, <2>8, Zenon
<1>3. \A n \in Nat : n \in N
  BY <1>1, <1>2, Induction, Zenon
<1>4. Right(S)
  BY <1>0, <1>3
<1> QED
  BY <1>4, Zenon

\* set_lamports changes the total by what it adds to lamports_delta.
LEMMA TotalChanges ==
    ASSUME NEW S, IsFiniteSet(S), NEW f \in [S -> Int], NEW a \in S, NEW n \in Int
    PROVE  /\ Total(f) \in Int
           /\ Total([f EXCEPT ![a] = n]) = Total(f) + n - f[a]
<1> DEFINE e == [f EXCEPT ![a] = n]
<1>1. e \in [S -> Int] /\ e[a] = n /\ \A x \in S \ {a} : e[x] = f[x]
  OBVIOUS
<1>2. DOMAIN f = S /\ DOMAIN e = S
  OBVIOUS
<1> HIDE DEF e
<1>3. PICK g : g = CHOOSE k : Adds(k, f, S)
  OBVIOUS
<1>4. PICK h : h = CHOOSE k : Adds(k, e, S)
  OBVIOUS
<1>5. Adds(g, f, S) /\ Adds(h, e, S)
  BY <1>3, <1>4, SumExists, Zenon
<1>6. Total(f) = g[S] /\ Total(e) = h[S]
  BY <1>2, <1>3, <1>4, TotalAdds, Zenon
<1>7. g[S] \in Int /\ h[S] = g[S] + e[a] - f[a]
  BY <1>1, <1>5, SumChanges
<1> QED
  BY <1>1, <1>6, <1>7, Zenon DEF e

\* lamports_delta is what the accounts have more than they had, and an execution
\* that succeeds ends without one.
MoneyOK ==
    /\ lamports \in [Accounts -> Int] /\ lamports_delta \in Int
    /\ Total(lamports) = Total(InitialLamports) + lamports_delta
    /\ control = "done" /\ result = "ok" => lamports_delta = 0

\* There is a number of lamports.
LEMMA TotalTyped == Total(InitialLamports) \in Int
<1>1. /\ IsFiniteSet(Accounts) /\ InitialLamports \in [Accounts -> Int]
      /\ Sysvar \in Accounts /\ 0 \in Int
  BY InvocationAssumption
<1> QED
  BY <1>1, TotalChanges, Zenon

\* Every step keeps the account of the lamports.
LEMMA MoneyKept == MoneyOK /\ [Next]_vars => MoneyOK'
<1> SUFFICES ASSUME MoneyOK, [Next]_vars PROVE MoneyOK'
  OBVIOUS
<1>1. ASSUME UNCHANGED money, control' = "done" /\ result' = "ok" => lamports_delta = 0
      PROVE  MoneyOK'
  BY <1>1, Zenon DEF MoneyOK, money
<1>2. CASE UNCHANGED vars \/ Done
  <2>1. UNCHANGED <<control, result, money>>
    BY <1>2, Zenon DEF vars, Done
  <2> QED
    BY <1>1, <2>1 DEF MoneyOK
<1>3. CASE \/ \E r \in TopLevel : PrepareTopLevel(r)
           \/ PushReentrant \/ PushFails \/ Push
           \/ \E r \in Requests : Invoke(r)
  <2>1. UNCHANGED money /\ (control' = "done" => result' = "err")
    BY <1>3, Zenon DEF PrepareTopLevel, PushReentrant, PushFails, Push, Invoke, FailCaller
  <2> QED
    BY <1>1, <2>1, Zenon
<1>4. CASE \/ EnterMissing \/ EnterBuiltin \/ EnterVmUnpaid \/ EnterVm \/ ReadForbidden \/ Faults
           \/ (\E status \in {"ok", "err"} : Exits(status)) \/ LeaveVm \/ LeaveBuiltin
  <2>1. UNCHANGED money /\ control' # "done"
    BY <1>4 DEF EnterMissing, EnterBuiltin, EnterVmUnpaid, EnterVm, ReadForbidden, Faults,
       Exits, LeaveVm, LeaveBuiltin, InVm
  <2> QED
    BY <1>1, <2>1
<1>5. CASE Pop
  <2>1. UNCHANGED money /\ (result' = "ok" => lamports_delta = 0)
    BY <1>5, Zenon DEF Pop, Outcome
  <2> QED
    BY <1>1, <2>1, Zenon
<1>6. ASSUME NEW a \in Accounts, NEW balance \in Amounts, SetLamports(a, balance)
      PROVE  MoneyOK'
  <2>1. control # "done" /\ (\/ UNCHANGED money /\ control' = "leaving"
                             \/ /\ lamports' = [lamports EXCEPT ![a] = balance]
                                /\ lamports_delta' = Delta(a, balance) /\ control' = control)
    BY <1>6 DEF SetLamports, InVm, InBuiltin
  <2>2. CASE UNCHANGED money /\ control' = "leaving"
    BY <1>1, <2>2, Zenon
  <2>3. CASE /\ lamports' = [lamports EXCEPT ![a] = balance]
             /\ lamports_delta' = Delta(a, balance) /\ control' = control
    <3>1. balance \in Int /\ lamports[a] \in Int
      <4>1. Amounts = 0 .. Total(InitialLamports)
        BY Zenon DEF Amounts, Total
      <4> QED
        BY <4>1, TotalTyped DEF MoneyOK
    <3>2. Total(lamports) \in Int /\ Total(lamports') = Total(lamports) + balance - lamports[a]
      <4>1. IsFiniteSet(Accounts) /\ lamports \in [Accounts -> Int]
        BY InvocationAssumption DEF MoneyOK
      <4> QED
        BY <2>3, <3>1, <4>1, TotalChanges, Zenon
    <3> QED
      BY <2>1, <2>3, <3>1, <3>2, TotalTyped DEF MoneyOK, Delta
  <2> QED
    BY <2>1, <2>2, <2>3, Zenon
<1> QED
  BY <1>2, <1>3, <1>4, <1>5, <1>6, Zenon DEF Next, Step

\* verify_lamports at each push and pop is enough: an execution that succeeds leaves
\* as many lamports as there were, whatever the programs did and wherever they
\* were called from.
THEOREM SuccessConservesLamportsHolds == Spec => []SuccessConservesLamports
<1>1. Init => MoneyOK
  <2> SUFFICES ASSUME Init PROVE MoneyOK
    OBVIOUS
  <2>1. lamports = InitialLamports /\ lamports_delta = 0 /\ control = "idle"
    BY Zenon DEF Init
  <2>2. InitialLamports \in [Accounts -> Int]
    BY InvocationAssumption
  <2> QED
    BY <2>1, <2>2, TotalTyped DEF MoneyOK
<1>2. MoneyOK => SuccessConservesLamports
  <2> SUFFICES ASSUME MoneyOK, control = "done", result = "ok"
               PROVE  Total(lamports) = Total(InitialLamports)
    BY DEF SuccessConservesLamports
  <2> QED
    BY TotalTyped DEF MoneyOK
<1> QED
  BY <1>1, <1>2, MoneyKept, PTL DEF Spec
=============================================================================
