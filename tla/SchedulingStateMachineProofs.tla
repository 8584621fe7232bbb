-------------------- MODULE SchedulingStateMachineProofs --------------------
(***************************************************************************)
(* The usage queues keep their promise, for any number of tasks and        *)
(* transactions, any locks, both capabilities and both modes.              *)
(*                                                                         *)
(* The argument is about one address at a time.  Sound relates its users,  *)
(* the tasks blocked on it, those that want to write it and those that are *)
(* committed, that is, have no address left to wait for; MachineOK asks it *)
(* of every address, and that blocked_usage_count counts the addresses a   *)
(* task is blocked on.  Locking and unlocking go through the lock contexts *)
(* of a transaction one by one: in between, the pairs of a task and an     *)
(* address in X are left out, and an induction over the contexts takes X   *)
(* from all of them to none, or back.  What a count of zero means to the   *)
(* other tasks (Unblocked) then is what ConflictOrder says of it.          *)
(***************************************************************************)
EXTENDS SchedulingStateMachine, WellFoundedInduction, FiniteSetTheorems, TLAPS

Usages == {"readonly", "writable"}

\* The writers, with task t among them if it is one.
WithWriter(W, t, usage) == W \cup (IF usage = "writable" THEN {t} ELSE {})

\* What the users and the blocked tasks of one address have to do with each other.
\* T are the tasks that ask for the address, W those that want to write, C those
\* that are committed.
Sound(usage, users, B, T, W, C) ==
    /\ users \cup B = T /\ users \cap B = {} /\ C \cap B = {}
    /\ \A u \in users : u \in W <=> usage = "writable"
    /\ usage = "writable" => \A u, v \in users : u = v
    /\ B # {} => users # {}
    /\ usage = "readonly" => \A b \in B : (\A d \in B : b <= d) => b \in W
    /\ \A u \in users, b \in B : u \in W \/ b \in W => u < b \/ u \in C

\* A set of numbers that has a member has a least one.
LEMMA LeastNumber ==
    ASSUME NEW T \in SUBSET Nat, T # {}
    PROVE  \E m \in T : \A n \in T : m <= n
<1>1. PICK m \in T : \A n \in T : ~(<<n, m>> \in OpToRel(<, Nat))
  BY NatLessThanWellFounded, WFMin, Zenon
<1>2. \A n \in T : ~(n < m)
  BY <1>1, Zenon DEF OpToRel
<1> QED
  BY <1>2

\* Induction, with the set of the numbers that have a property in place of it.
LEMMA Induction ==
    ASSUME NEW S, 0 \in S, \A n \in Nat : n \in S => n + 1 \in S
    PROVE  \A n \in Nat : n \in S
<1> SUFFICES ASSUME NEW k \in Nat, k \notin S PROVE FALSE
  OBVIOUS
<1>1. PICK m \in Nat \ S : \A n \in Nat \ S : m <= n
  BY LeastNumber, Zenon
<1>2. m # 0 /\ m - 1 \in Nat
  BY <1>1
<1>3. m - 1 \in S
  BY <1>1, <1>2
<1> QED
  BY <1>1, <1>2, <1>3

\* Block production, a new task is given the address: what it takes back from
\* others comes later than it.
LEMMA PriorityGranted ==
    ASSUME NEW T \in SUBSET Nat, NEW W \in SUBSET T, NEW C, NEW users, NEW B,
           NEW usage \in Usages, NEW mine \in Usages, NEW t \in Nat \ T, NEW V,
           V = WithWriter(W, t, mine),
           Sound(usage, users, B, T, W, C),
           NEW taken, taken = {u \in users : (usage = "writable" \/ mine = "writable") /\ t < u /\ u \notin C},
           users \ taken = {} \/ (usage = "readonly" /\ mine = "readonly" /\ \A b \in B : t < b)
    PROVE  Sound(mine, (users \ taken) \cup {t}, B \cup taken, T \cup {t},
                 V, C)
<1> USE DEF Sound, Usages, WithWriter
<1>1. users \subseteq Nat /\ B \subseteq Nat /\ taken \subseteq users /\ t \notin users /\ t \notin B
  BY Zenon
<1>2. \A b \in B \cup taken : mine = "writable" \/ b \in W => t < b
  <2>1. CASE users \ taken # {}
    BY <2>1
  <2>2. CASE users \ taken = {} /\ users = {}
    BY <2>2
  <2>3. CASE users \ taken = {} /\ users # {}
    <3>1. PICK u \in users : t < u /\ u \notin C /\ (usage = "writable" \/ mine = "writable")
      BY <2>3
    <3>2. CASE usage = "writable"
      BY <1>1, <3>1, <3>2
    <3>3. CASE usage = "readonly" /\ B # {}
      <4>1. PICK h \in B : \A d \in B : h <= d
        BY <1>1, <3>3, LeastNumber
      <4>2. h \in W /\ u < h
        BY <3>1, <3>3, <4>1
      <4> QED
        BY <1>1, <3>1, <4>1, <4>2
    <3> QED
      BY <3>2, <3>3
  <2> QED
    BY <2>1, <2>2, <2>3
<1>3. CASE users \ taken # {}
  <2>1. usage = "readonly" /\ mine = "readonly" /\ taken = {}
    BY <1>3
  <2> QED
    BY <1>1, <1>2, <1>3, <2>1, Zenon
<1>4. CASE users \ taken = {}
  <2>1. (users \ taken) \cup {t} = {t} /\ taken = users
    BY <1>4
  <2>2. ASSUME mine = "readonly", NEW b \in B \cup taken, \A d \in B \cup taken : b <= d PROVE b \in W
    <3>1. CASE users = {}
      BY <2>1, <2>2, <3>1
    <3>2. CASE users # {}
      <4>1. PICK u \in users : u \in taken /\ usage = "writable" /\ u \notin C
        BY <2>1, <2>2, <3>2
      <4>2. u \in W /\ u \in Nat /\ b <= u
        BY <1>1, <2>2, <4>1
      <4>3. b \in B => u < b
        BY <4>1, <4>2
      <4> QED
        BY <1>1, <2>1, <2>2, <4>1, <4>2, <4>3
    <3> QED
      BY <3>1, <3>2
  <2> QED
    BY <1>1, <1>2, <2>1, <2>2
<1> QED
  BY <1>3, <1>4

\* Block production, it is not: somebody who goes first keeps the address.
LEMMA PriorityBlocked ==
    ASSUME NEW T \in SUBSET Nat, NEW W \in SUBSET T, NEW C, NEW users, NEW B,
           NEW usage \in Usages, NEW mine \in Usages, NEW t \in Nat \ T, NEW V,
           V = WithWriter(W, t, mine), t \notin C,
           Sound(usage, users, B, T, W, C),
           NEW taken, taken = {u \in users : (usage = "writable" \/ mine = "writable") /\ t < u /\ u \notin C},
           users \ taken # {}, usage = "readonly" /\ mine = "readonly" => \E b \in B : ~(t < b)
    PROVE  Sound(usage, users \ taken, B \cup taken \cup {t}, T \cup {t},
                 V, C)
<1> DEFINE rest == users \ taken
           D == B \cup taken \cup {t}
<1> USE DEF Sound, Usages, WithWriter
<1>1. /\ users \subseteq Nat /\ B \subseteq Nat /\ taken \subseteq users /\ t \notin users /\ t \notin B
      /\ rest # {} /\ D \subseteq Nat
  BY Zenon
<1>2. /\ rest \cup D = T \cup {t} /\ rest \cap D = {} /\ C \cap D = {}
      /\ \A u \in rest : u \in V <=> usage = "writable"
      /\ usage = "writable" => \A u, v \in rest : u = v
  BY <1>1
<1>3. ASSUME usage = "readonly", NEW b \in D, \A d \in D : b <= d PROVE b \in V
  <2>1. b \notin taken
    BY <1>1, <1>3
  <2>2. CASE b \in B
    BY <1>3, <2>2
  <2>3. CASE b = t /\ mine = "readonly"
    <3>1. taken = {}
      BY <1>3, <2>3
    <3>2. PICK d \in B : ~(t < d)
      BY <1>1, <1>3, <2>3, <3>1
    <3> QED
      BY <1>1, <1>3, <2>3, <3>2
  <2> QED
    BY <2>1, <2>2, <2>3
<1>4. ASSUME NEW u \in rest, NEW b \in D, u \in V \/ b \in V PROVE u < b \/ u \in C
  <2>1. CASE b \in B
    BY <1>1, <1>4, <2>1
  <2>2. CASE b = t
    BY <1>1, <1>4, <2>2
  <2>3. CASE b \in taken
    <3>1. u \in W \/ b \in W
      BY <1>1, <1>4, <2>3
    <3> QED
      BY <1>1, <2>3, <3>1
  <2> QED
    BY <2>1, <2>2, <2>3
<1> QED
  BY <1>1, <1>2, <1>3, <1>4

\* Block verification: a new task comes after all others.
LEMMA FifoGranted ==
    ASSUME NEW T \in SUBSET Nat, NEW W \in SUBSET T, NEW C, NEW users, NEW B,
           NEW usage \in Usages, NEW mine \in Usages, NEW t \in Nat \ T, NEW V,
           V = WithWriter(W, t, mine),
           Sound(usage, users, B, T, W, C),
           B = {}, users = {} \/ (usage = "readonly" /\ mine = "readonly")
    PROVE  Sound(mine, users \cup {t}, B, T \cup {t}, V, C)
BY DEF Sound, Usages, WithWriter

\* It is blocked behind all of them.
LEMMA FifoBlocked ==
    ASSUME NEW T \in SUBSET Nat, NEW W \in SUBSET T, NEW C, NEW users, NEW B,
           NEW usage \in Usages, NEW mine \in Usages, NEW t \in Nat \ T, NEW V,
           V = WithWriter(W, t, mine), t \notin C,
           Sound(usage, users, B, T, W, C), \A s \in T : s < t,
           ~(B = {} /\ (users = {} \/ (usage = "readonly" /\ mine = "readonly")))
    PROVE  Sound(usage, users, B \cup {t}, T \cup {t}, V, C)
<1> USE DEF Sound, Usages, WithWriter
<1>1. users \subseteq Nat /\ B \subseteq Nat /\ t \notin users /\ t \notin B /\ users # {}
  BY Zenon
<1>2. ASSUME usage = "readonly", NEW b \in B \cup {t}, \A d \in B \cup {t} : b <= d
      PROVE  b \in V
  <2>1. CASE B = {}
    BY <1>1, <1>2, <2>1
  <2>2. CASE B # {}
    <3>1. PICK d \in B : d < t
      BY <2>2, Zenon
    <3>2. b <= d /\ b \in Nat /\ d \in Nat
      BY <1>1, <1>2
    <3>3. b \in B
      BY <3>1, <3>2
    <3> QED
      BY <1>2, <3>3
  <2> QED
    BY <2>1, <2>2
<1> DEFINE D == B \cup {t}
<1>3. /\ users \cup D = T \cup {t} /\ users \cap D = {} /\ C \cap D = {}
      /\ \A u \in users : u \in V <=> usage = "writable"
  BY <1>1
<1>4. \A u \in users, b \in D : u \in V \/ b \in V => u < b \/ u \in C
  <2> SUFFICES ASSUME NEW u \in users, NEW b \in D, u \in V \/ b \in V PROVE u < b \/ u \in C
    OBVIOUS
  <2>1. CASE b = t
    BY <1>1, <2>1
  <2>2. CASE b \in B
    BY <1>1, <2>2
  <2> QED
    BY <2>1, <2>2
<1> QED
  BY <1>1, <1>2, <1>3, <1>4

\* A user leaves and others stay.
LEMMA UserLeaves ==
    ASSUME NEW T \in SUBSET Nat, NEW W \in SUBSET T, NEW C, NEW users, NEW B,
           NEW usage \in Usages, NEW t \in users,
           Sound(usage, users, B, T, W, C), users \ {t} # {} \/ B = {}
    PROVE  Sound(usage, users \ {t}, B, T \ {t}, W \ {t}, C)
<1> USE DEF Sound, Usages, WithWriter
<1>1. users \subseteq Nat /\ B \subseteq Nat /\ t \notin B
  BY Zenon
<1> QED
  BY <1>1, Zenon

\* The last user leaves: the address goes to a writer, or to the readers that
\* come before the next writer.
LEMMA HandedOn ==
    ASSUME NEW T \in SUBSET Nat, NEW W \in SUBSET T, NEW C, NEW users, NEW B,
           NEW usage \in Usages, NEW t \in users, users \ {t} = {},
           Sound(usage, users, B, T, W, C),
           NEW P \in SUBSET B, P # {}, \A p \in P, d \in B \ P : p < d,
           NEW mine \in Usages, \A p \in P : p \in W <=> mine = "writable",
           mine = "writable" => \A p, r \in P : p = r,
           mine = "readonly" => \A b \in B \ P : (\A d \in B \ P : b <= d) => b \in W
    PROVE  Sound(mine, P, B \ P, T \ {t}, W \ {t}, C)
<1>1. users = {t} /\ B \subseteq Nat /\ t \notin B
  <2>1. users = {t}
    OBVIOUS
  <2> QED
    BY <2>1, Zenon DEF Sound
<1> USE DEF Sound, Usages
<1>2. /\ P \cup (B \ P) = T \ {t} /\ P \cap (B \ P) = {} /\ C \cap (B \ P) = {}
      /\ \A p \in P : p \in W \ {t} <=> mine = "writable"
  BY <1>1, Zenon
<1>3. mine = "readonly" => \A b \in B \ P : (\A d \in B \ P : b <= d) => b \in W \ {t}
  BY <1>1
<1> QED
  BY <1>1, <1>2, <1>3

\* Who holds an address: a task that is not committed holds it just when every
\* other that it clashes with there is not committed either and comes later.
LEMMA HoldersAreFirst ==
    ASSUME NEW T \in SUBSET Nat, NEW W \in SUBSET T, NEW C, NEW users, NEW B,
           NEW usage \in Usages, Sound(usage, users, B, T, W, C),
           NEW u \in T \ C
    PROVE  u \in users <=> \A v \in T \ {u} : u \in W \/ v \in W => v \notin C /\ u < v
<1> USE DEF Sound, Usages, WithWriter
<1>1. users \subseteq Nat /\ B \subseteq Nat
  BY Zenon
<1>2. ASSUME u \in users, NEW v \in T \ {u}, u \in W \/ v \in W PROVE v \notin C /\ u < v
  BY <1>1, <1>2
<1>3. ASSUME u \in B, \A v \in T \ {u} : u \in W \/ v \in W => v \notin C /\ u < v PROVE FALSE
  <2>1. PICK v \in users : TRUE
    BY <1>3
  <2>2. CASE usage = "writable"
    BY <1>1, <1>3, <2>1, <2>2
  <2>3. CASE usage = "readonly"
    <3>1. PICK h \in B : \A d \in B : h <= d
      BY <1>1, <1>3, LeastNumber
    <3>2. h \in W
      BY <2>3, <3>1
    <3>3. CASE h = u
      BY <1>1, <1>3, <2>1, <3>2, <3>3
    <3>4. CASE h # u
      BY <1>1, <1>3, <3>1, <3>2, <3>4
    <3> QED
      BY <3>3, <3>4
  <2> QED
    BY <2>2, <2>3
<1> QED
  BY <1>2, <1>3

-----------------------------------------------------------------------------
\* Sequences of blocked tasks.

Ascending(s) == \A i, j \in DOMAIN s : i < j => s[i] < s[j]

HasOrder(S) == \E s \in [1 .. Cardinality(S) -> S] : Range(s) = S /\ Ascending(s)

\* Every finite set of numbers can be put in order.
LEMMA OrderExists ==
    ASSUME NEW S \in SUBSET Nat, IsFiniteSet(S)
    PROVE  HasOrder(S)
<1> DEFINE N == {n \in Nat : \A U \in SUBSET Nat :
                    IsFiniteSet(U) /\ Cardinality(U) = n => HasOrder(U)}
<1>1. 0 \in N
  <2> SUFFICES ASSUME NEW U \in SUBSET Nat, IsFiniteSet(U), Cardinality(U) = 0 PROVE HasOrder(U)
    OBVIOUS
  <2>1. U = {}
    BY FS_EmptySet
  <2>2. << >> \in [1 .. 0 -> U] /\ Range(<< >>) = {} /\ Ascending(<< >>)
    BY <2>1 DEF Range, Ascending
  <2> QED
    BY <2>1, <2>2, Zenon DEF HasOrder
<1>2. ASSUME NEW n \in Nat, n \in N PROVE n + 1 \in N
  <2> SUFFICES ASSUME NEW U \in SUBSET Nat, IsFiniteSet(U), Cardinality(U) = n + 1
               PROVE  HasOrder(U)
    OBVIOUS
  <2>1. U # {}
    BY FS_EmptySet
  <2>2. PICK m \in U : \A d \in U : m <= d
    BY <2>1, LeastNumber
  <2> DEFINE R == U \ {m}
  <2>3. R \in SUBSET Nat /\ IsFiniteSet(R) /\ Cardinality(R) = n
    <3>1. IsFiniteSet(R) /\ Cardinality(R) = Cardinality(U) - 1
      BY <2>2, FS_RemoveElement, Zenon
    <3> QED
      BY <3>1
  <2>4. HasOrder(R)
    BY <1>2, <2>3
  <2>5. PICK s \in [1 .. n -> R] : Range(s) = R /\ Ascending(s)
    BY <2>3, <2>4, Zenon DEF HasOrder
  <2> DEFINE z == [i \in 1 .. n + 1 |-> IF i = 1 THEN m ELSE s[i - 1]]
  <2>6. z \in [1 .. n + 1 -> U]
    BY <2>2, <2>5
  <2>7. Range(z) = U
    <3>1. ASSUME NEW u \in U PROVE u \in Range(z)
      <4>1. CASE u = m
        <5>1. 1 \in 1 .. n + 1 /\ z[1] = m
          OBVIOUS
        <5> QED
          BY <4>1, <5>1 DEF Range
      <4>2. CASE u # m
        <5>1. PICK i \in 1 .. n : s[i] = u
          BY <2>5, <4>2 DEF Range
        <5>2. i + 1 \in 1 .. n + 1 /\ z[i + 1] = u
          BY <5>1
        <5> QED
          BY <5>2 DEF Range
      <4> QED
        BY <4>1, <4>2
    <3>2. Range(z) \subseteq U
      <4> HIDE DEF z
      <4> QED
        BY <2>6 DEF Range
    <3> QED
      BY <3>1, <3>2, Zenon
  <2>8. Ascending(z)
    <3> SUFFICES ASSUME NEW i \in 1 .. n + 1, NEW j \in 1 .. n + 1, i < j PROVE z[i] < z[j]
      BY DEF Ascending
    <3>1. j - 1 \in 1 .. n /\ z[j] = s[j - 1] /\ s[j - 1] \in R
      BY <2>5
    <3>2. CASE i = 1
      <4>1. z[i] = m /\ m \in Nat /\ m <= z[j] /\ z[j] # m /\ z[j] \in Nat
        BY <2>2, <3>1, <3>2, Zenon
      <4> HIDE DEF z
      <4> QED
        BY <4>1
    <3>3. CASE i # 1
      <4>1. i - 1 \in 1 .. n /\ z[i] = s[i - 1] /\ i - 1 < j - 1
        BY <3>3
      <4> QED
        BY <2>5, <3>1, <4>1 DEF Ascending
    <3> QED
      BY <3>2, <3>3
  <2> HIDE DEF z
  <2> QED
    BY <2>6, <2>7, <2>8 DEF HasOrder
<1>3. \A n \in Nat : n \in N
  <2> HIDE DEF N
  <2> QED
    BY <1>1, <1>2, Induction
<1>4. Cardinality(S) \in Nat
  BY FS_CardinalityType
<1> QED
  BY <1>3, <1>4

\* InOrder does so.
LEMMA InOrderFacts ==
    ASSUME NEW S \in SUBSET Nat, IsFiniteSet(S)
    PROVE  InOrder(S) \in Seq(S) /\ Range(InOrder(S)) = S /\ Ascending(InOrder(S))
<1>1. PICK s \in [1 .. Cardinality(S) -> S] : Range(s) = S /\ Ascending(s)
  BY OrderExists DEF HasOrder
<1>2. /\ InOrder(S) \in [1 .. Cardinality(S) -> S]
      /\ Range(InOrder(S)) = S /\ Ascending(InOrder(S))
  BY <1>1, Zenon DEF InOrder, Ascending
<1>3. Cardinality(S) \in Nat
  BY FS_CardinalityType
<1> QED
  BY <1>2, <1>3

\* The first of an ascending sequence is the least.
LEMMA HeadIsLeast ==
    ASSUME NEW S \in SUBSET Nat, NEW s \in Seq(S), Ascending(s), s # << >>
    PROVE  Head(s) \in Range(s) /\ \A d \in Range(s) : Head(s) <= d
<1>1. /\ Head(s) = s[1] /\ DOMAIN s = 1 .. Len(s) /\ Len(s) \in Nat /\ Len(s) # 0
      /\ \A i \in DOMAIN s : s[i] \in S
  <2>1. DOMAIN s = 1 .. Len(s) /\ Len(s) \in Nat /\ \A i \in DOMAIN s : s[i] \in S
    OBVIOUS
  <2>2. Len(s) # 0
    OBVIOUS
  <2>3. Head(s) = s[1]
    OBVIOUS
  <2> QED
    BY <2>1, <2>2, <2>3
<1>0. 1 \in DOMAIN s /\ \A i \in DOMAIN s : s[i] \in Nat
  <2>1. 1 \in DOMAIN s
    BY <1>1
  <2>2. \A i \in DOMAIN s : s[i] \in Nat
    BY <1>1, Zenon
  <2> QED
    BY <2>1, <2>2
<1>2. \A i \in DOMAIN s : s[1] <= s[i]
  BY <1>0, <1>1 DEF Ascending
<1> QED
  BY <1>0, <1>1, <1>2 DEF Range

\* Only the empty sequence has no members.
LEMMA EmptyRange ==
    ASSUME NEW S, NEW s \in Seq(S)
    PROVE  Range(s) \subseteq S /\ (Range(s) = {} <=> s = << >>)
<1>1. DOMAIN s = 1 .. Len(s) /\ Len(s) \in Nat /\ \A i \in DOMAIN s : s[i] \in S
  OBVIOUS
<1>2. s # << >> => Range(s) # {}
  <2> SUFFICES ASSUME s # << >> PROVE Range(s) # {}
    OBVIOUS
  <2>1. 1 \in DOMAIN s
    OBVIOUS
  <2> QED
    BY <2>1 DEF Range
<1>3. s = << >> => Range(s) = {}
  BY DEF Range
<1>4. Range(s) \subseteq S
  BY <1>1 DEF Range
<1> QED
  BY <1>2, <1>3, <1>4

\* Pushing tasks keeps the order.
LEMMA PushFacts ==
    ASSUME NEW T \in SUBSET Nat, IsFiniteSet(T), NEW s \in Seq(T), Ascending(s), NEW S \in SUBSET T,
           Capability = "fifo" => \A b \in Range(s), d \in S : b < d
    PROVE  Push(s, S) \in Seq(T) /\ Range(Push(s, S)) = Range(s) \cup S /\ Ascending(Push(s, S))
<1>1. CASE Capability = "fifo"
  <2> DEFINE z == InOrder(S)
  <2>1. IsFiniteSet(S)
    BY FS_Subset, Zenon
  <2>2. z \in Seq(S) /\ Range(z) = S /\ Ascending(z)
    BY <2>1, InOrderFacts
  <2> HIDE DEF z
  <2>3. /\ z \in Seq(T) /\ s \o z \in Seq(T) /\ Len(s) \in Nat /\ Len(z) \in Nat
        /\ DOMAIN s = 1 .. Len(s) /\ DOMAIN z = 1 .. Len(z)
        /\ DOMAIN (s \o z) = 1 .. Len(s) + Len(z)
        /\ \A i \in DOMAIN s : (s \o z)[i] = s[i]
        /\ \A i \in Len(s) + 1 .. Len(s) + Len(z) : (s \o z)[i] = z[i - Len(s)]
    BY <2>2
  <2>4. Range(s \o z) = Range(s) \cup S
    <3>1. ASSUME NEW b \in Range(s) PROVE b \in Range(s \o z)
      BY <2>3 DEF Range
    <3>2. ASSUME NEW b \in S PROVE b \in Range(s \o z)
      <4>1. PICK i \in DOMAIN z : z[i] = b
        BY <2>2 DEF Range
      <4>2. Len(s) + i \in Len(s) + 1 .. Len(s) + Len(z) /\ (Len(s) + i) - Len(s) = i
        BY <2>3, <4>1
      <4>3. Len(s) + i \in DOMAIN (s \o z) /\ (s \o z)[Len(s) + i] = b
        BY <2>3, <4>1, <4>2
      <4> QED
        BY <4>3 DEF Range
    <3>3. ASSUME NEW b \in Range(s \o z) PROVE b \in Range(s) \cup S
      <4>1. PICK i \in DOMAIN (s \o z) : (s \o z)[i] = b
        BY DEF Range
      <4>2. CASE i \in DOMAIN s
        BY <2>3, <4>1, <4>2 DEF Range
      <4>3. CASE i \notin DOMAIN s
        <5>1. i \in Len(s) + 1 .. Len(s) + Len(z) /\ i - Len(s) \in DOMAIN z
          BY <2>3, <4>1, <4>3
        <5> QED
          BY <2>2, <2>3, <4>1, <5>1 DEF Range
      <4> QED
        BY <4>2, <4>3
    <3> QED
      BY <3>1, <3>2, <3>3, Zenon
  <2>5. Ascending(s \o z)
    <3> SUFFICES ASSUME NEW i \in DOMAIN (s \o z), NEW j \in DOMAIN (s \o z), i < j
                 PROVE  (s \o z)[i] < (s \o z)[j]
      BY DEF Ascending
    <3>1. CASE j \in DOMAIN s
      BY <2>3, <3>1 DEF Ascending
    <3>2. CASE i \in DOMAIN s /\ j \notin DOMAIN s
      <4>1. j \in Len(s) + 1 .. Len(s) + Len(z) /\ j - Len(s) \in DOMAIN z
        BY <2>3, <3>2
      <4>2. s[i] \in Range(s) /\ z[j - Len(s)] \in S
        BY <2>2, <3>2, <4>1 DEF Range
      <4> QED
        BY <1>1, <2>3, <3>2, <4>1, <4>2, Zenon
    <3>3. CASE i \notin DOMAIN s /\ j \notin DOMAIN s
      <4>1. /\ i \in Len(s) + 1 .. Len(s) + Len(z) /\ i - Len(s) \in DOMAIN z
            /\ j \in Len(s) + 1 .. Len(s) + Len(z) /\ j - Len(s) \in DOMAIN z
            /\ i - Len(s) < j - Len(s)
        BY <2>3, <3>3
      <4> QED
        BY <2>2, <2>3, <4>1 DEF Ascending
    <3> QED
      BY <2>3, <3>1, <3>2, <3>3
  <2> QED
    BY <1>1, <2>3, <2>4, <2>5 DEF Push, z
<1>2. CASE Capability # "fifo"
  <2> DEFINE U == Range(s) \cup S
  <2>1. U \in SUBSET T /\ IsFiniteSet(U)
    <3>1. Range(s) \subseteq T
      BY EmptyRange
    <3> QED
      BY <3>1, FS_Subset, Zenon
  <2>2. InOrder(U) \in Seq(U) /\ Range(InOrder(U)) = U /\ Ascending(InOrder(U))
    BY <2>1, InOrderFacts, Zenon
  <2>3. InOrder(U) \in Seq(T)
    BY <2>1, <2>2
  <2> QED
    BY <1>2, <2>2, <2>3, Zenon DEF Push
<1> QED
  BY <1>1, <1>2

-----------------------------------------------------------------------------
\* The usage queue of one address.

QueueOK(q, T, W, C) ==
    /\ q \in [usage : Usages, users : SUBSET T, blocked : Seq(T)]
    /\ Ascending(q.blocked)
    /\ Sound(q.usage, q.users, Range(q.blocked), T, W, C)

\* What Lock makes of the queue, and whom it delays.
LockedQueue(m, q, t, usage) ==
    LET taken == Reblocked(m, q, t, usage)
        users == q.users \ taken
    IN  IF Granted(q, t, usage, users)
        THEN [usage |-> usage, users |-> users \union {t}, blocked |-> Push(q.blocked, taken)]
        ELSE [q EXCEPT !.users = users, !.blocked = Push(Push(q.blocked, taken), {t})]

Delayed(m, q, t, usage) ==
    LET taken == Reblocked(m, q, t, usage)
    IN  taken \union (IF Granted(q, t, usage, q.users \ taken) THEN {} ELSE {t})

\* A task t that does not use the queue yet may lock it: it is not committed, the
\* others are where they are not blocked, and in block verification it is the last.
MayLock(m, q, T, W, C, t, usage) ==
    /\ T \in SUBSET Nat /\ IsFiniteSet(T) /\ W \in SUBSET T /\ QueueOK(q, T, W, C)
    /\ t \in Nat \ T /\ t \notin C /\ usage \in Usages
    /\ \A u \in T : m.blocked_usage_count[u] > 0 <=> u \notin C
    /\ Capability = "fifo" => \A s \in T : s < t

\* Then the queue is as it should be with t among its tasks.
HasLocked(m, q, T, W, C, t, usage) ==
    /\ QueueOK(LockedQueue(m, q, t, usage), T \cup {t}, WithWriter(W, t, usage), C)
    /\ Range(LockedQueue(m, q, t, usage).blocked)
           = Range(q.blocked) \cup Delayed(m, q, t, usage)
    /\ Delayed(m, q, t, usage) \cap Range(q.blocked) = {}
    /\ Delayed(m, q, t, usage) \subseteq (T \ C) \cup {t}

\* Locking keeps the queue as it should be.
LEMMA LockQueue ==
    ASSUME NEW m, NEW q, NEW T, NEW W, NEW C, NEW t, NEW usage,
           MayLock(m, q, T, W, C, t, usage)
    PROVE  HasLocked(m, q, T, W, C, t, usage)
<1> USE DEF MayLock, HasLocked
<1> DEFINE B == Range(q.blocked)
           taken == Reblocked(m, q, t, usage)
           users == q.users \ taken
           z == Push(q.blocked, taken)
           V == WithWriter(W, t, usage)
<1>1. /\ q.usage \in Usages /\ q.users \in SUBSET T /\ q.blocked \in Seq(T)
      /\ Ascending(q.blocked) /\ Sound(q.usage, q.users, B, T, W, C)
      /\ q = [usage |-> q.usage, users |-> q.users, blocked |-> q.blocked]
  BY DEF QueueOK
<1>2. B \subseteq T /\ (B = {} <=> q.blocked = << >>)
  BY <1>1, EmptyRange
<1>3. taken = {u \in q.users : /\ Capability = "priority"
                               /\ q.usage = "writable" \/ usage = "writable"
                               /\ t < u /\ u \notin C}
  BY <1>1 DEF Reblocked
<1>4. taken \subseteq q.users /\ taken \cap C = {} /\ t \notin B /\ t \notin q.users /\ taken \cap B = {}
  BY <1>1, <1>2, <1>3 DEF Sound
<1>5. Capability \in {"fifo", "priority"}
  BY DEF Capability
<1>6. Capability = "fifo" => taken = {}
  BY <1>3
<1> HIDE DEF taken
<1>7. z \in Seq(T) /\ Range(z) = B \cup taken /\ Ascending(z)
  BY <1>1, <1>4, <1>6, PushFacts
<1>8. IsFiniteSet(T \cup {t}) /\ T \cup {t} \in SUBSET Nat
  BY FS_AddElement, Zenon
<1>9. z \in Seq(T \cup {t})
  BY <1>7
<1>v. V = WithWriter(W, t, usage)
  OBVIOUS
<1> HIDE DEF B, z, V
<1>11. CASE Granted(q, t, usage, users)
  <2>1. LockedQueue(m, q, t, usage)
          = [usage |-> usage, users |-> users \cup {t}, blocked |-> z]
    BY <1>11 DEF LockedQueue, taken, z
  <2>2. Delayed(m, q, t, usage) = taken
    BY <1>11 DEF Delayed, taken
  <2>3. Sound(usage, users \cup {t}, B \cup taken, T \cup {t}, V, C)
    <3>1. CASE Capability = "fifo"
      <4>1. B = {} /\ (users = {} \/ (q.usage = "readonly" /\ usage = "readonly")) /\ users = q.users
        BY <1>2, <1>6, <1>11, <3>1 DEF Granted
      <4>2. Sound(usage, q.users \cup {t}, B, T \cup {t}, V, C)
        <5> QED
          BY <1>1, <1>v, <4>1, FifoGranted, Zenon
      <4>3. B \cup taken = B
        BY <1>6, <3>1
      <4> QED
        BY <4>1, <4>2, <4>3
    <3>2. CASE Capability = "priority"
      <4>1. taken = {u \in q.users : (q.usage = "writable" \/ usage = "writable") /\ t < u /\ u \notin C}
        BY <1>3, <3>2
      <4>2. q.users \ taken = {} \/ (q.usage = "readonly" /\ usage = "readonly" /\ \A b \in B : t < b)
        <5>1. CASE users # {} /\ q.usage = "readonly" /\ usage = "readonly"
          <6>1. q.blocked = << >> \/ t < Head(q.blocked)
            BY <1>11, <3>2, <5>1 DEF Granted, Usages
          <6>2. \A b \in B : t < b
            <7>1. CASE q.blocked = << >>
              BY <1>2, <7>1
            <7>2. CASE q.blocked # << >>
              <8>1. Head(q.blocked) \in B /\ \A d \in B : Head(q.blocked) <= d
                BY <1>1, <7>2, HeadIsLeast DEF B
              <8>2. \A d \in B : d \in Nat
                BY <1>2
              <8> QED
                BY <6>1, <7>2, <8>1, <8>2
            <7> QED
              BY <7>1, <7>2
          <6> QED
            BY <5>1, <6>2
        <5>2. CASE ~(users # {} /\ q.usage = "readonly" /\ usage = "readonly")
          <6>1. users = {}
            BY <1>11, <3>2, <5>2 DEF Granted, Usages
          <6> QED
            BY <5>2, <6>1
        <5> QED
          BY <5>1, <5>2
      <4>3. Sound(usage, (q.users \ taken) \cup {t}, B \cup taken, T \cup {t},
                  V, C)
        <5> QED
          BY <1>1, <1>v, <4>1, <4>2, PriorityGranted, ZenonT(30)
      <4> QED
        BY <4>3
    <3> QED
      BY <1>5, <3>1, <3>2
  <2>4. users \cup {t} \in SUBSET (T \cup {t})
    BY <1>1
  <2> DEFINE new == [usage |-> usage, users |-> users \cup {t}, blocked |-> z]
  <2>5. /\ new \in [usage : Usages, users : SUBSET (T \cup {t}), blocked : Seq(T \cup {t})]
        /\ new.usage = usage /\ new.users = users \cup {t} /\ new.blocked = z
    BY <1>9, <2>4
  <2> HIDE DEF new
  <2>6. QueueOK(new, T \cup {t}, V, C)
    BY <1>7, <2>3, <2>5, Zenon DEF QueueOK
  <2> QED
    BY <1>1, <1>4, <1>7, <2>1, <2>2, <2>5, <2>6 DEF new, B, V
<1>12. CASE ~Granted(q, t, usage, users)
  <2> DEFINE y == Push(z, {t})
  <2>1. LockedQueue(m, q, t, usage)
          = [usage |-> q.usage, users |-> users, blocked |-> y]
    BY <1>1, <1>12, Zenon DEF LockedQueue, taken, z
  <2>2. Delayed(m, q, t, usage) = taken \cup {t}
    BY <1>12 DEF Delayed, taken
  <2>3. y \in Seq(T \cup {t}) /\ Range(y) = B \cup taken \cup {t} /\ Ascending(y)
    <3>1. Capability = "fifo" => \A b \in Range(z), d \in {t} : b < d
      BY <1>2, <1>6, <1>7, Zenon
    <3>2. {t} \in SUBSET (T \cup {t})
      OBVIOUS
    <3>3. y \in Seq(T \cup {t}) /\ Range(y) = Range(z) \cup {t} /\ Ascending(y)
      BY <1>7, <1>8, <1>9, <3>1, <3>2, PushFacts
    <3> QED
      BY <1>7, <3>3, Zenon
  <2> HIDE DEF y
  <2>4. Sound(q.usage, users, B \cup taken \cup {t}, T \cup {t}, V, C)
    <3>1. CASE Capability = "fifo"
      <4>1. ~(B = {} /\ (q.users = {} \/ (q.usage = "readonly" /\ usage = "readonly"))) /\ users = q.users
        BY <1>1, <1>2, <1>6, <1>12, <3>1 DEF Granted, Usages
      <4>2. Sound(q.usage, q.users, B \cup {t}, T \cup {t}, V, C)
        <5>1. \A s \in T : s < t
          BY <3>1
        <5> QED
          BY <1>1, <1>v, <4>1, <5>1, FifoBlocked, Zenon
      <4>3. B \cup taken \cup {t} = B \cup {t}
        BY <1>6, <3>1
      <4> QED
        BY <4>1, <4>2, <4>3, Zenon
    <3>2. CASE Capability = "priority"
      <4>1. taken = {u \in q.users : (q.usage = "writable" \/ usage = "writable") /\ t < u /\ u \notin C}
        BY <1>3, <3>2
      <4>2. q.users \ taken # {} /\ (q.usage = "readonly" /\ usage = "readonly" => \E b \in B : ~(t < b))
        <5>1. CASE users # {} /\ q.usage = "readonly" /\ usage = "readonly"
          <6>1. q.blocked # << >> /\ ~(t < Head(q.blocked))
            BY <1>12, <3>2, <5>1 DEF Granted, Usages
          <6>2. Head(q.blocked) \in B
            BY <1>1, <6>1, HeadIsLeast DEF B
          <6> QED
            BY <5>1, <6>1, <6>2
        <5>2. CASE ~(users # {} /\ q.usage = "readonly" /\ usage = "readonly")
          <6>1. users # {}
            BY <1>1, <1>12, <3>2, <5>2 DEF Granted, Usages
          <6> QED
            BY <5>2, <6>1
        <5> QED
          BY <5>1, <5>2
      <4>3. Sound(q.usage, q.users \ taken, B \cup taken \cup {t}, T \cup {t},
                  V, C)
        <5> QED
          BY <1>1, <1>v, <4>1, <4>2, PriorityBlocked, Zenon
      <4> QED
        BY <4>3
    <3> QED
      BY <1>5, <3>1, <3>2
  <2>5. users \in SUBSET (T \cup {t})
    BY <1>1
  <2> DEFINE new == [usage |-> q.usage, users |-> users, blocked |-> y]
  <2>6. /\ new \in [usage : Usages, users : SUBSET (T \cup {t}), blocked : Seq(T \cup {t})]
        /\ new.usage = q.usage /\ new.users = users /\ new.blocked = y
    BY <1>1, <2>3, <2>5
  <2> HIDE DEF new
  <2>7. QueueOK(new, T \cup {t}, V, C)
    BY <2>3, <2>4, <2>6, Zenon DEF QueueOK
  <2> QED
    BY <1>1, <1>4, <2>1, <2>2, <2>3, <2>6, <2>7 DEF new, B, V
<1> QED
  BY <1>11, <1>12

\* A free address goes to the writer at the front, or to the readers there.
LEMMA LockableFacts ==
    ASSUME NEW T \in SUBSET Nat, NEW W \in SUBSET T, NEW s \in Seq(T), s # << >>, NEW a,
           \A b \in T : RequestedUsage(b, a) = IF b \in W THEN "writable" ELSE "readonly"
    PROVE  /\ Lockable(s, a) \in 1 .. Len(s)
           /\ \/ Lockable(s, a) = 1 /\ s[1] \in W
              \/ /\ \A i \in 1 .. Lockable(s, a) : s[i] \notin W
                 /\ Lockable(s, a) < Len(s) => s[Lockable(s, a) + 1] \in W
<1> DEFINE reads == {k \in 1 .. Len(s) : \A i \in 1 .. k : RequestedUsage(s[i], a) = "readonly"}
           n == Lockable(s, a)
<1>1. Len(s) \in Nat /\ Len(s) >= 1 /\ \A i \in 1 .. Len(s) : s[i] \in T
  <2>1. Len(s) \in Nat /\ \A i \in 1 .. Len(s) : s[i] \in T
    OBVIOUS
  <2>2. Len(s) # 0
    OBVIOUS
  <2> QED
    BY <2>1, <2>2
<1>2. \A i \in 1 .. Len(s) : RequestedUsage(s[i], a) = "readonly" <=> s[i] \notin W
  BY <1>1, Zenon
<1>3. reads = {k \in 1 .. Len(s) : \A i \in 1 .. k : s[i] \notin W}
  BY <1>1, <1>2
<1>4. n = IF reads = {} THEN 1 ELSE CHOOSE k \in reads : k + 1 \notin reads
  BY DEF Lockable
<1> HIDE DEF reads, n
<1>5. CASE reads = {}
  <2>1. s[1] \in W
    BY <1>1, <1>3, <1>5
  <2> QED
    BY <1>1, <1>4, <1>5, <2>1 DEF n
<1>6. CASE reads # {}
  <2>1. 1 \in reads
    BY <1>1, <1>3, <1>6
  <2>2. Len(s) + 1 \notin reads
    BY <1>1, <1>3
  <2> DEFINE over == {k \in Nat : k > 0 /\ k \notin reads}
  <2>3. PICK m \in over : \A k \in over : m <= k
    <3>1. over \subseteq Nat
      OBVIOUS
    <3>2. Len(s) + 1 \in over
      BY <1>1, <2>2
    <3> HIDE DEF over
    <3> QED
      BY <3>1, <3>2, LeastNumber, Zenon
  <2>4. m - 1 \in reads /\ (m - 1) + 1 \notin reads
    BY <2>1, <2>3
  <2>5. n \in reads /\ n + 1 \notin reads
    BY <1>4, <1>6, <2>4, Zenon
  <2>6. n \in 1 .. Len(s) /\ \A i \in 1 .. n : s[i] \notin W
    BY <1>3, <2>5
  <2>7. n < Len(s) => s[n + 1] \in W
    <3> SUFFICES ASSUME n < Len(s), s[n + 1] \notin W PROVE FALSE
      OBVIOUS
    <3>1. n + 1 \in 1 .. Len(s) /\ \A i \in 1 .. n + 1 : i = n + 1 \/ i \in 1 .. n
      BY <1>1, <2>6
    <3> QED
      BY <1>3, <2>5, <2>6, <3>1
  <2> QED
    BY <2>6, <2>7 DEF n
<1> QED
  BY <1>5, <1>6

\* Cutting an ascending sequence in two.
LEMMA CutFacts ==
    ASSUME NEW T \in SUBSET Nat, NEW s \in Seq(T), Ascending(s), NEW n \in 1 .. Len(s)
    PROVE  LET p == SubSeq(s, 1, n)
               r == SubSeq(s, n + 1, Len(s))
           IN  /\ p \in Seq(T) /\ Ascending(p) /\ Len(p) = n /\ \A i \in 1 .. n : p[i] = s[i]
               /\ r \in Seq(T) /\ Ascending(r)
               /\ Range(p) \cup Range(r) = Range(s) /\ Range(p) \cap Range(r) = {}
               /\ s[n] \in Range(p) /\ \A b \in Range(p), d \in Range(r) : b < d
               /\ r = << >> <=> n = Len(s)
               /\ n < Len(s) => s[n + 1] \in Range(r) /\ \A d \in Range(r) : s[n + 1] <= d
<1> DEFINE p == SubSeq(s, 1, n)
           r == SubSeq(s, n + 1, Len(s))
           N == Len(s)
<1>1. N \in Nat /\ n \in Nat /\ 1 <= n /\ n <= N /\ DOMAIN s = 1 .. N /\ \A i \in 1 .. N : s[i] \in T
  OBVIOUS
<1>2. \A i, j \in 1 .. N : i < j => s[i] < s[j]
  BY <1>1 DEF Ascending
<1>3. /\ p \in Seq(T) /\ Len(p) = n /\ DOMAIN p = 1 .. n /\ \A i \in 1 .. n : p[i] = s[i]
  BY <1>1
<1>4. /\ r \in Seq(T) /\ Len(r) = N - n /\ DOMAIN r = 1 .. N - n
      /\ \A i \in 1 .. N - n : r[i] = s[n + i]
  <2>1. r = [i \in 1 .. N - n |-> s[n + i]]
    BY <1>1
  <2>2. N - n \in Nat /\ \A i \in 1 .. N - n : n + i \in 1 .. N
    BY <1>1
  <2>3. \A i \in 1 .. N - n : s[n + i] \in T
    BY <1>1, <2>2
  <2> HIDE DEF r, N
  <2>4. r \in [1 .. N - n -> T]
    BY <2>1, <2>3
  <2> QED
    BY <2>1, <2>2, <2>4, SMTT(30)
<1> HIDE DEF p, r, N
<1>0. \A i \in 1 .. N : s[i] \in Nat
  BY <1>1, Zenon
<1>5. Ascending(p) /\ Ascending(r)
  <2>1. Ascending(p)
    BY <1>1, <1>2, <1>3 DEF Ascending
  <2>2. ASSUME NEW i \in 1 .. N - n, NEW j \in 1 .. N - n, i < j PROVE r[i] < r[j]
    <3>1. n + i \in 1 .. N /\ n + j \in 1 .. N /\ n + i < n + j
      BY <1>1, <2>2
    <3> QED
      BY <1>2, <1>4, <3>1
  <2> QED
    BY <1>4, <2>1, <2>2 DEF Ascending
<1>6. Range(p) = {s[i] : i \in 1 .. n}
  BY <1>3 DEF Range
<1>7. Range(r) = {s[i] : i \in n + 1 .. N}
  <2>1. ASSUME NEW i \in 1 .. N - n PROVE r[i] \in {s[j] : j \in n + 1 .. N}
    <3>1. n + i \in n + 1 .. N /\ r[i] = s[n + i]
      BY <1>1, <1>4
    <3> QED
      BY <3>1
  <2>2. ASSUME NEW j \in n + 1 .. N PROVE s[j] \in Range(r)
    <3>1. j - n \in 1 .. N - n /\ n + (j - n) = j
      BY <1>1
    <3>2. r[j - n] = s[j]
      BY <1>4, <3>1
    <3> QED
      BY <1>4, <3>1, <3>2 DEF Range
  <2> QED
    BY <1>4, <2>1, <2>2 DEF Range
<1>8. Range(s) = {s[i] : i \in 1 .. N}
  BY <1>1 DEF Range
<1>9. Range(p) \cup Range(r) = Range(s)
  BY <1>1, <1>6, <1>7, <1>8
<1>10. \A b \in Range(p), d \in Range(r) : b < d /\ b \in Nat /\ d \in Nat
  BY <1>0, <1>1, <1>2, <1>6, <1>7
<1>11. s[n] \in Range(p) /\ Range(p) \cap Range(r) = {}
  BY <1>1, <1>6, <1>10
<1>12. r = << >> <=> n = N
  BY <1>1, <1>4
<1>13. ASSUME n < N PROVE s[n + 1] \in Range(r) /\ \A d \in Range(r) : s[n + 1] <= d
  <2>1. n + 1 \in n + 1 .. N /\ n + 1 \in 1 .. N /\ s[n + 1] \in Nat
    BY <1>0, <1>1, <1>13
  <2>2. ASSUME NEW j \in n + 1 .. N PROVE s[n + 1] <= s[j]
    <3>1. j \in 1 .. N /\ s[j] \in Nat /\ (j = n + 1 \/ n + 1 < j)
      BY <1>0, <1>1
    <3> QED
      BY <1>2, <2>1, <3>1
  <2> QED
    BY <1>7, <2>1, <2>2
<1> QED
  BY <1>3, <1>4, <1>5, <1>9, <1>10, <1>11, <1>12, <1>13 DEF p, r, N

\* What Unlock makes of the queue, and whom it hands the address to.
Popped(q, t, a) ==
    SubSeq(q.blocked, 1, IF q.users \ {t} = {} THEN Lockable(q.blocked, a) ELSE 0)

UnlockedQueue(q, t, a) ==
    LET users == q.users \ {t}
        n == IF users = {} THEN Lockable(q.blocked, a) ELSE 0
        popped == SubSeq(q.blocked, 1, n)
    IN  IF n = 0 THEN [q EXCEPT !.users = users]
        ELSE [usage |-> RequestedUsage(popped[1], a),
              users |-> Range(popped),
              blocked |-> SubSeq(q.blocked, n + 1, Len(q.blocked))]

\* Task t uses the queue of address a, which is as it should be.
MayUnlock(q, T, W, C, a, t) ==
    /\ T \in SUBSET Nat /\ W \in SUBSET T /\ QueueOK(q, T, W, C) /\ t \in q.users
    /\ \A b \in T : RequestedUsage(b, a) = IF b \in W THEN "writable" ELSE "readonly"

\* Then the queue is as it should be without it.
HasUnlocked(q, T, W, C, a, t) ==
    /\ QueueOK(UnlockedQueue(q, t, a), T \ {t}, W \ {t}, C)
    /\ Popped(q, t, a) \in Seq(T \ C) /\ Ascending(Popped(q, t, a))
    /\ Range(Popped(q, t, a)) \subseteq Range(q.blocked)
    /\ Range(UnlockedQueue(q, t, a).blocked) = Range(q.blocked) \ Range(Popped(q, t, a))

\* Unlocking keeps the queue as it should be.
LEMMA UnlockQueue ==
    ASSUME NEW q, NEW T, NEW W, NEW C, NEW a, NEW t, MayUnlock(q, T, W, C, a, t)
    PROVE  HasUnlocked(q, T, W, C, a, t)
<1> USE DEF MayUnlock, HasUnlocked
<1> DEFINE B == Range(q.blocked)
           new == UnlockedQueue(q, t, a)
           popped == Popped(q, t, a)
<1>1. /\ q.usage \in Usages /\ q.users \in SUBSET T /\ q.blocked \in Seq(T)
      /\ Ascending(q.blocked) /\ Sound(q.usage, q.users, B, T, W, C)
      /\ q = [usage |-> q.usage, users |-> q.users, blocked |-> q.blocked]
  BY DEF QueueOK
<1>2. B \subseteq T /\ (B = {} <=> q.blocked = << >>) /\ B \cap C = {} /\ t \notin B
  BY <1>1, EmptyRange DEF Sound
<1>3. q.blocked \in Seq(T \ {t})
  <2>1. \A i \in 1 .. Len(q.blocked) : q.blocked[i] \in B
    BY <1>1 DEF Range
  <2>2. \A i \in 1 .. Len(q.blocked) : q.blocked[i] \in T \ {t}
    BY <1>2, <2>1
  <2> QED
    BY <1>1, <2>2
<1> HIDE DEF B
<1>4. CASE q.users \ {t} # {} \/ B = {}
  <2>1. /\ (IF q.users \ {t} = {} THEN Lockable(q.blocked, a) ELSE 0) = 0
    BY <1>2, <1>4 DEF Lockable
  <2>2. new = [usage |-> q.usage, users |-> q.users \ {t}, blocked |-> q.blocked]
    BY <1>1, <2>1, Zenon DEF UnlockedQueue
  <2>3. popped = << >>
    BY <1>1, <2>1 DEF Popped
  <2>4. /\ new \in [usage : Usages, users : SUBSET (T \ {t}), blocked : Seq(T \ {t})]
        /\ new.usage = q.usage /\ new.users = q.users \ {t} /\ new.blocked = q.blocked
    BY <1>1, <1>3, <2>2
  <2>5. Sound(q.usage, q.users \ {t}, B, T \ {t}, W \ {t}, C)
    BY <1>1, <1>4, UserLeaves, Zenon
  <2> HIDE DEF new, popped
  <2>6. QueueOK(new, T \ {t}, W \ {t}, C)
    BY <1>1, <2>4, <2>5 DEF QueueOK, B
  <2>7. Range(<< >>) = {} /\ << >> \in Seq(T \ C) /\ Ascending(<< >>)
    BY DEF Range, Ascending
  <2> QED
    BY <2>3, <2>4, <2>6, <2>7 DEF new, popped
<1>5. CASE q.users \ {t} = {} /\ B # {}
  <2> DEFINE n == Lockable(q.blocked, a)
             p == SubSeq(q.blocked, 1, n)
             r == SubSeq(q.blocked, n + 1, Len(q.blocked))
             mine == RequestedUsage(p[1], a)
  <2>1. /\ n \in 1 .. Len(q.blocked)
        /\ \/ n = 1 /\ q.blocked[1] \in W
           \/ /\ \A i \in 1 .. n : q.blocked[i] \notin W
              /\ n < Len(q.blocked) => q.blocked[n + 1] \in W
    BY <1>1, <1>2, <1>5, LockableFacts, Zenon
  <2>2. new = [usage |-> mine, users |-> Range(p), blocked |-> r] /\ popped = p
    <3>1. n # 0
      BY <1>1, <2>1
    <3> HIDE DEF n
    <3>2. popped = p
      BY <1>5, Zenon DEF Popped, n
    <3>3. new = [usage |-> mine, users |-> Range(p), blocked |-> r]
      BY <1>5, <3>1, Zenon DEF UnlockedQueue, n
    <3> QED
      BY <3>2, <3>3
  <2>3. /\ p \in Seq(T) /\ Ascending(p) /\ Len(p) = n /\ \A i \in 1 .. n : p[i] = q.blocked[i]
        /\ r \in Seq(T) /\ Ascending(r)
        /\ Range(p) \cup Range(r) = B /\ Range(p) \cap Range(r) = {}
        /\ q.blocked[n] \in Range(p) /\ \A b \in Range(p), d \in Range(r) : b < d
        /\ r = << >> <=> n = Len(q.blocked)
        /\ n < Len(q.blocked) =>
              q.blocked[n + 1] \in Range(r) /\ \A d \in Range(r) : q.blocked[n + 1] <= d
    <3> HIDE DEF n
    <3> QED
      BY <1>1, <2>1, CutFacts, Zenon DEF B
  <2> HIDE DEF n, p, r
  <2>4. 1 \in 1 .. n /\ p[1] = q.blocked[1] /\ p[1] \in T /\ n \in Nat /\ Len(q.blocked) \in Nat
    BY <1>1, <2>1, <2>3, SMTT(30)
  <2>5. mine \in Usages /\ (mine = "writable" <=> p[1] \in W)
    BY <2>4, Zenon DEF Usages
  <2> HIDE DEF mine
  <2>6. Range(p) = {p[i] : i \in 1 .. n}
    BY <2>3, <2>4, SMTT(30) DEF Range
  <2>7. /\ Range(p) \in SUBSET B /\ Range(p) # {} /\ B \ Range(p) = Range(r)
        /\ \A b \in Range(p), d \in B \ Range(p) : b < d
    BY <2>3
  <2>8. /\ \A b \in Range(p) : b \in W <=> mine = "writable"
        /\ mine = "writable" => \A b, d \in Range(p) : b = d
    <3>1. CASE n = 1 /\ q.blocked[1] \in W
      BY <2>3, <2>4, <2>5, <2>6, <3>1
    <3>2. CASE \A i \in 1 .. n : q.blocked[i] \notin W
      BY <2>3, <2>4, <2>5, <2>6, <3>2
    <3> QED
      BY <2>1, <3>1, <3>2
  <2>9. mine = "readonly" =>
            \A b \in B \ Range(p) : (\A d \in B \ Range(p) : b <= d) => b \in W
    <3> SUFFICES ASSUME mine = "readonly", NEW b \in Range(r), \A d \in Range(r) : b <= d
                 PROVE  b \in W
      BY <2>7
    <3>1. n < Len(q.blocked)
      <4>1. Range(r) = {} <=> r = << >>
        BY <2>3, EmptyRange
      <4> QED
        BY <2>1, <2>3, <2>4, <4>1
    <3>2. q.blocked[n + 1] \in W
      BY <2>1, <2>4, <2>5, <3>1
    <3>3. b = q.blocked[n + 1]
      <4>1. b \in Nat /\ q.blocked[n + 1] \in Nat
        BY <1>2, <2>3, <3>1, Zenon
      <4> QED
        BY <2>3, <3>1, <4>1
    <3> QED
      BY <3>2, <3>3
  <2>10. Sound(mine, Range(p), B \ Range(p), T \ {t}, W \ {t}, C)
    BY <1>1, <1>5, <2>5, <2>7, <2>8, <2>9, HandedOn, Zenon
  <2>11. /\ new \in [usage : Usages, users : SUBSET (T \ {t}), blocked : Seq(T \ {t})]
         /\ new.usage = mine /\ new.users = Range(p) /\ new.blocked = r
    <3>1. Range(p) \subseteq T \ {t} /\ Range(r) \subseteq T \ {t}
      BY <1>2, <2>7, Zenon
    <3>2. r \in Seq(T \ {t})
      <4>1. \A i \in 1 .. Len(r) : r[i] \in T \ {t}
        BY <2>3, <3>1 DEF Range
      <4> QED
        BY <2>3, <4>1
    <3> QED
      BY <2>2, <2>5, <3>1, <3>2
  <2>12. p \in Seq(T \ C)
    <3>1. \A i \in 1 .. Len(p) : p[i] \in T \ C
      <4>1. \A i \in 1 .. Len(p) : p[i] \in Range(p)
        BY <2>3 DEF Range
      <4> QED
        BY <1>2, <2>7, <4>1, Zenon
    <3> QED
      BY <2>3, <3>1
  <2> HIDE DEF new, popped
  <2>13. QueueOK(new, T \ {t}, W \ {t}, C)
    BY <2>3, <2>7, <2>10, <2>11, Zenon DEF QueueOK
  <2> QED
    BY <2>2, <2>3, <2>7, <2>11, <2>12, <2>13, Zenon DEF new, popped, B
<1> QED
  BY <1>4, <1>5

(* ------------------------------- the loops ------------------------------ *)

LocksInSteps(g, m, t, x, n) ==
    /\ g[0] = m
    /\ \A i \in 1 .. n : g[i] = Lock(g[i - 1], t, LockContexts[x][i])
    /\ try_lock_usage_queues(m, t, x) = g[n]

UnlocksInSteps(g, m, t, n) ==
    /\ g[0] = m
    /\ \A i \in 1 .. n : g[i] = Unlock(g[i - 1], t, LockContexts[tx[t]][i])
    /\ unlock_usage_queues(m, t) = g[n]

\* The loop of try_lock_usage_queues goes through its steps.
LEMMA LockSteps ==
    ASSUME NEW m, NEW t, NEW x, NEW n \in Nat, n = Len(LockContexts[x])
    PROVE  \E g : LocksInSteps(g, m, t, x, n)
<1> DEFINE Loop(g, k) == g = [i \in 0 .. k |-> IF i = 0 THEN m ELSE Lock(g[i - 1], t, LockContexts[x][i])]
           S == {k \in Nat : \E g : Loop(g, k)}
<1>1. 0 \in S
  <2> DEFINE g == [i \in 0 .. 0 |-> m]
  <2>1. Loop(g, 0)
    OBVIOUS
  <2> HIDE DEF Loop, g
  <2> QED
    BY <2>1, Zenon
<1>2. ASSUME NEW k \in Nat, k \in S PROVE k + 1 \in S
  <2>1. PICK g : Loop(g, k)
    BY <1>2
  <2> DEFINE h == [i \in 0 .. k + 1 |-> IF i = k + 1 THEN Lock(g[k], t, LockContexts[x][k + 1]) ELSE g[i]]
  <2>2. ASSUME NEW i \in 0 .. k + 1
        PROVE  h[i] = IF i = 0 THEN m ELSE Lock(h[i - 1], t, LockContexts[x][i])
    <3>1. CASE i = k + 1
      <4>1. h[k + 1] = Lock(g[k], t, LockContexts[x][k + 1]) /\ h[k] = g[k] /\ k + 1 # 0 /\ (k + 1) - 1 = k
        <5> HIDE DEF Loop
        <5> QED
          OBVIOUS
      <4> QED
        BY <3>1, <4>1, Zenon
    <3>2. CASE i \in 0 .. k
      <4>1. h[i] = g[i] /\ (i # 0 => h[i - 1] = g[i - 1])
        BY <3>2
      <4>2. g[i] = IF i = 0 THEN m ELSE Lock(g[i - 1], t, LockContexts[x][i])
        BY <2>1, <3>2, Zenon
      <4> HIDE DEF h, Loop
      <4> QED
        BY <4>1, <4>2, Zenon
    <3> QED
      BY <3>1, <3>2
  <2>3. h = [i \in 0 .. k + 1 |-> h[i]]
    OBVIOUS
  <2> HIDE DEF h
  <2>4. Loop(h, k + 1)
    BY <2>2, <2>3, Zenon
  <2>5. k + 1 \in Nat
    OBVIOUS
  <2> HIDE DEF Loop
  <2> QED
    BY <2>4, <2>5, Zenon
<1> HIDE DEF Loop
<1>3. \E g : Loop(g, n)
  <2>1. \A k \in Nat : k \in S
    <3> HIDE DEF S
    <3> QED
      BY <1>1, <1>2, Induction
  <2> QED
    BY <2>1, Zenon
<1> DEFINE after == CHOOSE g : Loop(g, n)
<1>4. Loop(after, n)
  BY <1>3, Zenon
<1>5. try_lock_usage_queues(m, t, x) = after[n]
  BY Zenon DEF try_lock_usage_queues, Loop
<1> HIDE DEF after
<1>6. \A i \in 0 .. n : after[i] = IF i = 0 THEN m ELSE Lock(after[i - 1], t, LockContexts[x][i])
  BY <1>4, Zenon DEF Loop
<1>7. after[0] = m /\ \A i \in 1 .. n : after[i] = Lock(after[i - 1], t, LockContexts[x][i])
  BY <1>6
<1>8. LocksInSteps(after, m, t, x, n)
  BY <1>5, <1>7, Zenon DEF LocksInSteps
<1> QED
  BY <1>8, Zenon

\* The loop of unlock_usage_queues goes through its steps.
LEMMA UnlockSteps ==
    ASSUME NEW m, NEW t, NEW n \in Nat, n = Len(LockContexts[tx[t]])
    PROVE  \E g : UnlocksInSteps(g, m, t, n)
<1> DEFINE Loop(g, k) == g = [i \in 0 .. k |-> IF i = 0 THEN m ELSE Unlock(g[i - 1], t, LockContexts[tx[t]][i])]
           S == {k \in Nat : \E g : Loop(g, k)}
<1>1. 0 \in S
  <2> DEFINE g == [i \in 0 .. 0 |-> m]
  <2>1. Loop(g, 0)
    OBVIOUS
  <2> HIDE DEF Loop, g
  <2> QED
    BY <2>1, Zenon
<1>2. ASSUME NEW k \in Nat, k \in S PROVE k + 1 \in S
  <2>1. PICK g : Loop(g, k)
    BY <1>2, Zenon
  <2> DEFINE h == [i \in 0 .. k + 1 |-> IF i = k + 1 THEN Unlock(g[k], t, LockContexts[tx[t]][k + 1]) ELSE g[i]]
  <2>2. ASSUME NEW i \in 0 .. k + 1
        PROVE  h[i] = IF i = 0 THEN m ELSE Unlock(h[i - 1], t, LockContexts[tx[t]][i])
    <3>1. CASE i = k + 1
      <4>1. h[k + 1] = Unlock(g[k], t, LockContexts[tx[t]][k + 1]) /\ h[k] = g[k] /\ k + 1 # 0 /\ (k + 1) - 1 = k
        <5> HIDE DEF Loop
        <5> QED
          OBVIOUS
      <4> QED
        BY <3>1, <4>1, Zenon
    <3>2. CASE i \in 0 .. k
      <4>1. h[i] = g[i] /\ (i # 0 => h[i - 1] = g[i - 1])
        BY <3>2
      <4>2. g[i] = IF i = 0 THEN m ELSE Unlock(g[i - 1], t, LockContexts[tx[t]][i])
        BY <2>1, <3>2, Zenon
      <4> HIDE DEF h, Loop
      <4> QED
        BY <4>1, <4>2, Zenon
    <3> QED
      BY <3>1, <3>2
  <2>3. h = [i \in 0 .. k + 1 |-> h[i]]
    OBVIOUS
  <2> HIDE DEF h
  <2>4. Loop(h, k + 1)
    BY <2>2, <2>3, Zenon
  <2>5. k + 1 \in Nat
    OBVIOUS
  <2> HIDE DEF Loop
  <2> QED
    BY <2>4, <2>5, Zenon
<1> HIDE DEF Loop
<1>3. \E g : Loop(g, n)
  <2>1. \A k \in Nat : k \in S
    <3> HIDE DEF S
    <3> QED
      BY <1>1, <1>2, Induction
  <2> QED
    BY <2>1, Zenon
<1> DEFINE after == CHOOSE g : Loop(g, n)
<1>4. Loop(after, n)
  BY <1>3, Zenon
<1>5. unlock_usage_queues(m, t) = after[n]
  BY Zenon DEF unlock_usage_queues, Loop
<1> HIDE DEF after
<1>6. \A i \in 0 .. n : after[i] = IF i = 0 THEN m ELSE Unlock(after[i - 1], t, LockContexts[tx[t]][i])
  BY <1>4, Zenon DEF Loop
<1>7. after[0] = m /\ \A i \in 1 .. n : after[i] = Unlock(after[i - 1], t, LockContexts[tx[t]][i])
  BY <1>6
<1>8. UnlocksInSteps(after, m, t, n)
  BY <1>5, <1>7, Zenon DEF UnlocksInSteps
<1> QED
  BY <1>8, Zenon

WokenBy(m, queue, u) ==
    IF m.blocked_usage_count[u] = 1 THEN Append(queue, u) ELSE queue

\* The loop of Woken goes through its steps.
LEMMA WokenSteps ==
    ASSUME NEW m, NEW p, NEW n \in Nat, n = Len(p)
    PROVE  \E g : /\ g[0] = m.unblocked_task_queue
                  /\ \A i \in 1 .. n : g[i] = WokenBy(m, g[i - 1], p[i])
                  /\ Woken(m, p) = g[n]
<1> DEFINE Loop(g, k) == g = [i \in 0 .. k |-> IF i = 0 THEN m.unblocked_task_queue ELSE WokenBy(m, g[i - 1], p[i])]
           S == {k \in Nat : \E g : Loop(g, k)}
<1>1. 0 \in S
  <2> DEFINE g == [i \in 0 .. 0 |-> m.unblocked_task_queue]
  <2>1. Loop(g, 0)
    OBVIOUS
  <2> HIDE DEF Loop, g
  <2> QED
    BY <2>1, Zenon
<1>2. ASSUME NEW k \in Nat, k \in S PROVE k + 1 \in S
  <2>1. PICK g : Loop(g, k)
    BY <1>2
  <2> DEFINE h == [i \in 0 .. k + 1 |-> IF i = k + 1 THEN WokenBy(m, g[k], p[k + 1]) ELSE g[i]]
  <2>2. ASSUME NEW i \in 0 .. k + 1
        PROVE  h[i] = IF i = 0 THEN m.unblocked_task_queue ELSE WokenBy(m, h[i - 1], p[i])
    <3>1. CASE i = k + 1
      <4>1. h[k + 1] = WokenBy(m, g[k], p[k + 1]) /\ h[k] = g[k] /\ k + 1 # 0 /\ (k + 1) - 1 = k
        <5> HIDE DEF Loop
        <5> QED
          OBVIOUS
      <4> QED
        BY <3>1, <4>1, Zenon
    <3>2. CASE i \in 0 .. k
      <4>1. h[i] = g[i] /\ (i # 0 => h[i - 1] = g[i - 1])
        BY <3>2
      <4>2. g[i] = IF i = 0 THEN m.unblocked_task_queue ELSE WokenBy(m, g[i - 1], p[i])
        BY <2>1, <3>2, Zenon
      <4> HIDE DEF h, Loop
      <4> QED
        BY <4>1, <4>2, Zenon
    <3> QED
      BY <3>1, <3>2
  <2>3. h = [i \in 0 .. k + 1 |-> h[i]]
    OBVIOUS
  <2> HIDE DEF h
  <2>4. Loop(h, k + 1)
    BY <2>2, <2>3, Zenon
  <2>5. k + 1 \in Nat
    OBVIOUS
  <2> HIDE DEF Loop
  <2> QED
    BY <2>4, <2>5, Zenon
<1> HIDE DEF Loop
<1>3. \E g : Loop(g, n)
  <2>1. \A k \in Nat : k \in S
    <3> HIDE DEF S
    <3> QED
      BY <1>1, <1>2, Induction
  <2> QED
    BY <2>1, Zenon
<1> DEFINE after == CHOOSE g : Loop(g, n)
<1>4. Loop(after, n)
  BY <1>3, Zenon
<1>5. Woken(m, p) = after[n]
  BY Zenon DEF Woken, Loop, WokenBy
<1> HIDE DEF after
<1>6. \A i \in 0 .. n : after[i] = IF i = 0 THEN m.unblocked_task_queue ELSE WokenBy(m, after[i - 1], p[i])
  BY <1>4, Zenon DEF Loop
<1>7. after[0] = m.unblocked_task_queue /\ \A i \in 1 .. n : after[i] = WokenBy(m, after[i - 1], p[i])
  BY <1>6
<1> QED
  BY <1>5, <1>7, Zenon

Injective(s) == \A i, j \in DOMAIN s : s[i] = s[j] => i = j

\* A sequence without repetition grows by something new.
LEMMA AppendFacts ==
    ASSUME NEW S, NEW s \in Seq(S), NEW e \in S
    PROVE  /\ Append(s, e) \in Seq(S) /\ Range(Append(s, e)) = Range(s) \cup {e}
           /\ Injective(s) /\ e \notin Range(s) => Injective(Append(s, e))
<1> DEFINE r == Append(s, e)
           n == Len(s)
<1>1. n \in Nat /\ DOMAIN s = 1 .. n /\ r \in Seq(S) /\ DOMAIN r = 1 .. n + 1
      /\ r[n + 1] = e /\ \A i \in 1 .. n : r[i] = s[i]
  OBVIOUS
<1> HIDE DEF r, n
<1>2. Range(r) = Range(s) \cup {e}
  BY <1>1 DEF Range
<1>3. ASSUME Injective(s), e \notin Range(s), NEW i \in 1 .. n + 1, NEW j \in 1 .. n + 1, r[i] = r[j]
      PROVE  i = j
  <2>1. \A k \in 1 .. n : s[k] # e
    BY <1>1, <1>3 DEF Range
  <2>2. (i \in 1 .. n \/ i = n + 1) /\ (j \in 1 .. n \/ j = n + 1)
    BY <1>1
  <2> QED
    BY <1>1, <1>3, <2>1, <2>2 DEF Injective
<1>4. Injective(s) /\ e \notin Range(s) => Injective(r)
  BY <1>1, <1>3 DEF Injective
<1> QED
  BY <1>1, <1>2, <1>4 DEF r

\* The tasks that got their last address are queued once each.
LEMMA WokenFacts ==
    ASSUME NEW m, NEW S, m.unblocked_task_queue \in Seq(S), Injective(m.unblocked_task_queue),
           NEW p \in Seq(S), Injective(p),
           \A u \in Range(p) : u \notin Range(m.unblocked_task_queue)
    PROVE  /\ Woken(m, p) \in Seq(S) /\ Injective(Woken(m, p))
           /\ Range(Woken(m, p)) = Range(m.unblocked_task_queue)
                                     \cup {u \in Range(p) : m.blocked_usage_count[u] = 1}
<1> DEFINE Q == m.unblocked_task_queue
           n == Len(p)
           On(i) == {p[j] : j \in {k \in 1 .. i : m.blocked_usage_count[p[k]] = 1}}
<1>1. n \in Nat /\ DOMAIN p = 1 .. n /\ \A i \in 1 .. n : p[i] \in S /\ p[i] \in Range(p)
  BY DEF Range
<1> HIDE DEF n, Q
<1>2. PICK g : /\ g[0] = m.unblocked_task_queue
               /\ \A i \in 1 .. n : g[i] = WokenBy(m, g[i - 1], p[i])
               /\ Woken(m, p) = g[n]
  <2>1. n \in Nat /\ n = Len(p)
    BY <1>1 DEF n
  <2> QED
    BY <2>1, WokenSteps
<1> DEFINE Good(i) == g[i] \in Seq(S) /\ Injective(g[i]) /\ Range(g[i]) = Range(Q) \cup On(i)
           I == {i \in Nat : i <= n => Good(i)}
<1>3. 0 \in I
  <2>1. On(0) = {}
    OBVIOUS
  <2> HIDE DEF On
  <2> QED
    BY <1>2, <2>1 DEF Q
<1>4. ASSUME NEW i \in Nat, i \in I PROVE i + 1 \in I
  <2> SUFFICES ASSUME i + 1 <= n PROVE Good(i + 1)
    BY <1>4
  <2>1. i + 1 \in 1 .. n /\ (i + 1) - 1 = i /\ i <= n
    BY <1>1
  <2>2. Good(i)
    BY <1>4, <2>1
  <2>3. g[i + 1] = WokenBy(m, g[i], p[i + 1])
    BY <1>2, <2>1
  <2>4. p[i + 1] \in S /\ p[i + 1] \notin Range(Q) /\ p[i + 1] \notin On(i)
    <3>1. \A j \in 1 .. i : j \in 1 .. n /\ j # i + 1
      BY <1>1, <2>1
    <3>2. \A j \in 1 .. i : p[j] # p[i + 1]
      BY <1>1, <2>1, <3>1 DEF Injective
    <3> QED
      BY <1>1, <2>1, <3>2 DEF Q
  <2>5. On(i + 1) = IF m.blocked_usage_count[p[i + 1]] = 1 THEN On(i) \cup {p[i + 1]} ELSE On(i)
    <3>1. 1 .. i + 1 = 1 .. i \cup {i + 1}
      OBVIOUS
    <3> QED
      BY <3>1
  <2> HIDE DEF On
  <2>6. CASE m.blocked_usage_count[p[i + 1]] = 1
    <3>1. g[i + 1] = Append(g[i], p[i + 1])
      BY <2>3, <2>6 DEF WokenBy
    <3> QED
      BY <2>2, <2>4, <2>5, <2>6, <3>1, AppendFacts
  <2>7. CASE m.blocked_usage_count[p[i + 1]] # 1
    BY <2>2, <2>3, <2>5, <2>7 DEF WokenBy
  <2> QED
    BY <2>6, <2>7
<1>5. Good(n)
  <2>1. \A i \in Nat : i \in I
    <3> HIDE DEF I
    <3> QED
      BY <1>3, <1>4, Induction
  <2> HIDE DEF Good
  <2> QED
    BY <1>1, <2>1
<1>6. On(n) = {u \in Range(p) : m.blocked_usage_count[u] = 1}
  BY <1>1, Zenon DEF Range
<1> QED
  BY <1>2, <1>5, <1>6 DEF Q

(* ------------------------------ the machine ----------------------------- *)

Wants(x, a) == \E c \in Range(LockContexts[x]) : c.address = a
Writes(x, a) == \E c \in Range(LockContexts[x]) : c.address = a /\ c.usage = "writable"

\* The tasks of f that have asked for address a and still do: X are the pairs of
\* tasks and addresses that are left out.
Asking(f, X, a) == {s \in DOMAIN f : Wants(f[s], a) /\ <<s, a>> \notin X}
Writing(f, X, a) == {s \in Asking(f, X, a) : Writes(f[s], a)}

BlockedAt(m, s) == {a \in Addresses : s \in Range(m.queues[a].blocked)}

ActiveOK(f) ==
    DOMAIN f \subseteq Tasks /\ IsFiniteSet(DOMAIN f) /\ \A s \in DOMAIN f : f[s] \in Transactions

FormOK(m) ==
    /\ m = [queues |-> m.queues, blocked_usage_count |-> m.blocked_usage_count,
            unblocked_task_queue |-> m.unblocked_task_queue]
    /\ m.queues = [a \in Addresses |-> m.queues[a]]
    /\ m.blocked_usage_count \in [Tasks -> Nat]

QueuesOK(m, f, X, C) ==
    \A a \in Addresses : QueueOK(m.queues[a], Asking(f, X, a), Writing(f, X, a), C)

CountsOK(m) ==
    \A s \in Tasks : /\ IsFiniteSet(BlockedAt(m, s))
                     /\ m.blocked_usage_count[s] = Cardinality(BlockedAt(m, s))

MachineOK(m, f, X, C) == FormOK(m) /\ QueuesOK(m, f, X, C) /\ CountsOK(m)

\* A transaction has one lock context for an address.
LEMMA ContextFacts ==
    ASSUME NEW x \in Transactions, NEW c \in Range(LockContexts[x])
    PROVE  /\ c \in [address : Addresses, usage : Usages]
           /\ Wants(x, c.address) /\ (Writes(x, c.address) <=> c.usage = "writable")
<1>1. /\ LockContexts[x] \in Seq([address : Addresses, usage : Usages])
      /\ \A i, j \in DOMAIN LockContexts[x] :
            LockContexts[x][i].address = LockContexts[x][j].address => i = j
  BY LocksAssumption, Zenon DEF Usages
<1>2. PICK i \in DOMAIN LockContexts[x] : c = LockContexts[x][i]
  BY DEF Range
<1>3. c \in [address : Addresses, usage : Usages]
  <2>1. ASSUME NEW K, NEW s \in Seq(K), NEW j \in DOMAIN s PROVE s[j] \in K
    OBVIOUS
  <2> QED
    BY <1>1, <1>2, <2>1, Zenon
<1>4. ASSUME NEW d \in Range(LockContexts[x]), d.address = c.address PROVE d = c
  <2>1. PICK j \in DOMAIN LockContexts[x] : d = LockContexts[x][j]
    BY DEF Range
  <2> QED
    BY <1>1, <1>2, <1>4, <2>1
<1> QED
  BY <1>3, <1>4, Zenon DEF Wants, Writes

\* The usage that is read back from the lock contexts is the one asked for.
LEMMA RequestedFacts ==
    ASSUME NEW s, NEW a, tx[s] \in Transactions, Wants(tx[s], a)
    PROVE  RequestedUsage(s, a) = IF Writes(tx[s], a) THEN "writable" ELSE "readonly"
<1>1. PICK c \in Range(LockContexts[tx[s]]) : c.address = a
  BY DEF Wants
<1>2. c = [address |-> a, usage |-> c.usage] /\ c.usage \in Usages
  BY <1>1, ContextFacts
<1>3. \A u \in Usages : [address |-> a, usage |-> u] \in Range(LockContexts[tx[s]]) <=> u = c.usage
  <2>1. ASSUME NEW u \in Usages, [address |-> a, usage |-> u] \in Range(LockContexts[tx[s]])
        PROVE  u = c.usage
    <3>1. /\ Writes(tx[s], a) <=> [address |-> a, usage |-> u].usage = "writable"
      <4>1. [address |-> a, usage |-> u].address = a
        OBVIOUS
      <4> QED
        BY <2>1, <4>1, ContextFacts, Zenon
    <3>2. Writes(tx[s], a) <=> c.usage = "writable"
      BY <1>1, ContextFacts
    <3> QED
      BY <1>2, <3>1, <3>2 DEF Usages
  <2> QED
    BY <1>1, <1>2, <2>1
<1>4. RequestedUsage(s, a) = c.usage
  BY <1>2, <1>3, Zenon DEF RequestedUsage, Usages
<1>5. Writes(tx[s], a) <=> c.usage = "writable"
  BY <1>1, ContextFacts
<1> QED
  BY <1>2, <1>4, <1>5 DEF Usages

\* The tasks that ask for an address are numbers, and finitely many.
LEMMA AskingFacts ==
    ASSUME NEW f, ActiveOK(f), NEW X, NEW a
    PROVE  /\ Asking(f, X, a) \in SUBSET Nat /\ Asking(f, X, a) \subseteq DOMAIN f
           /\ IsFiniteSet(Asking(f, X, a)) /\ Writing(f, X, a) \in SUBSET Asking(f, X, a)
<1>1. Asking(f, X, a) \subseteq DOMAIN f /\ DOMAIN f \subseteq Nat
  BY LocksAssumption, Zenon DEF Asking, ActiveOK
<1>2. IsFiniteSet(Asking(f, X, a))
  BY <1>1, FS_Subset, Zenon DEF ActiveOK
<1> QED
  BY <1>1, <1>2 DEF Writing

\* What one iteration of try_lock_usage_queues does to the machine.
LEMMA LockEffect ==
    ASSUME NEW m, FormOK(m), NEW t, NEW c, c.address \in Addresses
    PROVE  LET n == Lock(m, t, c)
               q == m.queues[c.address]
               more == Delayed(m, q, t, c.usage)
           IN  /\ FormOK(n) /\ n.unblocked_task_queue = m.unblocked_task_queue
               /\ n.queues[c.address] = LockedQueue(m, q, t, c.usage)
               /\ \A b \in Addresses \ {c.address} : n.queues[b] = m.queues[b]
               /\ \A u \in Tasks : n.blocked_usage_count[u]
                      = IF u \in more THEN m.blocked_usage_count[u] + 1 ELSE m.blocked_usage_count[u]
<1> DEFINE n == Lock(m, t, c)
           q == m.queues[c.address]
           new == LockedQueue(m, q, t, c.usage)
           more == Delayed(m, q, t, c.usage)
           counts == [u \in Tasks |-> IF u \in more THEN m.blocked_usage_count[u] + 1
                                                    ELSE m.blocked_usage_count[u]]
<1>1. n = [m EXCEPT !.queues[c.address] = new, !.blocked_usage_count = counts]
  BY Zenon DEF Lock, LockedQueue, Delayed
<1> HIDE DEF n, new, more
<1>2. n = [queues |-> [m.queues EXCEPT ![c.address] = new], blocked_usage_count |-> counts,
           unblocked_task_queue |-> m.unblocked_task_queue]
  BY <1>1, Zenon DEF FormOK
<1>3. counts \in [Tasks -> Nat]
  BY DEF FormOK
<1> HIDE DEF counts
<1>4. /\ n.queues = [m.queues EXCEPT ![c.address] = new] /\ n.blocked_usage_count = counts
      /\ n.unblocked_task_queue = m.unblocked_task_queue
  BY <1>2
<1>5. FormOK(n)
  BY <1>2, <1>3, <1>4 DEF FormOK
<1>6. n.queues[c.address] = new /\ \A b \in Addresses \ {c.address} : n.queues[b] = m.queues[b]
  BY <1>4 DEF FormOK
<1>7. \A u \in Tasks : n.blocked_usage_count[u]
          = IF u \in more THEN m.blocked_usage_count[u] + 1 ELSE m.blocked_usage_count[u]
  BY <1>4 DEF counts
<1> QED
  BY <1>4, <1>5, <1>6, <1>7 DEF n, new, more

\* Adding to or removing from where a task is blocked.
LEMMA CountFacts ==
    ASSUME NEW S, IsFiniteSet(S), NEW a
    PROVE  /\ a \notin S => IsFiniteSet(S \cup {a}) /\ Cardinality(S \cup {a}) = Cardinality(S) + 1
           /\ a \in S => IsFiniteSet(S \ {a}) /\ Cardinality(S \ {a}) = Cardinality(S) - 1
           /\ Cardinality(S) \in Nat /\ (Cardinality(S) = 0 <=> S = {})
  BY FS_AddElement, FS_RemoveElement, FS_EmptySet, FS_CardinalityType, Zenon

\* Task t is being given its addresses, those of X are to come.
Locking(m, f, t, X, C) ==
    /\ ActiveOK(f) /\ t \in DOMAIN f /\ t \notin C /\ MachineOK(m, f, X, C)
    /\ \A s \in DOMAIN f \ {t} : m.blocked_usage_count[s] > 0 <=> s \notin C
    /\ Capability = "fifo" => \A s \in DOMAIN f \ {t} : s < t

\* One iteration of try_lock_usage_queues for task t and its context c.
LEMMA LockStep ==
    ASSUME NEW m, NEW f, NEW t, NEW X, NEW C, Locking(m, f, t, X, C),
           NEW c \in Range(LockContexts[f[t]]), <<t, c.address>> \in X
    PROVE  /\ Locking(Lock(m, t, c), f, t, X \ {<<t, c.address>>}, C)
           /\ Lock(m, t, c).unblocked_task_queue = m.unblocked_task_queue
<1> USE DEF Locking
<1> DEFINE a == c.address
           n == Lock(m, t, c)
           q == m.queues[a]
           Y == X \ {<<t, a>>}
           T == Asking(f, X, a)
           W == Writing(f, X, a)
           new == LockedQueue(m, q, t, c.usage)
           more == Delayed(m, q, t, c.usage)
<1>1. /\ c \in [address : Addresses, usage : Usages] /\ Wants(f[t], a)
      /\ Writes(f[t], a) <=> c.usage = "writable"
  BY ContextFacts, Zenon DEF ActiveOK
<1>2. a \in Addresses /\ c.usage \in Usages
  BY <1>1, Zenon
<1>3. FormOK(m) /\ QueueOK(q, T, W, C) /\ CountsOK(m)
  BY <1>2, Zenon DEF MachineOK, QueuesOK
<1>4. /\ FormOK(n) /\ n.unblocked_task_queue = m.unblocked_task_queue
      /\ n.queues[a] = new /\ \A b \in Addresses \ {a} : n.queues[b] = m.queues[b]
      /\ \A u \in Tasks : n.blocked_usage_count[u]
             = IF u \in more THEN m.blocked_usage_count[u] + 1 ELSE m.blocked_usage_count[u]
  BY <1>2, <1>3, LockEffect
<1>5. /\ T \in SUBSET Nat /\ T \subseteq DOMAIN f /\ IsFiniteSet(T) /\ W \in SUBSET T
  BY AskingFacts
<1>6. t \in Nat \ T /\ t \in Tasks
  BY LocksAssumption, Zenon DEF Asking, ActiveOK
<1>7. /\ \A u \in T : m.blocked_usage_count[u] > 0 <=> u \notin C
      /\ Capability = "fifo" => \A s \in T : s < t
  BY <1>5, <1>6
<1>8. /\ QueueOK(new, T \cup {t}, WithWriter(W, t, c.usage), C)
      /\ Range(new.blocked) = Range(q.blocked) \cup more
      /\ more \cap Range(q.blocked) = {} /\ more \subseteq (T \ C) \cup {t}
  <2> HIDE DEF q, T, W
  <2>1. MayLock(m, q, T, W, C, t, c.usage)
    BY <1>2, <1>3, <1>5, <1>6, <1>7, Zenon DEF MayLock
  <2>2. HasLocked(m, q, T, W, C, t, c.usage)
    BY <2>1, LockQueue, Zenon
  <2> QED
    BY <2>2, Zenon DEF HasLocked
<1>9. Asking(f, Y, a) = T \cup {t} /\ Writing(f, Y, a) = WithWriter(W, t, c.usage)
  <2>1. Asking(f, Y, a) = T \cup {t}
    BY <1>1, Zenon DEF Asking
  <2> QED
    BY <1>1, <2>1, Zenon DEF Writing, WithWriter
<1>10. ASSUME NEW b \in Addresses \ {a}
       PROVE  Asking(f, Y, b) = Asking(f, X, b) /\ Writing(f, Y, b) = Writing(f, X, b)
  BY DEF Asking, Writing
<1> HIDE DEF n, q, Y, T, W, new, more
<1>11. QueuesOK(n, f, Y, C)
  <2>1. ASSUME NEW b \in Addresses
        PROVE  QueueOK(n.queues[b], Asking(f, Y, b), Writing(f, Y, b), C)
    <3>1. CASE b = a
      BY <1>4, <1>8, <1>9, <3>1, Zenon
    <3>2. CASE b # a
      BY <1>4, <1>10, <3>2, Zenon DEF MachineOK, QueuesOK
    <3> QED
      BY <3>1, <3>2
  <2> HIDE DEF a
  <2> QED
    BY <2>1, Zenon DEF QueuesOK
<1>12. ASSUME NEW s \in Tasks
       PROVE  /\ IsFiniteSet(BlockedAt(n, s))
              /\ n.blocked_usage_count[s] = Cardinality(BlockedAt(n, s))
  <2>1. IsFiniteSet(BlockedAt(m, s)) /\ m.blocked_usage_count[s] = Cardinality(BlockedAt(m, s))
    BY <1>3, Zenon DEF CountsOK
  <2>2. CASE s \in more
    <3>1. BlockedAt(n, s) = BlockedAt(m, s) \cup {a} /\ a \notin BlockedAt(m, s)
      BY <1>2, <1>4, <1>8, <2>2 DEF BlockedAt, q
    <3> QED
      BY <1>4, <2>1, <2>2, <3>1, CountFacts, SMTT(30)
  <2>3. CASE s \notin more
    <3>1. BlockedAt(n, s) = BlockedAt(m, s)
      BY <1>2, <1>4, <1>8, <2>3 DEF BlockedAt, q
    <3> QED
      BY <1>4, <2>1, <2>3, <3>1, Zenon
  <2> QED
    BY <2>2, <2>3, Zenon
<1>13. \A s \in DOMAIN f \ {t} : n.blocked_usage_count[s] > 0 <=> s \notin C
  <2> SUFFICES ASSUME NEW s \in DOMAIN f \ {t} PROVE n.blocked_usage_count[s] > 0 <=> s \notin C
    OBVIOUS
  <2>1. s \in Tasks /\ m.blocked_usage_count[s] \in Nat /\ (m.blocked_usage_count[s] > 0 <=> s \notin C)
    BY <1>3, Zenon DEF ActiveOK, FormOK
  <2>2. s \in more => s \notin C
    BY <1>8, Zenon
  <2> QED
    BY <1>4, <2>1, <2>2
<1> QED
  BY <1>4, <1>11, <1>12, <1>13, Zenon DEF MachineOK, CountsOK, n, Y

\* What one iteration of unlock_usage_queues does to the machine.
LEMMA UnlockEffect ==
    ASSUME NEW m, FormOK(m), NEW t, NEW c, c.address \in Addresses,
           \A u \in Range(Popped(m.queues[c.address], t, c.address)) \cap Tasks :
               m.blocked_usage_count[u] > 0
    PROVE  LET n == Unlock(m, t, c)
               q == m.queues[c.address]
               popped == Popped(q, t, c.address)
           IN  /\ FormOK(n) /\ n.unblocked_task_queue = Woken(m, popped)
               /\ n.queues[c.address] = UnlockedQueue(q, t, c.address)
               /\ \A b \in Addresses \ {c.address} : n.queues[b] = m.queues[b]
               /\ \A u \in Tasks : n.blocked_usage_count[u] = IF u \in Range(popped)
                      THEN m.blocked_usage_count[u] - 1 ELSE m.blocked_usage_count[u]
<1> DEFINE n == Unlock(m, t, c)
           q == m.queues[c.address]
           new == UnlockedQueue(q, t, c.address)
           popped == Popped(q, t, c.address)
           counts == [u \in Tasks |-> m.blocked_usage_count[u] - IF u \in Range(popped) THEN 1 ELSE 0]
<1>1. n = [queues |-> [m.queues EXCEPT ![c.address] = new], blocked_usage_count |-> counts,
           unblocked_task_queue |-> Woken(m, popped)]
  BY Zenon DEF Unlock, UnlockedQueue, Popped
<1> HIDE DEF n, new, popped
<1>2. \A u \in Tasks : /\ counts[u] \in Nat
                       /\ counts[u] = IF u \in Range(popped) THEN m.blocked_usage_count[u] - 1
                                                             ELSE m.blocked_usage_count[u]
  BY DEF FormOK, popped
<1>3. counts \in [Tasks -> Nat]
  BY <1>2, Zenon
<1> HIDE DEF counts
<1>4. /\ n.queues = [m.queues EXCEPT ![c.address] = new] /\ n.blocked_usage_count = counts
      /\ n.unblocked_task_queue = Woken(m, popped)
  BY <1>1
<1>5. FormOK(n)
  BY <1>1, <1>3, <1>4 DEF FormOK
<1>6. n.queues[c.address] = new /\ \A b \in Addresses \ {c.address} : n.queues[b] = m.queues[b]
  BY <1>4, Zenon DEF FormOK
<1>7. \A u \in Tasks : n.blocked_usage_count[u]
          = IF u \in Range(popped) THEN m.blocked_usage_count[u] - 1 ELSE m.blocked_usage_count[u]
  BY <1>2, <1>4, Zenon
<1> QED
  BY <1>4, <1>5, <1>6, <1>7 DEF n, new, popped

\* The queue of unblocked tasks holds those of Q and all that have become unblocked.
QueuedOK(m, C, Q) ==
    /\ m.unblocked_task_queue \in Seq(Tasks) /\ Injective(m.unblocked_task_queue)
    /\ Range(m.unblocked_task_queue)
           = Q \cup {s \in DOMAIN tx \ C : m.blocked_usage_count[s] = 0}

\* Task t is giving its addresses back, those of X are done; Q were queued before.
Unlocking(m, t, X, C, Q) ==
    /\ ActiveOK(tx) /\ t \in DOMAIN tx /\ t \in C /\ Q \subseteq C
    /\ MachineOK(m, tx, X, C) /\ QueuedOK(m, C, Q)

\* One iteration of unlock_usage_queues for task t and its context c.
LEMMA UnlockStep ==
    ASSUME NEW m, NEW t, NEW X, NEW C, NEW Q, Unlocking(m, t, X, C, Q),
           NEW c \in Range(LockContexts[tx[t]]), <<t, c.address>> \notin X
    PROVE  Unlocking(Unlock(m, t, c), t, X \cup {<<t, c.address>>}, C, Q)
<1> USE DEF Unlocking
<1> DEFINE a == c.address
           n == Unlock(m, t, c)
           q == m.queues[a]
           Y == X \cup {<<t, a>>}
           T == Asking(tx, X, a)
           W == Writing(tx, X, a)
           new == UnlockedQueue(q, t, a)
           popped == Popped(q, t, a)
<1>1. c \in [address : Addresses, usage : Usages] /\ Wants(tx[t], a)
  BY ContextFacts, Zenon DEF ActiveOK
<1>2. a \in Addresses /\ t \in T
  BY <1>1, Zenon DEF Asking
<1>3. FormOK(m) /\ QueueOK(q, T, W, C) /\ CountsOK(m)
  BY <1>2, Zenon DEF MachineOK, QueuesOK
<1>4. /\ T \in SUBSET Nat /\ T \subseteq DOMAIN tx /\ W \in SUBSET T /\ T \subseteq Tasks
  BY AskingFacts, Zenon DEF ActiveOK
<1>5. \A b \in T : RequestedUsage(b, a) = IF b \in W THEN "writable" ELSE "readonly"
  <2> SUFFICES ASSUME NEW b \in T
               PROVE  RequestedUsage(b, a) = IF b \in W THEN "writable" ELSE "readonly"
    BY Zenon
  <2>1. tx[b] \in Transactions /\ Wants(tx[b], a) /\ (b \in W <=> Writes(tx[b], a))
    BY <1>4, Zenon DEF ActiveOK, Asking, Writing
  <2> QED
    BY <2>1, RequestedFacts, Zenon
<1>6. t \in q.users
  <2> HIDE DEF q, T, W
  <2> QED
    BY <1>2, <1>3 DEF QueueOK, Sound
<1>7. /\ QueueOK(new, T \ {t}, W \ {t}, C)
      /\ popped \in Seq(T \ C) /\ Ascending(popped)
      /\ Range(popped) \subseteq Range(q.blocked)
      /\ Range(new.blocked) = Range(q.blocked) \ Range(popped)
  <2> HIDE DEF q, T, W
  <2>1. MayUnlock(q, T, W, C, a, t)
    BY <1>3, <1>4, <1>5, <1>6, Zenon DEF MayUnlock
  <2>2. HasUnlocked(q, T, W, C, a, t)
    BY <2>1, UnlockQueue, Zenon
  <2> QED
    BY <2>2, Zenon DEF HasUnlocked
<1>8. Asking(tx, Y, a) = T \ {t} /\ Writing(tx, Y, a) = W \ {t}
  <2>1. Asking(tx, Y, a) = T \ {t}
    BY Zenon DEF Asking
  <2> QED
    BY <2>1, Zenon DEF Writing
<1>9. ASSUME NEW b \in Addresses \ {a}
      PROVE  Asking(tx, Y, b) = Asking(tx, X, b) /\ Writing(tx, Y, b) = Writing(tx, X, b)
  BY DEF Asking, Writing
<1>10. \A s \in Tasks : /\ IsFiniteSet(BlockedAt(m, s)) /\ m.blocked_usage_count[s] \in Nat
                        /\ m.blocked_usage_count[s] = Cardinality(BlockedAt(m, s))
                        /\ m.blocked_usage_count[s] = 0 <=> BlockedAt(m, s) = {}
  <2>1. \A s \in Tasks : /\ IsFiniteSet(BlockedAt(m, s))
                         /\ m.blocked_usage_count[s] = Cardinality(BlockedAt(m, s))
    BY <1>3, Zenon DEF CountsOK
  <2>2. ASSUME NEW S, IsFiniteSet(S)
        PROVE  Cardinality(S) \in Nat /\ (Cardinality(S) = 0 <=> S = {})
    BY <2>2, CountFacts, Zenon
  <2> QED
    BY <2>1, <2>2, Zenon
<1> HIDE DEF n, q, Y, T, W, new, popped
<1>11. Range(popped) \subseteq T \ C /\ Injective(popped) /\ popped \in Seq(Tasks)
  <2>1. \A i \in DOMAIN popped : popped[i] \in T \ C
    BY <1>7
  <2>2. popped \in Seq(Tasks) /\ Range(popped) \subseteq T \ C
    <3>1. Range(popped) \subseteq T \ C
      BY <2>1 DEF Range
    <3>2. \A i \in 1 .. Len(popped) : popped[i] \in Tasks
      <4>1. \A i \in 1 .. Len(popped) : popped[i] \in T
        BY <1>7, <2>1
      <4> QED
        BY <1>4, <4>1, Zenon
    <3> QED
      BY <1>7, <3>1, <3>2
  <2>3. DOMAIN popped = 1 .. Len(popped) /\ Len(popped) \in Nat
    BY <1>7
  <2>4. \A i \in DOMAIN popped : popped[i] \in Nat
    BY <1>4, <2>1, Zenon
  <2>5. Injective(popped)
    BY <1>7, <2>3, <2>4 DEF Injective, Ascending
  <2> QED
    BY <2>2, <2>5, Zenon
<1>12. \A u \in Range(popped) : u \in Tasks /\ a \in BlockedAt(m, u) /\ m.blocked_usage_count[u] > 0
  <2> SUFFICES ASSUME NEW u \in Range(popped)
               PROVE  u \in Tasks /\ a \in BlockedAt(m, u) /\ m.blocked_usage_count[u] > 0
    OBVIOUS
  <2>1. u \in Tasks
    BY <1>4, <1>11, Zenon
  <2>2. a \in BlockedAt(m, u)
    BY <1>2, <1>7, Zenon DEF BlockedAt, q
  <2> QED
    BY <1>10, <2>1, <2>2
<1>13. /\ FormOK(n) /\ n.unblocked_task_queue = Woken(m, popped)
       /\ n.queues[a] = new /\ \A b \in Addresses \ {a} : n.queues[b] = m.queues[b]
       /\ \A u \in Tasks : n.blocked_usage_count[u] = IF u \in Range(popped)
              THEN m.blocked_usage_count[u] - 1 ELSE m.blocked_usage_count[u]
  <2>1. \A u \in Range(popped) \cap Tasks : m.blocked_usage_count[u] > 0
    BY <1>12
  <2> QED
    BY <1>2, <1>3, <2>1, UnlockEffect DEF n, q, new, popped
<1>14. QueuesOK(n, tx, Y, C)
  <2>1. ASSUME NEW b \in Addresses
        PROVE  QueueOK(n.queues[b], Asking(tx, Y, b), Writing(tx, Y, b), C)
    <3>1. CASE b = a
      BY <1>7, <1>8, <1>13, <3>1, Zenon
    <3>2. CASE b # a
      BY <1>9, <1>13, <3>2, Zenon DEF MachineOK, QueuesOK
    <3> QED
      BY <3>1, <3>2
  <2> HIDE DEF a
  <2> QED
    BY <2>1, Zenon DEF QueuesOK
<1>15. ASSUME NEW s \in Tasks
       PROVE  /\ IsFiniteSet(BlockedAt(n, s))
              /\ n.blocked_usage_count[s] = Cardinality(BlockedAt(n, s))
  <2>1. CASE s \in Range(popped)
    <3>1. BlockedAt(n, s) = BlockedAt(m, s) \ {a} /\ a \in BlockedAt(m, s)
      BY <1>2, <1>7, <1>12, <1>13, <2>1 DEF BlockedAt, q
    <3> QED
      BY <1>10, <1>13, <2>1, <3>1, CountFacts, SMTT(30)
  <2>2. CASE s \notin Range(popped)
    <3>1. BlockedAt(n, s) = BlockedAt(m, s)
      BY <1>2, <1>7, <1>13, <2>2, Zenon DEF BlockedAt, q
    <3> QED
      BY <1>10, <1>13, <2>2, <3>1, Zenon
  <2> QED
    BY <2>1, <2>2, Zenon
<1>16. QueuedOK(n, C, Q)
  <2>1. \A u \in Range(popped) : u \notin Range(m.unblocked_task_queue)
    BY <1>11, <1>12 DEF QueuedOK
  <2>2. /\ n.unblocked_task_queue \in Seq(Tasks) /\ Injective(n.unblocked_task_queue)
        /\ Range(n.unblocked_task_queue) = Range(m.unblocked_task_queue)
               \cup {u \in Range(popped) : m.blocked_usage_count[u] = 1}
    <3>1. m.unblocked_task_queue \in Seq(Tasks) /\ Injective(m.unblocked_task_queue)
      BY Zenon DEF QueuedOK
    <3> HIDE DEF Unlocking
    <3>2. /\ Woken(m, popped) \in Seq(Tasks) /\ Injective(Woken(m, popped))
          /\ Range(Woken(m, popped)) = Range(m.unblocked_task_queue)
                 \cup {u \in Range(popped) : m.blocked_usage_count[u] = 1}
      BY <1>11, <2>1, <3>1, WokenFacts, Zenon
    <3> QED
      BY <1>13, <3>2, Zenon
  <2>3. ASSUME NEW s \in DOMAIN tx \ C
        PROVE  n.blocked_usage_count[s] = 0 <=>
                   m.blocked_usage_count[s] = 0 \/ (s \in Range(popped) /\ m.blocked_usage_count[s] = 1)
    <3>1. s \in Tasks /\ m.blocked_usage_count[s] \in Nat
      BY <1>10 DEF ActiveOK
    <3> QED
      BY <1>12, <1>13, <3>1
  <2>4. Range(popped) \subseteq DOMAIN tx \ C
    BY <1>4, <1>11, Zenon
  <2>5. Range(n.unblocked_task_queue)
            = Q \cup {s \in DOMAIN tx \ C : n.blocked_usage_count[s] = 0}
    BY <2>2, <2>3, <2>4, Zenon DEF QueuedOK
  <2> QED
    BY <2>2, <2>5, Zenon DEF QueuedOK
<1> QED
  BY <1>13, <1>14, <1>15, <1>16, Zenon DEF MachineOK, CountsOK, n, Y

\* The addresses of the first i contexts of transaction x.
Passed(x, i) == {LockContexts[x][j].address : j \in 1 .. i}

\* The next context of a transaction names an address that was not passed yet.
LEMMA PassedFacts ==
    ASSUME NEW x \in Transactions
    PROVE  /\ Len(LockContexts[x]) \in Nat /\ Passed(x, 0) = {}
           /\ \A a : Wants(x, a) <=> a \in Passed(x, Len(LockContexts[x]))
           /\ \A i \in Nat : i + 1 <= Len(LockContexts[x]) =>
                 /\ LockContexts[x][i + 1] \in Range(LockContexts[x])
                 /\ LockContexts[x][i + 1].address \notin Passed(x, i)
                 /\ Passed(x, i + 1) = Passed(x, i) \cup {LockContexts[x][i + 1].address}
<1> DEFINE s == LockContexts[x]
           n == Len(s)
<1>1. s \in Seq([address : Addresses, usage : Usages])
  BY LocksAssumption, Zenon DEF Usages
<1>2. n \in Nat /\ DOMAIN s = 1 .. n
  BY <1>1
<1>3. \A i, j \in 1 .. n : s[i].address = s[j].address => i = j
  BY <1>2, LocksAssumption
<1> HIDE DEF s, n
<1>4. Passed(x, 0) = {}
  BY DEF Passed
<1>5. \A a : Wants(x, a) <=> a \in Passed(x, n)
  BY <1>2 DEF Wants, Passed, Range, s
<1>6. ASSUME NEW i \in Nat, i + 1 <= n
      PROVE  /\ s[i + 1] \in Range(s) /\ s[i + 1].address \notin Passed(x, i)
             /\ Passed(x, i + 1) = Passed(x, i) \cup {s[i + 1].address}
  <2>1. i + 1 \in 1 .. n /\ 1 .. i + 1 = 1 .. i \cup {i + 1} /\ \A j \in 1 .. i : j \in 1 .. n /\ j # i + 1
    BY <1>2, <1>6
  <2>2. s[i + 1] \in Range(s)
    BY <1>2, <2>1 DEF Range
  <2>3. s[i + 1].address \notin Passed(x, i)
    BY <1>3, <2>1 DEF Passed, s
  <2>4. Passed(x, i + 1) = Passed(x, i) \cup {s[i + 1].address}
    BY <2>1, Zenon DEF Passed, s
  <2> QED
    BY <2>2, <2>3, <2>4
<1> QED
  BY <1>2, <1>4, <1>5, <1>6 DEF s, n

\* try_lock_usage_queues of a new task.
LEMMA TryLock ==
    ASSUME NEW m, NEW f, NEW t, NEW C, Locking(m, f, t, {t} \X Addresses, C)
    PROVE  /\ Locking(try_lock_usage_queues(m, t, f[t]), f, t, {}, C)
           /\ try_lock_usage_queues(m, t, f[t]).unblocked_task_queue = m.unblocked_task_queue
<1> DEFINE x == f[t]
           k == Len(LockContexts[x])
           Left(i) == {t} \X (Addresses \ Passed(x, i))
<1>1. x \in Transactions
  BY Zenon DEF Locking, ActiveOK
<1>2. k \in Nat
  BY <1>1, PassedFacts, Zenon
<1>3. PICK g : /\ g[0] = m
               /\ \A i \in 1 .. k : g[i] = Lock(g[i - 1], t, LockContexts[x][i])
               /\ try_lock_usage_queues(m, t, x) = g[k]
  <2>1. k = Len(LockContexts[x])
    BY Zenon
  <2> HIDE DEF k, x
  <2>2. PICK g : LocksInSteps(g, m, t, x, k)
    BY <1>2, <2>1, LockSteps, Zenon
  <2> QED
    BY <2>2, Zenon DEF LocksInSteps
<1> DEFINE Good(i) == /\ Locking(g[i], f, t, Left(i), C)
                      /\ g[i].unblocked_task_queue = m.unblocked_task_queue
           I == {i \in Nat : i <= k => Good(i)}
<1>4. 0 \in I
  <2>1. Left(0) = {t} \X Addresses
    BY <1>1, PassedFacts, Zenon
  <2> HIDE DEF Left, k, x
  <2> QED
    BY <1>3, <2>1, Zenon
<1>5. ASSUME NEW i \in Nat, i \in I PROVE i + 1 \in I
  <2> SUFFICES ASSUME i + 1 <= k PROVE Good(i + 1)
    BY <1>5
  <2> DEFINE c == LockContexts[x][i + 1]
  <2>1. i + 1 \in 1 .. k /\ (i + 1) - 1 = i /\ i <= k
    BY <1>2
  <2>2. Good(i)
    BY <1>5, <2>1, Zenon
  <2>3. g[i + 1] = Lock(g[i], t, c)
    BY <1>3, <2>1
  <2>4. /\ c \in Range(LockContexts[f[t]]) /\ c.address \notin Passed(x, i)
        /\ Passed(x, i + 1) = Passed(x, i) \cup {c.address}
    BY <1>1, PassedFacts, Zenon
  <2>5. c.address \in Addresses
    <3> HIDE DEF c
    <3>1. c \in [address : Addresses, usage : Usages]
      BY <1>1, <2>4, ContextFacts, Zenon
    <3> QED
      BY <3>1
  <2> HIDE DEF c, k
  <2>6. <<t, c.address>> \in Left(i) /\ Left(i + 1) = Left(i) \ {<<t, c.address>>}
    <3> HIDE DEF x
    <3> QED
      BY <2>4, <2>5
  <2> HIDE DEF Left, x
  <2> QED
    BY <2>2, <2>3, <2>4, <2>6, LockStep
<1>6. Good(k)
  <2>1. \A i \in Nat : i \in I
    <3> HIDE DEF I
    <3> QED
      BY <1>4, <1>5, Induction
  <2> HIDE DEF Good, k
  <2> QED
    BY <1>2, <2>1
<1>7. Locking(g[k], f, t, {}, C)
  <2>1. ASSUME NEW a \in Addresses
        PROVE  Asking(f, Left(k), a) = Asking(f, {}, a) /\ Writing(f, Left(k), a) = Writing(f, {}, a)
    <3>1. Wants(f[t], a) => a \in Passed(x, k)
      BY <1>1, PassedFacts
    <3> HIDE DEF k
    <3>2. Asking(f, Left(k), a) = Asking(f, {}, a)
      BY <3>1, Zenon DEF Asking
    <3> QED
      BY <3>2, Zenon DEF Writing
  <2> HIDE DEF Left, k
  <2> QED
    BY <1>6, <2>1, Zenon DEF Locking, MachineOK, QueuesOK
<1> HIDE DEF k, Left
<1> QED
  BY <1>3, <1>6, <1>7, Zenon

\* unlock_usage_queues of a task that is done.
LEMMA UnlockAll ==
    ASSUME NEW m, NEW t, NEW C, NEW Q, Unlocking(m, t, {}, C, Q)
    PROVE  Unlocking(unlock_usage_queues(m, t), t, {t} \X Addresses, C, Q)
<1> DEFINE x == tx[t]
           k == Len(LockContexts[x])
           Over(i) == {t} \X Passed(x, i)
<1>1. x \in Transactions
  BY Zenon DEF Unlocking, ActiveOK
<1>2. k \in Nat
  BY <1>1, PassedFacts, Zenon
<1>3. PICK g : /\ g[0] = m
               /\ \A i \in 1 .. k : g[i] = Unlock(g[i - 1], t, LockContexts[tx[t]][i])
               /\ unlock_usage_queues(m, t) = g[k]
  <2>1. k = Len(LockContexts[tx[t]])
    BY Zenon
  <2> HIDE DEF k, x
  <2>2. PICK g : UnlocksInSteps(g, m, t, k)
    BY <1>2, <2>1, UnlockSteps, Zenon
  <2> QED
    BY <2>2, Zenon DEF UnlocksInSteps
<1> DEFINE Good(i) == Unlocking(g[i], t, Over(i), C, Q)
           I == {i \in Nat : i <= k => Good(i)}
<1>4. 0 \in I
  <2>1. Over(0) = {}
    BY <1>1, PassedFacts, Zenon
  <2> HIDE DEF Over, k, x
  <2> QED
    BY <1>3, <2>1, Zenon
<1>5. ASSUME NEW i \in Nat, i \in I PROVE i + 1 \in I
  <2> SUFFICES ASSUME i + 1 <= k PROVE Good(i + 1)
    BY <1>5
  <2> DEFINE c == LockContexts[x][i + 1]
  <2>1. i + 1 \in 1 .. k /\ (i + 1) - 1 = i /\ i <= k
    BY <1>2
  <2>2. Good(i)
    BY <1>5, <2>1, Zenon
  <2>3. g[i + 1] = Unlock(g[i], t, c)
    BY <1>3, <2>1
  <2>4. /\ c \in Range(LockContexts[tx[t]]) /\ c.address \notin Passed(x, i)
        /\ Passed(x, i + 1) = Passed(x, i) \cup {c.address}
    BY <1>1, PassedFacts, Zenon
  <2> HIDE DEF c, k
  <2>5. <<t, c.address>> \notin Over(i) /\ Over(i + 1) = Over(i) \cup {<<t, c.address>>}
    <3> HIDE DEF x
    <3> QED
      BY <2>4
  <2> HIDE DEF Over, x
  <2> QED
    BY <2>2, <2>3, <2>4, <2>5, UnlockStep
<1>6. Good(k)
  <2>1. \A i \in Nat : i \in I
    <3> HIDE DEF I
    <3> QED
      BY <1>4, <1>5, Induction
  <2> HIDE DEF Good, k
  <2> QED
    BY <1>2, <2>1
<1>7. Unlocking(g[k], t, {t} \X Addresses, C, Q)
  <2>1. ASSUME NEW a \in Addresses
        PROVE  /\ Asking(tx, Over(k), a) = Asking(tx, {t} \X Addresses, a)
               /\ Writing(tx, Over(k), a) = Writing(tx, {t} \X Addresses, a)
    <3>1. Wants(tx[t], a) => a \in Passed(x, k)
      BY <1>1, PassedFacts
    <3> HIDE DEF k
    <3>2. Asking(tx, Over(k), a) = Asking(tx, {t} \X Addresses, a)
      BY <3>1 DEF Asking
    <3> QED
      BY <3>2, Zenon DEF Writing
  <2> HIDE DEF Over, k
  <2> QED
    BY <1>6, <2>1, Zenon DEF Unlocking, MachineOK, QueuesOK
<1> HIDE DEF k, Over
<1> QED
  BY <1>3, <1>7

(* ------------------------------- the state ------------------------------ *)

\* Leaving out task t everywhere is leaving it out of the active tasks.
LEMMA LeaveOut ==
    ASSUME NEW f, NEW g, NEW t, DOMAIN g = DOMAIN f \ {t}, \A s \in DOMAIN g : g[s] = f[s],
           NEW m, NEW C
    PROVE  MachineOK(m, f, {t} \X Addresses, C) <=> MachineOK(m, g, {}, C)
<1>1. ASSUME NEW a \in Addresses
      PROVE  /\ Asking(f, {t} \X Addresses, a) = Asking(g, {}, a)
             /\ Writing(f, {t} \X Addresses, a) = Writing(g, {}, a)
  <2>1. Asking(f, {t} \X Addresses, a) = Asking(g, {}, a)
    BY Zenon DEF Asking
  <2>2. \A s \in Asking(g, {}, a) : g[s] = f[s]
    BY Zenon DEF Asking
  <2> QED
    BY <2>1, <2>2, Zenon DEF Writing
<1>2. QueuesOK(m, f, {t} \X Addresses, C) <=> QueuesOK(m, g, {}, C)
  BY <1>1, Zenon DEF QueuesOK
<1> QED
  BY <1>2, Zenon DEF MachineOK

\* A task is counted as blocked when it is blocked at some address.
LEMMA BlockedFacts ==
    ASSUME NEW m, CountsOK(m), NEW s \in Tasks
    PROVE  m.blocked_usage_count[s] = 0 <=> \A a \in Addresses : s \notin Range(m.queues[a].blocked)
<1>1. IsFiniteSet(BlockedAt(m, s)) /\ m.blocked_usage_count[s] = Cardinality(BlockedAt(m, s))
  BY Zenon DEF CountsOK
<1>2. Cardinality(BlockedAt(m, s)) = 0 <=> BlockedAt(m, s) = {}
  BY <1>1, CountFacts, Zenon
<1> QED
  BY <1>1, <1>2 DEF BlockedAt

\* Between two calls the committed tasks are those that are not blocked.
LEMMA Recommit ==
    ASSUME NEW m, NEW f, ActiveOK(f), NEW C, MachineOK(m, f, {}, C), NEW E,
           E = {s \in DOMAIN f : m.blocked_usage_count[s] = 0}
    PROVE  MachineOK(m, f, {}, E)
<1> SUFFICES ASSUME NEW a \in Addresses
             PROVE  QueueOK(m.queues[a], Asking(f, {}, a), Writing(f, {}, a), E)
  BY Zenon DEF MachineOK, QueuesOK
<1> DEFINE q == m.queues[a]
           T == Asking(f, {}, a)
           W == Writing(f, {}, a)
<1>1. QueueOK(q, T, W, C) /\ T \subseteq DOMAIN f
  BY AskingFacts, Zenon DEF MachineOK, QueuesOK
<1>2. ASSUME NEW s \in DOMAIN f
      PROVE  m.blocked_usage_count[s] = 0 <=> \A b \in Addresses : s \notin Range(m.queues[b].blocked)
  BY BlockedFacts, Zenon DEF MachineOK, ActiveOK
<1>3. \A s \in Range(q.blocked) : s \in T /\ s \notin E
  <2>1. Range(q.blocked) \subseteq T
    <3> HIDE DEF q, T, W
    <3> QED
      BY <1>1, Zenon DEF QueueOK, Sound
  <2> QED
    BY <1>1, <1>2, <2>1, Zenon
<1>4. \A s \in T : s \in C => s \in E
  <2> SUFFICES ASSUME NEW s \in T, s \in C PROVE s \in E
    OBVIOUS
  <2>1. ASSUME NEW b \in Addresses PROVE s \notin Range(m.queues[b].blocked)
    <3>1. QueueOK(m.queues[b], Asking(f, {}, b), Writing(f, {}, b), C)
      BY Zenon DEF MachineOK, QueuesOK
    <3> QED
      BY <3>1, Zenon DEF QueueOK, Sound
  <2> QED
    BY <1>1, <1>2, <2>1, Zenon
<1> HIDE DEF q, T, W
<1>5. Sound(q.usage, q.users, Range(q.blocked), T, W, E)
  BY <1>1, <1>3, <1>4 DEF QueueOK, Sound
<1> QED
  BY <1>1, <1>5, Zenon DEF QueueOK, q, T, W

\* Two transactions conflict at an address that both want and one of them writes.
LEMMA ConflictFacts ==
    ASSUME NEW f, ActiveOK(f), NEW s \in DOMAIN f, NEW v \in DOMAIN f
    PROVE  Conflicts(f[s], f[v]) <=>
               \E a \in Addresses : /\ s \in Asking(f, {}, a) /\ v \in Asking(f, {}, a)
                                    /\ s \in Writing(f, {}, a) \/ v \in Writing(f, {}, a)
<1>1. f[s] \in Transactions /\ f[v] \in Transactions
  BY DEF ActiveOK
<1>2. \A a : /\ s \in Asking(f, {}, a) <=> Wants(f[s], a)
             /\ v \in Asking(f, {}, a) <=> Wants(f[v], a)
             /\ s \in Writing(f, {}, a) <=> Wants(f[s], a) /\ Writes(f[s], a)
             /\ v \in Writing(f, {}, a) <=> Wants(f[v], a) /\ Writes(f[v], a)
  BY DEF Asking, Writing
<1>3. ASSUME Conflicts(f[s], f[v])
      PROVE  \E a \in Addresses : /\ Wants(f[s], a) /\ Wants(f[v], a)
                                  /\ Writes(f[s], a) \/ Writes(f[v], a)
  <2>1. PICK c \in Range(LockContexts[f[s]]), d \in Range(LockContexts[f[v]]) :
            c.address = d.address /\ (c.usage = "writable" \/ d.usage = "writable")
    BY <1>3 DEF Conflicts
  <2>2. c \in [address : Addresses, usage : Usages]
    BY <1>1, ContextFacts, Zenon
  <2>3. c.address \in Addresses
    BY <2>2
  <2> QED
    BY <2>1, <2>3, Zenon DEF Wants, Writes
<1>4. ASSUME NEW a, Wants(f[s], a), Wants(f[v], a), Writes(f[s], a) \/ Writes(f[v], a)
      PROVE  Conflicts(f[s], f[v])
  <2>1. CASE Writes(f[s], a)
    BY <1>4, <2>1, Zenon DEF Conflicts, Wants, Writes
  <2>2. CASE Writes(f[v], a)
    BY <1>4, <2>2, Zenon DEF Conflicts, Wants, Writes
  <2> QED
    BY <1>4, <2>1, <2>2, Zenon
<1> QED
  BY <1>2, <1>3, <1>4, Zenon

\* No task of T that conflicts with s is committed or comes before it.
IsFirst(s, T, W, C) == \A v \in T \ {s} : s \in W \/ v \in W => v \notin C /\ s < v

\* A task that is not committed uses an address when it is the first to do so.
LEMMA UsesFirst ==
    ASSUME NEW q, NEW T \in SUBSET Nat, NEW W \in SUBSET T, NEW C, QueueOK(q, T, W, C),
           NEW s \in T \ C
    PROVE  s \in q.users <=> IsFirst(s, T, W, C)
<1>1. q.usage \in Usages /\ Sound(q.usage, q.users, Range(q.blocked), T, W, C)
  BY DEF QueueOK
<1> QED
  BY <1>1, HoldersAreFirst DEF IsFirst

\* A task that is not committed is unblocked when no task that conflicts with it is
\* committed or comes before it.
LEMMA Unblocked ==
    ASSUME NEW m, NEW f, ActiveOK(f), NEW C, MachineOK(m, f, {}, C), NEW s \in DOMAIN f \ C
    PROVE  m.blocked_usage_count[s] = 0 <=>
               \A v \in DOMAIN f \ {s} : Conflicts(f[s], f[v]) => v \notin C /\ s < v
<1> DEFINE T(a) == Asking(f, {}, a)
           W(a) == Writing(f, {}, a)
           First(a) == IsFirst(s, T(a), W(a), C)
<1>1. ASSUME NEW a \in Addresses
      PROVE  s \notin Range(m.queues[a].blocked) <=> (s \in T(a) => First(a))
  <2> DEFINE q == m.queues[a]
  <2>1. /\ T(a) \in SUBSET Nat /\ W(a) \in SUBSET T(a)
        /\ QueueOK(q, T(a), W(a), C)
    BY AskingFacts, Zenon DEF MachineOK, QueuesOK
  <2> HIDE DEF q, T, W
  <2>2. q.users \cup Range(q.blocked) = T(a) /\ q.users \cap Range(q.blocked) = {}
    BY <2>1 DEF QueueOK, Sound
  <2>3. ASSUME s \in T(a) PROVE s \in q.users <=> First(a)
    <3>1. s \in T(a) \ C
      BY <2>3, Zenon
    <3> QED
      BY <2>1, <3>1, UsesFirst, Zenon
  <2> HIDE DEF First
  <2>4. s \notin Range(q.blocked) <=> (s \in T(a) => First(a))
    BY <2>2, <2>3
  <2> QED
    BY <2>4 DEF q
<1>2. m.blocked_usage_count[s] = 0 <=> \A a \in Addresses : s \in T(a) => First(a)
  <2>1. m.blocked_usage_count[s] = 0 <=> \A a \in Addresses : s \notin Range(m.queues[a].blocked)
    BY BlockedFacts DEF MachineOK, ActiveOK
  <2> HIDE DEF First, T
  <2> QED
    BY <1>1, <2>1, Zenon
<1>3. \A v \in DOMAIN f : Conflicts(f[s], f[v]) <=>
          \E a \in Addresses : s \in T(a) /\ v \in T(a) /\ (s \in W(a) \/ v \in W(a))
  BY ConflictFacts
<1>4. \A a : T(a) \subseteq DOMAIN f
  BY AskingFacts
<1> HIDE DEF T, W
<1> QED
  BY <1>2, <1>3, <1>4, Zenon DEF IsFirst

Committed == {t \in DOMAIN tx : machine.blocked_usage_count[t] = 0}

\* The inductive invariant.
IInv ==
    /\ mode \in {"verification", "production"}
    /\ created \subseteq Tasks /\ DOMAIN tx \subseteq created /\ ActiveOK(tx)
    /\ MachineOK(machine, tx, {}, Committed)
    /\ machine.unblocked_task_queue \in Seq(Tasks) /\ Injective(machine.unblocked_task_queue)
    /\ Ready \cup running = Committed /\ Ready \cap running = {}
    /\ active_task_count = Cardinality(DOMAIN tx)
    /\ mode = "production" => /\ \A t, u \in DOMAIN tx : tx[t] = tx[u] => t = u
                              /\ unique_active_task_hashes = {tx[t] : t \in DOMAIN tx}
    /\ mode = "verification" => unique_active_task_hashes = {}
    /\ clearing => running = {}

\* The machine with another queue of unblocked tasks.
Requeued(m, queue) == [m EXCEPT !.unblocked_task_queue = queue]

\* Changing the queue of unblocked tasks leaves the rest of the machine alone.
LEMMA Requeue ==
    ASSUME NEW m, NEW f, NEW X, NEW C, MachineOK(m, f, X, C), NEW queue
    PROVE  /\ MachineOK(Requeued(m, queue), f, X, C)
           /\ Requeued(m, queue).blocked_usage_count = m.blocked_usage_count
           /\ Requeued(m, queue).unblocked_task_queue = queue
<1> DEFINE n == Requeued(m, queue)
<1>1. n = [queues |-> m.queues, blocked_usage_count |-> m.blocked_usage_count,
           unblocked_task_queue |-> queue]
  BY DEF MachineOK, FormOK, Requeued
<1> HIDE DEF n
<1>2. /\ n.queues = m.queues /\ n.blocked_usage_count = m.blocked_usage_count
      /\ n.unblocked_task_queue = queue
  BY <1>1
<1>3. FormOK(n)
  BY <1>1, <1>2 DEF MachineOK, FormOK
<1>4. QueuesOK(n, f, X, C) /\ CountsOK(n)
  <2>1. \A s : BlockedAt(n, s) = BlockedAt(m, s)
    BY <1>2, Zenon DEF BlockedAt
  <2> QED
    BY <1>2, <2>1, Zenon DEF MachineOK, QueuesOK, CountsOK
<1> QED
  BY <1>2, <1>3, <1>4 DEF MachineOK, n

\* The abstract view of the tasks.
LEMMA Views ==
    ASSUME IInv
    PROVE  /\ Promise!Active = DOMAIN tx /\ Waiting = DOMAIN tx \ Committed
           /\ Committed \subseteq DOMAIN tx /\ DOMAIN tx \subseteq Tasks /\ DOMAIN tx \subseteq Nat
           /\ \A s \in DOMAIN tx : machine.blocked_usage_count[s] > 0 <=> s \notin Committed
<1>1. \A s \in DOMAIN tx : machine.blocked_usage_count[s] \in Nat
  BY DEF IInv, ActiveOK, MachineOK, FormOK
<1>2. DOMAIN tx \subseteq Tasks /\ DOMAIN tx \subseteq Nat
  BY LocksAssumption, Zenon DEF IInv, ActiveOK
<1>3. Waiting = DOMAIN tx \ Committed /\ Committed \subseteq DOMAIN tx
  BY <1>1 DEF Waiting, Committed
<1>4. Promise!Active = DOMAIN tx
  BY <1>3, Zenon DEF IInv, Promise!Active
<1> QED
  BY <1>1, <1>2, <1>3, <1>4 DEF Committed

\* A committed task is not blocked.
LEMMA CommittedRuns ==
    ASSUME NEW m, NEW f, NEW X, NEW C, MachineOK(m, f, X, C), NEW s \in C, s \in Tasks
    PROVE  m.blocked_usage_count[s] = 0
<1>1. ASSUME NEW a \in Addresses
      PROVE  s \notin Range(m.queues[a].blocked)
  BY Zenon DEF MachineOK, QueuesOK, QueueOK, Sound
<1> QED
  BY <1>1, BlockedFacts, Zenon DEF MachineOK

\* The machine starts without tasks.
LEMMA InitHolds == Init => IInv
<1> SUFFICES ASSUME Init PROVE IInv
  OBVIOUS
<1>1. DOMAIN tx = {} /\ Committed = {}
  BY DEF Init, Committed
<1>2. ActiveOK(tx) /\ Cardinality(DOMAIN tx) = 0
  BY <1>1, FS_EmptySet, Zenon DEF ActiveOK
<1>3. FormOK(machine) /\ \A a \in Addresses : machine.queues[a] = EmptyQueue
  BY DEF Init, FormOK
<1>4. Range(<< >>) = {} /\ Ascending(<< >>)
  <2>1. << >> \in Seq(Tasks) /\ Len(<< >>) = 0
    OBVIOUS
  <2>2. Range(<< >>) = {}
    BY <2>1, EmptyRange, Zenon
  <2> QED
    BY <2>1, <2>2 DEF Ascending
<1>5. QueuesOK(machine, tx, {}, {})
  <2> SUFFICES ASSUME NEW a \in Addresses
               PROVE  QueueOK(EmptyQueue, {}, {}, {})
    BY <1>1, <1>3 DEF QueuesOK, Asking, Writing
  <2> QED
    BY <1>4 DEF QueueOK, Sound, EmptyQueue, Usages
<1>6. CountsOK(machine)
  <2> SUFFICES ASSUME NEW s \in Tasks
               PROVE  /\ IsFiniteSet(BlockedAt(machine, s))
                      /\ machine.blocked_usage_count[s] = Cardinality(BlockedAt(machine, s))
    BY Zenon DEF CountsOK
  <2>1. BlockedAt(machine, s) = {}
    BY <1>3, <1>4 DEF BlockedAt, EmptyQueue
  <2> QED
    BY <2>1, FS_EmptySet, Zenon DEF Init
<1>7. MachineOK(machine, tx, {}, Committed)
  BY <1>1, <1>3, <1>5, <1>6, Zenon DEF MachineOK
<1>8. Ready = {} /\ machine.unblocked_task_queue = << >>
  BY <1>4 DEF Init, Ready
<1>9. Injective(machine.unblocked_task_queue)
  BY <1>8 DEF Injective
<1> QED
  BY <1>1, <1>2, <1>7, <1>8, <1>9 DEF Init, IInv

\* The machine between two operations, and what it means that a task is free to run.
Settled(m, f, C) == ActiveOK(f) /\ MachineOK(m, f, {}, C)

FreeIff(m, f, C, s) ==
    m.blocked_usage_count[s] = 0 <=>
        \A v \in DOMAIN f \ {s} : Conflicts(f[s], f[v]) => v \notin C /\ s < v

\* Unblocked, between two operations: a task is free to run if and only if nothing
\* that conflicts with it is committed or goes first.
LEMMA UnblockedTasks ==
    ASSUME NEW m, NEW f, NEW C, Settled(m, f, C)
    PROVE  \A s \in DOMAIN f \ C : FreeIff(m, f, C, s)
<1> SUFFICES ASSUME NEW s \in DOMAIN f \ C
             PROVE  FreeIff(m, f, C, s)
  OBVIOUS
<1>1. ActiveOK(f) /\ MachineOK(m, f, {}, C)
  BY DEF Settled
<1>2. m.blocked_usage_count[s] = 0 <=>
          \A v \in DOMAIN f \ {s} : Conflicts(f[s], f[v]) => v \notin C /\ s < v
  BY <1>1, Unblocked, Zenon
<1> QED
  BY <1>2, Zenon DEF FreeIff

\* What schedule_or_buffer_task does to the machine.
LEMMA ArriveEffect ==
    ASSUME IInv, NEW t \in Tasks, NEW x \in Transactions, New(t),
           NEW f, f = [u \in DOMAIN tx \union {t} |-> IF u = t THEN x ELSE tx[u]],
           NEW L, L = try_lock_usage_queues(machine, t, x)
    PROVE  /\ ActiveOK(f) /\ t \notin DOMAIN tx /\ Cardinality(DOMAIN f) = Cardinality(DOMAIN tx) + 1
           /\ Locking(L, f, t, {}, Committed)
           /\ L.unblocked_task_queue = machine.unblocked_task_queue
           /\ L.blocked_usage_count[t] = 0 <=> Promise!Unhindered(t, x, DOMAIN tx)
<1>1. t \notin DOMAIN tx /\ t \notin Committed
  BY Views DEF IInv, New
<1>2. DOMAIN f = DOMAIN tx \cup {t} /\ f[t] = x /\ \A u \in DOMAIN tx : f[u] = tx[u]
  BY <1>1, Zenon
<1>3. ActiveOK(f) /\ Cardinality(DOMAIN f) = Cardinality(DOMAIN tx) + 1
  <2>1. IsFiniteSet(DOMAIN tx)
    BY Zenon DEF IInv, ActiveOK
  <2>2. IsFiniteSet(DOMAIN f) /\ Cardinality(DOMAIN f) = Cardinality(DOMAIN tx) + 1
    BY <1>1, <1>2, <2>1, FS_AddElement, Zenon
  <2> QED
    BY <1>2, <2>2, Zenon DEF IInv, ActiveOK
<1>4. MachineOK(machine, f, {t} \X Addresses, Committed)
  <2>1. DOMAIN tx = DOMAIN f \ {t}
    BY <1>1, <1>2, Zenon
  <2>2. MachineOK(machine, tx, {}, Committed)
    BY DEF IInv
  <2> QED
    BY <1>2, <2>1, <2>2, LeaveOut, Zenon
<1>5. Locking(machine, f, t, {t} \X Addresses, Committed)
  <2>1. Capability = "fifo" => \A s \in DOMAIN f \ {t} : s < t
    BY <1>2, Zenon DEF Capability, New, IInv
  <2>2. \A s \in DOMAIN f \ {t} : machine.blocked_usage_count[s] > 0 <=> s \notin Committed
    BY <1>2, Views
  <2> QED
    BY <1>1, <1>2, <1>3, <1>4, <2>1, <2>2, Zenon DEF Locking
<1>6. Locking(L, f, t, {}, Committed) /\ L.unblocked_task_queue = machine.unblocked_task_queue
  <2>1. /\ Locking(try_lock_usage_queues(machine, t, f[t]), f, t, {}, Committed)
        /\ try_lock_usage_queues(machine, t, f[t]).unblocked_task_queue = machine.unblocked_task_queue
    BY <1>5, TryLock, Zenon
  <2> QED
    BY <1>2, <2>1, Zenon
<1>7. L.blocked_usage_count[t] = 0 <=>
          \A v \in DOMAIN f \ {t} : Conflicts(f[t], f[v]) => v \notin Committed /\ t < v
  <2>1. MachineOK(L, f, {}, Committed) /\ t \in DOMAIN f \ Committed
    BY <1>1, <1>2, <1>6, Zenon DEF Locking
  <2>2. Settled(L, f, Committed)
    BY <1>3, <2>1, Zenon DEF Settled
  <2>3. FreeIff(L, f, Committed, t)
    BY <2>1, <2>2, UnblockedTasks, Zenon
  <2> QED
    BY <2>3, Zenon DEF FreeIff
<1>8. Promise!Unhindered(t, x, DOMAIN tx) <=>
          \A v \in DOMAIN tx : Conflicts(x, tx[v]) => v \notin Committed /\ t < v
  BY <1>1, Views, Zenon DEF Promise!Unhindered
<1>9. (\A v \in DOMAIN f \ {t} : Conflicts(f[t], f[v]) => v \notin Committed /\ t < v)
      <=> (\A v \in DOMAIN tx : Conflicts(x, tx[v]) => v \notin Committed /\ t < v)
  BY <1>1, <1>2
<1> QED
  BY <1>1, <1>3, <1>6, <1>7, <1>8, <1>9, Zenon

\* schedule_or_buffer_task keeps the invariant and is an arrival of the promise.
LEMMA ArriveStep ==
    ASSUME IInv, NEW t \in Tasks, NEW x \in Transactions, NEW force \in BOOLEAN,
           schedule_or_buffer_task(t, x, force)
    PROVE  IInv' /\ Promise!Arrive(t, x, t \in running')
<1> DEFINE L == try_lock_usage_queues(machine, t, x)
           f == [u \in DOMAIN tx \union {t} |-> IF u = t THEN x ELSE tx[u]]
           n == L.blocked_usage_count[t]
<1>1. New(t) /\ tx' = f /\ UNCHANGED <<mode, clearing>> /\ ~clearing
  BY Zenon DEF schedule_or_buffer_task, New
<1>2. /\ ActiveOK(f) /\ t \notin DOMAIN tx /\ Cardinality(DOMAIN f) = Cardinality(DOMAIN tx) + 1
      /\ Locking(L, f, t, {}, Committed)
      /\ L.unblocked_task_queue = machine.unblocked_task_queue
      /\ n = 0 <=> Promise!Unhindered(t, x, DOMAIN tx)
  BY <1>1, ArriveEffect, Zenon
<1>3. DOMAIN f = DOMAIN tx \cup {t} /\ f[t] = x /\ \A u \in DOMAIN tx : f[u] = tx[u]
  BY <1>2
<1>4. \/ n > 0 /\ machine' = L /\ running' = running
      \/ /\ n = 0 /\ machine' = [L EXCEPT !.unblocked_task_queue = Append(@, t)] /\ running' = running
      \/ n = 0 /\ machine' = L /\ running' = running \cup {t}
  BY Zenon DEF schedule_or_buffer_task
<1> HIDE DEF L, f, n
<1>5. MachineOK(L, f, {}, Committed) /\ \A s \in DOMAIN tx : L.blocked_usage_count[s] > 0 <=> s \notin Committed
  BY <1>2, <1>3, Zenon DEF Locking
<1>6. \A s \in DOMAIN f : L.blocked_usage_count[s] \in Nat
  BY <1>2, <1>5, Zenon DEF MachineOK, FormOK, ActiveOK
<1> DEFINE E == {s \in DOMAIN f : L.blocked_usage_count[s] = 0}
<1>7. E = Committed \cup (IF n = 0 THEN {t} ELSE {})
  <2>1. \A s \in DOMAIN tx : L.blocked_usage_count[s] = 0 <=> s \in Committed
    BY <1>3, <1>5, <1>6
  <2>2. Committed \subseteq DOMAIN tx
    BY Views
  <2> QED
    BY <1>2, <1>3, <2>1, <2>2, Zenon DEF n
<1>8. MachineOK(L, f, {}, E)
  BY <1>2, <1>5, Recommit, Zenon
<1> HIDE DEF E
<1> DEFINE queue == machine.unblocked_task_queue
<1>9. /\ queue \in Seq(Tasks) /\ Injective(queue) /\ Range(queue) = Ready
      /\ Ready \cup running = Committed /\ Ready \cap running = {} /\ t \notin Committed
  BY <1>2, Views, Zenon DEF IInv, Ready
<1>10. /\ MachineOK(machine', f, {}, E) /\ machine'.blocked_usage_count = L.blocked_usage_count
       /\ machine'.unblocked_task_queue \in {queue, Append(queue, t)}
       /\ machine'.unblocked_task_queue = Append(queue, t) <=> n = 0 /\ running' = running
       /\ machine'.unblocked_task_queue = queue <=> n > 0 \/ running' # running
  <2>1. queue # Append(queue, t)
    BY <1>9
  <2>2. L.unblocked_task_queue = queue
    BY <1>2, Zenon
  <2>3. CASE n > 0 /\ machine' = L /\ running' = running
    BY <1>8, <2>1, <2>2, <2>3
  <2>4. CASE n = 0 /\ machine' = L /\ running' = running \cup {t}
    <3>1. running' # running
      BY <1>9, <2>4
    <3> QED
      BY <1>8, <2>1, <2>2, <2>4, <3>1, Zenon
  <2>5. CASE /\ n = 0 /\ machine' = [L EXCEPT !.unblocked_task_queue = Append(@, t)] /\ running' = running
    <3>1. machine' = Requeued(L, Append(queue, t))
      BY <2>2, <2>5 DEF Requeued
    <3>2. /\ MachineOK(machine', f, {}, E) /\ machine'.blocked_usage_count = L.blocked_usage_count
          /\ machine'.unblocked_task_queue = Append(queue, t)
      BY <1>8, <3>1, Requeue, Zenon
    <3> QED
      BY <2>1, <2>5, <3>2
  <2> QED
    BY <1>4, <2>3, <2>4, <2>5, Zenon
<1>11. /\ machine'.unblocked_task_queue \in Seq(Tasks) /\ Injective(machine'.unblocked_task_queue)
       /\ Ready' = Ready \cup (IF n = 0 /\ running' = running THEN {t} ELSE {})
  <2>1. /\ Append(queue, t) \in Seq(Tasks) /\ Range(Append(queue, t)) = Ready \cup {t}
        /\ Injective(Append(queue, t))
    BY <1>9, AppendFacts
  <2>2. Ready' = Range(machine'.unblocked_task_queue)
    BY DEF Ready
  <2>3. n > 0 => n # 0
    BY <1>3, <1>6 DEF n
  <2> HIDE DEF queue
  <2> QED
    BY <1>4, <1>9, <1>10, <2>1, <2>2, <2>3, Zenon
<1>12. running' = running \cup (IF n = 0 /\ running' # running THEN {t} ELSE {})
  BY <1>4, Zenon
<1>13. Committed' = E
  BY <1>1, <1>10, Zenon DEF Committed, E
<1>14. Ready' \cup running' = Committed' /\ Ready' \cap running' = {}
  BY <1>7, <1>9, <1>11, <1>12, <1>13, Zenon
<1>15. created' \subseteq Tasks /\ DOMAIN f \subseteq created'
  BY <1>1, <1>3, Zenon DEF New, IInv
<1>16. active_task_count' = Cardinality(DOMAIN f)
  BY <1>2, Zenon DEF schedule_or_buffer_task, IInv
<1>17. mode = "production" => /\ \A r, u \in DOMAIN f : f[r] = f[u] => r = u
                              /\ unique_active_task_hashes' = {f[r] : r \in DOMAIN f}
  <2> SUFFICES ASSUME mode = "production"
               PROVE  /\ \A r, u \in DOMAIN f : f[r] = f[u] => r = u
                      /\ unique_active_task_hashes' = {f[r] : r \in DOMAIN f}
    OBVIOUS
  <2>1. /\ \A r, u \in DOMAIN tx : tx[r] = tx[u] => r = u
        /\ unique_active_task_hashes = {tx[r] : r \in DOMAIN tx}
        /\ x \notin unique_active_task_hashes
        /\ unique_active_task_hashes' = unique_active_task_hashes \cup {x}
    BY DEF IInv, schedule_or_buffer_task, Excess
  <2> QED
    BY <1>3, <2>1
<1>18. mode = "verification" => unique_active_task_hashes' = {}
  BY DEF IInv, schedule_or_buffer_task
<1>19. IInv'
  BY <1>1, <1>2, <1>10, <1>11, <1>13, <1>14, <1>15, <1>16, <1>17, <1>18, ZenonT(30) DEF IInv
<1>20. Waiting' = DOMAIN f \ E
  BY <1>1, <1>6, <1>10 DEF Waiting, E
<1>21. Promise!Active = DOMAIN tx /\ Waiting = DOMAIN tx \ Committed
  BY Views
<1>22. IF n = 0
       THEN /\ Ready' = IF t \in running' THEN Ready ELSE Ready \cup {t}
            /\ running' = IF t \in running' THEN running \cup {t} ELSE running
            /\ Waiting' = Waiting
       ELSE Waiting' = Waiting \cup {t} /\ Ready' = Ready /\ running' = running
  <2>1. t \in running' <=> n = 0 /\ running' # running
    BY <1>4, <1>9
  <2>2. Waiting' = Waiting \cup (IF n = 0 THEN {} ELSE {t})
    BY <1>2, <1>3, <1>7, <1>9, <1>20, <1>21, Zenon
  <2> QED
    BY <1>11, <1>12, <2>1, <2>2, Zenon
<1>23. Promise!Arrive(t, x, t \in running')
  BY <1>1, <1>2, <1>21, <1>22, Zenon DEF Promise!Arrive, f
<1> QED
  BY <1>19, <1>23

\* What the release of a committed task does to the machine: m is the machine with
\* the task already taken out of the queue of unblocked tasks, if it was there.
LetGo(m, t) ==
    /\ t \in Committed /\ MachineOK(m, tx, {}, Committed)
    /\ m.blocked_usage_count = machine.blocked_usage_count
    /\ m.unblocked_task_queue \in Seq(Tasks) /\ Injective(m.unblocked_task_queue)
    /\ Range(m.unblocked_task_queue) = Ready \ {t}

\* The machine N after that, with f the transactions left and E the committed tasks.
HasLeft(N, f, E, t) ==
    /\ ActiveOK(f) /\ Cardinality(DOMAIN f) = Cardinality(DOMAIN tx) - 1
    /\ MachineOK(N, f, {}, E)
    /\ N.unblocked_task_queue \in Seq(Tasks) /\ Injective(N.unblocked_task_queue)
    /\ Range(N.unblocked_task_queue) = (Ready \ {t}) \cup Promise!Freed(t)
    /\ E = (Committed \ {t}) \cup Promise!Freed(t)
    /\ \A s \in DOMAIN f : N.blocked_usage_count[s] \in Nat

\* Release of a committed task frees those the promise says it frees.
LEMMA DepartEffect ==
    ASSUME IInv, NEW m, NEW t, LetGo(m, t),
           NEW f, f = [u \in DOMAIN tx \ {t} |-> tx[u]],
           NEW N, N = unlock_usage_queues(m, t),
           NEW E, E = {s \in DOMAIN f : N.blocked_usage_count[s] = 0}
    PROVE  HasLeft(N, f, E, t)
<1>1. t \in Committed /\ t \in DOMAIN tx /\ Ready \subseteq Committed
  BY Views, Zenon DEF LetGo, IInv
<1>2. DOMAIN f = DOMAIN tx \ {t} /\ \A u \in DOMAIN f : f[u] = tx[u]
  OBVIOUS
<1>3. ActiveOK(f) /\ Cardinality(DOMAIN f) = Cardinality(DOMAIN tx) - 1
  <2>1. IsFiniteSet(DOMAIN tx)
    BY Zenon DEF IInv, ActiveOK
  <2>2. IsFiniteSet(DOMAIN f) /\ Cardinality(DOMAIN f) = Cardinality(DOMAIN tx) - 1
    BY <1>1, <1>2, <2>1, FS_RemoveElement, Zenon
  <2> QED
    BY <1>2, <2>2, Zenon DEF IInv, ActiveOK
<1> DEFINE Q == Ready \ {t}
<1>4. Unlocking(m, t, {}, Committed, Q)
  <2>1. {s \in DOMAIN tx \ Committed : m.blocked_usage_count[s] = 0} = {}
    BY Zenon DEF LetGo, Committed
  <2>2. QueuedOK(m, Committed, Q)
    BY <2>1, Zenon DEF LetGo, QueuedOK
  <2>3. ActiveOK(tx) /\ MachineOK(m, tx, {}, Committed) /\ Q \subseteq Committed
    BY <1>1 DEF LetGo, IInv
  <2> QED
    BY <1>1, <2>2, <2>3, Zenon DEF Unlocking
<1> HIDE DEF Q
<1>5. Unlocking(N, t, {t} \X Addresses, Committed, Q)
  BY <1>4, UnlockAll, Zenon
<1>6. MachineOK(N, f, {}, Committed)
  <2>1. MachineOK(N, tx, {t} \X Addresses, Committed)
    BY <1>5, Zenon DEF Unlocking
  <2> QED
    BY <1>2, <2>1, LeaveOut, Zenon
<1>7. MachineOK(N, f, {}, E)
  BY <1>3, <1>6, Recommit, Zenon
<1>8. \A s \in DOMAIN f \ Committed : FreeIff(N, f, Committed, s)
  <2>1. Settled(N, f, Committed)
    BY <1>3, <1>6, Zenon DEF Settled
  <2> QED
    BY <2>1, UnblockedTasks, Zenon
<1> DEFINE F == {s \in DOMAIN tx \ Committed : N.blocked_usage_count[s] = 0}
<1>9. F = Promise!Freed(t)
  <2>1. Promise!Active = DOMAIN tx /\ Waiting = DOMAIN tx \ Committed
    BY Views, Zenon
  <2>2. ASSUME NEW s \in DOMAIN tx \ Committed
        PROVE  N.blocked_usage_count[s] = 0 <=> Promise!Unhindered(s, tx[s], DOMAIN tx \ {t})
    <3>1. s \in DOMAIN f \ Committed /\ f[s] = tx[s]
      BY <1>1, <1>2
    <3>2. N.blocked_usage_count[s] = 0 <=>
              \A v \in DOMAIN f \ {s} : Conflicts(f[s], f[v]) => v \notin Committed /\ s < v
      BY <1>8, <3>1, Zenon DEF FreeIff
    <3>3. Promise!Unhindered(s, tx[s], DOMAIN tx \ {t}) <=>
              \A v \in DOMAIN tx \ {t} : s # v /\ Conflicts(tx[s], tx[v]) => v \notin Committed /\ s < v
      BY <2>1 DEF Promise!Unhindered
    <3> QED
      BY <1>2, <3>1, <3>2, <3>3, Zenon
  <2>3. Promise!Freed(t) = {u \in DOMAIN tx \ Committed : Promise!Unhindered(u, tx[u], DOMAIN tx \ {t})}
    BY <2>1, Zenon DEF Promise!Freed
  <2> QED
    BY <2>2, <2>3, Zenon
<1>10. /\ N.unblocked_task_queue \in Seq(Tasks) /\ Injective(N.unblocked_task_queue)
       /\ Range(N.unblocked_task_queue) = Q \cup F
  BY <1>5, Zenon DEF Unlocking, QueuedOK
<1>11. E = (Committed \ {t}) \cup F
  <2>1. \A s \in Committed : N.blocked_usage_count[s] = 0
    BY <1>6, Views, CommittedRuns, Zenon
  <2> QED
    BY <1>1, <1>2, <2>1, Views, Zenon
<1>12. \A s \in DOMAIN f : N.blocked_usage_count[s] \in Nat
  BY <1>3, <1>6 DEF MachineOK, FormOK, ActiveOK
<1> HIDE DEF F
<1> QED
  BY <1>3, <1>7, <1>9, <1>10, <1>11, <1>12, Zenon DEF Q, HasLeft

\* Releasing a task keeps the invariant and is a departure of the promise.
LEMMA DepartStep ==
    ASSUME IInv, NEW m, NEW t, LetGo(m, t), Release(m, t), UNCHANGED clearing
    PROVE  IInv' /\ Promise!Depart(t)
<1> DEFINE N == unlock_usage_queues(m, t)
           f == [u \in DOMAIN tx \ {t} |-> tx[u]]
           E == {s \in DOMAIN f : N.blocked_usage_count[s] = 0}
<1>0. /\ f = [u \in DOMAIN tx \ {t} |-> tx[u]] /\ N = unlock_usage_queues(m, t)
      /\ E = {s \in DOMAIN f : N.blocked_usage_count[s] = 0}
  OBVIOUS
<1>1. tx' = f /\ machine' = N /\ running' = running \ {t} /\ UNCHANGED <<mode, clearing, created>>
  BY DEF Release
<1>2. /\ ActiveOK(f) /\ Cardinality(DOMAIN f) = Cardinality(DOMAIN tx) - 1
      /\ MachineOK(N, f, {}, E)
      /\ N.unblocked_task_queue \in Seq(Tasks) /\ Injective(N.unblocked_task_queue)
      /\ Range(N.unblocked_task_queue) = (Ready \ {t}) \cup Promise!Freed(t)
      /\ E = (Committed \ {t}) \cup Promise!Freed(t)
      /\ \A s \in DOMAIN f : N.blocked_usage_count[s] \in Nat
  <2> HIDE DEF N, f, E
  <2>1. HasLeft(N, f, E, t)
    BY <1>0, DepartEffect, Zenon
  <2> QED
    BY <2>1, Zenon DEF HasLeft
<1>3. DOMAIN f = DOMAIN tx \ {t} /\ \A u \in DOMAIN f : f[u] = tx[u]
  OBVIOUS
<1> HIDE DEF N, f, E
<1>e. E = (Committed \ {t}) \cup Promise!Freed(t)
  BY <1>2, Zenon
<1>n. \A s \in DOMAIN f : N.blocked_usage_count[s] \in Nat
  BY <1>2, Zenon
<1>4. Committed' = E /\ Waiting' = DOMAIN f \ E
  BY <1>0, <1>1, <1>n DEF Committed, Waiting
<1>5. /\ Committed = Ready \cup running /\ Ready \cap running = {} /\ t \in Committed
      /\ Promise!Active = DOMAIN tx /\ Waiting = DOMAIN tx \ Committed
      /\ Committed \subseteq DOMAIN tx
  BY Views, Zenon DEF IInv, LetGo
<1>6. Ready' = (Ready \ {t}) \cup Promise!Freed(t)
  BY <1>1, <1>2, Zenon DEF Ready
<1>7. Promise!Freed(t) \subseteq Waiting
  BY Zenon DEF Promise!Freed
<1>8. active_task_count' = Cardinality(DOMAIN f)
  BY <1>2, Zenon DEF IInv, Release
<1>9. mode = "production" => /\ \A r, u \in DOMAIN f : f[r] = f[u] => r = u
                             /\ unique_active_task_hashes' = {f[r] : r \in DOMAIN f}
  <2> SUFFICES ASSUME mode = "production"
               PROVE  /\ \A r, u \in DOMAIN f : f[r] = f[u] => r = u
                      /\ unique_active_task_hashes' = {f[r] : r \in DOMAIN f}
    BY Zenon
  <2>1. /\ \A r, u \in DOMAIN tx : tx[r] = tx[u] => r = u
        /\ unique_active_task_hashes = {tx[r] : r \in DOMAIN tx}
        /\ unique_active_task_hashes' = unique_active_task_hashes \ {tx[t]}
    BY DEF IInv, Release
  <2>2. t \in DOMAIN tx
    BY <1>5, Zenon
  <2> QED
    BY <1>3, <2>1, <2>2
<1>10. mode = "verification" => unique_active_task_hashes' = {}
  BY Zenon DEF IInv, Release
<1>11. Ready' \cup running' = Committed' /\ Ready' \cap running' = {}
  BY <1>1, <1>e, <1>4, <1>5, <1>6, <1>7, Zenon
<1>12. DOMAIN f \subseteq created'
  BY <1>1, <1>3 DEF IInv
<1>13. IInv'
  <2>1. MachineOK(machine', tx', {}, Committed')
    BY <1>1, <1>2, <1>4, Zenon
  <2>2. /\ ActiveOK(tx') /\ machine'.unblocked_task_queue \in Seq(Tasks)
        /\ Injective(machine'.unblocked_task_queue)
    BY <1>1, <1>2, Zenon
  <2>3. /\ active_task_count' = Cardinality(DOMAIN tx')
        /\ mode' = "production" => /\ \A r, u \in DOMAIN tx' : tx'[r] = tx'[u] => r = u
                                   /\ unique_active_task_hashes' = {tx'[r] : r \in DOMAIN tx'}
        /\ mode' = "verification" => unique_active_task_hashes' = {}
    BY <1>1, <1>8, <1>9, <1>10, Zenon
  <2>4. /\ mode' \in {"verification", "production"} /\ created' \subseteq Tasks
        /\ DOMAIN tx' \subseteq created' /\ (clearing' => running' = {})
    BY <1>1, <1>12 DEF IInv
  <2> QED
    BY <1>11, <2>1, <2>2, <2>3, <2>4, Zenon DEF IInv
<1>14. Waiting' = Waiting \ Promise!Freed(t)
  BY <1>e, <1>3, <1>4, <1>5, Zenon
<1>15. Promise!Depart(t)
  BY <1>1, <1>5, <1>6, <1>14, Zenon DEF Promise!Depart, f
<1> QED
  BY <1>13, <1>15, Zenon

\* The first of the unblocked tasks is taken out of their queue.
LEMMA TakeFirst ==
    ASSUME NEW s \in Seq(Tasks), Injective(s), s # << >>
    PROVE  /\ Head(s) \in Range(s) /\ Tail(s) \in Seq(Tasks) /\ Injective(Tail(s))
           /\ Range(Tail(s)) = Range(s) \ {Head(s)}
<1>1. Len(s) \in Nat /\ DOMAIN s = 1 .. Len(s) /\ Len(s) >= 1 /\ Head(s) = s[1]
  OBVIOUS
<1>2. /\ Tail(s) \in Seq(Tasks) /\ DOMAIN Tail(s) = 1 .. Len(s) - 1
      /\ \A i \in 1 .. Len(s) - 1 : Tail(s)[i] = s[i + 1]
  OBVIOUS
<1>3. Head(s) \in Range(s)
  BY <1>1 DEF Range
<1>4. Injective(Tail(s))
  BY <1>1, <1>2 DEF Injective
<1>5. ASSUME NEW d \in Range(Tail(s))
      PROVE  d \in Range(s) \ {Head(s)}
  <2>1. PICK i \in 1 .. Len(s) - 1 : d = s[i + 1]
    BY <1>2 DEF Range
  <2>2. i + 1 \in DOMAIN s /\ 1 \in DOMAIN s /\ i + 1 # 1
    BY <1>1
  <2> QED
    BY <1>1, <2>1, <2>2, Zenon DEF Injective, Range
<1>6. ASSUME NEW d \in Range(s) \ {Head(s)}
      PROVE  d \in Range(Tail(s))
  <2>1. PICK i \in DOMAIN s : d = s[i]
    BY DEF Range
  <2>2. i - 1 \in 1 .. Len(s) - 1 /\ s[(i - 1) + 1] = d
    BY <1>1, <2>1
  <2> QED
    BY <1>2, <2>2 DEF Range
<1> QED
  BY <1>2, <1>3, <1>4, <1>5, <1>6, Zenon

\* What the two takers of the first unblocked task leave of the machine.
LEMMA FirstTaken ==
    ASSUME IInv, machine.unblocked_task_queue # << >>,
           NEW t, t = Head(machine.unblocked_task_queue),
           NEW rest, rest = [machine EXCEPT !.unblocked_task_queue = Tail(@)]
    PROVE  LetGo(rest, t) /\ t \in Ready
<1> DEFINE queue == machine.unblocked_task_queue
<1>1. /\ t \in Ready /\ Tail(queue) \in Seq(Tasks) /\ Injective(Tail(queue))
      /\ Range(Tail(queue)) = Ready \ {t}
  BY TakeFirst DEF IInv, Ready
<1>2. rest = Requeued(machine, Tail(queue))
  BY DEF Requeued
<1> HIDE DEF queue
<1>3. /\ MachineOK(rest, tx, {}, Committed) /\ rest.blocked_usage_count = machine.blocked_usage_count
      /\ rest.unblocked_task_queue = Tail(queue)
  <2>1. MachineOK(machine, tx, {}, Committed)
    BY DEF IInv
  <2>2. /\ MachineOK(Requeued(machine, Tail(queue)), tx, {}, Committed)
        /\ Requeued(machine, Tail(queue)).blocked_usage_count = machine.blocked_usage_count
        /\ Requeued(machine, Tail(queue)).unblocked_task_queue = Tail(queue)
    BY <2>1, Requeue, Zenon
  <2> QED
    BY <1>2, <2>2, Zenon
<1> QED
  BY <1>1, <1>3, Zenon DEF LetGo, IInv

\* schedule_next_unblocked_task keeps the invariant and runs a ready task.
LEMMA RunStep ==
    ASSUME IInv, schedule_next_unblocked_task
    PROVE  IInv' /\ \E t \in Tasks : Promise!Run(t)
<1> DEFINE t == Head(machine.unblocked_task_queue)
<1>1. /\ running' = running \cup {t} /\ machine.unblocked_task_queue # << >> /\ ~clearing
      /\ machine' = [machine EXCEPT !.unblocked_task_queue = Tail(@)]
      /\ UNCHANGED <<mode, created, tx, active_task_count, unique_active_task_hashes, clearing>>
  BY DEF schedule_next_unblocked_task
<1>2. LetGo(machine', t) /\ t \in Ready
  BY <1>1, FirstTaken
<1> HIDE DEF t
<1>3. /\ Committed' = Committed /\ Waiting' = Waiting /\ Ready' = Ready \ {t}
  BY <1>1, <1>2 DEF LetGo, Committed, Waiting, Ready
<1>4. Ready' \cup running' = Committed /\ Ready' \cap running' = {} /\ t \in Tasks
  BY <1>1, <1>2, <1>3, Views, Zenon DEF IInv
<1>5. /\ MachineOK(machine', tx, {}, Committed)
      /\ machine'.unblocked_task_queue \in Seq(Tasks) /\ Injective(machine'.unblocked_task_queue)
  BY <1>2 DEF LetGo
<1>6. IInv'
  BY <1>1, <1>3, <1>4, <1>5, Zenon DEF IInv, ActiveOK
<1>7. Promise!Run(t)
  BY <1>1, <1>2, <1>3, Zenon DEF Promise!Run
<1> QED
  BY <1>4, <1>6, <1>7

\* Steps that leave the tasks and the machine alone.
LEMMA QuietStep ==
    ASSUME IInv, UNCHANGED <<mode, tx, machine, running, active_task_count, unique_active_task_hashes>>,
           created \subseteq created', created' \subseteq Tasks, clearing' => running = {}
    PROVE  IInv' /\ UNCHANGED Promise!vars
<1>1. Committed' = Committed /\ Waiting' = Waiting /\ Ready' = Ready
  BY Zenon DEF Committed, Waiting, Ready
<1>2. IInv'
  BY <1>1 DEF IInv
<1>3. UNCHANGED Promise!vars
  BY <1>1 DEF Promise!vars
<1> QED
  BY <1>2, <1>3, Zenon

\* Every step keeps the invariant and is a step of the promise, or leaves it alone.
LEMMA EveryStep ==
    ASSUME IInv, [Next]_vars
    PROVE  IInv' /\ [Promise!Next]_(Promise!vars)
<1>1. CASE Schedule
  <2>1. PICK t \in Tasks, x \in Transactions :
            \/ DropTask(t, x)
            \/ \E force \in BOOLEAN : schedule_or_buffer_task(t, x, force)
    BY <1>1 DEF Schedule
  <2>2. CASE DropTask(t, x)
    <3>1. /\ UNCHANGED <<mode, tx, machine, running, active_task_count, unique_active_task_hashes>>
          /\ created \subseteq created' /\ created' \subseteq Tasks /\ (clearing' => running = {})
      BY <2>2 DEF DropTask, New, IInv
    <3> QED
      BY <3>1, QuietStep, Zenon
  <2>3. CASE \E force \in BOOLEAN : schedule_or_buffer_task(t, x, force)
    <3>1. PICK force \in BOOLEAN : schedule_or_buffer_task(t, x, force)
      BY <2>3
    <3>2. IInv' /\ Promise!Arrive(t, x, t \in running')
      BY <3>1, ArriveStep, Zenon
    <3>3. \E runs \in BOOLEAN : Promise!Arrive(t, x, runs)
      <4>1. (t \in running') \in BOOLEAN
        OBVIOUS
      <4> QED
        BY <3>2, <4>1, Zenon
    <3> QED
      BY <3>2, <3>3, Zenon DEF Promise!Next
  <2> QED
    BY <2>1, <2>2, <2>3, Zenon
<1>2. CASE schedule_next_unblocked_task
  BY <1>2, RunStep, Zenon DEF Promise!Next
<1>3. ASSUME NEW t \in Tasks, deschedule_task(t)
      PROVE  IInv' /\ [Promise!Next]_(Promise!vars)
  <2>1. t \in Committed /\ t \notin Ready
    BY <1>3, Zenon DEF deschedule_task, IInv
  <2>2. LetGo(machine, t)
    BY <2>1 DEF IInv, LetGo, Ready
  <2>3. Release(machine, t) /\ UNCHANGED clearing
    BY <1>3 DEF deschedule_task
  <2>4. IInv' /\ Promise!Depart(t)
    BY <2>2, <2>3, DepartStep, Zenon
  <2> QED
    BY <2>4, Zenon DEF Promise!Next
<1>4. CASE Clear
  <2>1. /\ UNCHANGED <<mode, tx, machine, running, active_task_count, unique_active_task_hashes>>
        /\ created \subseteq created' /\ created' \subseteq Tasks /\ (clearing' => running = {})
    BY <1>4 DEF Clear, IInv
  <2> QED
    BY <2>1, QuietStep, Zenon
<1>5. CASE ClearNext
  <2> DEFINE t == Head(machine.unblocked_task_queue)
             rest == [machine EXCEPT !.unblocked_task_queue = Tail(@)]
  <2>1. machine.unblocked_task_queue # << >> /\ Release(rest, t) /\ UNCHANGED clearing
    BY <1>5 DEF ClearNext
  <2>2. LetGo(rest, t) /\ t \in Ready
    BY <2>1, FirstTaken
  <2> HIDE DEF t, rest
  <2>3. IInv' /\ Promise!Depart(t)
    BY <2>1, <2>2, DepartStep, Zenon
  <2>4. t \in Tasks
    BY <2>2, Views, Zenon DEF LetGo
  <2> QED
    BY <2>3, <2>4, Zenon DEF Promise!Next
<1>6. CASE Reinitialize
  <2>1. /\ UNCHANGED <<mode, tx, machine, running, active_task_count, unique_active_task_hashes>>
        /\ created \subseteq created' /\ created' \subseteq Tasks /\ (clearing' => running = {})
    BY <1>6, Zenon DEF Reinitialize, IInv
  <2> QED
    BY <2>1, QuietStep, Zenon
<1>7. CASE UNCHANGED vars
  <2>1. /\ UNCHANGED <<mode, tx, machine, running, active_task_count, unique_active_task_hashes>>
        /\ created \subseteq created' /\ created' \subseteq Tasks /\ (clearing' => running = {})
    BY <1>7 DEF vars, IInv
  <2> QED
    BY <2>1, QuietStep, Zenon
<1> QED
  BY <1>1, <1>2, <1>3, <1>4, <1>5, <1>6, <1>7, Zenon DEF Next

\* The invariant the other theorems rest on.
THEOREM MachineInvariant == Spec => []IInv
<1>1. IInv /\ [Next]_vars => IInv'
  BY EveryStep, Zenon
<1> QED
  BY <1>1, InitHolds, PTL DEF Spec

\* KeepsOrder: the usage queues implement the promise.
THEOREM QueuesKeepOrder == Spec => KeepsOrder
<1>1. Init => Promise!Init
  <2> SUFFICES ASSUME Init PROVE Promise!Init
    OBVIOUS
  <2>1. IInv /\ DOMAIN tx = {} /\ machine.unblocked_task_queue = << >>
    BY InitHolds DEF Init
  <2>2. Waiting = {}
    BY <2>1, Zenon DEF Waiting
  <2>3. Ready = {}
    BY <2>1 DEF IInv, Committed
  <2> QED
    BY <2>2, <2>3, Zenon DEF Init, Promise!Init
<1>2. IInv /\ [Next]_vars => [Promise!Next]_(Promise!vars)
  BY EveryStep, Zenon
<1>3. Spec => []IInv
  BY MachineInvariant
<1> QED
  BY <1>1, <1>2, <1>3, PTL DEF Spec, KeepsOrder, Promise!Spec

\* WriteFollowsRead: an address nobody uses has nobody blocked, and behind readers
\* the first to be blocked is a writer.
THEOREM WriteFollowsReadHolds == Spec => []WriteFollowsRead
<1>1. ASSUME IInv PROVE WriteFollowsRead
  <2> SUFFICES ASSUME NEW a \in Addresses, machine.queues[a].blocked # << >>
               PROVE  /\ machine.queues[a].users # {}
                      /\ machine.queues[a].usage = "readonly" =>
                             RequestedUsage(Head(machine.queues[a].blocked), a) = "writable"
    BY Zenon DEF WriteFollowsRead
  <2> DEFINE q == machine.queues[a]
             T == Asking(tx, {}, a)
             W == Writing(tx, {}, a)
  <2>1. QueueOK(q, T, W, Committed) /\ T \in SUBSET Nat /\ T \subseteq DOMAIN tx /\ q.blocked # << >>
    BY <1>1, AskingFacts, Zenon DEF IInv, MachineOK, QueuesOK
  <2> HIDE DEF q, T, W
  <2>2. q.blocked \in Seq(T) /\ Ascending(q.blocked)
    BY <2>1, Zenon DEF QueueOK
  <2>3. /\ Head(q.blocked) \in Range(q.blocked)
        /\ \A d \in Range(q.blocked) : Head(q.blocked) <= d
    BY <2>1, <2>2, HeadIsLeast, Zenon
  <2>4. q.users # {} /\ (q.usage = "readonly" => Head(q.blocked) \in W)
    BY <2>1, <2>3, Zenon DEF QueueOK, Sound
  <2>5. ASSUME NEW s \in W
        PROVE  RequestedUsage(s, a) = "writable"
    <3>1. s \in DOMAIN tx /\ Wants(tx[s], a) /\ Writes(tx[s], a)
      BY Zenon DEF W, Writing, Asking
    <3>2. tx[s] \in Transactions
      BY <1>1, <3>1, Zenon DEF IInv, ActiveOK
    <3> QED
      BY <3>1, <3>2, RequestedFacts, Zenon
  <2> QED
    BY <2>4, <2>5, Zenon DEF q
<1> QED
  BY <1>1, MachineInvariant, PTL

\* A task that no other active one precedes and that nothing committed stands in
\* the way of is not blocked: with tasks left some task is committed.
LEMMA SomeTaskRuns ==
    ASSUME IInv, Committed = {}
    PROVE  DOMAIN tx = {}
<1> SUFFICES ASSUME DOMAIN tx # {} PROVE FALSE
  BY Zenon
<1>1. PICK s \in DOMAIN tx : \A v \in DOMAIN tx : s <= v
  BY Views, LeastNumber, Zenon
<1>2. Settled(machine, tx, Committed)
  BY DEF IInv, Settled
<1>3. FreeIff(machine, tx, Committed, s)
  BY <1>2, UnblockedTasks, Zenon
<1>4. \A v \in DOMAIN tx \ {s} : v \notin Committed /\ s < v
  BY <1>1, Views
<1>5. machine.blocked_usage_count[s] = 0
  BY <1>3, <1>4, Zenon DEF FreeIff
<1> QED
  BY <1>5 DEF Committed

\* Without tasks the machine is as it was created.
LEMMA NothingIsLeft ==
    ASSUME IInv, DOMAIN tx = {}
    PROVE  /\ active_task_count = 0 /\ unique_active_task_hashes = {}
           /\ machine.unblocked_task_queue = <<>>
           /\ \A a \in Addresses : machine.queues[a].users = {} /\ machine.queues[a].blocked = <<>>
<1>1. active_task_count = 0
  BY FS_EmptySet, Zenon DEF IInv
<1>2. unique_active_task_hashes = {}
  BY Zenon DEF IInv
<1>3. machine.unblocked_task_queue = <<>>
  <2>1. Range(machine.unblocked_task_queue) = {}
    BY Views, Zenon DEF IInv, Ready
  <2> QED
    BY <2>1, EmptyRange DEF IInv
<1>4. ASSUME NEW a \in Addresses
      PROVE  machine.queues[a].users = {} /\ machine.queues[a].blocked = <<>>
  <2>1. Asking(tx, {}, a) = {}
    BY DEF Asking
  <2>2. QueueOK(machine.queues[a], {}, Writing(tx, {}, a), Committed)
    BY <2>1, Zenon DEF IInv, MachineOK, QueuesOK
  <2>3. machine.queues[a].users = {} /\ machine.queues[a].blocked \in Seq({})
    BY <2>2, Zenon DEF QueueOK
  <2>4. Range(machine.queues[a].blocked) \subseteq {}
    BY <2>3, EmptyRange, Zenon
  <2> QED
    BY <2>3, <2>4, EmptyRange
<1> QED
  BY <1>1, <1>2, <1>3, <1>4, Zenon

\* MachineRewinds: when the last task is gone, or clearing has run out of unblocked
\* ones, nothing is left of any task.
THEOREM MachineRewindsHolds == Spec => []MachineRewinds
<1>1. ASSUME IInv PROVE MachineRewinds
  <2>1. CASE active_task_count = 0
    <3>1. DOMAIN tx = {}
      BY <1>1, <2>1, CountFacts, Zenon DEF IInv, ActiveOK
    <3> QED
      BY <1>1, <3>1, NothingIsLeft, Zenon DEF MachineRewinds
  <2>2. CASE clearing /\ machine.unblocked_task_queue = <<>>
    <3>1. Ready = {}
      BY <1>1, <2>2, EmptyRange, Zenon DEF IInv, Ready
    <3>2. Committed = {}
      BY <1>1, <2>2, <3>1, Zenon DEF IInv
    <3> QED
      BY <1>1, <3>2, SomeTaskRuns, NothingIsLeft, Zenon DEF MachineRewinds
  <2> QED
    BY <2>1, <2>2, Zenon DEF MachineRewinds
<1> QED
  BY <1>1, MachineInvariant, PTL

\* ConflictFree of the promise: the tasks the machine has called runnable can all
\* be executed in parallel.
THEOREM RunnableTasksAreSafe == Spec => []Promise!ConflictFree
<1>1. ASSUME IInv PROVE Promise!ConflictFree
  <2> SUFFICES ASSUME NEW t \in Committed, NEW u \in Committed, t # u, Conflicts(tx[t], tx[u])
               PROVE  FALSE
    BY <1>1, Zenon DEF Promise!ConflictFree, Promise!Conflict, IInv
  <2>1. t \in DOMAIN tx /\ u \in DOMAIN tx
    BY <1>1, Views
  <2>2. PICK a \in Addresses : /\ t \in Asking(tx, {}, a) /\ u \in Asking(tx, {}, a)
                               /\ t \in Writing(tx, {}, a) \/ u \in Writing(tx, {}, a)
    BY <1>1, <2>1, ConflictFacts, Zenon DEF IInv
  <2> DEFINE q == machine.queues[a]
  <2>3. QueueOK(q, Asking(tx, {}, a), Writing(tx, {}, a), Committed)
    BY <1>1, Zenon DEF IInv, MachineOK, QueuesOK
  <2> HIDE DEF q
  <2> QED
    BY <2>2, <2>3, Zenon DEF QueueOK, Sound
<1> QED
  BY <1>1, MachineInvariant, PTL

\* NoIdleWaiting of the promise: a blocked task waits for an active, conflicting one
\* that goes first.
THEOREM WaitingIsJustified == Spec => []Promise!NoIdleWaiting
<1>1. ASSUME IInv PROVE Promise!NoIdleWaiting
  <2>1. /\ Promise!Active = DOMAIN tx /\ Waiting = DOMAIN tx \ Committed
        /\ \A s \in DOMAIN tx : machine.blocked_usage_count[s] > 0 <=> s \notin Committed
    BY <1>1, Views, Zenon
  <2> SUFFICES ASSUME NEW s \in DOMAIN tx \ Committed, Promise!Unhindered(s, tx[s], DOMAIN tx)
               PROVE  FALSE
    BY <2>1, Zenon DEF Promise!NoIdleWaiting
  <2>2. Settled(machine, tx, Committed)
    BY <1>1 DEF IInv, Settled
  <2>3. FreeIff(machine, tx, Committed, s)
    BY <2>2, UnblockedTasks, Zenon
  <2>4. \A v \in DOMAIN tx \ {s} : Conflicts(tx[s], tx[v]) => v \notin Committed /\ s < v
    BY <2>1 DEF Promise!Unhindered
  <2> QED
    BY <2>3, <2>4, Zenon DEF FreeIff, Committed
<1> QED
  BY <1>1, MachineInvariant, PTL

\* NoOvertaking of the promise: a task becomes runnable only if it has the higher
\* priority over every conflicting task that stays blocked.
THEOREM OrderIsKept == Spec => Promise!NoOvertaking
<1> DEFINE Step == \A t \in Waiting \intersect Waiting', u \in (Ready \union running)' :
                      u \notin Ready \union running /\ Promise!Conflict(t, u)' => u < t
<1>1. ASSUME IInv, [Next]_vars
      PROVE  [Step]_(Promise!vars)
  <2>1. [Promise!Next]_(Promise!vars)
    BY <1>1, EveryStep, Zenon
  <2> SUFFICES ASSUME Promise!Next PROVE Step
    BY <2>1, Zenon
  <2> SUFFICES ASSUME NEW t \in Waiting \intersect Waiting', NEW u \in (Ready \union running)',
                      u \notin Ready \union running, t # u, Conflicts(tx'[t], tx'[u])
               PROVE  u < t
    BY DEF Promise!Conflict
  <2>2. Conflicts(tx'[u], tx'[t])
    BY Zenon DEF Conflicts
  <2>3. /\ Promise!Active = DOMAIN tx /\ Waiting \subseteq DOMAIN tx
        /\ Waiting \cap (Ready \cup running) = {}
    BY <1>1, Views, Zenon DEF IInv
  <2>4. t \in Waiting /\ t \in DOMAIN tx
    BY <2>3, Zenon
  <2>5. ASSUME NEW s \in Tasks, NEW x \in Transactions, NEW runs \in BOOLEAN, Promise!Arrive(s, x, runs)
        PROVE  u < t
    <3>1. u = s /\ Promise!Unhindered(s, x, Promise!Active) /\ s \notin Promise!Active
      BY <2>5, Zenon DEF Promise!Arrive
    <3>2. tx'[u] = x /\ tx'[t] = tx[t]
      BY <2>3, <2>4, <2>5, <3>1, Zenon DEF Promise!Arrive
    <3> QED
      BY <2>2, <2>3, <2>4, <3>1, <3>2, Zenon DEF Promise!Unhindered
  <2>6. ASSUME NEW s \in Tasks, Promise!Run(s)
        PROVE  u < t
    BY <2>6, Zenon DEF Promise!Run
  <2>7. ASSUME NEW s \in Tasks, Promise!Depart(s)
        PROVE  u < t
    <3>1. u \in Promise!Freed(s) /\ t # s
      BY <2>3, <2>4, <2>7, Zenon DEF Promise!Depart
    <3>2. u \in Waiting /\ u # s /\ Promise!Unhindered(u, tx[u], DOMAIN tx \ {s})
      BY <2>3, <2>7, <3>1, Zenon DEF Promise!Freed, Promise!Depart
    <3>3. tx'[u] = tx[u] /\ tx'[t] = tx[t]
      BY <2>3, <2>4, <2>7, <3>1, <3>2, Zenon DEF Promise!Depart
    <3> QED
      BY <2>2, <2>4, <3>1, <3>2, <3>3, Zenon DEF Promise!Unhindered
  <2> QED
    BY <2>5, <2>6, <2>7, Zenon DEF Promise!Next
<1> QED
  BY <1>1, MachineInvariant, PTL DEF Spec, Promise!NoOvertaking
=============================================================================
