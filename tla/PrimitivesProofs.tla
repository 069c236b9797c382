-------------------------- MODULE PrimitivesProofs ---------------------------
(***************************************************************************)
(* Proofs about what the rest of the kernel is built from, modules         *)
(* SpinLock, LinkedQueue, SharedPtr and UserHeap, for any set of cores, of *)
(* nodes and of threads, any number of handles and a heap of any size: the *)
(* spin lock of kernel/atomic.h excludes, holds off interrupts and         *)
(* restores them; the list of kernel/queue.h behind it is, at every single *)
(* write, the sequence that module Fifo promises; the handles of           *)
(* kernel/shared.h keep their object and its Intermediate as long as they  *)
(* must and no longer; and the heaps of kernel/heap.cc and of the C        *)
(* library are at every step cut into tagged blocks, link exactly the free *)
(* ones, and leave what is allocated alone.                                *)
(***************************************************************************)
EXTENDS LinkedQueue, SharedPtr, UserHeap, Sums, SequenceTheorems

-----------------------------------------------------------------------------
(* The spin lock.  None of its three properties is inductive.  The         *)
(* strengthening says what the shared field `was` and the local variable   *)
(* of each core mean at every point of lock() and unlock().                *)

\* Whoever is between the exchange and the release holds the lock, alone.
Owned == /\ \A c \in Cores : pc[c] \in Held => taken
         /\ MutualExclusion

\* Where interrupts are off, and where they are as the caller set them.
Flags ==
    \A c \in Cores :
        IF pc[c] \in {"outside", "disable"}
        THEN interrupts[c] = flag[c]
        ELSE ~interrupts[c]

\* The local variable is the caller's flag, except while it is in `was`.
Saved ==
    \A c \in Cores :
        /\ pc[c] \in {"exchange", "failed", "save", "release", "released"}
              => wasDisabled[c] = ~flag[c]
        /\ pc[c] = "inside" => was = ~flag[c]

LockInv == TypeOK /\ Owned /\ Flags /\ Saved

-----------------------------------------------------------------------------

\* Every step keeps the inductive invariant.
LEMMA LockInductive == LockInv /\ [Next]_vars => LockInv'
<1> SUFFICES ASSUME LockInv, [Next]_vars
             PROVE  LockInv'
    OBVIOUS
<1> USE DEF LockInv, TypeOK, Owned, MutualExclusion, Held, Flags, Saved, At, Goto,
            Restore
<1>1. ASSUME NEW c \in Cores, SetFlag(c)
      PROVE  LockInv'
    BY <1>1 DEF SetFlag
<1>2. ASSUME NEW c \in Cores, CallLock(c)
      PROVE  LockInv'
    BY <1>2 DEF CallLock
<1>3. ASSUME NEW c \in Cores, Lock(c)
      PROVE  LockInv'
    <2>1. CASE Disable(c)
        BY <2>1 DEF Disable
    <2>2. CASE Exchange(c)
        BY <2>2 DEF Exchange
    <2>3. CASE Retry(c)
        BY <2>3 DEF Retry
    <2>4. CASE Save(c)
        BY <2>4 DEF Save
    <2> QED
        BY <1>3, <2>1, <2>2, <2>3, <2>4 DEF Lock
<1>4. ASSUME NEW c \in Cores, Unlock(c)
      PROVE  LockInv'
    <2>1. CASE ReadWas(c)
        BY <2>1 DEF ReadWas
    <2>2. CASE Release(c)
        BY <2>2 DEF Release
    <2>3. CASE Leave(c)
        BY <2>3 DEF Leave
    <2> QED
        BY <1>4, <2>1, <2>2, <2>3 DEF Unlock
<1>5. CASE UNCHANGED vars
    BY <1>5 DEF vars
<1> QED
    BY <1>1, <1>2, <1>3, <1>4, <1>5 DEF Next

\* The inductive invariant holds in every reachable state.
LEMMA LockInvariance == Spec => []LockInv
<1>1. Init => LockInv
    BY DEF Init, LockInv, TypeOK, Owned, MutualExclusion, Held, Flags, Saved
<1> QED
    BY <1>1, LockInductive, PTL DEF Spec

\* At most one core is between lock() and unlock().
THEOREM Exclusion == Spec => []MutualExclusion
<1>1. LockInv => MutualExclusion
    BY DEF LockInv, Owned
<1> QED
    BY <1>1, LockInvariance, PTL

\* The holder of the lock takes no interrupt.
THEOREM Uninterrupted == Spec => []HolderUninterrupted
<1>1. LockInv => HolderUninterrupted
    BY DEF LockInv, Flags, HolderUninterrupted, Held
<1> QED
    BY <1>1, LockInvariance, PTL

\* unlock() gives every core its own interrupt flag back, although all of
\* them save it in one field.
THEOREM Restored == Spec => []FlagRestored
<1>1. LockInv => FlagRestored
    BY DEF LockInv, Flags, FlagRestored
<1> QED
    BY <1>1, LockInvariance, PTL

-----------------------------------------------------------------------------
(* The list *)

\* Chain, as a function of the field `next`.
Walk(nx, head) ==
    LET limit == Cardinality(Nodes) + 1
        node[i \in 1..limit] ==
            IF i = 1 THEN head
            ELSE LET t == node[i - 1] IN IF t = Nil THEN Nil ELSE nx[t]
        count == Cardinality({i \in 1..limit : node[i] # Nil})
    IN  [i \in 1..count |-> node[i]]

\* q is what is reached from head through nx: no node twice, and an end.
IsList(q, nx, head) ==
    /\ q \in Seq(Nodes)
    /\ \A i, j \in 1..Len(q) : q[i] = q[j] => i = j
    /\ head = IF Len(q) = 0 THEN Nil ELSE q[1]
    /\ \A i \in 1..Len(q) : nx[q[i]] = IF i < Len(q) THEN q[i + 1] ELSE Nil

\* There are as many positions in a sequence as its length says.
LEMMA Positions == \A n \in Nat : Cardinality(1..n) = n
BY FS_Interval

\* One more than nothing is not more than one.
LEMMA OnlyOne == \A n \in Nat : n - 1 = 0 => ~ (1 < n)
OBVIOUS

\* Without repetition a list is no longer than there are nodes.
LEMMA ShortList ==
    ASSUME NEW q \in Seq(Nodes), \A i, j \in 1..Len(q) : q[i] = q[j] => i = j
    PROVE  /\ Cardinality(Nodes) \in Nat /\ Len(q) \in Nat
           /\ Len(q) <= Cardinality(Nodes)
<1>1. Len(q) \in Nat /\ q \in [1..Len(q) -> Nodes]
    BY LenProperties
<1>2. q \in Injection(1..Len(q), Nodes)
    BY <1>1 DEF Injection, IsInjective
<1>3. Cardinality(1..Len(q)) = Len(q)
    BY <1>1, FS_Interval
<1>4. Cardinality(1..Len(q)) <= Cardinality(Nodes)
    BY <1>2, QueueAssumption, FS_Injection
<1>5. Cardinality(Nodes) \in Nat
    BY QueueAssumption, FS_CardinalityType
<1> QED
    BY <1>1, <1>3, <1>4, <1>5

\* What Chain walks through is the list.
LEMMA WalkIs ==
    ASSUME NEW q, NEW nx, NEW head, IsList(q, nx, head)
    PROVE  Walk(nx, head) = q
<1>1. /\ q \in Seq(Nodes) /\ Len(q) \in Nat
      /\ \A i, j \in 1..Len(q) : q[i] = q[j] => i = j
      /\ head = IF Len(q) = 0 THEN Nil ELSE q[1]
      /\ \A i \in 1..Len(q) : /\ q[i] \in Nodes /\ q[i] # Nil
                              /\ nx[q[i]] = IF i < Len(q) THEN q[i + 1] ELSE Nil
    BY QueueAssumption DEF IsList
<1>2. PICK limit : limit = Cardinality(Nodes) + 1
    OBVIOUS
<1>3. limit \in Nat /\ Len(q) < limit
    BY <1>1, <1>2, ShortList
<1>4. PICK f : f = [i \in 1..limit |-> IF i <= Len(q) THEN q[i] ELSE Nil]
    OBVIOUS
<1>5. \A i \in 1..limit : f[i] = IF i <= Len(q) THEN q[i] ELSE Nil
    BY <1>4
<1>6. ASSUME NEW i \in 1..limit
      PROVE  f[i] = IF i = 1 THEN head
                    ELSE IF f[i - 1] = Nil THEN Nil ELSE nx[f[i - 1]]
    <2>1. CASE i = 1
        BY <1>1, <1>3, <1>5, <2>1
    <2>2. CASE i # 1
        <3>1. i - 1 \in 1..limit /\ i \in Nat
            BY <1>3, <2>2
        <3>2. CASE i - 1 <= Len(q)
            <4>1. i - 1 \in 1..Len(q)
                BY <1>1, <3>1, <3>2
            <4>2. f[i - 1] = q[i - 1] /\ f[i - 1] # Nil
                BY <1>1, <1>5, <3>1, <3>2, <4>1
            <4>3. nx[f[i - 1]] = IF i - 1 < Len(q) THEN q[i - 1 + 1] ELSE Nil
                BY <1>1, <4>1, <4>2
            <4>4. i - 1 + 1 = i /\ (i - 1 < Len(q) <=> i <= Len(q))
                BY <1>1, <3>1
            <4> QED
                BY <1>5, <2>2, <4>2, <4>3, <4>4
        <3>3. CASE ~ (i - 1 <= Len(q))
            <4>1. f[i - 1] = Nil
                BY <1>5, <3>1, <3>3
            <4>2. ~ (i <= Len(q))
                BY <1>1, <3>1, <3>3
            <4> QED
                BY <1>5, <2>2, <4>1, <4>2
        <3> QED
            BY <3>2, <3>3
    <2> QED
        BY <2>1, <2>2
<1>7. f = [i \in 1..limit |->
            IF i = 1 THEN head ELSE IF f[i - 1] = Nil THEN Nil ELSE nx[f[i - 1]]]
    BY <1>4, <1>6
<1>8. \E g : /\ g = [i \in 1..(Cardinality(Nodes) + 1) |->
                        IF i = 1 THEN head
                        ELSE IF g[i - 1] = Nil THEN Nil ELSE nx[g[i - 1]]]
             /\ Walk(nx, head) =
                    [i \in 1..Cardinality({i \in 1..(Cardinality(Nodes) + 1) :
                                                g[i] # Nil}) |-> g[i]]
    BY <1>2, <1>7 DEF Walk
<1>9. PICK g : /\ g = [i \in 1..limit |->
                        IF i = 1 THEN head
                        ELSE IF g[i - 1] = Nil THEN Nil ELSE nx[g[i - 1]]]
               /\ Walk(nx, head) =
                    [i \in 1..Cardinality({i \in 1..limit : g[i] # Nil}) |-> g[i]]
    BY <1>2, <1>8
<1>10. \A i \in 1..limit : g[i] = f[i]
    <2>1. PICK T : T = {i \in 1..limit : g[i] # f[i]}
        OBVIOUS
    <2> SUFFICES ASSUME T # {}
                 PROVE  FALSE
        BY <2>1
    <2>2. T \subseteq Nat
        BY <1>3, <2>1
    <2>3. PICK m \in T : \A y \in T : m <= y
        BY <2>2, LeastNumber
    <2>4. m \in 1..limit /\ g[m] # f[m]
        BY <2>1
    <2>5. g[m] = IF m = 1 THEN head
                 ELSE IF g[m - 1] = Nil THEN Nil ELSE nx[g[m - 1]]
        BY <1>9, <2>4
    <2>6. f[m] = IF m = 1 THEN head
                 ELSE IF f[m - 1] = Nil THEN Nil ELSE nx[f[m - 1]]
        BY <1>6, <2>4
    <2>7. m # 1
        BY <2>4, <2>5, <2>6
    <2>8. m - 1 \in 1..limit /\ ~ (m <= m - 1)
        BY <1>3, <2>4, <2>7
    <2>9. g[m - 1] = f[m - 1]
        BY <2>1, <2>3, <2>8
    <2> QED
        BY <2>4, <2>5, <2>6, <2>9
<1>11. {i \in 1..limit : g[i] # Nil} = 1..Len(q)
    <2>1. \A i \in 1..limit : g[i] # Nil <=> i <= Len(q)
        <3> SUFFICES ASSUME NEW i \in 1..limit
                     PROVE  g[i] # Nil <=> i <= Len(q)
            OBVIOUS
        <3>1. CASE i <= Len(q)
            <4>1. i \in 1..Len(q)
                BY <1>1, <1>3, <3>1
            <4> QED
                BY <1>1, <1>5, <1>10, <3>1, <4>1
        <3>2. CASE ~ (i <= Len(q))
            BY <1>5, <1>10, <3>2
        <3> QED
            BY <3>1, <3>2
    <2> QED
        BY <1>1, <1>3, <2>1
<1>12. Cardinality({i \in 1..limit : g[i] # Nil}) = Len(q)
    <2>1. Cardinality(1..Len(q)) = Len(q)
        BY <1>1, Positions
    <2> QED
        BY <1>11, <2>1, Zenon
<1>13. Walk(nx, head) = [i \in 1..Len(q) |-> g[i]]
    BY <1>9, <1>12
<1>14. \A i \in 1..Len(q) : g[i] = q[i]
    BY <1>1, <1>3, <1>5, <1>10
<1>15. Walk(nx, head) = [i \in 1..Len(q) |-> q[i]]
    BY <1>13, <1>14
<1> QED
    BY <1>1, <1>15, LenProperties

\* No node: the empty list.
LEMMA EmptyList ==
    ASSUME NEW nx
    PROVE  IsList(<<>>, nx, Nil)
BY EmptySeq DEF IsList

\* A write to a node that is not in the list leaves the list alone.
LEMMA ListElsewhere ==
    ASSUME NEW q, NEW nx \in [Nodes -> Nodes \union {Nil}], NEW head,
           IsList(q, nx, head), NEW t \in Nodes, \A i \in 1..Len(q) : q[i] # t, NEW v
    PROVE  IsList(q, [nx EXCEPT ![t] = v], head)
<1>1. \A i \in 1..Len(q) : q[i] \in Nodes
    BY ElementOfSeq DEF IsList
<1> QED
    BY <1>1 DEF IsList

\* A node with a cleared `next` goes behind the last one.
LEMMA ListAppend ==
    ASSUME NEW q, NEW nx \in [Nodes -> Nodes \union {Nil}], NEW head,
           IsList(q, nx, head), NEW t \in Nodes, \A i \in 1..Len(q) : q[i] # t,
           nx[t] = Nil
    PROVE  /\ Len(q) = 0 => IsList(Append(q, t), nx, t)
           /\ Len(q) # 0 =>
                IsList(Append(q, t), [nx EXCEPT ![q[Len(q)]] = t], head)
<1>1. /\ q \in Seq(Nodes) /\ Len(q) \in Nat
      /\ \A i, j \in 1..Len(q) : q[i] = q[j] => i = j
      /\ head = IF Len(q) = 0 THEN Nil ELSE q[1]
      /\ \A i \in 1..Len(q) : /\ q[i] \in Nodes
                              /\ nx[q[i]] = IF i < Len(q) THEN q[i + 1] ELSE Nil
    BY DEF IsList
<1>2. PICK a : a = Append(q, t)
    OBVIOUS
<1>3. /\ a \in Seq(Nodes) /\ Len(a) = Len(q) + 1
      /\ \A i \in 1..Len(q) : a[i] = q[i]
      /\ a[Len(q) + 1] = t
    BY <1>1, <1>2
<1>4. \A i, j \in 1..Len(a) : a[i] = a[j] => i = j
    <2> SUFFICES ASSUME NEW i \in 1..Len(a), NEW j \in 1..Len(a), a[i] = a[j]
                 PROVE  i = j
        OBVIOUS
    <2>1. CASE i = Len(q) + 1 \/ j = Len(q) + 1
        <3>1. \A k \in 1..Len(a) : k = Len(q) + 1 \/ k \in 1..Len(q)
            BY <1>1, <1>3
        <3>2. \A k \in 1..Len(q) : a[k] # t
            BY <1>3
        <3> QED
            BY <1>3, <2>1, <3>1, <3>2
    <2>2. CASE i # Len(q) + 1 /\ j # Len(q) + 1
        <3>1. i \in 1..Len(q) /\ j \in 1..Len(q)
            BY <1>1, <1>3, <2>2
        <3> QED
            BY <1>1, <1>3, <3>1
    <2> QED
        BY <2>1, <2>2
<1>5. CASE Len(q) = 0
    BY <1>1, <1>2, <1>3, <1>4, <1>5 DEF IsList
<1>6. CASE Len(q) # 0
    <2>1. PICK m \in 1..Len(q) : m = Len(q)
        BY <1>1, <1>6
    <2>2. PICK ny : ny = [nx EXCEPT ![q[m]] = t]
        OBVIOUS
    <2>3. \A u \in Nodes : ny[u] = IF u = q[m] THEN t ELSE nx[u]
        BY <2>2
    <2>4. ASSUME NEW i \in 1..Len(a)
          PROVE  ny[a[i]] = IF i < Len(a) THEN a[i + 1] ELSE Nil
        <3>1. CASE i = Len(q) + 1
            BY <1>1, <1>3, <2>1, <2>3, <3>1
        <3>2. CASE i = Len(q)
            BY <1>1, <1>3, <2>1, <2>3, <3>2
        <3>3. CASE i # Len(q) + 1 /\ i # Len(q)
            <4>1. i \in 1..Len(q) /\ i < Len(q) /\ i + 1 \in 1..Len(q) /\ i # m
                BY <1>1, <1>3, <2>1, <3>3
            <4>2. q[i] # q[m] /\ a[i] = q[i] /\ a[i + 1] = q[i + 1]
                BY <1>1, <1>3, <4>1
            <4>3. ny[q[i]] = nx[q[i]] /\ nx[q[i]] = q[i + 1]
                BY <1>1, <2>3, <4>1, <4>2
            <4> QED
                BY <1>1, <1>3, <4>1, <4>2, <4>3
        <3> QED
            BY <3>1, <3>2, <3>3
    <2>5. head = IF Len(a) = 0 THEN Nil ELSE a[1]
        BY <1>1, <1>3, <1>6
    <2>6. IsList(a, ny, head)
        BY <1>3, <1>4, <2>4, <2>5 DEF IsList
    <2> QED
        BY <1>2, <1>6, <2>1, <2>2, <2>6
<1> QED
    BY <1>5, <1>6

\* A node that points to the first one goes in front of it.
LEMMA ListPrepend ==
    ASSUME NEW q, NEW nx, NEW head,
           IsList(q, nx, head), NEW t \in Nodes, \A i \in 1..Len(q) : q[i] # t,
           nx[t] = head
    PROVE  /\ IsList(<<t>> \o q, nx, t)
           /\ Len(<<t>> \o q) = Len(q) + 1
           /\ (<<t>> \o q)[1] = t
           /\ \A i \in 1..Len(q) : (<<t>> \o q)[i + 1] = q[i]
<1>1. /\ q \in Seq(Nodes) /\ Len(q) \in Nat
      /\ \A i, j \in 1..Len(q) : q[i] = q[j] => i = j
      /\ head = IF Len(q) = 0 THEN Nil ELSE q[1]
      /\ \A i \in 1..Len(q) : /\ q[i] \in Nodes
                              /\ nx[q[i]] = IF i < Len(q) THEN q[i + 1] ELSE Nil
    BY DEF IsList
<1>2. PICK a : a = <<t>> \o q
    OBVIOUS
<1>3. /\ a \in Seq(Nodes) /\ Len(a) = Len(q) + 1
      /\ a[1] = t
      /\ \A i \in 2..Len(a) : a[i] = q[i - 1]
    BY <1>1, <1>2
<1>4. \A i, j \in 1..Len(a) : a[i] = a[j] => i = j
    <2> SUFFICES ASSUME NEW i \in 1..Len(a), NEW j \in 1..Len(a), a[i] = a[j]
                 PROVE  i = j
        OBVIOUS
    <2>1. \A k \in 2..Len(a) : k - 1 \in 1..Len(q) /\ a[k] # t
        BY <1>1, <1>3
    <2>2. CASE i = 1 \/ j = 1
        BY <1>1, <1>3, <2>1, <2>2
    <2>3. CASE i # 1 /\ j # 1
        <3>1. i \in 2..Len(a) /\ j \in 2..Len(a)
            BY <1>1, <1>3, <2>3
        <3>2. i - 1 = j - 1
            BY <1>1, <1>3, <2>1, <3>1
        <3> QED
            BY <3>1, <3>2
    <2> QED
        BY <2>2, <2>3
<1>5. ASSUME NEW i \in 1..Len(a)
      PROVE  nx[a[i]] = IF i < Len(a) THEN a[i + 1] ELSE Nil
    <2>1. CASE i = 1
        <3>1. CASE Len(q) = 0
            BY <1>1, <1>3, <2>1, <3>1
        <3>2. CASE Len(q) # 0
            <4>1. i + 1 \in 2..Len(a) /\ i < Len(a) /\ i + 1 - 1 = 1
                BY <1>1, <1>3, <2>1, <3>2
            <4>2. a[i + 1] = q[1]
                BY <1>3, <4>1
            <4> QED
                BY <1>1, <1>3, <2>1, <3>2, <4>1, <4>2
        <3> QED
            BY <3>1, <3>2
    <2>2. CASE i # 1
        <3>1. i \in 2..Len(a) /\ i - 1 \in 1..Len(q) /\ i - 1 + 1 = i
            BY <1>1, <1>3, <2>2
        <3>2. nx[a[i]] = IF i - 1 < Len(q) THEN q[i] ELSE Nil
            BY <1>1, <1>3, <3>1
        <3>3. i < Len(a) => i + 1 \in 2..Len(a) /\ i + 1 - 1 = i
            BY <1>1, <1>3, <3>1
        <3>4. i < Len(a) <=> i - 1 < Len(q)
            BY <1>1, <1>3, <3>1
        <3>5. i < Len(a) => a[i + 1] = q[i]
            BY <1>3, <3>3
        <3> QED
            BY <3>2, <3>4, <3>5
    <2> QED
        BY <2>1, <2>2
<1>6. IsList(a, nx, t)
    BY <1>1, <1>3, <1>4, <1>5 DEF IsList
<1>7. ASSUME NEW i \in 1..Len(q)
      PROVE  a[i + 1] = q[i]
    <2>1. i + 1 \in 2..Len(a) /\ i + 1 - 1 = i
        BY <1>1, <1>3
    <2> QED
        BY <1>3, <2>1
<1> QED
    BY <1>2, <1>3, <1>6, <1>7

\* Without its first node the list begins at the second.
LEMMA ListTail ==
    ASSUME NEW q, NEW nx, NEW head, IsList(q, nx, head), head # Nil
    PROVE  /\ q # <<>> /\ Len(q) \in Nat \ {0} /\ head = q[1] /\ Head(q) = head
           /\ head \in Nodes
           /\ IsList(Tail(q), nx, nx[head])
           /\ Len(Tail(q)) = Len(q) - 1
           /\ \A i \in 1..(Len(q) - 1) : Tail(q)[i] = q[i + 1]
<1>1. /\ q \in Seq(Nodes) /\ Len(q) \in Nat
      /\ \A i, j \in 1..Len(q) : q[i] = q[j] => i = j
      /\ head = IF Len(q) = 0 THEN Nil ELSE q[1]
      /\ \A i \in 1..Len(q) : /\ q[i] \in Nodes
                              /\ nx[q[i]] = IF i < Len(q) THEN q[i + 1] ELSE Nil
    BY DEF IsList
<1>2. Len(q) # 0 /\ head = q[1] /\ 1 \in 1..Len(q)
    BY <1>1
<1>3. q # <<>>
    BY <1>1, <1>2
<1>4. PICK a : a = Tail(q)
    OBVIOUS
<1>5. /\ a \in Seq(Nodes) /\ Len(a) = Len(q) - 1
      /\ \A i \in 1..Len(a) : a[i] = q[i + 1]
    BY <1>1, <1>3, <1>4, HeadTailProperties
<1>6. \A i \in 1..Len(a) : i + 1 \in 1..Len(q)
    BY <1>1, <1>2, <1>5
<1>7. ASSUME NEW i \in 1..Len(a), NEW j \in 1..Len(a), a[i] = a[j]
      PROVE  i = j
    <2>1. i + 1 = j + 1
        BY <1>1, <1>5, <1>6, <1>7
    <2> QED
        BY <1>1, <1>5, <2>1
<1>8. nx[head] = IF Len(a) = 0 THEN Nil ELSE a[1]
    <2>1. nx[head] = IF 1 < Len(q) THEN q[1 + 1] ELSE Nil
        BY <1>1, <1>2
    <2>2. CASE Len(a) = 0
        <3>1. Len(q) \in Nat /\ Len(q) - 1 = 0
            BY <1>1, <1>5, <2>2, Zenon
        <3>2. ~ (1 < Len(q))
            BY <3>1, OnlyOne
        <3> QED
            BY <2>1, <2>2, <3>2
    <2>3. CASE Len(a) # 0
        <3>1. 1 \in 1..Len(a) /\ 1 < Len(q)
            BY <1>1, <1>2, <1>5, <2>3
        <3>2. a[1] = q[1 + 1]
            BY <1>5, <3>1
        <3> QED
            BY <2>1, <2>3, <3>1, <3>2
    <2> QED
        BY <2>2, <2>3
<1>9. ASSUME NEW i \in 1..Len(a)
      PROVE  nx[a[i]] = IF i < Len(a) THEN a[i + 1] ELSE Nil
    <2>1. nx[q[i + 1]] = IF i + 1 < Len(q) THEN q[i + 1 + 1] ELSE Nil
        BY <1>1, <1>6
    <2>2. i + 1 < Len(q) <=> i < Len(a)
        BY <1>1, <1>5
    <2>3. i < Len(a) => a[i + 1] = q[i + 1 + 1]
        <3>1. i < Len(a) => i + 1 \in 1..Len(a)
            BY <1>1, <1>2, <1>5
        <3> QED
            BY <1>5, <3>1
    <2> QED
        BY <1>5, <2>1, <2>2, <2>3
<1>10. IsList(a, nx, nx[head])
    BY <1>5, <1>7, <1>8, <1>9 DEF IsList
<1>11. Head(q) = q[1]
    BY <1>1, <1>3, HeadTailProperties
<1> QED
    BY <1>1, <1>2, <1>3, <1>4, <1>5, <1>10, <1>11

-----------------------------------------------------------------------------
(* The queue.  That Chain(first) is a list without repetition is not       *)
(* inductive by itself: the strengthening says who may write, which nodes  *)
(* are still private to the writer, and what `last` is between the two     *)
(* writes of a call.                                                       *)

Starts == {"add", "add_front", "remove", "remove_all"}
Changed == {"last", "front_last", "remove_last", "all_last"}
Writes == {"link", "front"} \union Changed

QueueTypes ==
    /\ last \in Nodes \union {Nil}
    /\ next \in [Nodes -> Nodes \union {Nil}]
    /\ op \in [Cores -> Starts \union Writes \union {"idle", "unlock"}]
    /\ arg \in [Cores -> Nodes \union {Nil}]
    /\ owner \in [Nodes -> Cores \union {Nil}]

\* The call a core is in says where it can be in lock() and unlock(): in the
\* middle of its writes only between the two.
Places ==
    \A c \in Cores :
        /\ op[c] \in Writes => pc[c] = "inside"
        /\ op[c] \in Starts =>
            pc[c] \in {"disable", "exchange", "failed", "save", "inside"}
        /\ op[c] = "unlock" => pc[c] \in {"inside", "release", "released"}
        /\ op[c] = "idle" => pc[c] = "outside"

\* The node a core is about to add is its own.
Own ==
    \A c \in Cores :
        op[c] \in {"add", "link", "add_front", "front"} =>
            arg[c] \in Nodes /\ owner[arg[c]] = c

\* The end of the list.
End(q) == IF Len(q) = 0 THEN Nil ELSE q[Len(q)]

\* What the writer has done so far.
Written(q, c) ==
    /\ op[c] = "link" => next[arg[c]] = Nil
    /\ op[c] = "last" => Len(q) # 0 /\ arg[c] = End(q)
    /\ op[c] = "front" => next[arg[c]] = first
    /\ op[c] = "front_last" =>
        Len(q) # 0 /\ (IF last = Nil THEN arg[c] ELSE last) = End(q)
    /\ op[c] = "remove_last" => (Len(q) # 0 => last = End(q))
    /\ op[c] = "all_last" => Len(q) = 0

\* q is the list, it belongs to the queue, and `last` is its end unless a
\* core has changed the list and not yet `last`.
Sound(q) ==
    /\ IsList(q, next, first)
    /\ \A i \in 1..Len(q) : owner[q[i]] = Nil
    /\ \A c \in Cores : Written(q, c)
    /\ (\A c \in Cores : op[c] \notin Changed) => last = End(q)

QueueInv == /\ LockInv /\ QueueTypes /\ Places /\ Own
            /\ \E q : Sound(q)

\* The list of the invariant is what the refinement mapping walks through.
LEMMA Mapped ==
    ASSUME NEW q
    PROVE  /\ Sound(q) => Chain(first) = q
           /\ Sound(q)' => Chain(first)' = q
<1>1. Chain(first) = Walk(next, first)
    BY DEF Chain, Walk
<1>2. Chain(first)' = Walk(next', first')
    BY DEF Chain, Walk
<1>3. Sound(q) => IsList(q, next, first)
    BY DEF Sound
<1>4. Sound(q)' => IsList(q, next', first')
    BY DEF Sound, IsList
<1> QED
    BY <1>1, <1>2, <1>3, <1>4, WalkIs

\* As far as the lock goes, a step of the queue is one of the lock or none.
LEMMA LockStep == QueueNext => [Next]_vars
<1> SUFFICES ASSUME NEW c \in Cores, Core(c)
             PROVE  [Next]_vars
    BY DEF QueueNext
<1>1. CASE SetFlag(c) \/ Lock(c)
    BY <1>1 DEF Next
<1>2. CASE CallAdd(c) \/ CallAddFront(c) \/ CallRemove(c) \/ CallRemoveAll(c)
    BY <1>2 DEF Next, CallAdd, CallAddFront, CallRemove, CallRemoveAll, Enter
<1>3. CASE Return(c)
    BY <1>3 DEF Next, Return, Unlock
<1>4. CASE AddClearsNext(c) \/ AddLinks(c) \/ AddSetsLast(c)
    BY <1>4 DEF AddClearsNext, AddLinks, AddSetsLast, Step
<1>5. CASE FrontSetsNext(c) \/ FrontSetsFirst(c) \/ FrontSetsLast(c)
    BY <1>5 DEF FrontSetsNext, FrontSetsFirst, FrontSetsLast, Step
<1>6. CASE RemoveFindsNothing(c) \/ RemoveSetsFirst(c) \/ RemoveSetsLast(c)
    BY <1>6 DEF RemoveFindsNothing, RemoveSetsFirst, RemoveSetsLast, Step
<1>7. CASE AllSetsFirst(c) \/ AllSetsLast(c)
    BY <1>7 DEF AllSetsFirst, AllSetsLast, Step
<1> QED
    BY <1>1, <1>2, <1>3, <1>4, <1>5, <1>6, <1>7 DEF Core

\* While one core is between lock() and unlock(), every other one is outside
\* its writes.
LEMMA OthersRest ==
    ASSUME LockInv, QueueTypes, Places, NEW c \in Cores, pc[c] = "inside",
           NEW d \in Cores, d # c
    PROVE  op[d] \notin Writes
BY DEF LockInv, Owned, MutualExclusion, Held, Places

\* A write keeps each core where its call says.
LEMMA StepPlaces ==
    ASSUME LockInv, QueueTypes, Places, NEW c \in Cores, NEW from, NEW to,
           Step(c, from, to), to \in Writes \union {"unlock"}
    PROVE  /\ op' \in [Cores -> Starts \union Writes \union {"idle", "unlock"}]
           /\ op[c] = from /\ op'[c] = to
           /\ \A d \in Cores \ {c} : op'[d] = op[d] /\ op[d] \notin Writes
           /\ arg' = arg /\ Places'
<1>1. pc[c] = "inside" /\ op[c] = from /\ op' = [op EXCEPT ![c] = to]
      /\ arg' = arg /\ pc' = pc
    BY DEF Step, At, vars
<1>2. \A d \in Cores \ {c} : op[d] \notin Writes
    BY <1>1, OthersRest
<1>3. to \in Starts \union Writes \union {"idle", "unlock"}
    BY DEF Writes, Starts
<1>4. op'[c] = to /\ \A d \in Cores \ {c} : op'[d] = op[d]
    BY <1>1 DEF QueueTypes
<1>5. op' \in [Cores -> Starts \union Writes \union {"idle", "unlock"}]
    BY <1>1, <1>3 DEF QueueTypes
<1>6. Places'
    <2> SUFFICES ASSUME NEW d \in Cores
                 PROVE  /\ op'[d] \in Writes => pc'[d] = "inside"
                        /\ op'[d] \in Starts =>
                            pc'[d] \in {"disable", "exchange", "failed", "save",
                                        "inside"}
                        /\ op'[d] = "unlock" =>
                            pc'[d] \in {"inside", "release", "released"}
                        /\ op'[d] = "idle" => pc'[d] = "outside"
        BY DEF Places, Writes, Changed, Starts
    <2>1. CASE d = c
        BY <1>1, <1>4, <2>1 DEF Starts, Writes, Changed
    <2>2. CASE d # c
        BY <1>1, <1>4, <2>2 DEF Places
    <2> QED
        BY <2>1, <2>2
<1> QED
    BY <1>1, <1>2, <1>4, <1>5, <1>6

\* Before the list is changed, `last` is its end.
LEMMA LastIsEnd ==
    ASSUME LockInv, QueueTypes, Places, NEW q, Sound(q), NEW c \in Cores,
           pc[c] = "inside", op[c] \notin Changed
    PROVE  last = End(q)
<1>1. \A d \in Cores : op[d] \notin Changed
    BY OthersRest DEF Writes
<1> QED
    BY <1>1 DEF Sound

\* What is left to show of a write: the list it makes, and its own progress.
LEMMA SoundAgain ==
    ASSUME NEW q, NEW c \in Cores,
           \A d \in Cores \ {c} : op'[d] \notin Writes,
           IsList(q, next', first'), \A i \in 1..Len(q) : owner'[q[i]] = Nil,
           Written(q, c)', op'[c] \notin Changed => last' = End(q)
    PROVE  Sound(q)'
<1>1. ASSUME NEW d \in Cores
      PROVE  Written(q, d)'
    <2>1. CASE d = c
        BY <2>1
    <2>2. CASE d # c
        <3>1. op'[d] \notin Writes
            BY <2>2
        <3> QED
            BY <3>1 DEF Written, Writes, Changed
    <2> QED
        BY <2>1, <2>2
<1>2. (\A d \in Cores : op'[d] \notin Changed) => last' = End(q)
    OBVIOUS
<1> QED
    BY <1>1, <1>2 DEF Sound, IsList, Changed, End

\* A write that hands over no node.
LEMMA OwnStays ==
    ASSUME QueueTypes, Own, NEW c \in Cores, op'[c] \in Writes \union {"unlock"},
           op'[c] = "link" => op[c] = "add",
           op'[c] = "front" => op[c] = "add_front",
           \A d \in Cores \ {c} : op'[d] = op[d], arg' = arg, owner' = owner
    PROVE  Own'
<1> SUFFICES ASSUME NEW d \in Cores,
                    op'[d] \in {"add", "link", "add_front", "front"}
             PROVE  arg'[d] \in Nodes /\ owner'[arg'[d]] = d
    BY DEF Own
<1>1. CASE d = c
    BY <1>1 DEF Own, Writes, Changed
<1>2. CASE d # c
    BY <1>2 DEF Own
<1> QED
    BY <1>1, <1>2

\* The invariant without the lock's part, for a given list.
Good(q) == QueueTypes /\ Places /\ Own /\ Sound(q)

\* add: the node is outside the list when its `next` is cleared.
LEMMA AddClears ==
    ASSUME LockInv, NEW q, Good(q), NEW c \in Cores, AddClearsNext(c)
    PROVE  Good(q)' /\ owner' = owner
<1>1. Step(c, "add", "link")
    BY DEF AddClearsNext
<1>2. next' = [next EXCEPT ![arg[c]] = Nil] /\ first' = first /\ last' = last
      /\ owner' = owner
    BY DEF AddClearsNext
<1>3. QueueTypes /\ Places /\ Own /\ Sound(q)
    BY DEF Good
<1>4. "link" \in Writes \union {"unlock"} /\ "link" \notin Changed
      /\ "add" \notin Changed
    BY DEF Writes, Changed
<1>5. /\ op' \in [Cores -> Starts \union Writes \union {"idle", "unlock"}]
      /\ op[c] = "add" /\ op'[c] = "link"
      /\ \A d \in Cores \ {c} : op'[d] = op[d] /\ op[d] \notin Writes
      /\ arg' = arg /\ Places'
    BY <1>1, <1>3, <1>4, StepPlaces
<1>6. pc[c] = "inside"
    BY <1>1 DEF Step, At
<1>7. last = End(q)
    BY <1>3, <1>4, <1>5, <1>6, LastIsEnd
<1>8. arg[c] \in Nodes /\ owner[arg[c]] = c
    BY <1>3, <1>5 DEF Own
<1>9. \A i \in 1..Len(q) : q[i] # arg[c]
    BY <1>3, <1>8, QueueAssumption DEF Sound
<1>10. next \in [Nodes -> Nodes \union {Nil}]
    BY <1>3 DEF QueueTypes
<1>11. IsList(q, next', first')
    <2>1. IsList(q, next, first)
        BY <1>3 DEF Sound
    <2> QED
        BY <1>2, <1>8, <1>9, <1>10, <2>1, ListElsewhere
<1>12. Written(q, c)'
    BY <1>2, <1>5, <1>8, <1>10 DEF Written
<1>13. Sound(q)'
    <2>1. \A i \in 1..Len(q) : owner'[q[i]] = Nil
        BY <1>2, <1>3 DEF Sound
    <2> QED
        BY <1>2, <1>5, <1>7, <1>11, <1>12, <2>1, SoundAgain
<1>14. QueueTypes'
    BY <1>2, <1>3, <1>5, <1>8 DEF QueueTypes
<1>15. Own'
    BY <1>2, <1>3, <1>4, <1>5, OwnStays
<1> QED
    BY <1>2, <1>5, <1>13, <1>14, <1>15 DEF Good

\* add_front: the same for the node that will be the first.
LEMMA FrontNext ==
    ASSUME LockInv, NEW q, Good(q), NEW c \in Cores, FrontSetsNext(c)
    PROVE  Good(q)' /\ owner' = owner
<1>1. Step(c, "add_front", "front")
    BY DEF FrontSetsNext
<1>2. next' = [next EXCEPT ![arg[c]] = first] /\ first' = first /\ last' = last
      /\ owner' = owner
    BY DEF FrontSetsNext
<1>3. QueueTypes /\ Places /\ Own /\ Sound(q)
    BY DEF Good
<1>4. "front" \in Writes \union {"unlock"} /\ "front" \notin Changed
      /\ "add_front" \notin Changed
    BY DEF Writes, Changed
<1>5. /\ op' \in [Cores -> Starts \union Writes \union {"idle", "unlock"}]
      /\ op[c] = "add_front" /\ op'[c] = "front"
      /\ \A d \in Cores \ {c} : op'[d] = op[d] /\ op[d] \notin Writes
      /\ arg' = arg /\ Places'
    BY <1>1, <1>3, <1>4, StepPlaces
<1>6. pc[c] = "inside"
    BY <1>1 DEF Step, At
<1>7. last = End(q)
    BY <1>3, <1>4, <1>5, <1>6, LastIsEnd
<1>8. arg[c] \in Nodes /\ owner[arg[c]] = c
    BY <1>3, <1>5 DEF Own
<1>9. \A i \in 1..Len(q) : q[i] # arg[c]
    BY <1>3, <1>8, QueueAssumption DEF Sound
<1>10. next \in [Nodes -> Nodes \union {Nil}]
    BY <1>3 DEF QueueTypes
<1>11. IsList(q, next, first)
    BY <1>3 DEF Sound
<1>12. IsList(q, next', first')
    BY <1>2, <1>8, <1>9, <1>10, <1>11, ListElsewhere
<1>13. Written(q, c)'
    BY <1>2, <1>5, <1>8, <1>10 DEF Written
<1>14. Sound(q)'
    <2>1. \A i \in 1..Len(q) : owner'[q[i]] = Nil
        BY <1>2, <1>3 DEF Sound
    <2> QED
        BY <1>2, <1>5, <1>7, <1>12, <1>13, <2>1, SoundAgain
<1>15. first \in Nodes \union {Nil}
    BY <1>11 DEF IsList
<1>16. QueueTypes'
    BY <1>2, <1>3, <1>5, <1>8, <1>15 DEF QueueTypes
<1>17. Own'
    BY <1>2, <1>3, <1>4, <1>5, OwnStays
<1> QED
    BY <1>2, <1>5, <1>14, <1>16, <1>17 DEF Good

\* The last write of a call makes `last` the end of the list again.
LEMMA LastWritten ==
    ASSUME LockInv, NEW q, Good(q), NEW c \in Cores, NEW from,
           Step(c, from, "unlock"), UNCHANGED <<first, next, owner>>, last' = End(q)
    PROVE  Good(q)'
<1>1. QueueTypes /\ Places /\ Own /\ Sound(q)
    BY DEF Good
<1>2. "unlock" \in Writes \union {"unlock"} /\ "unlock" \notin Writes
    BY DEF Writes, Changed
<1>3. /\ op' \in [Cores -> Starts \union Writes \union {"idle", "unlock"}]
      /\ op'[c] = "unlock"
      /\ \A d \in Cores \ {c} : op'[d] = op[d] /\ op[d] \notin Writes
      /\ arg' = arg /\ Places'
    BY <1>1, <1>2, StepPlaces
<1>4. IsList(q, next, first)
    BY <1>1 DEF Sound
<1>5. End(q) \in Nodes \union {Nil}
    BY <1>4 DEF IsList, End
<1>6. Written(q, c)'
    BY <1>3 DEF Written
<1>7. Sound(q)'
    <2>1. IsList(q, next', first')
        BY <1>4
    <2>2. \A i \in 1..Len(q) : owner'[q[i]] = Nil
        BY <1>1 DEF Sound
    <2> QED
        BY <1>3, <1>6, <2>1, <2>2, SoundAgain
<1>8. QueueTypes'
    BY <1>1, <1>3, <1>5 DEF QueueTypes
<1>9. Own'
    BY <1>1, <1>2, <1>3, OwnStays
<1> QED
    BY <1>3, <1>7, <1>8, <1>9 DEF Good

\* Whether the list is empty can be seen from `first`.
LEMMA EmptyIsNil ==
    ASSUME NEW q, Sound(q)
    PROVE  first = Nil <=> Len(q) = 0
BY QueueAssumption DEF Sound, IsList

\* Every call ends with `last` in order.
LEMMA CallEnds ==
    ASSUME LockInv, NEW q, Good(q), NEW c \in Cores,
           \/ AddSetsLast(c) \/ FrontSetsLast(c) \/ RemoveFindsNothing(c)
           \/ RemoveSetsLast(c) \/ AllSetsLast(c)
    PROVE  Good(q)' /\ owner' = owner
<1>1. QueueTypes /\ Places /\ Own /\ Sound(q) /\ Written(q, c)
    BY DEF Good, Sound
<1>2. first = Nil <=> Len(q) = 0
    BY <1>1, EmptyIsNil
<1>3. CASE AddSetsLast(c)
    <2>1. Step(c, "last", "unlock") /\ UNCHANGED <<first, next, owner>>
          /\ last' = arg[c] /\ op[c] = "last"
        BY <1>3 DEF AddSetsLast, Step
    <2>2. last' = End(q)
        BY <1>1, <2>1 DEF Written
    <2> QED
        BY <2>1, <2>2, LastWritten
<1>4. CASE FrontSetsLast(c)
    <2>1. Step(c, "front_last", "unlock") /\ UNCHANGED <<first, next, owner>>
          /\ last' = (IF last = Nil THEN arg[c] ELSE last) /\ op[c] = "front_last"
        BY <1>4 DEF FrontSetsLast, Step
    <2>2. last' = End(q)
        BY <1>1, <2>1 DEF Written
    <2> QED
        BY <2>1, <2>2, LastWritten
<1>5. CASE RemoveFindsNothing(c)
    <2>1. Step(c, "remove", "unlock") /\ UNCHANGED <<first, next, owner>>
          /\ last' = last /\ op[c] = "remove" /\ pc[c] = "inside"
        BY <1>5 DEF RemoveFindsNothing, Step, At
    <2>2. op[c] \notin Changed
        BY <2>1 DEF Changed
    <2>3. last' = End(q)
        BY <1>1, <2>1, <2>2, LastIsEnd
    <2> QED
        BY <2>1, <2>3, LastWritten
<1>6. CASE RemoveSetsLast(c)
    <2>1. Step(c, "remove_last", "unlock") /\ UNCHANGED <<first, next, owner>>
          /\ last' = (IF first = Nil THEN Nil ELSE last) /\ op[c] = "remove_last"
        BY <1>6 DEF RemoveSetsLast, Step
    <2>2. last' = End(q)
        BY <1>1, <1>2, <2>1 DEF Written, End
    <2> QED
        BY <2>1, <2>2, LastWritten
<1>7. CASE AllSetsLast(c)
    <2>1. Step(c, "all_last", "unlock") /\ UNCHANGED <<first, next, owner>>
          /\ last' = Nil /\ op[c] = "all_last"
        BY <1>7 DEF AllSetsLast, Step
    <2>2. last' = End(q)
        BY <1>1, <2>1 DEF Written, End
    <2> QED
        BY <2>1, <2>2, LastWritten
<1> QED
    BY <1>3, <1>4, <1>5, <1>6, <1>7

\* A hand-over takes no node from another core.
LEMMA OwnMoves ==
    ASSUME QueueTypes, Own, NEW c \in Cores, op'[c] \in Changed,
           \A d \in Cores \ {c} : op'[d] = op[d], arg' = arg,
           \A t \in Nodes : owner[t] \in Cores \ {c} => owner'[t] = owner[t]
    PROVE  Own'
<1> SUFFICES ASSUME NEW d \in Cores,
                    op'[d] \in {"add", "link", "add_front", "front"}
             PROVE  arg'[d] \in Nodes /\ owner'[arg'[d]] = d
    BY DEF Own
<1>1. d # c
    BY DEF Changed
<1>2. arg[d] \in Nodes /\ owner[arg[d]] = d
    BY <1>1 DEF Own
<1> QED
    BY <1>1, <1>2

\* add: the write that makes the node reachable appends it.
LEMMA AddAppends ==
    ASSUME LockInv, NEW q, Good(q), NEW c \in Cores, AddLinks(c)
    PROVE  \E t \in Nodes : /\ owner[t] = c
                            /\ owner' = [owner EXCEPT ![t] = Nil]
                            /\ Good(Append(q, t))'
<1>1. Step(c, "link", "last")
    BY DEF AddLinks
<1>2. PICK t : t = arg[c]
    OBVIOUS
<1>3. /\ IF first = Nil THEN first' = t /\ next' = next
         ELSE next' = [next EXCEPT ![last] = t] /\ first' = first
      /\ owner' = [owner EXCEPT ![t] = Nil]
      /\ last' = last
    BY <1>2 DEF AddLinks
<1>4. QueueTypes /\ Places /\ Own /\ Sound(q) /\ Written(q, c)
    BY DEF Good, Sound
<1>5. "last" \in Writes \union {"unlock"} /\ "last" \in Changed
      /\ "link" \notin Changed
    BY DEF Writes, Changed
<1>6. /\ op' \in [Cores -> Starts \union Writes \union {"idle", "unlock"}]
      /\ op[c] = "link" /\ op'[c] = "last"
      /\ \A d \in Cores \ {c} : op'[d] = op[d] /\ op[d] \notin Writes
      /\ arg' = arg /\ Places'
    BY <1>1, <1>4, <1>5, StepPlaces
<1>7. pc[c] = "inside"
    BY <1>1 DEF Step, At
<1>8. last = End(q)
    BY <1>4, <1>5, <1>6, <1>7, LastIsEnd
<1>9. t \in Nodes /\ owner[t] = c
    BY <1>2, <1>4, <1>6 DEF Own
<1>10. \A i \in 1..Len(q) : q[i] # t
    BY <1>4, <1>9, QueueAssumption DEF Sound
<1>11. next \in [Nodes -> Nodes \union {Nil}] /\ next[t] = Nil
    BY <1>2, <1>4, <1>6 DEF QueueTypes, Written
<1>12. IsList(q, next, first)
    BY <1>4 DEF Sound
<1>13. q \in Seq(Nodes) /\ Len(q) \in Nat
    BY <1>12 DEF IsList
<1>14. PICK r : r = Append(q, t)
    OBVIOUS
<1>15. /\ Len(r) = Len(q) + 1 /\ Len(r) # 0 /\ r[Len(r)] = t
       /\ \A i \in 1..Len(r) : (i \in 1..Len(q) /\ r[i] = q[i]) \/ r[i] = t
    BY <1>9, <1>13, <1>14
<1>16. IsList(r, next', first')
    <2>1. first = Nil <=> Len(q) = 0
        BY <1>4, EmptyIsNil
    <2>2. CASE Len(q) = 0
        BY <1>3, <1>9, <1>10, <1>11, <1>12, <1>14, <2>1, <2>2, ListAppend
    <2>3. CASE Len(q) # 0
        <3>1. last = q[Len(q)]
            BY <1>8, <2>3 DEF End
        <3> QED
            BY <1>3, <1>9, <1>10, <1>11, <1>12, <1>14, <2>1, <2>3, <3>1, ListAppend
    <2> QED
        BY <2>2, <2>3
<1>17. \A u \in Nodes : owner'[u] = IF u = t THEN Nil ELSE owner[u]
    BY <1>3, <1>4 DEF QueueTypes
<1>18. ASSUME NEW i \in 1..Len(r)
       PROVE  owner'[r[i]] = Nil
    <2>1. CASE r[i] = t
        BY <1>9, <1>17, <2>1
    <2>2. CASE i \in 1..Len(q) /\ r[i] = q[i]
        <3>1. owner[q[i]] = Nil /\ q[i] \in Nodes
            BY <1>4, <1>13, <2>2 DEF Sound
        <3> QED
            BY <1>17, <2>2, <3>1
    <2> QED
        BY <1>15, <2>1, <2>2
<1>19. Written(r, c)'
    BY <1>2, <1>6, <1>15 DEF Written, End
<1>20. Sound(r)'
    BY <1>5, <1>6, <1>16, <1>18, <1>19, SoundAgain
<1>21. QueueTypes'
    <2>1. next' \in [Nodes -> Nodes \union {Nil}]
        BY <1>3, <1>9, <1>11
    <2>2. owner' \in [Nodes -> Cores \union {Nil}]
        BY <1>3, <1>4 DEF QueueTypes
    <2> QED
        BY <1>3, <1>4, <1>6, <2>1, <2>2 DEF QueueTypes
<1>22. Own'
    BY <1>4, <1>5, <1>6, <1>9, <1>17, OwnMoves
<1>23. Good(r)'
    BY <1>6, <1>20, <1>21, <1>22 DEF Good
<1> QED
    BY <1>3, <1>9, <1>14, <1>23

\* add_front: the write to `first` puts the node before the others.
LEMMA FrontPrepends ==
    ASSUME LockInv, NEW q, Good(q), NEW c \in Cores, FrontSetsFirst(c)
    PROVE  \E t \in Nodes : /\ owner[t] = c
                            /\ owner' = [owner EXCEPT ![t] = Nil]
                            /\ Good(<<t>> \o q)'
<1>1. Step(c, "front", "front_last")
    BY DEF FrontSetsFirst
<1>2. PICK t : t = arg[c]
    OBVIOUS
<1>3. /\ first' = t /\ next' = next /\ last' = last
      /\ owner' = [owner EXCEPT ![t] = Nil]
    BY <1>2 DEF FrontSetsFirst
<1>4. QueueTypes /\ Places /\ Own /\ Sound(q) /\ Written(q, c)
    BY DEF Good, Sound
<1>5. "front_last" \in Writes \union {"unlock"} /\ "front_last" \in Changed
      /\ "front" \notin Changed
    BY DEF Writes, Changed
<1>6. /\ op' \in [Cores -> Starts \union Writes \union {"idle", "unlock"}]
      /\ op[c] = "front" /\ op'[c] = "front_last"
      /\ \A d \in Cores \ {c} : op'[d] = op[d] /\ op[d] \notin Writes
      /\ arg' = arg /\ Places'
    BY <1>1, <1>4, <1>5, StepPlaces
<1>7. pc[c] = "inside"
    BY <1>1 DEF Step, At
<1>8. last = End(q)
    BY <1>4, <1>5, <1>6, <1>7, LastIsEnd
<1>9. t \in Nodes /\ owner[t] = c
    BY <1>2, <1>4, <1>6 DEF Own
<1>10. \A i \in 1..Len(q) : q[i] # t
    BY <1>4, <1>9, QueueAssumption DEF Sound
<1>11. next[t] = first
    BY <1>2, <1>4, <1>6 DEF Written
<1>12. IsList(q, next, first)
    BY <1>4 DEF Sound
<1>13. q \in Seq(Nodes) /\ Len(q) \in Nat
    BY <1>12 DEF IsList
<1>14. PICK r : r = <<t>> \o q
    OBVIOUS
<1>15. /\ IsList(r, next, t)
       /\ Len(r) = Len(q) + 1
       /\ r[1] = t
       /\ \A i \in 1..Len(q) : r[i + 1] = q[i]
    BY <1>9, <1>10, <1>11, <1>12, <1>14, ListPrepend
<1>16. IsList(r, next', first')
    BY <1>3, <1>15
<1>17. \A u \in Nodes : owner'[u] = IF u = t THEN Nil ELSE owner[u]
    BY <1>3, <1>4 DEF QueueTypes
<1>18. ASSUME NEW i \in 1..Len(r)
       PROVE  owner'[r[i]] = Nil
    <2>1. CASE i = 1
        BY <1>9, <1>15, <1>17, <2>1
    <2>2. CASE i # 1
        <3>1. PICK j \in 1..Len(q) : i = j + 1
            <4>1. i - 1 \in 1..Len(q) /\ i = i - 1 + 1
                BY <1>13, <1>15, <2>2
            <4> QED
                BY <4>1
        <3>2. r[i] = q[j] /\ owner[q[j]] = Nil /\ q[j] \in Nodes
            BY <1>4, <1>13, <1>15, <3>1 DEF Sound
        <3> QED
            BY <1>17, <3>2
    <2> QED
        BY <2>1, <2>2
<1>19. (IF last = Nil THEN t ELSE last) = End(r) /\ Len(r) # 0
    <2>1. CASE Len(q) = 0
        <3>1. Len(r) = 1 /\ last = Nil
            BY <1>8, <1>15, <2>1 DEF End
        <3>2. Len(r) # 0 /\ r[Len(r)] = r[1]
            BY <3>1
        <3> QED
            BY <1>15, <3>1, <3>2 DEF End
    <2>2. CASE Len(q) # 0
        <3>1. Len(q) \in 1..Len(q) /\ Len(r) # 0
            BY <1>13, <1>15, <2>2
        <3>2. r[Len(r)] = q[Len(q)] /\ last = q[Len(q)] /\ q[Len(q)] \in Nodes
            BY <1>8, <1>13, <1>15, <2>2, <3>1 DEF End
        <3> QED
            BY <3>1, <3>2, QueueAssumption DEF End
    <2> QED
        BY <2>1, <2>2
<1>20. Written(r, c)'
    BY <1>2, <1>3, <1>6, <1>19 DEF Written, End
<1>21. Sound(r)'
    BY <1>5, <1>6, <1>16, <1>18, <1>20, SoundAgain
<1>22. QueueTypes'
    <2>1. owner' \in [Nodes -> Cores \union {Nil}]
        BY <1>3, <1>4 DEF QueueTypes
    <2> QED
        BY <1>3, <1>4, <1>6, <2>1 DEF QueueTypes
<1>23. Own'
    BY <1>4, <1>5, <1>6, <1>9, <1>17, OwnMoves
<1>24. Good(r)'
    BY <1>6, <1>21, <1>22, <1>23 DEF Good
<1> QED
    BY <1>3, <1>9, <1>14, <1>24

\* remove: the first node leaves with the write to `first`.
LEMMA RemoveTakesFirst ==
    ASSUME LockInv, NEW q, Good(q), NEW c \in Cores, RemoveSetsFirst(c)
    PROVE  /\ q # <<>>
           /\ owner' = [owner EXCEPT ![Head(q)] = c]
           /\ Good(Tail(q))'
<1>1. Step(c, "remove", "remove_last")
    BY DEF RemoveSetsFirst
<1>2. /\ first # Nil /\ first' = next[first] /\ next' = next /\ last' = last
      /\ owner' = [owner EXCEPT ![first] = c]
    BY DEF RemoveSetsFirst
<1>3. QueueTypes /\ Places /\ Own /\ Sound(q)
    BY DEF Good
<1>4. "remove_last" \in Writes \union {"unlock"} /\ "remove_last" \in Changed
      /\ "remove" \notin Changed
    BY DEF Writes, Changed
<1>5. /\ op' \in [Cores -> Starts \union Writes \union {"idle", "unlock"}]
      /\ op[c] = "remove" /\ op'[c] = "remove_last"
      /\ \A d \in Cores \ {c} : op'[d] = op[d] /\ op[d] \notin Writes
      /\ arg' = arg /\ Places'
    BY <1>1, <1>3, <1>4, StepPlaces
<1>6. pc[c] = "inside"
    BY <1>1 DEF Step, At
<1>7. last = End(q)
    BY <1>3, <1>4, <1>5, <1>6, LastIsEnd
<1>8. IsList(q, next, first)
    BY <1>3 DEF Sound
<1>9. /\ q \in Seq(Nodes) /\ \A i, j \in 1..Len(q) : q[i] = q[j] => i = j
    BY <1>8 DEF IsList
<1>10. PICK r : r = Tail(q)
    OBVIOUS
<1>11. /\ q # <<>> /\ Len(q) \in Nat \ {0} /\ first = q[1] /\ Head(q) = first
       /\ first \in Nodes
       /\ IsList(r, next, next[first])
       /\ Len(r) = Len(q) - 1
       /\ \A i \in 1..(Len(q) - 1) : r[i] = q[i + 1]
    BY <1>2, <1>8, <1>10, ListTail
<1>12. IsList(r, next', first')
    BY <1>2, <1>11
<1>13. \A u \in Nodes : owner'[u] = IF u = first THEN c ELSE owner[u]
    BY <1>2, <1>3 DEF QueueTypes
<1>14. ASSUME NEW i \in 1..Len(r)
       PROVE  owner'[r[i]] = Nil
    <2>1. i + 1 \in 1..Len(q) /\ 1 \in 1..Len(q) /\ i + 1 # 1
          /\ i \in 1..(Len(q) - 1)
        BY <1>11
    <2>2. r[i] = q[i + 1]
        BY <1>11, <2>1
    <2>3. q[i + 1] # first /\ q[i + 1] \in Nodes /\ owner[q[i + 1]] = Nil
        BY <1>3, <1>9, <1>11, <2>1 DEF Sound
    <2> QED
        BY <1>13, <2>2, <2>3
<1>15. Len(r) # 0 => last = End(r)
    <2> SUFFICES ASSUME Len(r) # 0
                 PROVE  last = r[Len(r)]
        BY DEF End
    <2>1. Len(r) \in 1..(Len(q) - 1) /\ Len(r) + 1 = Len(q) /\ Len(q) # 0
        BY <1>11
    <2>2. r[Len(r)] = q[Len(q)]
        BY <1>11, <2>1
    <2> QED
        BY <1>7, <2>1, <2>2 DEF End
<1>16. Written(r, c)'
    BY <1>2, <1>5, <1>15 DEF Written, End
<1>17. Sound(r)'
    BY <1>4, <1>5, <1>12, <1>14, <1>16, SoundAgain
<1>18. QueueTypes'
    <2>1. owner' \in [Nodes -> Cores \union {Nil}]
        BY <1>2, <1>3 DEF QueueTypes
    <2> QED
        BY <1>2, <1>3, <1>5, <2>1 DEF QueueTypes
<1>19. Own'
    <2>1. owner[first] = Nil
        BY <1>3, <1>11 DEF Sound
    <2> QED
        BY <1>3, <1>4, <1>5, <1>13, <2>1, QueueAssumption, OwnMoves
<1>20. Good(r)'
    BY <1>5, <1>17, <1>18, <1>19 DEF Good
<1> QED
    BY <1>2, <1>10, <1>11, <1>20

\* remove_all: everything that can be reached leaves at once.
LEMMA AllLeave ==
    ASSUME LockInv, NEW q, Good(q), NEW c \in Cores, AllSetsFirst(c)
    PROVE  /\ owner' = [t \in Nodes |-> IF t \in Range(q) THEN c ELSE owner[t]]
           /\ Good(<<>>)'
<1>1. Step(c, "remove_all", "all_last")
    BY DEF AllSetsFirst
<1>2. QueueTypes /\ Places /\ Own /\ Sound(q)
    BY DEF Good
<1>3. first' = Nil /\ next' = next /\ last' = last
      /\ owner' = [t \in Nodes |->
                    IF t \in Range(Chain(first)) THEN c ELSE owner[t]]
    BY DEF AllSetsFirst
<1>4. Chain(first) = q
    BY <1>2, Mapped
<1>5. owner' = [t \in Nodes |-> IF t \in Range(q) THEN c ELSE owner[t]]
    BY <1>3, <1>4
<1>6. "all_last" \in Writes \union {"unlock"} /\ "all_last" \in Changed
    BY DEF Writes, Changed
<1>7. /\ op' \in [Cores -> Starts \union Writes \union {"idle", "unlock"}]
      /\ op'[c] = "all_last"
      /\ \A d \in Cores \ {c} : op'[d] = op[d] /\ op[d] \notin Writes
      /\ arg' = arg /\ Places'
    BY <1>1, <1>2, <1>6, StepPlaces
<1>8. PICK r : r = <<>>
    OBVIOUS
<1>9. Len(r) = 0 /\ \A i \in 1..Len(r) : owner'[r[i]] = Nil
    BY <1>8
<1>10. IsList(r, next', first')
    BY <1>3, <1>8, EmptyList
<1>11. Written(r, c)'
    BY <1>7, <1>9 DEF Written
<1>12. Sound(r)'
    BY <1>6, <1>7, <1>9, <1>10, <1>11, SoundAgain
<1>13. QueueTypes'
    BY <1>2, <1>3, <1>5, <1>7 DEF QueueTypes
<1>14. \A t \in Nodes : t \in Range(q) => owner[t] = Nil
    <2>1. q \in Seq(Nodes) /\ \A i \in 1..Len(q) : owner[q[i]] = Nil
        BY <1>2 DEF Sound, IsList
    <2>2. DOMAIN q = 1..Len(q)
        BY <2>1
    <2> QED
        BY <2>1, <2>2 DEF Range
<1>15. \A t \in Nodes : owner[t] \in Cores \ {c} => owner'[t] = owner[t]
    BY <1>5, <1>14, QueueAssumption
<1>16. Own'
    BY <1>2, <1>6, <1>7, <1>15, OwnMoves
<1>17. Good(r)'
    BY <1>7, <1>12, <1>13, <1>16 DEF Good
<1> QED
    BY <1>5, <1>8, <1>17

\* Taking and leaving the lock does not touch the list.
LEMMA OutsideWrites ==
    ASSUME LockInv, NEW q, Good(q), NEW c \in Cores,
           \/ (SetFlag(c) \/ Lock(c)) /\ UNCHANGED queue
           \/ CallAdd(c) \/ CallAddFront(c) \/ CallRemove(c) \/ CallRemoveAll(c)
           \/ Return(c)
    PROVE  Good(q)' /\ owner' = owner
<1> USE DEF Starts, Writes, Changed
<1>1. QueueTypes /\ Places /\ Own /\ Sound(q)
    BY DEF Good
<1>2. pc \in [Cores -> {"outside", "disable", "exchange", "failed", "save",
                        "inside", "release", "released"}]
    BY DEF LockInv, TypeOK
<1>3. ASSUME UNCHANGED <<first, last, next, owner>>, QueueTypes', Own', Places',
             \A d \in Cores : op'[d] = op[d] \/ op'[d] \notin Writes,
             \A d \in Cores : op[d] \in Writes => op'[d] = op[d] /\ arg'[d] = arg[d]
      PROVE  Good(q)' /\ owner' = owner
    <2>1. /\ IsList(q, next, first)
          /\ \A i \in 1..Len(q) : owner[q[i]] = Nil
          /\ \A d \in Cores : Written(q, d)
          /\ (\A d \in Cores : op[d] \notin Changed) => last = End(q)
        BY <1>1 DEF Sound
    <2>2. ASSUME NEW d \in Cores
          PROVE  Written(q, d)'
        <3>1. CASE op[d] \in Writes
            <4>1. op'[d] = op[d] /\ arg'[d] = arg[d]
                BY <1>3, <3>1
            <4> QED
                BY <1>3, <2>1, <4>1 DEF Written
        <3>2. CASE op[d] \notin Writes
            <4>1. op'[d] \notin Writes
                BY <1>3, <3>2
            <4> QED
                BY <4>1 DEF Written
        <3> QED
            BY <3>1, <3>2
    <2>3. (\A d \in Cores : op'[d] \notin Changed) => last = End(q)
        BY <1>3, <2>1
    <2>4. IsList(q, next', first') /\ \A i \in 1..Len(q) : owner'[q[i]] = Nil
        BY <1>3, <2>1
    <2>5. Sound(q)'
        BY <1>3, <2>2, <2>3, <2>4 DEF Sound, IsList, End
    <2> QED
        BY <1>3, <2>5 DEF Good
<1>4. CASE SetFlag(c) /\ UNCHANGED queue
    <2>1. pc' = pc
        BY <1>4 DEF SetFlag
    <2>2. Places'
        BY <1>1, <1>4, <2>1 DEF Places, queue
    <2> QED
        BY <1>1, <1>3, <1>4, <2>2 DEF queue, QueueTypes, Own
<1>5. CASE Lock(c) /\ UNCHANGED queue
    <2>1. PICK w \in {"exchange", "failed", "save", "disable", "inside"} :
            pc' = [pc EXCEPT ![c] = w]
        BY <1>5, Zenon DEF Lock, Disable, Exchange, Retry, Save, Goto
    <2>2. pc[c] \in {"disable", "exchange", "failed", "save"}
        BY <1>5 DEF Lock, Disable, Exchange, Retry, Save, At
    <2>3. op[c] \in Starts
        BY <1>1, <2>2 DEF Places, QueueTypes
    <2>4. Places'
        BY <1>1, <1>2, <1>5, <2>1, <2>3 DEF Places, queue
    <2> QED
        BY <1>1, <1>3, <1>5, <2>4 DEF queue, QueueTypes, Own
<1>6. ASSUME NEW t \in Nodes \union {Nil}, NEW call \in Starts, Enter(c, t, call),
             call \in {"add", "add_front"} => t \in Nodes /\ owner[t] = c
      PROVE  Good(q)' /\ owner' = owner
    <2>1. /\ pc[c] = "outside" /\ pc' = [pc EXCEPT ![c] = "disable"]
          /\ op' = [op EXCEPT ![c] = call] /\ arg' = [arg EXCEPT ![c] = t]
          /\ UNCHANGED <<first, last, next, owner>>
        BY <1>6 DEF Enter, CallLock, At, Goto
    <2>2. op[c] \notin Writes
        BY <1>1, <2>1 DEF Places
    <2>3. /\ op'[c] = call /\ \A d \in Cores \ {c} : op'[d] = op[d]
          /\ arg'[c] = t /\ \A d \in Cores \ {c} : arg'[d] = arg[d]
          /\ pc'[c] = "disable" /\ \A d \in Cores \ {c} : pc'[d] = pc[d]
        BY <1>1, <1>2, <2>1 DEF QueueTypes
    <2>4. QueueTypes'
        BY <1>1, <2>1 DEF QueueTypes
    <2>5. Places'
        BY <1>1, <2>3 DEF Places
    <2>6. Own'
        BY <1>1, <1>6, <2>1, <2>3 DEF Own
    <2> QED
        BY <1>3, <2>1, <2>2, <2>3, <2>4, <2>5, <2>6
<1>7. CASE CallAdd(c) \/ CallAddFront(c) \/ CallRemove(c) \/ CallRemoveAll(c)
    BY <1>6, <1>7 DEF CallAdd, CallAddFront, CallRemove, CallRemoveAll
<1>8. CASE Return(c)
    <2>1. op[c] = "unlock" /\ UNCHANGED <<first, last, next, owner>>
        BY <1>8 DEF Return
    <2>2. CASE (ReadWas(c) \/ Release(c)) /\ UNCHANGED <<op, arg>>
        <3>1. PICK w \in {"release", "released"} : pc' = [pc EXCEPT ![c] = w]
            BY <2>2, Zenon DEF ReadWas, Release, Goto
        <3>2. Places'
            BY <1>1, <1>2, <2>1, <2>2, <3>1 DEF Places
        <3> QED
            BY <1>1, <1>3, <2>1, <2>2, <3>2 DEF QueueTypes, Own
    <2>3. CASE Leave(c) /\ op' = [op EXCEPT ![c] = "idle"]
                        /\ arg' = [arg EXCEPT ![c] = Nil]
        <3>1. pc' = [pc EXCEPT ![c] = "outside"]
            BY <2>3 DEF Leave, Goto
        <3>2. /\ op'[c] = "idle" /\ \A d \in Cores \ {c} : op'[d] = op[d]
              /\ arg'[c] = Nil /\ \A d \in Cores \ {c} : arg'[d] = arg[d]
              /\ pc'[c] = "outside" /\ \A d \in Cores \ {c} : pc'[d] = pc[d]
            BY <1>1, <1>2, <2>3, <3>1 DEF QueueTypes
        <3>3. QueueTypes'
            BY <1>1, <2>1, <2>3 DEF QueueTypes
        <3>4. Places'
            BY <1>1, <3>2 DEF Places
        <3>5. Own'
            BY <1>1, <2>1, <3>2 DEF Own
        <3> QED
            BY <1>3, <2>1, <3>2, <3>3, <3>4, <3>5
    <2> QED
        BY <1>8, <2>2, <2>3 DEF Return
<1> QED
    BY <1>4, <1>5, <1>7, <1>8

\* Every step keeps the invariant, and is one step of module Fifo or none.
LEMMA QueueStep ==
    QueueInv /\ [QueueNext]_<<vars, queue>> =>
        QueueInv' /\ [Abstract!Next]_<<Chain(first), owner>>
<1> SUFFICES ASSUME QueueInv, [QueueNext]_<<vars, queue>>
             PROVE  QueueInv' /\ [Abstract!Next]_<<Chain(first), owner>>
    OBVIOUS
<1>1. LockInv
    BY DEF QueueInv
<1>2. PICK q : Good(q)
    BY DEF QueueInv, Good
<1>3. LockInv'
    <2>1. [Next]_vars
        BY LockStep
    <2> QED
        BY <1>1, <2>1, LockInductive
<1>4. Chain(first) = q
    BY <1>2, Mapped DEF Good
<1>5. ASSUME NEW r, Good(r)'
      PROVE  QueueInv' /\ Chain(first)' = r
    <2>1. QueueTypes' /\ Places' /\ Own' /\ Sound(r)'
        BY <1>5 DEF Good
    <2>2. Chain(first)' = r
        BY <2>1, Mapped
    <2>3. (\E s : Sound(s))'
        BY <2>1
    <2> QED
        BY <1>3, <2>1, <2>2, <2>3 DEF QueueInv
<1>6. ASSUME Good(q)' /\ owner' = owner
      PROVE  QueueInv' /\ [Abstract!Next]_<<Chain(first), owner>>
    BY <1>4, <1>5, <1>6
<1>7. CASE UNCHANGED <<vars, queue>>
    <2>1. Good(q)'
        BY <1>2, <1>7 DEF Good, QueueTypes, Places, Own, Sound, Written, IsList,
                          vars, queue, End
    <2> QED
        BY <1>6, <1>7, <2>1 DEF queue
<1>8. ASSUME NEW c \in Cores, Core(c)
      PROVE  QueueInv' /\ [Abstract!Next]_<<Chain(first), owner>>
    <2>1. CASE \/ (SetFlag(c) \/ Lock(c)) /\ UNCHANGED queue
               \/ CallAdd(c) \/ CallAddFront(c) \/ CallRemove(c) \/ CallRemoveAll(c)
               \/ Return(c)
        BY <1>1, <1>2, <1>6, <2>1, OutsideWrites
    <2>2. CASE AddClearsNext(c)
        BY <1>1, <1>2, <1>6, <2>2, AddClears
    <2>3. CASE FrontSetsNext(c)
        BY <1>1, <1>2, <1>6, <2>3, FrontNext
    <2>4. CASE \/ AddSetsLast(c) \/ FrontSetsLast(c) \/ RemoveFindsNothing(c)
               \/ RemoveSetsLast(c) \/ AllSetsLast(c)
        BY <1>1, <1>2, <1>6, <2>4, CallEnds
    <2>5. CASE AddLinks(c)
        <3>1. PICK t \in Nodes : /\ owner[t] = c
                                 /\ owner' = [owner EXCEPT ![t] = Nil]
                                 /\ Good(Append(q, t))'
            BY <1>1, <1>2, <2>5, AddAppends
        <3>2. QueueInv' /\ Chain(first)' = Append(q, t)
            BY <1>5, <3>1
        <3>3. Abstract!Add(c, t)
            BY <1>4, <3>1, <3>2 DEF Abstract!Add
        <3> QED
            BY <3>2, <3>3 DEF Abstract!Next
    <2>6. CASE FrontSetsFirst(c)
        <3>1. PICK t \in Nodes : /\ owner[t] = c
                                 /\ owner' = [owner EXCEPT ![t] = Nil]
                                 /\ Good(<<t>> \o q)'
            BY <1>1, <1>2, <2>6, FrontPrepends
        <3>2. QueueInv' /\ Chain(first)' = <<t>> \o q
            BY <1>5, <3>1
        <3>3. Abstract!AddFront(c, t)
            BY <1>4, <3>1, <3>2 DEF Abstract!AddFront
        <3> QED
            BY <3>2, <3>3 DEF Abstract!Next
    <2>7. CASE RemoveSetsFirst(c)
        <3>1. /\ q # <<>>
              /\ owner' = [owner EXCEPT ![Head(q)] = c]
              /\ Good(Tail(q))'
            BY <1>1, <1>2, <2>7, RemoveTakesFirst
        <3>2. QueueInv' /\ Chain(first)' = Tail(q)
            BY <1>5, <3>1
        <3>3. Abstract!Remove(c)
            BY <1>4, <3>1, <3>2 DEF Abstract!Remove
        <3> QED
            BY <3>2, <3>3 DEF Abstract!Next
    <2>8. CASE AllSetsFirst(c)
        <3>1. /\ owner' = [t \in Nodes |-> IF t \in Range(q) THEN c ELSE owner[t]]
              /\ Good(<<>>)'
            BY <1>1, <1>2, <2>8, AllLeave
        <3>2. QueueInv' /\ Chain(first)' = <<>>
            BY <1>5, <3>1
        <3>3. Abstract!RemoveAll(c)
            BY <1>4, <3>1, <3>2 DEF Abstract!RemoveAll, Abstract!Range, Range
        <3> QED
            BY <3>2, <3>3 DEF Abstract!Next
    <2> QED
        BY <1>8, <2>1, <2>2, <2>3, <2>4, <2>5, <2>6, <2>7, <2>8 DEF Core
<1> QED
    BY <1>7, <1>8 DEF QueueNext

\* An empty queue, and no core in a call.
LEMMA QueueStarts == QueueInit => QueueInv /\ Abstract!Init
<1> SUFFICES ASSUME QueueInit
             PROVE  QueueInv /\ Abstract!Init
    OBVIOUS
<1>1. LockInv
    BY DEF QueueInit, Init, LockInv, TypeOK, Owned, MutualExclusion, Held, Flags,
           Saved
<1>2. PICK q : q = <<>>
    OBVIOUS
<1>3. Len(q) = 0 /\ IsList(q, next, first)
    BY <1>2, EmptyList DEF QueueInit
<1>4. \A c \in Cores : op[c] = "idle" /\ pc[c] = "outside"
    BY DEF QueueInit, Init
<1>5. Sound(q)
    BY <1>3, <1>4 DEF Sound, Written, End, QueueInit
<1>6. QueueTypes /\ Places /\ Own
    BY <1>4 DEF QueueTypes, Places, Own, QueueInit, Starts, Writes, Changed
<1>7. Chain(first) = q
    BY <1>5, Mapped
<1>8. Abstract!Init
    BY <1>2, <1>7 DEF Abstract!Init, QueueInit
<1> QED
    BY <1>1, <1>5, <1>6, <1>8 DEF QueueInv

\* At every single write to a list behind the lock, with any number of cores
\* and nodes, what is reachable from `first` is the sequence of module Fifo:
\* each call takes effect in one indivisible step, nothing is lost and nothing
\* is handed to two cores.
THEOREM IsFifo == QueueSpec => FifoQueue
<1>1. QueueInv /\ [QueueNext]_<<vars, queue>> => QueueInv'
    BY QueueStep
<1>2. QueueInv /\ [QueueNext]_<<vars, queue>> =>
        [Abstract!Next]_<<Chain(first), owner>>
    BY QueueStep
<1> QED
    BY <1>1, <1>2, QueueStarts, PTL DEF QueueSpec, FifoQueue, Abstract!Spec

\* The lock of the queue is the lock of module SpinLock.
LEMMA QueueLocks == QueueSpec => Spec
<1>1. [QueueNext]_<<vars, queue>> => [Next]_vars
    BY LockStep DEF vars
<1>2. QueueInit => Init
    BY DEF QueueInit
<1> QED
    BY <1>1, <1>2, PTL DEF QueueSpec, Spec

\* So what the lock promises holds of every core that uses the queue: its
\* writes exclude each other, no interrupt comes between them, and the caller
\* gets its interrupt flag back.
THEOREM QueueIsGuarded ==
    QueueSpec => [](MutualExclusion /\ HolderUninterrupted /\ FlagRestored)
BY QueueLocks, Exclusion, Uninterrupted, Restored, PTL

-----------------------------------------------------------------------------
(* The reference counted pointers.  The counts are those of the handles,   *)
(* and one thread at most has decided to delete the Intermediate.          *)

Numbers ==
    /\ strong_count \in Nat /\ weak_count \in Nat
    /\ strong \in [Threads -> Nat] /\ weak \in [Threads -> Nat]

PtrFlags ==
    /\ obj \in BOOLEAN /\ alive \in BOOLEAN /\ freed \in BOOLEAN
    /\ delete_ptr \in [Threads -> BOOLEAN]

Decisions ==
    todo \in [Threads -> {"idle", "delete obj", "clear obj", "delete ptr",
                        "undefined"}]

Types == Numbers /\ PtrFlags /\ Decisions

\* The fields of the Intermediate count the handles.
Counted ==
    /\ strong_count = Sum(strong, Threads)
    /\ weak_count = Sum(weak, Threads)

\* Nobody has begun to delete anything while there is a StrongPtr.
Untouched ==
    strong_count # 0 =>
        /\ alive /\ obj /\ ~freed
        /\ \A t \in Threads : todo[t] = "idle"

\* t has decided to delete the Intermediate and has not done so.
Will(t) == \/ todo[t] = "delete ptr"
           \/ todo[t] \in {"delete obj", "clear obj"} /\ delete_ptr[t]

\* Who has decided so was the last, and there is nobody else.
LastDecides ==
    /\ \A t \in Threads : Will(t) => strong_count = 0 /\ weak_count = 0 /\ ~freed
    /\ \A t, u \in Threads : Will(t) /\ Will(u) => t = u
    /\ freed => strong_count = 0 /\ weak_count = 0

\* Without handles, what is not deleted yet is somebody's to delete.
SomeoneDeletes ==
    /\ strong_count = 0 /\ weak_count = 0 /\ ~freed => \E t \in Threads : Will(t)
    /\ strong_count = 0 /\ alive =>
           \E t \in Threads : todo[t] \in {"delete obj", "undefined"}

PtrInv == Types /\ Counted /\ Untouched /\ LastDecides /\ SomeoneDeletes

\* The model's total is the sum of module Sums.
LEMMA TotalIsSum == \A h : Total(h) = Sum(h, Threads)
BY DEF Total, Sum

\* The two totals are natural numbers, no smaller than a thread's share.
LEMMA Shares ==
    ASSUME Types, Counted
    PROVE  \A t \in Threads : /\ strong[t] \in Nat /\ weak[t] \in Nat
                              /\ strong[t] <= strong_count
                              /\ weak[t] <= weak_count
BY SumNat, SharedAssumption DEF Types, Numbers, Counted

\* One more handle counts one more.
LEMMA SumMore ==
    ASSUME NEW h \in [Threads -> Nat], NEW t \in Threads
    PROVE  /\ More(h, t) \in [Threads -> Nat]
           /\ Sum(More(h, t), Threads) = Sum(h, Threads) + 1
<1>1. PICK g : g = More(h, t)
    OBVIOUS
<1>2. /\ g \in [Threads -> Nat] /\ g[t] = h[t] + 1
      /\ \A x \in Threads : x # t => g[x] = h[x]
    BY <1>1 DEF More
<1>3. Sum(g, Threads) = Sum(h, Threads) + (g[t] - h[t])
    BY <1>2, SumChange, SharedAssumption
<1>4. Sum(h, Threads) \in Nat /\ h[t] \in Nat
    BY SumNat, SharedAssumption
<1> QED
    BY <1>1, <1>2, <1>3, <1>4

\* And one less one less.
LEMMA SumLess ==
    ASSUME NEW h \in [Threads -> Nat], NEW t \in Threads, h[t] > 0
    PROVE  /\ Less(h, t) \in [Threads -> Nat]
           /\ Sum(Less(h, t), Threads) = Sum(h, Threads) - 1
<1>1. PICK g : g = Less(h, t)
    OBVIOUS
<1>2. /\ g \in [Threads -> Nat] /\ g[t] = h[t] - 1
      /\ \A x \in Threads : x # t => g[x] = h[x]
    BY <1>1 DEF Less
<1>3. Sum(g, Threads) = Sum(h, Threads) + (g[t] - h[t])
    BY <1>2, SumChange, SharedAssumption
<1>4. Sum(h, Threads) \in Nat /\ h[t] \in Nat
    BY SumNat, SharedAssumption
<1> QED
    BY <1>1, <1>2, <1>3, <1>4

\* make() counts its one StrongPtr.
LEMMA InitInv ==
    ASSUME PtrInit
    PROVE  PtrInv
<1>1. PICK zero : zero = [t \in Threads |-> 0]
    OBVIOUS
<1>2. zero \in [Threads -> Nat] /\ Sum(zero, Threads) = 0
    BY <1>1, SumOfZeros, SharedAssumption
<1>3. strong = More(zero, Creator) /\ weak = zero
    BY <1>1, SharedAssumption DEF PtrInit, More
<1>4. Sum(strong, Threads) = 1 /\ Sum(weak, Threads) = 0
    BY <1>2, <1>3, SumMore, SharedAssumption
<1>5. Types /\ Counted
    BY <1>4 DEF PtrInit, Types, Numbers, PtrFlags, Decisions, Counted
<1>6. strong_count > 0 /\ \A t \in Threads : todo[t] = "idle"
    BY DEF PtrInit
<1>7. \A t \in Threads : ~Will(t)
    BY <1>6 DEF Will
<1> QED
    BY <1>5, <1>6, <1>7 DEF PtrInv, Untouched, LastDecides, SomeoneDeletes, PtrInit

\* Who uses a handle finds nothing deleted.
LEMMA InUse ==
    ASSUME PtrInv, strong_count + weak_count > 0
    PROVE  ~freed /\ \A t \in Threads : ~Will(t)
<1>1. strong_count \in Nat /\ weak_count \in Nat
    BY DEF PtrInv, Types, Numbers
<1>2. ~ (strong_count = 0 /\ weak_count = 0)
    BY <1>1
<1> QED
    BY <1>2, Zenon DEF PtrInv, LastDecides

\* A copy of a StrongPtr.
LEMMA CopyStrongInv ==
    ASSUME PtrInv, NEW t \in Threads, NEW u \in Threads,
           CopyStrong(t, u) \/ Promote(u)
    PROVE  PtrInv'
<1>0. Types /\ Counted /\ Untouched /\ LastDecides /\ SomeoneDeletes
    BY DEF PtrInv
<1>1. strong_count \in Nat /\ strong_count > 0
    <2>1. strong[t] > 0 \/ strong_count > 0
        BY Zenon DEF CopyStrong, Promote
    <2>2. strong_count \in Nat /\ strong[t] \in Nat /\ strong[t] <= strong_count
        BY <1>0, Shares DEF Types, Numbers
    <2> QED
        BY <2>1, <2>2
<1>2. alive /\ obj /\ ~freed /\ \A x \in Threads : todo[x] = "idle"
    BY <1>0, <1>1 DEF Untouched
<1>3. /\ strong' = More(strong, u)
      /\ strong_count' = strong_count + 1
      /\ UNCHANGED <<weak_count, weak, obj, alive, freed, todo, delete_ptr>>
    BY <1>2, Zenon DEF CopyStrong, Promote, memory
<1>4. strong' \in [Threads -> Nat] /\ Sum(strong', Threads) = Sum(strong, Threads) + 1
    BY <1>0, <1>3, SumMore DEF Types, Numbers
<1>5. Types' /\ Counted'
    <2>1. Numbers' /\ Counted'
        BY <1>0, <1>1, <1>3, <1>4 DEF Types, Numbers, Counted
    <2>2. PtrFlags' /\ Decisions'
        BY <1>0, <1>3 DEF Types, PtrFlags, Decisions
    <2> QED
        BY <2>1, <2>2 DEF Types
<1>6. \A x \in Threads : ~Will(x)'
    BY <1>2, <1>3 DEF Will
<1>7. strong_count' # 0
    BY <1>1, <1>3
<1>8. alive' /\ obj' /\ ~freed' /\ \A x \in Threads : todo'[x] = "idle"
    BY <1>2, <1>3
<1> QED
    BY <1>5, <1>6, <1>7, <1>8, Zenon
       DEF PtrInv, Untouched, LastDecides, SomeoneDeletes

\* A copy of a WeakPtr.
LEMMA CopyWeakInv ==
    ASSUME PtrInv, NEW t \in Threads, NEW u \in Threads, CopyWeak(t, u)
    PROVE  PtrInv'
<1>0. Types /\ Counted /\ Untouched /\ LastDecides /\ SomeoneDeletes
    BY DEF PtrInv
<1>1. strong_count \in Nat /\ weak_count \in Nat /\ strong_count + weak_count > 0
    <2>1. /\ strong[t] \in Nat /\ weak[t] \in Nat
          /\ strong[t] <= strong_count /\ weak[t] <= weak_count
        BY <1>0, Shares
    <2>2. strong[t] + weak[t] > 0
        BY Zenon DEF CopyWeak
    <2> QED
        BY <1>0, <2>1, <2>2 DEF Types, Numbers
<1>2. ~freed /\ \A x \in Threads : ~Will(x)
    BY <1>1, InUse
<1>3. /\ weak' = More(weak, u)
      /\ weak_count' = weak_count + 1
      /\ UNCHANGED <<strong_count, strong, obj, alive, freed, todo, delete_ptr>>
    BY Zenon DEF CopyWeak, memory
<1>4. weak' \in [Threads -> Nat] /\ Sum(weak', Threads) = Sum(weak, Threads) + 1
    BY <1>0, <1>3, SumMore DEF Types, Numbers
<1>5. Types' /\ Counted'
    <2>1. Numbers' /\ Counted'
        BY <1>0, <1>1, <1>3, <1>4 DEF Types, Numbers, Counted
    <2>2. PtrFlags' /\ Decisions'
        BY <1>0, <1>3 DEF Types, PtrFlags, Decisions
    <2> QED
        BY <2>1, <2>2 DEF Types
<1>6. \A x \in Threads : ~Will(x)'
    BY <1>2, <1>3 DEF Will
<1>7. Untouched' /\ LastDecides'
    BY <1>0, <1>2, <1>3, <1>6 DEF Untouched, LastDecides
<1>8. SomeoneDeletes'
    <2>1. weak_count' # 0
        BY <1>1, <1>3
    <2>2. UNCHANGED strong_count /\ UNCHANGED alive /\ UNCHANGED todo
        BY <1>3
    <2> QED
        BY <1>0, <2>1, <2>2, Zenon DEF SomeoneDeletes
<1> QED
    BY <1>5, <1>7, <1>8 DEF PtrInv

\* drop_strong, under the lock.
LEMMA DropStrongInv ==
    ASSUME PtrInv, NEW t \in Threads, DropStrong(t)
    PROVE  PtrInv'
<1>0. Types /\ Counted /\ Untouched /\ LastDecides /\ SomeoneDeletes
    BY DEF PtrInv
<1>1. strong_count \in Nat /\ weak_count \in Nat /\ strong_count > 0
    <2>1. strong[t] > 0
        BY Zenon DEF DropStrong
    <2>2. /\ strong_count \in Nat /\ weak_count \in Nat
          /\ strong[t] \in Nat /\ strong[t] <= strong_count
        BY <1>0, Shares DEF Types, Numbers
    <2> QED
        BY <2>1, <2>2
<1>2. alive /\ obj /\ ~freed /\ \A x \in Threads : todo[x] = "idle"
    BY <1>0, <1>1 DEF Untouched
<1>3. /\ strong' = Less(strong, t)
      /\ strong_count' = strong_count - 1
      /\ UNCHANGED <<weak_count, weak, obj, alive, freed>>
    BY Zenon DEF DropStrong, memory
<1>4. strong' \in [Threads -> Nat] /\ Sum(strong', Threads) = Sum(strong, Threads) - 1
    <2>1. strong \in [Threads -> Nat] /\ strong[t] > 0
        BY <1>0 DEF Types, Numbers, DropStrong
    <2> QED
        BY <1>3, <2>1, SumLess
<1>5. todo' \in [Threads -> {"idle", "delete obj"}]
    BY <1>0, <1>2 DEF Types, Decisions, DropStrong
<1>6. delete_ptr' \in [Threads -> BOOLEAN]
    BY <1>0 DEF Types, PtrFlags, DropStrong
<1>7. Types' /\ Counted'
    <2>1. Numbers' /\ Counted'
        BY <1>0, <1>1, <1>3, <1>4 DEF Types, Numbers, Counted
    <2>2. PtrFlags' /\ Decisions'
        BY <1>0, <1>3, <1>5, <1>6 DEF Types, PtrFlags, Decisions
    <2> QED
        BY <2>1, <2>2 DEF Types
<1>8. CASE strong_count' # 0
    <2>1. UNCHANGED <<todo, delete_ptr>>
        BY <1>8 DEF DropStrong
    <2>2. \A x \in Threads : ~Will(x)'
        BY <1>2, <2>1 DEF Will
    <2> QED
        BY <1>1, <1>2, <1>3, <1>7, <1>8, <2>1, <2>2
           DEF PtrInv, Untouched, LastDecides, SomeoneDeletes
<1>9. CASE strong_count' = 0
    <2>1. /\ todo' = [todo EXCEPT ![t] = "delete obj"]
          /\ delete_ptr' = [delete_ptr EXCEPT ![t] = (weak_count = 0)]
        BY <1>9 DEF DropStrong
    <2>2. \A x \in Threads : todo'[x] = IF x = t THEN "delete obj" ELSE "idle"
        BY <1>0, <1>2, <2>1 DEF Types, Decisions
    <2>3. delete_ptr'[t] <=> weak_count = 0
        BY <1>0, <2>1 DEF Types, PtrFlags
    <2>4. \A x \in Threads : x # t => ~Will(x)'
        BY <2>2 DEF Will
    <2>5. Will(t)' <=> weak_count = 0
        BY <2>2, <2>3 DEF Will
    <2>6. Untouched'
        BY <1>9 DEF Untouched
    <2>7. LastDecides'
        BY <1>2, <1>3, <1>9, <2>4, <2>5 DEF LastDecides
    <2>8. SomeoneDeletes'
        BY <1>3, <2>2, <2>5 DEF SomeoneDeletes
    <2> QED
        BY <1>7, <2>6, <2>7, <2>8 DEF PtrInv
<1> QED
    BY <1>8, <1>9

\* drop_weak, under the lock.
LEMMA DropWeakInv ==
    ASSUME PtrInv, NEW t \in Threads, DropWeak(t)
    PROVE  PtrInv'
<1>0. Types /\ Counted /\ Untouched /\ LastDecides /\ SomeoneDeletes
    BY DEF PtrInv
<1>1. strong_count \in Nat /\ weak_count \in Nat /\ weak_count > 0
    <2>1. weak[t] > 0
        BY Zenon DEF DropWeak
    <2>2. /\ strong_count \in Nat /\ weak_count \in Nat
          /\ weak[t] \in Nat /\ weak[t] <= weak_count
        BY <1>0, Shares DEF Types, Numbers
    <2> QED
        BY <2>1, <2>2
<1>2. ~freed /\ \A x \in Threads : ~Will(x)
    BY <1>1, InUse
<1>3. /\ todo[t] = "idle"
      /\ weak' = Less(weak, t)
      /\ weak_count' = weak_count - 1
      /\ UNCHANGED <<strong_count, strong, obj, alive, freed, delete_ptr>>
    BY Zenon DEF DropWeak, memory
<1>4. weak' \in [Threads -> Nat] /\ Sum(weak', Threads) = Sum(weak, Threads) - 1
    <2>1. weak \in [Threads -> Nat] /\ weak[t] > 0
        BY <1>0 DEF Types, Numbers, DropWeak
    <2> QED
        BY <1>3, <2>1, SumLess
<1>5. PICK gone \in BOOLEAN : gone <=> (weak_count' = 0 /\ strong_count = 0)
    OBVIOUS
<1>6. todo' = [todo EXCEPT ![t] = IF gone THEN "delete ptr" ELSE "idle"]
    BY <1>5 DEF DropWeak
<1>7. \A x \in Threads :
        todo'[x] = IF x = t THEN IF gone THEN "delete ptr" ELSE "idle" ELSE todo[x]
    BY <1>0, <1>6 DEF Types, Decisions
<1>8. Types' /\ Counted'
    <2>1. Numbers' /\ Counted'
        BY <1>0, <1>1, <1>3, <1>4 DEF Types, Numbers, Counted
    <2>2. PtrFlags' /\ Decisions'
        BY <1>0, <1>3, <1>6 DEF Types, PtrFlags, Decisions
    <2> QED
        BY <2>1, <2>2 DEF Types
<1>9. Untouched'
    BY <1>0, <1>3, <1>5, <1>7 DEF Untouched
<1>10. \A x \in Threads : Will(x)' <=> x = t /\ gone
    BY <1>2, <1>3, <1>7 DEF Will
<1>11. LastDecides'
    BY <1>2, <1>3, <1>5, <1>10 DEF LastDecides
<1>12. SomeoneDeletes'
    BY <1>0, <1>3, <1>5, <1>7, <1>10 DEF SomeoneDeletes
<1> QED
    BY <1>8, <1>9, <1>11, <1>12 DEF PtrInv

\* The steps of drop_strong and drop_weak after the lock.
LEMMA DeleteInv ==
    ASSUME PtrInv, NEW t \in Threads,
           DeleteObj(t) \/ ClearObj(t) \/ Undefined(t) \/ DeletePtr(t)
    PROVE  PtrInv'
<1>0. Types /\ Counted /\ Untouched /\ LastDecides /\ SomeoneDeletes
    BY DEF PtrInv
<1>1. /\ todo[t] \in {"delete obj", "clear obj", "delete ptr"}
      /\ UNCHANGED <<strong_count, weak_count, strong, weak, delete_ptr>>
    BY DEF DeleteObj, ClearObj, Undefined, DeletePtr, counts, handles
<1>2. strong_count = 0
    BY <1>0, <1>1 DEF Untouched
<1>3. PICK where \in {"clear obj", "delete ptr", "idle", "undefined"} :
        todo' = [todo EXCEPT ![t] = where]
    BY DEF DeleteObj, ClearObj, Undefined, DeletePtr
<1>4. \A x \in Threads : todo'[x] = IF x = t THEN where ELSE todo[x]
    BY <1>0, <1>3 DEF Types, Decisions
<1>5. Types' /\ Counted'
    <2>1. Numbers' /\ Counted' /\ Decisions'
        BY <1>0, <1>1, <1>3 DEF Types, Numbers, Counted, Decisions
    <2>2. PtrFlags'
        BY <1>0, <1>1 DEF Types, PtrFlags, DeleteObj, ClearObj, Undefined, DeletePtr,
           memory
    <2> QED
        BY <2>1, <2>2 DEF Types
<1>6. Untouched'
    BY <1>1, <1>2 DEF Untouched
<1>7. \A x \in Threads : x # t => (Will(x)' <=> Will(x))
    BY <1>1, <1>4 DEF Will
<1>8. CASE DeleteObj(t) \/ ClearObj(t)
    <2>1. Will(t)' <=> Will(t)
        BY <1>0, <1>1, <1>8 DEF Will, DeleteObj, ClearObj, Types, Decisions
    <2>2. \A x \in Threads : Will(x)' <=> Will(x)
        BY <1>7, <2>1
    <2>3. freed' = freed
        BY <1>8 DEF DeleteObj, ClearObj
    <2>4. LastDecides'
        BY <1>0, <1>1, <2>2, <2>3 DEF LastDecides
    <2>5. SomeoneDeletes'
        <3>1. strong_count' = 0 /\ weak_count' = 0 /\ ~freed' => \E x \in Threads : Will(x)'
            BY <1>0, <1>1, <2>2, <2>3 DEF SomeoneDeletes
        <3>2. alive' => \E x \in Threads : todo'[x] \in {"delete obj", "undefined"}
            <4>1. CASE DeleteObj(t)
                BY <4>1 DEF DeleteObj
            <4>2. CASE ClearObj(t)
                <5>1. alive' = alive /\ todo[t] = "clear obj"
                    BY <4>2 DEF ClearObj
                <5> QED
                    BY <1>0, <1>2, <1>4, <5>1 DEF SomeoneDeletes
            <4> QED
                BY <1>8, <4>1, <4>2
        <3> QED
            BY <3>1, <3>2 DEF SomeoneDeletes
    <2> QED
        BY <1>5, <1>6, <2>4, <2>5 DEF PtrInv
<1>9. CASE Undefined(t)
    <2>1. /\ freed /\ UNCHANGED <<obj, alive, freed>>
          /\ todo[t] # "delete ptr" /\ todo'[t] = "undefined"
        BY <1>0, <1>9 DEF Undefined, memory, Types, Decisions
    <2>2. \A x \in Threads : ~Will(x)
        BY <1>0, <2>1 DEF LastDecides
    <2>3. ~Will(t)'
        BY <2>1 DEF Will
    <2>4. \A x \in Threads : ~Will(x)'
        BY <1>7, <2>2, <2>3
    <2>5. LastDecides'
        BY <1>0, <1>1, <2>1, <2>4 DEF LastDecides
    <2>6. SomeoneDeletes'
        BY <2>1 DEF SomeoneDeletes
    <2> QED
        BY <1>5, <1>6, <2>5, <2>6 DEF PtrInv
<1>10. CASE DeletePtr(t)
    <2>1. todo[t] = "delete ptr" /\ todo'[t] = "idle" /\ freed' /\ alive' = alive
        BY <1>0, <1>10 DEF DeletePtr, Types, Decisions
    <2>2. Will(t) /\ ~Will(t)'
        BY <2>1 DEF Will
    <2>3. \A x \in Threads : ~Will(x)'
        BY <1>0, <1>7, <2>2 DEF LastDecides
    <2>4. weak_count = 0
        BY <1>0, <2>2 DEF LastDecides
    <2>5. LastDecides'
        BY <1>1, <1>2, <2>3, <2>4 DEF LastDecides
    <2>6. SomeoneDeletes'
        BY <1>0, <1>2, <1>4, <2>1 DEF SomeoneDeletes
    <2> QED
        BY <1>5, <1>6, <2>5, <2>6 DEF PtrInv
<1> QED
    BY <1>8, <1>9, <1>10

\* Every step keeps the invariant.
LEMMA NextInv ==
    ASSUME PtrInv, [PtrNext]_ptrVars
    PROVE  PtrInv'
<1>1. CASE UNCHANGED ptrVars
    BY <1>1 DEF ptrVars, counts, handles, memory, PtrInv, Types, Numbers, PtrFlags, Decisions,
       Counted, Untouched, LastDecides, SomeoneDeletes, Will
<1>2. CASE PtrNext
    BY <1>2, CopyStrongInv, CopyWeakInv, DropStrongInv, DropWeakInv, DeleteInv DEF PtrNext
<1> QED
    BY <1>1, <1>2

\* The counts in the Intermediate are those of the handles, and what is
\* deleted, and by whom, follows from them.
LEMMA Invariance == PtrSpec => []PtrInv
<1>1. PtrInit => PtrInv
    BY InitInv
<1>2. PtrInv /\ [PtrNext]_ptrVars => PtrInv'
    BY NextInv
<1> QED
    BY <1>1, <1>2, PTL DEF PtrSpec

\* ObjAliveWhileHeld, for any number of threads and handles: the assertions
\* of operator-> hold, as neither the object nor the Intermediate is deleted
\* while a StrongPtr is left, whatever is copied, promoted and dropped.
THEOREM HeldObjectLives == PtrSpec => []ObjAliveWhileHeld
<1>1. PtrInv => ObjAliveWhileHeld
    <2> SUFFICES ASSUME PtrInv, Total(strong) > 0
                 PROVE  alive /\ obj /\ ~freed
        BY DEF ObjAliveWhileHeld
    <2>1. strong_count = Total(strong)
        BY TotalIsSum DEF PtrInv, Counted
    <2>2. strong_count # 0
        BY <2>1
    <2> QED
        BY <2>2, Zenon DEF PtrInv, Untouched
<1> QED
    BY <1>1, Invariance, PTL

\* IntermediateDeletedOnce: of the last drop_strong and the last drop_weak
\* one decides, under the lock, to delete the Intermediate, and nobody does
\* while there is a WeakPtr to promote.
THEOREM DeletedOnce == PtrSpec => []IntermediateDeletedOnce
<1>1. PtrInv => IntermediateDeletedOnce
    <2> SUFFICES ASSUME PtrInv
                 PROVE  IntermediateDeletedOnce
        OBVIOUS
    <2>1. PICK W : W = {t \in Threads : \/ todo[t] = "delete ptr"
                                        \/ /\ todo[t] \in {"delete obj", "clear obj"}
                                           /\ delete_ptr[t]}
        OBVIOUS
    <2>2. \A t : t \in W <=> t \in Threads /\ Will(t)
        BY <2>1 DEF Will
    <2>3. \A t \in W : \A u \in W : t = u
        BY <2>2 DEF PtrInv, LastDecides
    <2>4. Cardinality(W) \in {0, 1} /\ (W = {} => Cardinality(W) = 0)
        <3>1. CASE W = {}
            BY <3>1, FS_EmptySet
        <3>2. CASE W # {}
            <4>1. PICK t \in W : TRUE
                BY <3>2
            <4>2. W = {t}
                BY <2>3, <4>1
            <4> QED
                BY <3>2, <4>2, FS_Singleton
        <3> QED
            BY <3>1, <3>2
    <2>5. freed => W = {}
        BY <2>2, Zenon DEF PtrInv, LastDecides
    <2>6. Cardinality(W) <= IF freed THEN 0 ELSE 1
        <3>1. CASE freed
            BY <2>4, <2>5, <3>1
        <3>2. CASE ~freed
            BY <2>4, <3>2
        <3> QED
            BY <3>1, <3>2
    <2>7. Total(weak) > 0 => ~freed /\ \A t \in Threads : ~Will(t)
        <3>1. weak_count = Total(weak) /\ strong_count \in Nat /\ weak_count \in Nat
            BY TotalIsSum DEF PtrInv, Counted, Types, Numbers
        <3>2. Total(weak) > 0 => strong_count + weak_count > 0
            BY <3>1
        <3> QED
            BY <3>2, InUse
    <2> QED
        BY <2>1, <2>6, <2>7, Zenon DEF IntermediateDeletedOnce, Will
<1> QED
    BY <1>1, Invariance, PTL

\* NothingLeaks: when the last handle is gone and no thread is inside a drop,
\* the object and the Intermediate have been deleted.
THEOREM NoLeak == PtrSpec => []NothingLeaks
<1>1. PtrInv => NothingLeaks
    <2> SUFFICES ASSUME PtrInv, Total(strong) + Total(weak) = 0,
                        \A t \in Threads : todo[t] = "idle"
                 PROVE  ~alive /\ freed
        BY DEF NothingLeaks
    <2>1. /\ strong_count = Total(strong) /\ weak_count = Total(weak)
          /\ strong_count \in Nat /\ weak_count \in Nat
        BY TotalIsSum DEF PtrInv, Counted, Types, Numbers
    <2>2. strong_count = 0 /\ weak_count = 0
        BY <2>1
    <2>3. \A t \in Threads : ~Will(t) /\ todo[t] \notin {"delete obj", "undefined"}
        BY DEF Will
    <2> QED
        BY <2>2, <2>3, Zenon DEF PtrInv, SomeoneDeletes
<1> QED
    BY <1>1, Invariance, PTL

\* NoResurrection: what WeakPtr::promote promises in shared.h.  Once the last
\* StrongPtr is gone none comes back, even while the object is being deleted.
THEOREM NoneComesBack == PtrSpec => NoResurrection
<1>1. ASSUME PtrInv, [PtrNext]_ptrVars
      PROVE  [Total(strong) = 0 => Total(strong') = 0]_ptrVars
    <2> SUFFICES ASSUME Total(strong) = 0, strong' # strong
                 PROVE  FALSE
        BY Zenon
    <2>1. strong_count = 0 /\ strong_count = Sum(strong, Threads)
        BY <1>1, TotalIsSum DEF PtrInv, Counted
    <2>2. \A t \in Threads : ~ (strong[t] > 0)
        <3>1. \A t \in Threads : strong[t] \in Nat /\ strong[t] <= strong_count
            BY <1>1, Shares DEF PtrInv
        <3> QED
            BY <2>1, <3>1
    <2>3. ~ (strong_count > 0)
        BY <2>1
    <2>4. PICK t \in Threads : \/ \E u \in Threads : CopyStrong(t, u)
                               \/ Promote(t) \/ DropStrong(t)
        BY <1>1, Zenon DEF PtrNext, ptrVars, CopyWeak, DeleteObj, ClearObj, Undefined,
           DropWeak, DeletePtr, handles
    <2> QED
        BY <2>2, <2>3, <2>4, Zenon DEF CopyStrong, Promote, DropStrong
<1> QED
    BY <1>1, Invariance, PTL DEF PtrSpec, NoResurrection

-----------------------------------------------------------------------------
(* The heap.  A set S of headers and a sequence l of available blocks stand  *)
(* for what the walks over the sizes and over the links will find.           *)

\* The words of the heap.
Index == 0..(len - 1)
Arrays == [Index -> Int]

\* The word behind block i.
Past(a, i) == i + Abs(a[i])

\* The headers in S cut the words into blocks, with the two small taken ones
\* at the ends.
Cut(a, S) ==
    /\ S \subseteq Index /\ 0 \in S /\ len - 2 \in S
    /\ a[0] = -2 /\ a[len - 2] = -2
    /\ \A i \in S : /\ a[i] # 0 /\ a[Past(a, i) - 1] = a[i]
                    /\ Past(a, i) \in S \union {len}
                    /\ i # 0 /\ i # len - 2 => Abs(a[i]) >= 4
    /\ \A i, j \in S : i < j => Past(a, i) <= j

\* The blocks between the two.
Inner(S) == S \ {0, len - 2}

\* The available ones.
Free(a, S) == {i \in S : a[i] > 0}

\* free() has merged neighbours.
Coalesced(a, S) == \A i \in Free(a, S) : Past(a, i) \notin Free(a, S)

\* The size a tag stands for.
LEMMA AbsIs ==
    \A x \in Int : /\ Abs(x) \in Nat /\ (x > 0 => Abs(x) = x) /\ (x <= 0 => Abs(x) = -x)
                   /\ Abs(-x) = Abs(x) /\ (x # 0 => Abs(x) > 0)
BY DEF Abs

\* Every block lies in the heap.
LEMMA BlockBounds ==
    ASSUME NEW a \in Arrays, NEW S, Cut(a, S), NEW i \in S
    PROVE  /\ i \in Index /\ i \in Nat /\ a[i] \in Int /\ Abs(a[i]) \in Nat
           /\ Past(a, i) \in Nat /\ Past(a, i) = i + Abs(a[i])
           /\ i + 2 <= Past(a, i) /\ Past(a, i) <= len
           /\ Past(a, i) - 1 \in Index /\ a[Past(a, i) - 1] = a[i]
<1>1. /\ len \in Nat /\ len >= 8
    BY HeapAssumption
<1>2. i \in Index /\ i \in Nat /\ a[i] \in Int
    BY <1>1 DEF Cut, Index, Arrays
<1>3. Abs(a[i]) \in Nat
    BY <1>2, AbsIs
<1>4. i = 0 \/ i = len - 2 => Abs(a[i]) = 2
    BY DEF Cut, Abs
<1>5. Abs(a[i]) >= 2
    BY <1>3, <1>4 DEF Cut
<1>6. Past(a, i) \in S \union {len} /\ a[Past(a, i) - 1] = a[i]
    BY DEF Cut
<1>7. Past(a, i) \in Nat /\ Past(a, i) <= len
    <2>1. \A s \in S : s \in 0..(len - 1)
        BY DEF Cut, Index
    <2>2. PICK e : e = Past(a, i)
        OBVIOUS
    <2>3. e \in 0..(len - 1) \/ e = len
        BY <1>6, <2>1, <2>2
    <2>4. e \in Nat /\ e <= len
        BY <1>1, <2>3
    <2> QED
        BY <2>2, <2>4
<1>8. i + 2 <= Past(a, i) /\ Past(a, i) = i + Abs(a[i])
    BY <1>2, <1>3, <1>5 DEF Past
<1>9. Past(a, i) - 1 \in Index
    BY <1>1, <1>2, <1>7, <1>8 DEF Index
<1> QED
    BY <1>2, <1>3, <1>6, <1>7, <1>8, <1>9

\* Those between the two ends have four words or more, and a right neighbour.
LEMMA InnerBounds ==
    ASSUME NEW a \in Arrays, NEW S, Cut(a, S), NEW i \in Inner(S)
    PROVE  /\ i \in S /\ 2 <= i /\ i + 4 <= Past(a, i) /\ Past(a, i) <= len - 2
           /\ Past(a, i) \in S /\ Past(a, i) # 0 /\ Abs(a[i]) >= 4
<1>1. len \in Nat /\ len >= 8
    BY HeapAssumption
<1>2. i \in S /\ i # 0 /\ i # len - 2 /\ 0 \in S /\ len - 2 \in S
    BY DEF Inner, Cut
<1>3. /\ i \in Nat /\ Abs(a[i]) \in Nat /\ Past(a, i) = i + Abs(a[i])
      /\ Past(a, i) \in Nat
    BY <1>2, BlockBounds
<1>4. Abs(a[i]) >= 4
    BY <1>2 DEF Cut
<1>5. 2 <= i
    <2>1. Past(a, 0) <= i
        BY <1>2, <1>3 DEF Cut
    <2>2. 0 + 2 <= Past(a, 0) /\ Past(a, 0) \in Nat
        BY <1>2, BlockBounds
    <2> QED
        BY <1>3, <2>1, <2>2
<1>6. i < len - 2
    <2>1. CASE i > len - 2
        <3>1. Past(a, len - 2) <= i
            BY <1>2, <1>3, <2>1 DEF Cut
        <3>2. (len - 2) + 2 <= Past(a, len - 2) /\ Past(a, len - 2) \in Nat
            BY <1>2, BlockBounds
        <3>3. i <= len - 1
            BY <1>1, <1>2 DEF Cut, Index
        <3> QED
            BY <1>1, <1>3, <3>1, <3>2, <3>3
    <2> QED
        BY <1>1, <1>2, <1>3, <2>1
<1>7. Past(a, i) <= len - 2
    BY <1>2, <1>6 DEF Cut
<1>8. Past(a, i) \in S \union {len}
    BY <1>2 DEF Cut
<1> QED
    BY <1>1, <1>2, <1>3, <1>4, <1>5, <1>7, <1>8

\* An available block is none of the two.
LEMMA FreeInner ==
    ASSUME NEW a \in Arrays, NEW S, Cut(a, S), NEW i \in Free(a, S)
    PROVE  i \in Inner(S) /\ a[i] \in Int /\ a[i] > 0 /\ Abs(a[i]) = a[i]
<1>1. i \in S /\ a[i] > 0
    BY DEF Free
<1>2. a[i] \in Int
    BY <1>1, BlockBounds
<1>3. i # 0 /\ i # len - 2
    BY <1>1 DEF Cut
<1> QED
    BY <1>1, <1>2, <1>3, AbsIs DEF Inner

\* No word is in two blocks.
LEMMA BlocksApart ==
    ASSUME NEW a \in Arrays, NEW S, Cut(a, S), NEW i \in S, NEW j \in S, i # j
    PROVE  Past(a, i) <= j \/ Past(a, j) <= i
<1>1. i \in Nat /\ j \in Nat
    BY BlockBounds
<1>2. i < j \/ j < i
    BY <1>1
<1> QED
    BY <1>2 DEF Cut

\* Every block but the first has a left neighbour.
LEMMA HasLeft ==
    ASSUME NEW a \in Arrays, NEW S, Cut(a, S), NEW i \in S, i # 0
    PROVE  \E p \in S : p < i /\ Past(a, p) = i
<1>1. i \in Nat /\ 0 \in S /\ \A p \in S : p \in Nat
    BY BlockBounds DEF Cut
<1>2. PICK T : T = {i - p : p \in {q \in S : q < i}}
    OBVIOUS
<1>3. T \subseteq Nat
    BY <1>1, <1>2
<1>4. i - 0 \in T
    BY <1>1, <1>2
<1>5. PICK x \in T : \A y \in T : x <= y
    BY <1>3, <1>4, LeastNumber
<1>6. PICK p \in S : p < i /\ x = i - p
    BY <1>2, <1>5
<1>7. \A q \in S : q < i => q <= p
    <2>1. ASSUME NEW q \in S, q < i
          PROVE  q <= p
        <3>1. i - q \in T
            BY <1>2, <2>1
        <3>2. x <= i - q
            BY <1>5, <3>1
        <3> QED
            BY <1>1, <1>6, <3>2
    <2> QED
        BY <2>1
<1>8. Past(a, p) <= i /\ p < Past(a, p) /\ Past(a, p) \in Nat
    <2>1. Past(a, p) <= i
        BY <1>6 DEF Cut
    <2>2. p + 2 <= Past(a, p) /\ Past(a, p) \in Nat /\ p \in Nat
        BY BlockBounds
    <2> QED
        BY <2>1, <2>2
<1>9. Past(a, p) \in S \union {len}
    BY DEF Cut
<1>10. i < len /\ len \in Nat
    BY HeapAssumption, BlockBounds DEF Index
<1>11. Past(a, p) = i
    <2>1. CASE Past(a, p) < i
        <3>1. Past(a, p) \in S
            BY <1>1, <1>8, <1>9, <1>10, <2>1
        <3>2. Past(a, p) <= p
            BY <1>7, <2>1, <3>1
        <3> QED
            BY <1>1, <1>8, <3>2
    <2> QED
        BY <1>1, <1>8, <2>1
<1> QED
    BY <1>6, <1>11

\* A run of whole blocks cut anew into the blocks T.
LEMMA CutAgain ==
    ASSUME NEW a \in Arrays, NEW S, Cut(a, S), NEW b \in Arrays,
           NEW i \in Inner(S), NEW e \in S, i < e,
           NEW T, T \subseteq i..(e - 1), i \in T,
           \A t \in T : /\ b[t] # 0 /\ b[Past(b, t) - 1] = b[t]
                        /\ Past(b, t) \in T \union {e} /\ Abs(b[t]) >= 4,
           \A t, u \in T : t < u => Past(b, t) <= u,
           \A s \in S : s < i \/ s >= e =>
                b[s] = a[s] /\ b[Past(a, s) - 1] = a[Past(a, s) - 1]
    PROVE  Cut(b, (S \ (i..(e - 1))) \union T)
<1>1. PICK U : U = (S \ (i..(e - 1))) \union T
    OBVIOUS
<1>2. /\ len \in Nat /\ len >= 8 /\ i \in Nat /\ e \in Nat /\ 2 <= i
      /\ e \in Index
    BY HeapAssumption, InnerBounds, BlockBounds DEF Inner
<1>3. e <= len - 2
    <2>1. CASE e > len - 2
        <3>1. len - 2 \in S
            BY DEF Cut
        <3>2. Past(a, len - 2) <= e
            BY <2>1, <3>1 DEF Cut
        <3>3. (len - 2) + 2 <= Past(a, len - 2) /\ Past(a, len - 2) \in Nat
            BY <3>1, BlockBounds
        <3> QED
            BY <1>2, <3>2, <3>3 DEF Index
    <2> QED
        BY <1>2, <2>1
<1>4. \A u \in U : u \in Index
    BY <1>1, <1>2 DEF Cut, Index
<1>5. /\ 0 \in U /\ len - 2 \in U /\ e \in U
    BY <1>1, <1>2, <1>3 DEF Cut
<1>6. \A s \in S : s < i \/ s >= e => s \in U /\ Past(b, s) = Past(a, s)
    BY <1>1, <1>2, BlockBounds DEF Past
<1>7. b[0] = -2 /\ b[len - 2] = -2
    BY <1>2, <1>3 DEF Cut
<1>8. \A u \in U : u \in T \/ (u \in S /\ (u < i \/ u >= e))
    BY <1>1, <1>2, BlockBounds
<1>9. ASSUME NEW u \in U
      PROVE  /\ b[u] # 0 /\ b[Past(b, u) - 1] = b[u]
             /\ Past(b, u) \in U \union {len}
             /\ u # 0 /\ u # len - 2 => Abs(b[u]) >= 4
    <2>1. CASE u \in T
        BY <1>1, <1>5, <2>1
    <2>2. CASE u \in S /\ (u < i \/ u >= e)
        <3>1. b[u] = a[u] /\ Past(b, u) = Past(a, u) /\ b[Past(b, u) - 1] = b[u]
            BY <1>6, <2>2, BlockBounds
        <3>2. /\ a[u] # 0 /\ Past(a, u) \in S \union {len}
              /\ u # 0 /\ u # len - 2 => Abs(a[u]) >= 4
            BY <2>2 DEF Cut
        <3>3. Past(a, u) <= i \/ Past(a, u) >= e
            <4>1. CASE u < i
                BY <2>2, <4>1 DEF Cut, Inner
            <4>2. CASE u >= e
                BY <1>2, <2>2, <4>2, BlockBounds
            <4> QED
                BY <2>2, <4>1, <4>2
        <3>4. Past(a, u) \in S => Past(a, u) \in U
            <4>1. i \in U
                BY <1>1
            <4> QED
                BY <1>1, <1>2, <3>3, <4>1, BlockBounds
        <3> QED
            BY <3>1, <3>2, <3>4
    <2> QED
        BY <1>8, <2>1, <2>2
<1>10. ASSUME NEW u \in U, NEW v \in U, u < v
       PROVE  Past(b, u) <= v
    <2>1. u \in Nat /\ v \in Nat
        BY <1>2, <1>4 DEF Index
    <2>2. CASE u \in T /\ v \in T
        BY <1>10, <2>2
    <2>3. CASE u \in T /\ v \in S /\ (v < i \/ v >= e)
        <3>1. v >= e
            BY <1>2, <1>10, <2>1, <2>3
        <3>2. Past(b, u) \in T \union {e}
            BY <2>3
        <3>3. Past(b, u) \in Nat /\ Past(b, u) <= e
            <4>1. PICK x : x = Past(b, u)
                OBVIOUS
            <4>2. x \in i..(e - 1) \/ x = e
                BY <3>2, <4>1
            <4>3. x \in Nat /\ x <= e
                BY <1>2, <4>2
            <4> QED
                BY <4>1, <4>3
        <3> QED
            BY <1>2, <2>1, <3>1, <3>3
    <2>4. CASE u \in S /\ (u < i \/ u >= e) /\ v \in T
        <3>1. u < i /\ i <= v
            BY <1>2, <1>10, <2>1, <2>4
        <3>2. Past(a, u) <= i /\ Past(a, u) \in Nat /\ Past(b, u) = Past(a, u)
            BY <1>6, <2>4, <3>1, BlockBounds DEF Cut, Inner
        <3> QED
            BY <1>2, <2>1, <3>1, <3>2
    <2>5. CASE u \in S /\ (u < i \/ u >= e) /\ v \in S
        BY <1>6, <1>10, <2>5 DEF Cut
    <2> QED
        BY <1>8, <2>2, <2>3, <2>4, <2>5
<1>11. U \subseteq Index
    BY <1>4
<1>12. Cut(b, U)
    BY <1>5, <1>7, <1>9, <1>10, <1>11 DEF Cut
<1> QED
    BY <1>1, <1>12

-----------------------------------------------------------------------------
(* The doubly linked list *)

\* The k-th block of the list, 0 before its beginning and behind its end.
Nth(l, k) == IF k \in 1..Len(l) THEN l[k] ELSE 0

\* The links of the words a are those of the list l.
Links(a, head, l) ==
    /\ head = Nth(l, 1)
    /\ \A k \in 1..Len(l) : a[l[k] + 1] = Nth(l, k + 1) /\ a[l[k] + 2] = Nth(l, k - 1)

\* The blocks of a list are far enough from each other for the links.
Spread(l) ==
    /\ l \in Seq(Nat) /\ \A k \in 1..Len(l) : l[k] >= 1 /\ l[k] + 3 \in Index
    /\ \A p, q \in 1..Len(l) : p # q => l[p] + 4 <= l[q] \/ l[q] + 4 <= l[p]

\* No block is in it twice.
Once(l) == \A p, q \in 1..Len(l) : l[p] = l[q] => p = q

\* Available blocks are.
LEMMA FreeSpread ==
    ASSUME NEW a \in Arrays, NEW S, Cut(a, S), NEW l \in Seq(Free(a, S)), Once(l)
    PROVE  Spread(l)
<1>1. Len(l) \in Nat /\ len \in Nat
    BY HeapAssumption
<1>2. ASSUME NEW k \in 1..Len(l)
      PROVE  /\ l[k] \in S /\ l[k] \in Nat /\ 2 <= l[k] /\ l[k] + 4 <= Past(a, l[k])
             /\ Past(a, l[k]) <= len - 2 /\ Past(a, l[k]) \in Nat
    <2>1. l[k] \in Free(a, S)
        OBVIOUS
    <2>2. PICK i : i = l[k]
        OBVIOUS
    <2>3. i \in Inner(S)
        BY <2>1, <2>2, FreeInner
    <2>4. i \in S /\ 2 <= i /\ i + 4 <= Past(a, i) /\ Past(a, i) <= len - 2
        BY <2>3, InnerBounds
    <2>5. i \in Nat /\ Past(a, i) \in Nat
        BY <2>4, BlockBounds
    <2> QED
        BY <2>2, <2>4, <2>5
<1>3. l \in Seq(Nat)
    <2>1. \A k \in 1..Len(l) : l[k] \in Nat
        BY <1>2
    <2> QED
        BY <2>1, SeqDef
<1>4. \A k \in 1..Len(l) : l[k] >= 1 /\ l[k] + 3 \in Index
    BY <1>1, <1>2 DEF Index
<1>5. ASSUME NEW p \in 1..Len(l), NEW q \in 1..Len(l), p # q
      PROVE  l[p] + 4 <= l[q] \/ l[q] + 4 <= l[p]
    <2>1. l[p] # l[q]
        BY <1>5 DEF Once
    <2>2. l[p] \in S /\ l[q] \in S
        BY <1>2
    <2>3. Past(a, l[p]) <= l[q] \/ Past(a, l[q]) <= l[p]
        BY <2>1, <2>2, BlocksApart
    <2>4. /\ l[p] \in Nat /\ l[q] \in Nat /\ Past(a, l[p]) \in Nat /\ Past(a, l[q]) \in Nat
          /\ l[p] + 4 <= Past(a, l[p]) /\ l[q] + 4 <= Past(a, l[q])
        BY <1>2
    <2> QED
        BY <2>3, <2>4
<1> QED
    BY <1>3, <1>4, <1>5 DEF Spread

\* Words elsewhere do not matter.
LEMMA ChainElsewhere ==
    ASSUME NEW a, NEW b, NEW head, NEW l, Links(a, head, l),
           \A k \in 1..Len(l) : b[l[k] + 1] = a[l[k] + 1] /\ b[l[k] + 2] = a[l[k] + 2]
    PROVE  Links(b, head, l)
BY DEF Links

\* A list without its p-th block.
Skip(l, p) == [k \in 1..(Len(l) - 1) |-> IF k < p THEN l[k] ELSE l[k + 1]]

\* It is a list, one shorter.
LEMMA SkipIs ==
    ASSUME NEW U, NEW l \in Seq(U), NEW p \in 1..Len(l)
    PROVE  /\ Skip(l, p) \in Seq(U) /\ Len(Skip(l, p)) = Len(l) - 1
           /\ \A k \in 1..(Len(l) - 1) :
                Skip(l, p)[k] = IF k < p THEN l[k] ELSE l[k + 1]
<1>1. Len(l) \in Nat /\ Len(l) - 1 \in Nat
    OBVIOUS
<1>2. \A k \in 1..(Len(l) - 1) : Skip(l, p)[k] = IF k < p THEN l[k] ELSE l[k + 1]
    BY DEF Skip
<1>3. \A k \in 1..(Len(l) - 1) : k \in 1..Len(l) /\ k + 1 \in 1..Len(l)
    BY <1>1
<1>4. Skip(l, p) \in [1..(Len(l) - 1) -> U]
    BY <1>3 DEF Skip
<1>5. Skip(l, p) \in Seq(U) /\ Len(Skip(l, p)) = Len(l) - 1
    BY <1>1, <1>4
<1> QED
    BY <1>2, <1>5

\* Its blocks are the others.
LEMMA SkipMembers ==
    ASSUME NEW U, NEW l \in Seq(U), Once(l), NEW p \in 1..Len(l)
    PROVE  /\ Once(Skip(l, p))
           /\ \A x : (\E k \in 1..Len(Skip(l, p)) : Skip(l, p)[k] = x)
                        <=> (x # l[p] /\ \E k \in 1..Len(l) : l[k] = x)
<1>1. PICK m : m = Skip(l, p)
    OBVIOUS
<1>2. /\ Len(m) = Len(l) - 1 /\ Len(l) \in Nat
      /\ \A k \in 1..(Len(l) - 1) : m[k] = IF k < p THEN l[k] ELSE l[k + 1]
    <2>1. Len(l) \in Nat
        OBVIOUS
    <2> QED
        BY <1>1, <2>1, SkipIs, Zenon
<1> DEFINE o(k) == IF k < p THEN k ELSE k + 1
<1>3. ASSUME NEW k \in 1..Len(m)
      PROVE  o(k) \in 1..Len(l) /\ o(k) # p /\ m[k] = l[o(k)]
    BY <1>2
<1>4. /\ \A x, y \in 1..Len(m) : m[x] = m[y] => x = y
      /\ \A k \in 1..Len(m) : m[k] # l[p] /\ \E j \in 1..Len(l) : l[j] = m[k]
    <2>1. ASSUME NEW x \in 1..Len(m), NEW y \in 1..Len(m), m[x] = m[y]
          PROVE  x = y
        <3>1. o(x) = o(y)
            BY <1>3, <2>1 DEF Once
        <3> QED
            BY <1>2, <3>1
    <2>2. ASSUME NEW k \in 1..Len(m)
          PROVE  m[k] # l[p] /\ \E j \in 1..Len(l) : l[j] = m[k]
        BY <1>3 DEF Once
    <2> QED
        BY <2>1, <2>2
<1>5. ASSUME NEW j \in 1..Len(l), l[j] # l[p]
      PROVE  \E k \in 1..Len(m) : m[k] = l[j]
    <2>1. j # p
        BY <1>5
    <2>2. CASE j < p
        <3>1. j \in 1..(Len(l) - 1)
            BY <1>2, <2>2
        <3>2. m[j] = l[j]
            BY <1>2, <2>2, <3>1
        <3> QED
            BY <1>2, <3>1, <3>2
    <2>3. CASE j > p
        <3>1. PICK k : k = j - 1
            OBVIOUS
        <3>2. k \in 1..(Len(l) - 1) /\ ~ (k < p) /\ k + 1 = j
            BY <1>2, <2>3, <3>1
        <3>3. m[k] = l[j]
            BY <1>2, <3>2
        <3> QED
            BY <1>2, <3>2, <3>3
    <2> QED
        BY <2>1, <2>2, <2>3
<1>6. Once(m)
    BY <1>4 DEF Once
<1>7. \A x : (\E k \in 1..Len(m) : m[k] = x)
                        <=> (x # l[p] /\ \E k \in 1..Len(l) : l[k] = x)
    BY <1>4, <1>5
<1> QED
    BY <1>1, <1>6, <1>7

\* The blocks behind the p-th move up.
LEMMA NthSkip ==
    ASSUME NEW U, NEW l \in Seq(U), NEW p \in 1..Len(l), NEW k \in Nat
    PROVE  Nth(Skip(l, p), k) = IF k < p THEN Nth(l, k) ELSE Nth(l, k + 1)
<1>1. PICK m : m = Skip(l, p)
    OBVIOUS
<1>2. /\ Len(m) = Len(l) - 1 /\ Len(l) \in Nat
      /\ \A x \in 1..(Len(l) - 1) : m[x] = IF x < p THEN l[x] ELSE l[x + 1]
    <2>1. Len(l) \in Nat
        OBVIOUS
    <2> QED
        BY <1>1, <2>1, SkipIs, Zenon
<1>3. CASE k \in 1..(Len(l) - 1)
    <2>1. k \in 1..Len(l) /\ k + 1 \in 1..Len(l)
        BY <1>2, <1>3
    <2>2. Nth(m, k) = m[k] /\ Nth(l, k) = l[k] /\ Nth(l, k + 1) = l[k + 1]
        BY <1>2, <1>3, <2>1 DEF Nth
    <2> QED
        BY <1>1, <1>2, <1>3, <2>2
<1>4. CASE k \notin 1..(Len(l) - 1)
    <2>1. Nth(m, k) = 0
        BY <1>2, <1>4 DEF Nth
    <2>2. k < p => k \notin 1..Len(l)
        BY <1>2, <1>4
    <2>3. ~ (k < p) => k + 1 \notin 1..Len(l)
        BY <1>2, <1>4
    <2> QED
        BY <1>1, <2>1, <2>2, <2>3 DEF Nth
<1> QED
    BY <1>3, <1>4

\* The words and the head of the list.
Heaps == [a : Arrays, avail : Nat]

\* u is h without a block whose neighbours in the list were succ and prev.
Unlinked(h, u, succ, prev) ==
    /\ u \in Heaps
    /\ u.avail = IF prev = 0 THEN succ ELSE h.avail
    /\ \A w \in Index : u.a[w] = IF succ # 0 /\ w = succ + 2 THEN prev
                                 ELSE IF prev # 0 /\ w = prev + 1 THEN succ
                                 ELSE h.a[w]

\* What remove() writes.
LEMMA UnlinkWrites ==
    ASSUME NEW h \in Heaps, NEW i, NEW succ \in Nat, NEW prev \in Nat,
           succ = h.a[i + 1], prev = h.a[i + 2],
           succ # 0 => succ + 2 \in Index, prev # 0 => prev + 1 \in Index
    PROVE  Unlinked(h, Unlink(h, i), succ, prev)
<1>1. h.a \in Arrays /\ h.avail \in Nat
    BY DEF Heaps
<1>2. PICK back : back = IF prev = 0 THEN h.a ELSE [h.a EXCEPT ![prev + 1] = succ]
    OBVIOUS
<1>3. /\ back \in Arrays
      /\ \A w \in Index : back[w] = IF prev # 0 /\ w = prev + 1 THEN succ ELSE h.a[w]
    BY <1>1, <1>2 DEF Arrays
<1>4. PICK b : b = IF succ = 0 THEN back ELSE [back EXCEPT ![succ + 2] = prev]
    OBVIOUS
<1>5. /\ b \in Arrays
      /\ \A w \in Index : b[w] = IF succ # 0 /\ w = succ + 2 THEN prev ELSE back[w]
    BY <1>3, <1>4 DEF Arrays
<1>6. Unlink(h, i) = [avail |-> IF prev = 0 THEN succ ELSE h.avail, a |-> b]
    BY <1>2, <1>4 DEF Unlink
<1>7. /\ Unlink(h, i).a = b
      /\ Unlink(h, i).avail = IF prev = 0 THEN succ ELSE h.avail
    BY <1>6
<1>8. (IF prev = 0 THEN succ ELSE h.avail) \in Nat
    BY <1>1
<1>9. Unlink(h, i) \in Heaps
    BY <1>5, <1>6, <1>8 DEF Heaps
<1> QED
    BY <1>3, <1>5, <1>7, <1>9 DEF Unlinked

\* The blocks of a list have places for their links.
LEMMA NthBounds ==
    ASSUME NEW l, Spread(l), NEW k \in Int
    PROVE  /\ Nth(l, k) \in Nat
           /\ Nth(l, k) # 0 => Nth(l, k) + 2 \in Index /\ Nth(l, k) + 1 \in Index
           /\ k \in 1..Len(l) <=> Nth(l, k) # 0
           /\ k \in 1..Len(l) => Nth(l, k) = l[k]
<1>1. len \in Nat
    BY HeapAssumption
<1>2. CASE k \in 1..Len(l)
    <2>1. l[k] \in Nat /\ l[k] >= 1 /\ l[k] + 3 \in Index
        BY <1>2 DEF Spread
    <2> QED
        BY <1>1, <1>2, <2>1 DEF Nth, Index
<1>3. CASE k \notin 1..Len(l)
    BY <1>3 DEF Nth
<1> QED
    BY <1>2, <1>3

\* remove() of the p-th block leaves the links of the list without it, and
\* no other words than links of others change.
LEMMA UnlinkChain ==
    ASSUME NEW h \in Heaps, NEW l, Spread(l), Links(h.a, h.avail, l),
           NEW p \in 1..Len(l)
    PROVE  LET u == Unlink(h, l[p]) IN
           /\ u \in Heaps /\ Links(u.a, u.avail, Skip(l, p))
           /\ \A w \in Index :
                (\A k \in 1..Len(l) : k # p => w # l[k] + 1 /\ w # l[k] + 2)
                    => u.a[w] = h.a[w]
<1>1. PICK succ, prev, u, m :
            /\ succ = Nth(l, p + 1) /\ prev = Nth(l, p - 1)
            /\ u = Unlink(h, l[p]) /\ m = Skip(l, p)
    OBVIOUS
<1>2. l \in Seq(Nat) /\ Len(l) \in Nat /\ p \in Nat /\ p >= 1 /\ p <= Len(l)
    BY DEF Spread
<1>3. succ \in Nat /\ prev \in Nat
    BY <1>1, <1>2, NthBounds
<1>4. PICK x \in Int, y \in Int : x = p + 1 /\ y = p - 1
    BY <1>2
<1>5. /\ Nth(l, x) # 0 => Nth(l, x) + 2 \in Index
      /\ x \in 1..Len(l) <=> Nth(l, x) # 0
      /\ x \in 1..Len(l) => Nth(l, x) = l[x]
    BY NthBounds
<1>6. /\ Nth(l, y) # 0 => Nth(l, y) + 1 \in Index
      /\ y \in 1..Len(l) <=> Nth(l, y) # 0
      /\ y \in 1..Len(l) => Nth(l, y) = l[y]
    BY NthBounds
<1>7. /\ succ # 0 => succ + 2 \in Index
      /\ prev # 0 => prev + 1 \in Index
    BY <1>1, <1>4, <1>5, <1>6
<1>8. succ = h.a[l[p] + 1] /\ prev = h.a[l[p] + 2]
    BY <1>1 DEF Links
<1>9. /\ u \in Heaps /\ u.avail = IF prev = 0 THEN succ ELSE h.avail
      /\ \A w \in Index :
            u.a[w] = IF succ # 0 /\ w = succ + 2 THEN prev
                     ELSE IF prev # 0 /\ w = prev + 1 THEN succ
                     ELSE h.a[w]
    <2>1. PICK it : it = l[p]
        OBVIOUS
    <2>2. succ = h.a[it + 1] /\ prev = h.a[it + 2]
        BY <1>8, <2>1
    <2>3. Unlinked(h, Unlink(h, it), succ, prev)
        BY <1>3, <1>7, <2>2, UnlinkWrites
    <2>4. Unlinked(h, u, succ, prev)
        BY <1>1, <2>1, <2>3
    <2> QED
        BY <2>4, Zenon DEF Unlinked
<1>10. /\ prev # 0 <=> p # 1
       /\ prev # 0 => p - 1 \in 1..Len(l) /\ prev = l[p - 1]
       /\ succ # 0 <=> p # Len(l)
       /\ succ # 0 => p + 1 \in 1..Len(l) /\ succ = l[p + 1]
    <2>1. p - 1 \in 1..Len(l) <=> p # 1
        BY <1>2
    <2>2. p + 1 \in 1..Len(l) <=> p # Len(l)
        BY <1>2
    <2> QED
        BY <1>1, <1>4, <1>5, <1>6, <2>1, <2>2
<1>11. /\ Len(m) = Len(l) - 1
       /\ \A k \in 1..(Len(l) - 1) : m[k] = IF k < p THEN l[k] ELSE l[k + 1]
    BY <1>1, <1>2, SkipIs, Zenon
<1>12. \A k \in Nat : Nth(m, k) = IF k < p THEN Nth(l, k) ELSE Nth(l, k + 1)
    BY <1>1, <1>2, NthSkip
<1>13. u.avail = Nth(m, 1)
    <2>1. h.avail = Nth(l, 1)
        BY DEF Links
    <2>2. CASE p = 1
        <3>1. Nth(m, 1) = Nth(l, 1 + 1)
            BY <1>12, <2>2
        <3> QED
            BY <1>1, <1>9, <1>10, <2>2, <3>1
    <2>3. CASE p # 1
        <3>1. Nth(m, 1) = Nth(l, 1)
            BY <1>2, <1>12, <2>3
        <3> QED
            BY <1>9, <1>10, <2>1, <2>3, <3>1
    <2> QED
        BY <2>2, <2>3
<1>14. ASSUME NEW j \in 1..Len(l), j # p
       PROVE  /\ u.a[l[j] + 1] = IF j = p - 1 THEN succ ELSE Nth(l, j + 1)
              /\ u.a[l[j] + 2] = IF j = p + 1 THEN prev ELSE Nth(l, j - 1)
    <2>1. /\ l[j] \in Nat /\ l[j] + 1 \in Index /\ l[j] + 2 \in Index
          /\ h.a[l[j] + 1] = Nth(l, j + 1) /\ h.a[l[j] + 2] = Nth(l, j - 1)
        <3>1. l[j] \in Nat /\ l[j] + 3 \in Index
            BY DEF Spread
        <3>2. l[j] + 1 \in Index /\ l[j] + 2 \in Index
            BY <3>1, HeapAssumption DEF Index
        <3> QED
            BY <3>1, <3>2 DEF Links
    <2>2. succ # 0 => /\ succ \in Nat
                      /\ j = p + 1 => succ = l[j]
                      /\ j # p + 1 => succ + 4 <= l[j] \/ l[j] + 4 <= succ
        BY <1>3, <1>10 DEF Spread
    <2>3. prev # 0 => /\ prev \in Nat
                      /\ j = p - 1 => prev = l[j]
                      /\ j # p - 1 => prev + 4 <= l[j] \/ l[j] + 4 <= prev
        BY <1>3, <1>10 DEF Spread
    <2>4. j = p - 1 => prev # 0
        BY <1>2, <1>10
    <2>5. j = p + 1 => succ # 0
        BY <1>2, <1>10
    <2>6. u.a[l[j] + 1] = IF prev # 0 /\ l[j] + 1 = prev + 1 THEN succ ELSE h.a[l[j] + 1]
        <3>1. ~ (succ # 0 /\ l[j] + 1 = succ + 2)
            <4>1. PICK it \in Nat : it = l[j]
                BY <2>1
            <4>2. succ # 0 => succ = it \/ succ + 4 <= it \/ it + 4 <= succ
                BY <2>2, <4>1
            <4>3. ~ (succ # 0 /\ it + 1 = succ + 2)
                BY <1>3, <4>2
            <4> QED
                BY <4>1, <4>3
        <3> QED
            BY <1>9, <2>1, <3>1
    <2>7. u.a[l[j] + 2] = IF succ # 0 /\ l[j] + 2 = succ + 2 THEN prev ELSE h.a[l[j] + 2]
        <3>1. ~ (prev # 0 /\ l[j] + 2 = prev + 1)
            <4>1. PICK it \in Nat : it = l[j]
                BY <2>1
            <4>2. prev # 0 => prev = it \/ prev + 4 <= it \/ it + 4 <= prev
                BY <2>3, <4>1
            <4>3. ~ (prev # 0 /\ it + 2 = prev + 1)
                BY <1>3, <4>2
            <4> QED
                BY <4>1, <4>3
        <3> QED
            BY <1>9, <2>1, <3>1
    <2>8. prev # 0 => (l[j] + 1 = prev + 1 <=> j = p - 1)
        BY <2>1, <2>3
    <2>9. succ # 0 => (l[j] + 2 = succ + 2 <=> j = p + 1)
        BY <2>1, <2>2
    <2> QED
        BY <2>1, <2>4, <2>5, <2>6, <2>7, <2>8, <2>9
<1>15. ASSUME NEW k \in 1..Len(m)
       PROVE  u.a[m[k] + 1] = Nth(m, k + 1) /\ u.a[m[k] + 2] = Nth(m, k - 1)
    <2>1. /\ k \in Nat /\ k + 1 \in Nat /\ k - 1 \in Nat /\ (k - 1) + 1 = k
          /\ k \in 1..(Len(l) - 1)
        BY <1>2, <1>11
    <2>2. CASE k < p
        <3>1. m[k] = l[k] /\ k \in 1..Len(l) /\ k # p /\ k # p + 1 /\ k - 1 < p
            <4>1. k # p /\ k # p + 1 /\ k - 1 < p
                BY <1>2, <2>1, <2>2
            <4>2. m[k] = l[k]
                BY <1>11, <2>1, <2>2
            <4>3. k \in 1..Len(l)
                BY <1>2, <2>1
            <4> QED
                BY <4>1, <4>2, <4>3
        <3>2. /\ u.a[m[k] + 1] = IF k = p - 1 THEN succ ELSE Nth(l, k + 1)
              /\ u.a[m[k] + 2] = Nth(l, k - 1)
            BY <1>14, <3>1
        <3>3. Nth(m, k - 1) = Nth(l, k - 1)
            BY <1>12, <2>1, <3>1
        <3>4. CASE k = p - 1
            <4>1. ~ (k + 1 < p) /\ (k + 1) + 1 = p + 1
                BY <1>2, <3>4
            <4>2. Nth(m, k + 1) = Nth(l, (k + 1) + 1)
                BY <1>12, <2>1, <4>1
            <4> QED
                BY <1>1, <3>2, <3>3, <3>4, <4>1, <4>2
        <3>5. CASE k # p - 1
            <4>1. k + 1 < p
                BY <1>2, <2>1, <2>2, <3>5
            <4>2. Nth(m, k + 1) = Nth(l, k + 1)
                BY <1>12, <2>1, <4>1
            <4> QED
                BY <3>2, <3>3, <3>5, <4>2
        <3> QED
            BY <3>4, <3>5
    <2>3. CASE ~ (k < p)
        <3>1. PICK j : j = k + 1
            OBVIOUS
        <3>2. /\ j \in 1..Len(l) /\ m[k] = l[j] /\ j # p /\ j # p - 1 /\ j - 1 = k
              /\ ~ (k + 1 < p) /\ j \in Nat /\ j = k + 1
            <4>1. m[k] = l[k + 1]
                BY <1>11, <2>1, <2>3
            <4>2. j \in 1..Len(l) /\ j # p /\ j # p - 1 /\ j - 1 = k /\ ~ (k + 1 < p)
                BY <1>2, <2>1, <2>3, <3>1
            <4> QED
                BY <2>1, <3>1, <4>1, <4>2
        <3>3. /\ u.a[m[k] + 1] = Nth(l, j + 1)
              /\ u.a[m[k] + 2] = IF j = p + 1 THEN prev ELSE Nth(l, j - 1)
            BY <1>14, <3>2
        <3>4. Nth(m, k + 1) = Nth(l, j + 1)
            BY <1>12, <2>1, <3>2
        <3>5. CASE j = p + 1
            <4>1. k - 1 < p /\ k - 1 = p - 1
                BY <1>2, <3>2, <3>5
            <4>2. Nth(m, k - 1) = Nth(l, p - 1)
                BY <1>12, <2>1, <4>1
            <4> QED
                BY <1>1, <3>3, <3>4, <3>5, <4>2
        <3>6. CASE j # p + 1
            <4>1. ~ (k - 1 < p)
                BY <1>2, <2>1, <2>3, <3>2, <3>6
            <4>2. Nth(m, k - 1) = Nth(l, k)
                BY <1>12, <2>1, <4>1
            <4> QED
                BY <3>2, <3>3, <3>4, <3>6, <4>2
        <3> QED
            BY <3>5, <3>6
    <2> QED
        BY <2>2, <2>3
<1>16. Links(u.a, u.avail, m)
    BY <1>13, <1>15 DEF Links
<1>17. ASSUME NEW w \in Index, \A k \in 1..Len(l) : k # p => w # l[k] + 1 /\ w # l[k] + 2
       PROVE  u.a[w] = h.a[w]
    <2>1. succ # 0 => w # succ + 2
        <3>1. p + 1 # p
            BY <1>2
        <3> QED
            BY <1>10, <1>17, <3>1
    <2>2. prev # 0 => w # prev + 1
        <3>1. p - 1 # p
            BY <1>2
        <3> QED
            BY <1>10, <1>17, <3>1
    <2> QED
        BY <1>9, <2>1, <2>2
<1> QED
    BY <1>1, <1>9, <1>16, <1>17

\* A list with a block in front.
Push(i, l) == [k \in 1..(Len(l) + 1) |-> IF k = 1 THEN i ELSE l[k - 1]]

\* It is a list, one longer.
LEMMA PushIs ==
    ASSUME NEW U, NEW l \in Seq(U), NEW i \in U
    PROVE  /\ Push(i, l) \in Seq(U) /\ Len(Push(i, l)) = Len(l) + 1
           /\ \A k \in 1..(Len(l) + 1) : Push(i, l)[k] = IF k = 1 THEN i ELSE l[k - 1]
<1>1. Len(l) \in Nat /\ Len(l) + 1 \in Nat
    OBVIOUS
<1>2. \A k \in 1..(Len(l) + 1) : k # 1 => k - 1 \in 1..Len(l)
    BY <1>1
<1>3. Push(i, l) \in [1..(Len(l) + 1) -> U]
    BY <1>2 DEF Push
<1>4. Push(i, l) \in Seq(U) /\ Len(Push(i, l)) = Len(l) + 1
    BY <1>1, <1>3
<1> QED
    BY <1>4 DEF Push

\* Its blocks are the others and the new one.
LEMMA PushMembers ==
    ASSUME NEW U, NEW l \in Seq(U), NEW i \in U, Once(l), \A k \in 1..Len(l) : l[k] # i
    PROVE  /\ Once(Push(i, l))
           /\ \A x : (\E k \in 1..Len(Push(i, l)) : Push(i, l)[k] = x)
                        <=> (x = i \/ \E k \in 1..Len(l) : l[k] = x)
<1>1. PICK m : m = Push(i, l)
    OBVIOUS
<1>2. /\ Len(m) = Len(l) + 1 /\ Len(l) \in Nat
      /\ \A k \in 1..(Len(l) + 1) : m[k] = IF k = 1 THEN i ELSE l[k - 1]
    <2>1. Len(l) \in Nat
        OBVIOUS
    <2>2. Len(Push(i, l)) = Len(l) + 1
        BY PushIs
    <2> QED
        BY <1>1, <2>1, <2>2 DEF Push
<1>3. ASSUME NEW x \in 1..Len(m), NEW y \in 1..Len(m), m[x] = m[y]
      PROVE  x = y
    <2>1. CASE x = 1 \/ y = 1
        BY <1>2, <1>3, <2>1
    <2>2. CASE x # 1 /\ y # 1
        <3>1. PICK v \in 1..Len(l), w \in 1..Len(l) : v = x - 1 /\ w = y - 1
            BY <1>2, <2>2
        <3>2. m[x] = l[v] /\ m[y] = l[w]
            BY <1>2, <2>2, <3>1
        <3>3. v = w
            BY <1>3, <3>2 DEF Once
        <3> QED
            BY <1>2, <3>1, <3>3
    <2> QED
        BY <2>1, <2>2
<1>4. ASSUME NEW k \in 1..Len(m)
      PROVE  m[k] = i \/ \E j \in 1..Len(l) : l[j] = m[k]
    <2>1. CASE k = 1
        BY <1>2, <2>1
    <2>2. CASE k # 1
        <3>1. k - 1 \in 1..Len(l) /\ m[k] = l[k - 1]
            BY <1>2, <2>2
        <3> QED
            BY <3>1
    <2> QED
        BY <2>1, <2>2
<1>5. 1 \in 1..Len(m) /\ m[1] = i
    BY <1>2
<1>6. ASSUME NEW j \in 1..Len(l)
      PROVE  \E k \in 1..Len(m) : m[k] = l[j]
    <2>1. j + 1 \in 1..Len(m) /\ j + 1 # 1 /\ (j + 1) - 1 = j
        BY <1>2
    <2>2. m[j + 1] = l[(j + 1) - 1]
        BY <1>2, <2>1
    <2> QED
        BY <2>1, <2>2
<1>7. Once(m)
    BY <1>3 DEF Once
<1>8. ASSUME NEW x
      PROVE  (\E k \in 1..Len(m) : m[k] = x) <=> (x = i \/ \E k \in 1..Len(l) : l[k] = x)
    <2>1. (\E k \in 1..Len(m) : m[k] = x) => (x = i \/ \E k \in 1..Len(l) : l[k] = x)
        BY <1>4, Zenon
    <2>2. x = i => \E k \in 1..Len(m) : m[k] = x
        BY <1>5, Zenon
    <2>3. (\E k \in 1..Len(l) : l[k] = x) => \E k \in 1..Len(m) : m[k] = x
        BY <1>6, Zenon
    <2> QED
        BY <2>1, <2>2, <2>3
<1> QED
    BY <1>1, <1>7, <1>8

\* The others move down.
LEMMA NthPush ==
    ASSUME NEW U, NEW l \in Seq(U), NEW i \in U, NEW k \in Nat
    PROVE  Nth(Push(i, l), k) = IF k = 0 THEN 0 ELSE IF k = 1 THEN i ELSE Nth(l, k - 1)
<1>1. PICK m : m = Push(i, l)
    OBVIOUS
<1>2. /\ Len(m) = Len(l) + 1 /\ Len(l) \in Nat
      /\ \A x \in 1..(Len(l) + 1) : m[x] = IF x = 1 THEN i ELSE l[x - 1]
    <2>1. Len(l) \in Nat
        OBVIOUS
    <2>2. Len(Push(i, l)) = Len(l) + 1
        BY PushIs
    <2> QED
        BY <1>1, <2>1, <2>2 DEF Push
<1>3. CASE k \in 1..(Len(l) + 1)
    <2>1. k # 0 /\ (k # 1 => k - 1 \in 1..Len(l))
        BY <1>2, <1>3
    <2>2. Nth(m, k) = m[k] /\ (k # 1 => Nth(l, k - 1) = l[k - 1])
        BY <1>2, <1>3, <2>1 DEF Nth
    <2> QED
        BY <1>1, <1>2, <1>3, <2>1, <2>2
<1>4. CASE k \notin 1..(Len(l) + 1)
    <2>1. Nth(m, k) = 0
        BY <1>2, <1>4 DEF Nth
    <2>2. k # 0 => k # 1 /\ k - 1 \notin 1..Len(l)
        BY <1>2, <1>4
    <2> QED
        BY <1>1, <2>1, <2>2 DEF Nth
<1> QED
    BY <1>3, <1>4

\* What makeAvail() writes.
LEMMA MakeAvailWrites ==
    ASSUME NEW h \in Heaps, NEW i \in Nat, NEW sz \in Nat, sz >= 4,
           i + sz - 1 \in Index, h.avail # 0 => h.avail + 2 \in Index,
           h.avail # 0 => h.avail + 2 < i \/ h.avail + 2 >= i + sz
    PROVE  LET v == MakeAvail(h, i, sz) IN
           /\ v \in Heaps /\ v.avail = i
           /\ v.a[i] = sz /\ v.a[i + sz - 1] = sz
           /\ v.a[i + 1] = h.avail /\ v.a[i + 2] = 0
           /\ h.avail # 0 => v.a[h.avail + 2] = i
           /\ \A w \in Index :
                /\ w # i /\ w # i + sz - 1 /\ w # i + 1 /\ w # i + 2
                /\ h.avail # 0 => w # h.avail + 2
                => v.a[w] = h.a[w]
<1>1. h.a \in Arrays /\ h.avail \in Nat
    BY DEF Heaps
<1>2. /\ i \in Index /\ i + 1 \in Index /\ i + 2 \in Index /\ i + sz - 1 \in Index
      /\ i # i + 1 /\ i # i + 2 /\ i + 1 # i + 2 /\ i # i + sz - 1
      /\ i + 1 # i + sz - 1 /\ i + 2 # i + sz - 1
    BY HeapAssumption DEF Index
<1>3. PICK f, x, y : f = i + sz - 1 /\ x = i + 1 /\ y = i + 2
    OBVIOUS
<1>4. /\ f \in Index /\ x \in Index /\ y \in Index /\ i \in Index
      /\ i # x /\ i # y /\ x # y /\ i # f /\ x # f /\ y # f
    BY <1>2, <1>3
<1>5. PICK t : t = [h.a EXCEPT ![i] = sz, ![f] = sz, ![x] = h.avail, ![y] = 0]
    OBVIOUS
<1>6. /\ t \in Arrays /\ t[i] = sz /\ t[f] = sz /\ t[x] = h.avail /\ t[y] = 0
      /\ \A w \in Index : w # i /\ w # f /\ w # x /\ w # y => t[w] = h.a[w]
    BY <1>1, <1>4, <1>5 DEF Arrays
<1>7. PICK b : b = IF h.avail = 0 THEN t ELSE [t EXCEPT ![h.avail + 2] = i]
    OBVIOUS
<1>8. h.avail # 0 => /\ h.avail + 2 \in Index /\ h.avail + 2 # i /\ h.avail + 2 # f
                     /\ h.avail + 2 # x /\ h.avail + 2 # y
    BY <1>1, <1>3, HeapAssumption DEF Index
<1>9. /\ b \in Arrays /\ b[i] = sz /\ b[f] = sz /\ b[x] = h.avail /\ b[y] = 0
      /\ h.avail # 0 => b[h.avail + 2] = i
      /\ \A w \in Index : /\ w # i /\ w # f /\ w # x /\ w # y
                          /\ h.avail # 0 => w # h.avail + 2
                          => b[w] = h.a[w]
    <2>1. CASE h.avail = 0
        BY <1>6, <1>7, <2>1
    <2>2. CASE h.avail # 0
        <3>1. b = [t EXCEPT ![h.avail + 2] = i]
            BY <1>7, <2>2
        <3>2. b \in Arrays /\ b[h.avail + 2] = i
            BY <1>6, <1>8, <2>2, <3>1 DEF Arrays
        <3>3. \A w \in Index : w # h.avail + 2 => b[w] = t[w]
            BY <1>6, <3>1 DEF Arrays
        <3> QED
            BY <1>4, <1>6, <1>8, <2>2, <3>2, <3>3
    <2> QED
        BY <2>1, <2>2
<1>10. MakeAvail(h, i, sz) = [avail |-> i, a |-> b]
    BY <1>3, <1>5, <1>7 DEF MakeAvail
<1>11. MakeAvail(h, i, sz).a = b /\ MakeAvail(h, i, sz).avail = i
    BY <1>10
<1>12. MakeAvail(h, i, sz) \in Heaps
    BY <1>9, <1>10 DEF Heaps
<1> QED
    BY <1>3, <1>9, <1>11, <1>12

\* There is room for an available block of sz words at i, next to those of l.
Room(h, l, i, sz) ==
    /\ h \in Heaps /\ Spread(l) /\ Links(h.a, h.avail, l)
    /\ i \in Nat /\ i >= 1 /\ sz \in Nat /\ sz >= 4 /\ i + sz - 1 \in Index
    /\ \A k \in 1..Len(l) : l[k] + 4 <= i \/ i + sz <= l[k]

\* v is h with that block in front of the list.
Pushed(h, v, l, i, sz) ==
    /\ v \in Heaps /\ Links(v.a, v.avail, Push(i, l))
    /\ v.avail = i /\ v.a[i] = sz /\ v.a[i + sz - 1] = sz
    /\ \A w \in Index :
        /\ w < i \/ w >= i + sz
        /\ \A k \in 1..Len(l) : w # l[k] + 1 /\ w # l[k] + 2
        => v.a[w] = h.a[w]

\* makeAvail() puts its block in front of the list.
LEMMA PushChain ==
    ASSUME NEW h, NEW l, NEW i, NEW sz, Room(h, l, i, sz)
    PROVE  Pushed(h, MakeAvail(h, i, sz), l, i, sz)
<1> /\ h \in Heaps /\ Spread(l) /\ Links(h.a, h.avail, l)
    /\ i \in Nat /\ i >= 1 /\ sz \in Nat /\ sz >= 4 /\ i + sz - 1 \in Index
    /\ \A k \in 1..Len(l) : l[k] + 4 <= i \/ i + sz <= l[k]
    BY DEF Room
<1>1. PICK v, m : v = MakeAvail(h, i, sz) /\ m = Push(i, l)
    OBVIOUS
<1>2. l \in Seq(Nat) /\ Len(l) \in Nat
    BY DEF Spread
<1>3. h.avail = Nth(l, 1) /\ h.a \in Arrays /\ h.avail \in Nat
    BY DEF Links, Heaps
<1>4. h.avail # 0 => /\ h.avail + 2 \in Index /\ 1 \in 1..Len(l) /\ h.avail = l[1]
                     /\ h.avail + 2 < i \/ h.avail + 2 >= i + sz
    <2>1. /\ Nth(l, 1) # 0 => Nth(l, 1) + 2 \in Index
          /\ 1 \in 1..Len(l) <=> Nth(l, 1) # 0
          /\ 1 \in 1..Len(l) => Nth(l, 1) = l[1]
        <3>1. PICK one \in Int : one = 1
            OBVIOUS
        <3>2. /\ Nth(l, one) # 0 => Nth(l, one) + 2 \in Index
              /\ one \in 1..Len(l) <=> Nth(l, one) # 0
              /\ one \in 1..Len(l) => Nth(l, one) = l[one]
            BY NthBounds
        <3> QED
            BY <3>1, <3>2
    <2>2. h.avail # 0 => l[1] + 4 <= i \/ i + sz <= l[1]
        BY <1>3, <2>1
    <2> QED
        BY <1>3, <2>1, <2>2
<1>5. /\ v \in Heaps /\ v.avail = i
      /\ v.a[i] = sz /\ v.a[i + sz - 1] = sz
      /\ v.a[i + 1] = h.avail /\ v.a[i + 2] = 0
      /\ h.avail # 0 => v.a[h.avail + 2] = i
      /\ \A w \in Index :
            /\ w # i /\ w # i + sz - 1 /\ w # i + 1 /\ w # i + 2
            /\ h.avail # 0 => w # h.avail + 2
            => v.a[w] = h.a[w]
    <2>1. /\ h.avail # 0 => h.avail + 2 \in Index
          /\ h.avail # 0 => h.avail + 2 < i \/ h.avail + 2 >= i + sz
        BY <1>4
    <2> QED
        BY <1>1, <2>1, MakeAvailWrites
<1>6. ASSUME NEW w \in Index, w < i \/ w >= i + sz,
             \A k \in 1..Len(l) : w # l[k] + 1 /\ w # l[k] + 2
      PROVE  v.a[w] = h.a[w]
    <2>1. w # i /\ w # i + sz - 1 /\ w # i + 1 /\ w # i + 2
        BY <1>6, HeapAssumption DEF Index
    <2>2. h.avail # 0 => w # h.avail + 2
        BY <1>4, <1>6
    <2> QED
        BY <1>5, <2>1, <2>2
<1>7. /\ Len(m) = Len(l) + 1
      /\ \A k \in 1..(Len(l) + 1) : m[k] = IF k = 1 THEN i ELSE l[k - 1]
    <2>1. Len(Push(i, l)) = Len(l) + 1
        BY <1>2, PushIs
    <2> QED
        BY <1>1, <2>1 DEF Push
<1>8. \A k \in Nat : Nth(m, k) = IF k = 0 THEN 0 ELSE IF k = 1 THEN i ELSE Nth(l, k - 1)
    <2>1. ASSUME NEW k \in Nat
          PROVE  Nth(Push(i, l), k)
                    = IF k = 0 THEN 0 ELSE IF k = 1 THEN i ELSE Nth(l, k - 1)
        BY <1>2, NthPush
    <2> QED
        BY <1>1, <2>1
<1>9. ASSUME NEW j \in 1..Len(l)
      PROVE  /\ v.a[l[j] + 1] = Nth(l, j + 1)
             /\ v.a[l[j] + 2] = IF j = 1 THEN i ELSE Nth(l, j - 1)
    <2>1. /\ h.a[l[j] + 1] = Nth(l, j + 1) /\ h.a[l[j] + 2] = Nth(l, j - 1)
        BY DEF Links
    <2>2. l[j] \in Nat /\ l[j] + 3 \in Index /\ l[j] >= 1
        BY DEF Spread
    <2>3. l[j] + 1 \in Index /\ l[j] + 2 \in Index
        BY <2>2, HeapAssumption DEF Index
    <2>4. /\ l[j] + 1 # i /\ l[j] + 1 # i + sz - 1 /\ l[j] + 1 # i + 1 /\ l[j] + 1 # i + 2
          /\ l[j] + 2 # i /\ l[j] + 2 # i + sz - 1 /\ l[j] + 2 # i + 1 /\ l[j] + 2 # i + 2
        <3>1. PICK x \in Nat : x = l[j]
            BY <2>2
        <3>2. x + 4 <= i \/ i + sz <= x
            BY <3>1
        <3>3. /\ x + 1 # i /\ x + 1 # i + sz - 1 /\ x + 1 # i + 1 /\ x + 1 # i + 2
              /\ x + 2 # i /\ x + 2 # i + sz - 1 /\ x + 2 # i + 1 /\ x + 2 # i + 2
            BY <3>2
        <3> QED
            BY <3>1, <3>3
    <2>5. CASE j = 1
        <3>1. h.avail # 0 /\ h.avail = l[1]
            BY <1>3, <2>2, <2>5 DEF Nth
        <3>2. l[j] + 1 # h.avail + 2
            BY <2>2, <2>5, <3>1
        <3>3. v.a[l[j] + 1] = h.a[l[j] + 1]
            BY <1>5, <2>3, <2>4, <3>2
        <3> QED
            BY <1>5, <2>1, <2>5, <3>1, <3>3
    <2>6. CASE j # 1
        <3>1. h.avail # 0 => l[1] \in Nat /\ (l[1] + 4 <= l[j] \/ l[j] + 4 <= l[1])
            <4>1. \A q \in 1..Len(l) : q # j => l[q] + 4 <= l[j] \/ l[j] + 4 <= l[q]
                BY Zenon DEF Spread
            <4>2. h.avail # 0 => 1 \in 1..Len(l) /\ l[1] \in Nat
                BY <1>3, <1>4
            <4> QED
                BY <2>6, <4>1, <4>2
        <3>2. h.avail # 0 => l[j] + 1 # h.avail + 2 /\ l[j] + 2 # h.avail + 2
            <4>1. PICK x \in Nat, y \in Nat : x = h.avail /\ y = l[j]
                BY <1>3, <2>2
            <4>2. x # 0 => x + 4 <= y \/ y + 4 <= x
                BY <1>4, <3>1, <4>1
            <4>3. x # 0 => y + 1 # x + 2 /\ y + 2 # x + 2
                BY <4>2
            <4> QED
                BY <4>1, <4>3
        <3>3. v.a[l[j] + 1] = h.a[l[j] + 1] /\ v.a[l[j] + 2] = h.a[l[j] + 2]
            BY <1>5, <2>3, <2>4, <3>2
        <3> QED
            BY <2>1, <2>6, <3>3
    <2> QED
        BY <2>5, <2>6
<1>10. ASSUME NEW k \in 1..Len(m)
       PROVE  v.a[m[k] + 1] = Nth(m, k + 1) /\ v.a[m[k] + 2] = Nth(m, k - 1)
    <2>1. k \in Nat /\ k + 1 \in Nat /\ k - 1 \in Nat /\ k \in 1..(Len(l) + 1)
        BY <1>2, <1>7
    <2>2. CASE k = 1
        <3>1. Nth(m, k + 1) = Nth(l, 1) /\ Nth(m, k - 1) = 0
            BY <1>8, <2>1, <2>2
        <3> QED
            BY <1>3, <1>5, <1>7, <2>1, <2>2, <3>1
    <2>3. CASE k # 1
        <3>1. PICK j \in 1..Len(l) : j = k - 1
            BY <1>2, <2>1, <2>3
        <3>2. m[k] = l[j]
            BY <1>7, <2>1, <2>3, <3>1
        <3>3. /\ v.a[l[j] + 1] = Nth(l, j + 1)
              /\ v.a[l[j] + 2] = IF j = 1 THEN i ELSE Nth(l, j - 1)
            BY <1>9
        <3>4. k + 1 # 0 /\ k + 1 # 1 /\ (k + 1) - 1 = j + 1
            BY <2>1, <3>1
        <3>5. Nth(m, k + 1) = Nth(l, j + 1)
            BY <1>8, <2>1, <3>4
        <3>6. Nth(m, k - 1) = IF j = 1 THEN i ELSE Nth(l, j - 1)
            <4>1. k - 1 # 0 /\ k - 1 = j
                BY <2>1, <2>3, <3>1
            <4> QED
                BY <1>8, <2>1, <4>1
        <3> QED
            BY <3>2, <3>3, <3>5, <3>6
    <2> QED
        BY <2>2, <2>3
<1>11. v.avail = Nth(m, 1)
    BY <1>5, <1>8
<1>12. Links(v.a, v.avail, m)
    BY <1>10, <1>11 DEF Links
<1> QED
    BY <1>1, <1>5, <1>6, <1>12 DEF Pushed

-----------------------------------------------------------------------------
(* Tags and links together *)

\* Block x is in the list.
In(l, x) == \E k \in 1..Len(l) : l[k] = x

\* Every block of the list is available.
Listed(h, S, l) ==
    /\ h \in Heaps /\ Cut(h.a, S)
    /\ l \in Seq(Free(h.a, S)) /\ Once(l)
    /\ Links(h.a, h.avail, l)

\* Block s is in b what it is in a.
Keeps(a, b, s) == \A w \in s..(Past(a, s) - 1) : b[w] = a[w]

\* The links of an available block are no words of another one, nor tags.
LEMMA LinksInside ==
    ASSUME NEW a \in Arrays, NEW S, Cut(a, S), NEW f \in Free(a, S), NEW s \in S,
           NEW w \in s..(Past(a, s) - 1), s # f \/ w = s \/ w = Past(a, s) - 1
    PROVE  w # f + 1 /\ w # f + 2
<1>1. f \in S /\ f \in Nat /\ f + 4 <= Past(a, f) /\ Past(a, f) \in Nat
    <2>1. f \in Inner(S)
        BY FreeInner
    <2>2. f \in S /\ f + 4 <= Past(a, f)
        BY <2>1, InnerBounds
    <2> QED
        BY <2>2, BlockBounds
<1>2. s \in Nat /\ Past(a, s) \in Nat /\ s <= w /\ w < Past(a, s)
    BY BlockBounds
<1>3. CASE s # f
    <2>1. Past(a, s) <= f \/ Past(a, f) <= s
        BY <1>1, <1>3, BlocksApart
    <2> QED
        BY <1>1, <1>2, <2>1
<1>4. CASE s = f
    BY <1>1, <1>2, <1>4
<1> QED
    BY <1>3, <1>4

\* The tags are in the block.
LEMMA TagsInside ==
    ASSUME NEW a \in Arrays, NEW S, Cut(a, S), NEW s \in S
    PROVE  /\ s \in s..(Past(a, s) - 1) /\ Past(a, s) - 1 \in s..(Past(a, s) - 1)
           /\ \A w \in s..(Past(a, s) - 1) : w \in Index
<1>1. s \in Nat /\ Past(a, s) \in Nat /\ s + 2 <= Past(a, s) /\ Past(a, s) <= len
    BY BlockBounds
<1> QED
    BY <1>1, HeapAssumption DEF Index

\* Where the tags are the same, so are the blocks.
LEMMA CutSame ==
    ASSUME NEW a \in Arrays, NEW S, Cut(a, S), NEW b \in Arrays,
           \A s \in S : b[s] = a[s] /\ b[Past(a, s) - 1] = a[Past(a, s) - 1]
    PROVE  /\ Cut(b, S) /\ Free(b, S) = Free(a, S)
           /\ \A s \in S : Past(b, s) = Past(a, s)
<1>1. \A s \in S : Past(b, s) = Past(a, s)
    BY DEF Past
<1>2. 0 \in S /\ len - 2 \in S
    BY DEF Cut
<1>3. Cut(b, S)
    <2>1. ASSUME NEW i \in S
          PROVE  /\ b[i] # 0 /\ b[Past(b, i) - 1] = b[i]
                 /\ Past(b, i) \in S \union {len}
                 /\ i # 0 /\ i # len - 2 => Abs(b[i]) >= 4
        BY <1>1 DEF Cut
    <2>2. \A i, j \in S : i < j => Past(b, i) <= j
        BY <1>1 DEF Cut
    <2>3. b[0] = -2 /\ b[len - 2] = -2 /\ S \subseteq Index
        BY <1>2 DEF Cut
    <2> QED
        BY <1>2, <2>1, <2>2, <2>3 DEF Cut
<1>4. Free(b, S) = Free(a, S)
    BY DEF Free
<1> QED
    BY <1>1, <1>3, <1>4

\* remove() of a block of the list.
LEMMA UnlinkListed ==
    ASSUME NEW h, NEW S, NEW l, Listed(h, S, l), NEW p \in 1..Len(l)
    PROVE  LET u == Unlink(h, l[p]) IN
           /\ Listed(u, S, Skip(l, p))
           /\ \A s \in S : u.a[s] = h.a[s]
           /\ \A s \in S : s \notin Free(h.a, S) \/ s = l[p] => Keeps(h.a, u.a, s)
<1>1. PICK u, m, a : u = Unlink(h, l[p]) /\ m = Skip(l, p) /\ a = h.a
    OBVIOUS
<1>2. /\ h \in Heaps /\ a \in Arrays /\ Cut(a, S) /\ l \in Seq(Free(a, S)) /\ Once(l)
      /\ Links(a, h.avail, l)
    BY <1>1 DEF Listed, Heaps
<1>3. Spread(l)
    BY <1>2, FreeSpread
<1>4. /\ u \in Heaps /\ Links(u.a, u.avail, m)
      /\ \A w \in Index :
                (\A k \in 1..Len(l) : k # p => w # l[k] + 1 /\ w # l[k] + 2)
                    => u.a[w] = a[w]
    BY <1>1, <1>2, <1>3, UnlinkChain
<1>5. \A k \in 1..Len(l) : l[k] \in Free(a, S) /\ (k # p => l[k] # l[p])
    BY <1>2 DEF Once
<1>6. ASSUME NEW s \in S, NEW w \in s..(Past(a, s) - 1),
             \/ s \notin Free(a, S) \/ s = l[p] \/ w = s \/ w = Past(a, s) - 1
      PROVE  u.a[w] = a[w]
    <2>1. w \in Index
        BY <1>2, TagsInside
    <2>2. ASSUME NEW k \in 1..Len(l), k # p
          PROVE  w # l[k] + 1 /\ w # l[k] + 2
        <3>1. PICK f : f = l[k]
            OBVIOUS
        <3>2. f \in Free(a, S) /\ f # l[p]
            BY <1>5, <2>2, <3>1
        <3>3. s # f \/ w = s \/ w = Past(a, s) - 1
            BY <1>6, <3>2
        <3>4. w # f + 1 /\ w # f + 2
            BY <1>2, <3>2, <3>3, LinksInside
        <3> QED
            BY <3>1, <3>4
    <2> QED
        BY <1>4, <2>1, <2>2
<1>7. \A s \in S : u.a[s] = a[s] /\ u.a[Past(a, s) - 1] = a[Past(a, s) - 1]
    BY <1>2, <1>6, TagsInside
<1>8. u.a \in Arrays
    BY <1>4 DEF Heaps
<1>9. Cut(u.a, S) /\ Free(u.a, S) = Free(a, S)
    BY <1>2, <1>7, <1>8, CutSame
<1>10. m \in Seq(Free(a, S))
    BY <1>1, <1>2, SkipIs
<1>11. Once(m)
    BY <1>1, <1>2, SkipMembers
<1>12. Listed(u, S, m)
    BY <1>4, <1>9, <1>10, <1>11 DEF Listed
<1>13. \A s \in S : s \notin Free(a, S) \/ s = l[p] => Keeps(a, u.a, s)
    BY <1>6 DEF Keeps
<1> QED
    BY <1>1, <1>7, <1>12, <1>13

\* What makeTaken() writes.
LEMMA MakeTakenWrites ==
    ASSUME NEW h \in Heaps, NEW i \in Nat, NEW ints \in Nat, ints >= 2,
           i + ints - 1 \in Index
    PROVE  LET v == MakeTaken(h, i, ints) IN
           /\ v \in Heaps /\ v.avail = h.avail
           /\ v.a[i] = -ints /\ v.a[i + ints - 1] = -ints
           /\ \A w \in Index : w # i /\ w # i + ints - 1 => v.a[w] = h.a[w]
<1>1. h.a \in Arrays /\ h.avail \in Nat /\ -ints \in Int
    BY DEF Heaps
<1>2. PICK f : f = i + ints - 1
    OBVIOUS
<1>3. i \in Index /\ f \in Index /\ i # f
    BY <1>2, HeapAssumption DEF Index
<1>4. PICK b : b = [h.a EXCEPT ![i] = -ints, ![f] = -ints]
    OBVIOUS
<1>5. /\ b \in Arrays /\ b[i] = -ints /\ b[f] = -ints
      /\ \A w \in Index : w # i /\ w # f => b[w] = h.a[w]
    BY <1>1, <1>3, <1>4 DEF Arrays
<1>6. MakeTaken(h, i, ints) = [h EXCEPT !.a = b]
    BY <1>2, <1>4 DEF MakeTaken
<1>7. /\ MakeTaken(h, i, ints) \in Heaps
      /\ MakeTaken(h, i, ints).a = b /\ MakeTaken(h, i, ints).avail = h.avail
    BY <1>1, <1>5, <1>6 DEF Heaps
<1> QED
    BY <1>2, <1>5, <1>7

\* Whole blocks outside a run of whole blocks.
LEMMA RunApart ==
    ASSUME NEW a \in Arrays, NEW S, Cut(a, S), NEW i \in S, NEW e \in S, i < e,
           NEW s \in S, s < i \/ s >= e, NEW w \in s..(Past(a, s) - 1)
    PROVE  w \in Index /\ (w < i \/ w >= e)
<1>1. s \in Nat /\ i \in Nat /\ e \in Nat /\ Past(a, s) \in Nat
    BY BlockBounds
<1>2. s < i => Past(a, s) <= i
    BY DEF Cut
<1>3. w \in Index
    BY TagsInside
<1> QED
    BY <1>1, <1>2, <1>3

\* A run of one block.
LEMMA RunOfOne ==
    ASSUME NEW a \in Arrays, NEW S, Cut(a, S), NEW i \in Inner(S)
    PROVE  /\ \A s \in S : s # i => s < i \/ s >= Past(a, i)
           /\ \A s \in S : s \in i..(Past(a, i) - 1) <=> s = i
<1>1. i \in S /\ i \in Nat /\ Past(a, i) \in Nat /\ i + 4 <= Past(a, i)
    BY InnerBounds, BlockBounds DEF Inner
<1>2. ASSUME NEW s \in S, s # i
      PROVE  s < i \/ s >= Past(a, i)
    <2>1. s \in Nat /\ Past(a, s) \in Nat /\ s + 2 <= Past(a, s)
        BY BlockBounds
    <2>2. Past(a, i) <= s \/ Past(a, s) <= i
        BY <1>1, <1>2, BlocksApart
    <2> QED
        BY <1>1, <2>1, <2>2
<1>3. \A s \in S : s \in Nat
    BY BlockBounds
<1> QED
    BY <1>1, <1>2, <1>3

\* A list of available blocks is one of the new blocks too, where those of the
\* list are left alone.
LEMMA StillListed ==
    ASSUME NEW a, NEW S, NEW b, NEW T, NEW l \in Seq(Free(a, S)),
           \A k \in 1..Len(l) : l[k] \in T /\ b[l[k]] = a[l[k]]
    PROVE  l \in Seq(Free(b, T))
<1>1. \A k \in 1..Len(l) : l[k] \in Free(b, T)
    <2>1. ASSUME NEW k \in 1..Len(l)
          PROVE  l[k] \in Free(b, T)
        <3>1. l[k] \in Free(a, S)
            OBVIOUS
        <3> QED
            BY <3>1 DEF Free
    <2> QED
        BY <2>1
<1> QED
    BY <1>1, SeqDef

\* makeAvail() of a run of whole blocks, none of them in the list.
LEMMA JoinListed ==
    ASSUME NEW h, NEW S, NEW l, Listed(h, S, l), NEW i \in Inner(S), NEW e \in S, i < e,
           \A k \in 1..Len(l) : l[k] < i \/ l[k] >= e
    PROVE  LET v == MakeAvail(h, i, e - i)
               T == (S \ (i..(e - 1))) \union {i}
           IN  /\ Listed(v, T, Push(i, l)) /\ v.avail = i /\ v.a[i] = e - i
               /\ \A s \in S : s < i \/ s >= e => s \in T /\ v.a[s] = h.a[s]
               /\ \A s \in S : (s < i \/ s >= e) /\ s \notin Free(h.a, S)
                                    => Keeps(h.a, v.a, s)
<1>1. PICK v, a, T, m : /\ v = MakeAvail(h, i, e - i) /\ a = h.a
                        /\ T = (S \ (i..(e - 1))) \union {i} /\ m = Push(i, l)
    OBVIOUS
<1>2. /\ h \in Heaps /\ a \in Arrays /\ Cut(a, S) /\ l \in Seq(Free(a, S)) /\ Once(l)
      /\ Links(a, h.avail, l)
    BY <1>1 DEF Listed, Heaps
<1>3. Spread(l)
    BY <1>2, FreeSpread
<1>4. /\ i \in S /\ i \in Nat /\ 2 <= i /\ i + 4 <= Past(a, i) /\ Past(a, i) \in Nat
      /\ e \in Nat /\ e \in Index
    BY <1>2, InnerBounds, BlockBounds DEF Inner
<1>5. Past(a, i) <= e
    BY <1>2, <1>4 DEF Cut
<1>6. PICK sz : sz = e - i
    OBVIOUS
<1>7. sz \in Nat /\ sz >= 4 /\ i + sz = e /\ i + sz - 1 = e - 1 /\ e - 1 \in Index
    BY <1>4, <1>5, <1>6, HeapAssumption DEF Index
<1>8. \A k \in 1..Len(l) : l[k] + 4 <= i \/ i + sz <= l[k]
    <2>1. ASSUME NEW k \in 1..Len(l)
          PROVE  l[k] + 4 <= i \/ i + sz <= l[k]
        <3>1. PICK f : f = l[k]
            OBVIOUS
        <3>2. f \in Free(a, S) /\ (f < i \/ f >= e)
            BY <1>2, <3>1
        <3>3. f \in Inner(S)
            BY <1>2, <3>2, FreeInner
        <3>4. f \in S /\ f + 4 <= Past(a, f) /\ Past(a, f) \in Nat /\ f \in Nat
            BY <1>2, <3>3, InnerBounds, BlockBounds DEF Inner
        <3>5. f < i => Past(a, f) <= i
            BY <1>2, <1>4, <3>4 DEF Cut
        <3>6. f + 4 <= i \/ i + sz <= f
            BY <1>4, <1>7, <3>2, <3>4, <3>5
        <3> QED
            BY <3>1, <3>6
    <2> QED
        BY <2>1
<1>9. /\ v \in Heaps /\ Links(v.a, v.avail, m)
      /\ v.avail = i /\ v.a[i] = sz /\ v.a[i + sz - 1] = sz
      /\ \A w \in Index :
            /\ w < i \/ w >= i + sz
            /\ \A k \in 1..Len(l) : w # l[k] + 1 /\ w # l[k] + 2
            => v.a[w] = a[w]
    <2>1. i >= 1 /\ i + sz - 1 \in Index /\ Links(h.a, h.avail, l)
        BY <1>1, <1>2, <1>4, <1>7
    <2>2. Room(h, l, i, sz)
        BY <1>2, <1>3, <1>4, <1>7, <1>8, <2>1 DEF Room
    <2>3. Pushed(h, v, l, i, sz)
        BY <1>1, <1>6, <2>2, PushChain
    <2> QED
        BY <1>1, <2>3 DEF Pushed
<1>10. ASSUME NEW s \in S, s < i \/ s >= e, NEW w \in s..(Past(a, s) - 1),
              s \notin Free(a, S) \/ w = s \/ w = Past(a, s) - 1
       PROVE  v.a[w] = a[w]
    <2>1. w \in Index /\ (w < i \/ w >= e)
        BY <1>2, <1>4, <1>10, RunApart
    <2>2. ASSUME NEW k \in 1..Len(l)
          PROVE  w # l[k] + 1 /\ w # l[k] + 2
        <3>1. PICK f : f = l[k]
            OBVIOUS
        <3>2. f \in Free(a, S)
            BY <1>2, <3>1
        <3>3. s # f \/ w = s \/ w = Past(a, s) - 1
            BY <1>10, <3>2
        <3>4. w # f + 1 /\ w # f + 2
            BY <1>2, <3>2, <3>3, LinksInside
        <3> QED
            BY <3>1, <3>4
    <2> QED
        BY <1>7, <1>9, <2>1, <2>2
<1>11. \A s \in S : s < i \/ s >= e => v.a[s] = a[s] /\ v.a[Past(a, s) - 1] = a[Past(a, s) - 1]
    BY <1>2, <1>10, TagsInside
<1>12. v.a \in Arrays
    BY <1>9 DEF Heaps
<1>13. Cut(v.a, T)
    <2>1. Abs(v.a[i]) = sz /\ Past(v.a, i) = e /\ v.a[i] # 0
        <3>1. Abs(sz) = sz /\ sz # 0
            BY <1>7, AbsIs
        <3>2. v.a[i] = sz
            BY <1>9
        <3> QED
            BY <1>7, <3>1, <3>2 DEF Past
    <2>2. PICK X : X = {i}
        OBVIOUS
    <2>3. X \subseteq i..(e - 1) /\ i \in X
        BY <1>4, <2>2
    <2>4. \A t \in X : /\ v.a[t] # 0 /\ v.a[Past(v.a, t) - 1] = v.a[t]
                       /\ Past(v.a, t) \in X \union {e} /\ Abs(v.a[t]) >= 4
        BY <1>7, <1>9, <2>1, <2>2
    <2>5. \A t, u \in X : t < u => Past(v.a, t) <= u
        BY <1>4, <2>2
    <2>6. Cut(v.a, (S \ (i..(e - 1))) \union X)
        BY <1>2, <1>11, <1>12, <2>3, <2>4, <2>5, CutAgain
    <2> QED
        BY <1>1, <2>2, <2>6
<1>14. \A s \in S : s < i \/ s >= e => s \in T
    <2>1. \A s \in S : s \in Nat
        BY <1>2, BlockBounds
    <2> QED
        BY <1>1, <1>4, <2>1
<1>15. \A k \in 1..Len(l) : l[k] \in T /\ v.a[l[k]] = a[l[k]]
    <2>1. \A k \in 1..Len(l) : l[k] \in S
        BY <1>2 DEF Free
    <2> QED
        BY <1>11, <1>14, <2>1
<1>16. l \in Seq(Free(v.a, T))
    BY <1>2, <1>15, StillListed
<1>17. i \in Free(v.a, T)
    BY <1>1, <1>7, <1>9 DEF Free
<1>18. \A k \in 1..Len(l) : l[k] # i
    BY <1>4
<1>19. m \in Seq(Free(v.a, T)) /\ Once(m)
    <2>1. m \in Seq(Free(v.a, T))
        BY <1>1, <1>16, <1>17, PushIs
    <2>2. Once(m)
        BY <1>1, <1>2, <1>16, <1>17, <1>18, PushMembers
    <2> QED
        BY <2>1, <2>2
<1>20. Listed(v, T, m)
    BY <1>9, <1>13, <1>19 DEF Listed
<1>21. \A s \in S : (s < i \/ s >= e) /\ s \notin Free(a, S) => Keeps(a, v.a, s)
    BY <1>10 DEF Keeps
<1> QED
    BY <1>1, <1>6, <1>9, <1>11, <1>14, <1>20, <1>21

\* A block outside the list of which the first words are to be taken.
Splits(h, S, l, i, ints, j, sz) ==
    /\ Listed(h, S, l) /\ i \in Inner(S) /\ \A k \in 1..Len(l) : l[k] # i
    /\ ints \in Nat /\ ints >= 4 /\ sz \in Nat /\ sz >= 4
    /\ j = i + ints /\ j + sz = Past(h.a, i)

\* v is h with the two parts.
SplitAt(h, v, S, l, i, ints, j, sz) ==
    /\ Listed(v, S \union {j}, Push(j, l))
    /\ v.avail = j /\ v.a[i] = -ints /\ v.a[j] = sz /\ j \notin S
    /\ \A s \in S : s # i => v.a[s] = h.a[s]
    /\ \A s \in S : s # i /\ s \notin Free(h.a, S) => Keeps(h.a, v.a, s)

\* makeTaken() of the first words of a block outside the list and makeAvail()
\* of the others.
LEMMA SplitListed ==
    ASSUME NEW h, NEW S, NEW l, NEW i, NEW ints, NEW j, NEW sz,
           Splits(h, S, l, i, ints, j, sz)
    PROVE  SplitAt(h, MakeAvail(MakeTaken(h, i, ints), j, sz), S, l, i, ints, j, sz)
<1> /\ Listed(h, S, l) /\ i \in Inner(S) /\ \A k \in 1..Len(l) : l[k] # i
    /\ ints \in Nat /\ ints >= 4 /\ sz \in Nat /\ sz >= 4
    /\ j = i + ints /\ j + sz = Past(h.a, i)
    BY DEF Splits
<1>1. PICK a, t : a = h.a /\ t = MakeTaken(h, i, ints)
    OBVIOUS
<1>2. PICK v, m, e : v = MakeAvail(t, j, sz) /\ m = Push(j, l) /\ e = Past(a, i)
    OBVIOUS
<1>3. /\ h \in Heaps /\ a \in Arrays /\ Cut(a, S) /\ l \in Seq(Free(a, S)) /\ Once(l)
      /\ Links(a, h.avail, l)
    BY <1>1 DEF Listed, Heaps
<1>4. Spread(l)
    BY <1>3, FreeSpread
<1>5. i \in S /\ 2 <= i /\ e <= len - 2 /\ e \in S
    BY <1>2, <1>3, InnerBounds
<1>6. i \in Nat /\ e \in Nat
    BY <1>2, <1>3, <1>5, BlockBounds
<1>7. /\ j \in Nat /\ j >= 1 /\ i + 4 <= j /\ j + sz = e /\ j + sz - 1 = e - 1 /\ i < e
      /\ j + 4 <= e
    BY <1>1, <1>2, <1>5, <1>6
<1>8. /\ j + sz - 1 \in Index /\ i + ints - 1 \in Index /\ e - 1 \in Index
      /\ i + ints - 1 = j - 1
    BY <1>1, <1>5, <1>6, <1>7, HeapAssumption DEF Index
<1>9. /\ t \in Heaps /\ t.avail = h.avail /\ t.a[i] = -ints /\ t.a[j - 1] = -ints
      /\ \A w \in Index : w # i /\ w # j - 1 => t.a[w] = a[w]
    <2>1. /\ h \in Heaps /\ i \in Nat /\ ints \in Nat /\ ints >= 2
          /\ i + ints - 1 \in Index
        BY <1>3, <1>6, <1>8
    <2>2. LET x == MakeTaken(h, i, ints) IN
          /\ x \in Heaps /\ x.avail = h.avail
          /\ x.a[i] = -ints /\ x.a[i + ints - 1] = -ints
          /\ \A w \in Index : w # i /\ w # i + ints - 1 => x.a[w] = h.a[w]
        BY <2>1, MakeTakenWrites
    <2> QED
        BY <1>1, <1>8, <2>2
<1>10. \A s \in S : s # i => s < i \/ s >= e
    BY <1>2, <1>3, RunOfOne
<1>11. ASSUME NEW k \in 1..Len(l)
       PROVE  /\ l[k] \in Free(a, S) /\ l[k] \in S /\ l[k] \in Nat /\ l[k] + 3 \in Index
              /\ l[k] + 4 <= i \/ e <= l[k]
    <2>1. PICK f : f = l[k]
        OBVIOUS
    <2>2. f \in Free(a, S) /\ f # i
        BY <1>3, <2>1
    <2>3. f \in Inner(S)
        BY <1>3, <2>2, FreeInner
    <2>4. f \in S /\ f + 4 <= Past(a, f) /\ Past(a, f) \in Nat /\ f \in Nat
        BY <1>3, <2>3, InnerBounds, BlockBounds DEF Inner
    <2>5. f < i => Past(a, f) <= i
        BY <1>3, <1>5, <2>4 DEF Cut
    <2>6. f + 4 <= i \/ e <= f
        BY <1>6, <1>10, <2>2, <2>4, <2>5
    <2>7. f + 3 \in Index
        BY <1>4, <2>1 DEF Spread
    <2> QED
        BY <2>1, <2>2, <2>4, <2>6, <2>7
<1>12. Links(t.a, t.avail, l)
    <2>1. ASSUME NEW k \in 1..Len(l)
          PROVE  t.a[l[k] + 1] = a[l[k] + 1] /\ t.a[l[k] + 2] = a[l[k] + 2]
        <3>1. PICK f \in Nat : f = l[k]
            BY <1>11
        <3>2. f + 3 \in Index /\ (f + 4 <= i \/ e <= f)
            BY <1>11, <3>1
        <3>3. f + 1 \in Index /\ f + 2 \in Index
            BY <3>2, HeapAssumption DEF Index
        <3>4. f + 1 # i /\ f + 1 # j - 1 /\ f + 2 # i /\ f + 2 # j - 1
            BY <1>6, <1>7, <3>2
        <3> QED
            BY <1>9, <3>1, <3>3, <3>4
    <2>2. Links(t.a, h.avail, l)
        BY <1>3, <2>1, ChainElsewhere
    <2> QED
        BY <1>9, <2>2
<1>13. /\ v \in Heaps /\ Links(v.a, v.avail, m)
       /\ v.avail = j /\ v.a[j] = sz /\ v.a[e - 1] = sz
       /\ \A w \in Index :
            /\ w < j \/ w >= e
            /\ \A k \in 1..Len(l) : w # l[k] + 1 /\ w # l[k] + 2
            => v.a[w] = t.a[w]
    <2>1. /\ t \in Heaps /\ Spread(l) /\ Links(t.a, t.avail, l)
          /\ j \in Nat /\ j >= 1 /\ sz \in Nat /\ sz >= 4 /\ j + sz - 1 \in Index
        BY <1>4, <1>7, <1>8, <1>9, <1>12
    <2>2. \A k \in 1..Len(l) : l[k] + 4 <= j \/ j + sz <= l[k]
        <3>1. ASSUME NEW k \in 1..Len(l)
              PROVE  l[k] + 4 <= j \/ j + sz <= l[k]
            <4>1. PICK f \in Nat : f = l[k]
                BY <1>11
            <4>2. f + 4 <= i \/ e <= f
                BY <1>11, <4>1
            <4>3. f + 4 <= j \/ j + sz <= f
                BY <1>6, <1>7, <4>2
            <4> QED
                BY <4>1, <4>3
        <3> QED
            BY <3>1
    <2>3. Room(t, l, j, sz)
        BY <2>1, <2>2 DEF Room
    <2>4. Pushed(t, v, l, j, sz)
        BY <1>2, <2>3, PushChain
    <2> QED
        BY <1>2, <1>7, <2>4 DEF Pushed
<1>14. v.a[i] = -ints /\ v.a[j - 1] = -ints
    <2>1. ASSUME NEW w \in {i, j - 1}
          PROVE  /\ w \in Index /\ (w < j \/ w >= e)
                 /\ \A k \in 1..Len(l) : w # l[k] + 1 /\ w # l[k] + 2
        <3>1. w \in Index /\ w \in Nat /\ i <= w /\ w < j
            BY <1>6, <1>7, <1>8, HeapAssumption DEF Index
        <3>2. ASSUME NEW k \in 1..Len(l)
              PROVE  w # l[k] + 1 /\ w # l[k] + 2
            <4>1. PICK f \in Nat : f = l[k]
                BY <1>11
            <4>2. f + 4 <= i \/ e <= f
                BY <1>11, <4>1
            <4>3. w # f + 1 /\ w # f + 2
                BY <1>6, <1>7, <3>1, <4>2
            <4> QED
                BY <4>1, <4>3
        <3> QED
            BY <3>1, <3>2
    <2> QED
        BY <1>9, <1>13, <2>1
<1>15. ASSUME NEW s \in S, s # i, NEW w \in s..(Past(a, s) - 1),
              s \notin Free(a, S) \/ w = s \/ w = Past(a, s) - 1
       PROVE  v.a[w] = a[w]
    <2>1. w \in Index /\ (w < i \/ w >= e)
        BY <1>3, <1>5, <1>7, <1>10, <1>15, RunApart
    <2>2. ASSUME NEW k \in 1..Len(l)
          PROVE  w # l[k] + 1 /\ w # l[k] + 2
        <3>1. PICK f : f = l[k]
            OBVIOUS
        <3>2. f \in Free(a, S)
            BY <1>3, <3>1
        <3>3. s # f \/ w = s \/ w = Past(a, s) - 1
            BY <1>15, <3>2
        <3>4. w # f + 1 /\ w # f + 2
            BY <1>3, <3>2, <3>3, LinksInside
        <3> QED
            BY <3>1, <3>4
    <2>3. w \in Nat /\ (w < j \/ w >= e) /\ w # i /\ w # j - 1
        BY <1>6, <1>7, <2>1, HeapAssumption DEF Index
    <2> QED
        BY <1>9, <1>13, <2>1, <2>2, <2>3
<1>16. \A s \in S : s # i => v.a[s] = a[s] /\ v.a[Past(a, s) - 1] = a[Past(a, s) - 1]
    BY <1>3, <1>15, TagsInside
<1>17. v.a \in Arrays
    BY <1>13 DEF Heaps
<1>18. PICK X, T : X = {i, j} /\ T = S \union {j}
    OBVIOUS
<1>19. j \notin S
    BY <1>6, <1>7, <1>10
<1>20. (S \ (i..(e - 1))) \union X = T
    <2>1. \A s \in S : s \in i..(e - 1) <=> s = i
        BY <1>2, <1>3, RunOfOne
    <2> QED
        BY <1>5, <1>18, <2>1
<1>21. Cut(v.a, T)
    <2>1. /\ Past(v.a, i) = j /\ v.a[i] # 0 /\ Abs(v.a[i]) >= 4
        <3>1. -ints \in Int /\ -ints # 0 /\ Abs(-ints) = ints
            BY AbsIs
        <3>2. v.a[i] = -ints
            BY <1>14
        <3> QED
            BY <1>1, <3>1, <3>2 DEF Past
    <2>2. /\ Past(v.a, j) = e /\ v.a[j] # 0 /\ Abs(v.a[j]) >= 4
        <3>1. sz # 0 /\ Abs(sz) = sz
            BY AbsIs
        <3>2. v.a[j] = sz
            BY <1>13
        <3> QED
            BY <1>7, <3>1, <3>2 DEF Past
    <2>3. X \subseteq i..(e - 1) /\ i \in X
        BY <1>6, <1>7, <1>18
    <2>4. \A u \in X : /\ v.a[u] # 0 /\ v.a[Past(v.a, u) - 1] = v.a[u]
                       /\ Past(v.a, u) \in X \union {e} /\ Abs(v.a[u]) >= 4
        BY <1>13, <1>14, <1>18, <2>1, <2>2
    <2>5. \A u, w \in X : u < w => Past(v.a, u) <= w
        BY <1>6, <1>7, <1>18, <2>1
    <2>6. \A s \in S : s < i \/ s >= e =>
                v.a[s] = a[s] /\ v.a[Past(a, s) - 1] = a[Past(a, s) - 1]
        BY <1>6, <1>7, <1>16
    <2>7. PICK b \in Arrays : b = v.a
        BY <1>17
    <2>8. /\ a \in Arrays /\ Cut(a, S) /\ i \in Inner(S) /\ e \in S /\ i < e
          /\ X \subseteq i..(e - 1) /\ i \in X
          /\ \A u \in X : /\ b[u] # 0 /\ b[Past(b, u) - 1] = b[u]
                          /\ Past(b, u) \in X \union {e} /\ Abs(b[u]) >= 4
          /\ \A u, w \in X : u < w => Past(b, u) <= w
          /\ \A s \in S : s < i \/ s >= e =>
                b[s] = a[s] /\ b[Past(a, s) - 1] = a[Past(a, s) - 1]
        BY <1>3, <1>5, <1>6, <1>7, <2>3, <2>4, <2>5, <2>6, <2>7
    <2>9. Cut(b, (S \ (i..(e - 1))) \union X)
        BY <2>8, CutAgain, Zenon
    <2> QED
        BY <1>20, <2>7, <2>9
<1>22. l \in Seq(Free(v.a, T))
    <2>1. \A k \in 1..Len(l) : l[k] \in T /\ v.a[l[k]] = a[l[k]]
        BY <1>11, <1>16, <1>18
    <2> QED
        BY <1>3, <2>1, StillListed
<1>23. j \in Free(v.a, T)
    BY <1>13, <1>18 DEF Free
<1>24. m \in Seq(Free(v.a, T)) /\ Once(m)
    <2>1. m \in Seq(Free(v.a, T))
        BY <1>2, <1>22, <1>23, PushIs
    <2>2. \A k \in 1..Len(l) : l[k] # j
        BY <1>11, <1>19
    <2>3. Once(m)
        BY <1>2, <1>3, <1>22, <1>23, <2>2, PushMembers
    <2> QED
        BY <2>1, <2>3
<1>25. Listed(v, T, m)
    BY <1>13, <1>21, <1>24 DEF Listed
<1>26. \A s \in S : s # i /\ s \notin Free(a, S) => Keeps(a, v.a, s)
    BY <1>15 DEF Keeps
<1>27. SplitAt(h, v, S, l, i, ints, j, sz)
    BY <1>1, <1>2, <1>13, <1>14, <1>16, <1>18, <1>19, <1>25, <1>26 DEF SplitAt
<1> QED
    BY <1>1, <1>2, <1>27

\* Words strictly inside one block, and not links of the list, are free to use.
LEMMA InsideListed ==
    ASSUME NEW h, NEW S, NEW l, Listed(h, S, l), NEW v \in Heaps, v.avail = h.avail,
           NEW i \in S,
           \A w \in Index : ~ (w > i /\ w < Past(h.a, i) - 1) => v.a[w] = h.a[w],
           i \in Free(h.a, S) => v.a[i + 1] = h.a[i + 1] /\ v.a[i + 2] = h.a[i + 2]
    PROVE  /\ Listed(v, S, l) /\ Free(v.a, S) = Free(h.a, S)
           /\ \A s \in S : v.a[s] = h.a[s] /\ Past(v.a, s) = Past(h.a, s)
           /\ \A s \in S : s # i => Keeps(h.a, v.a, s)
<1>1. PICK a : a = h.a
    OBVIOUS
<1>2. /\ h \in Heaps /\ a \in Arrays /\ Cut(a, S) /\ l \in Seq(Free(a, S)) /\ Once(l)
      /\ Links(a, h.avail, l) /\ v.a \in Arrays
    BY <1>1 DEF Listed, Heaps
<1>3. i \in Nat /\ Past(a, i) \in Nat
    BY <1>2, BlockBounds
<1>4. ASSUME NEW s \in S, NEW w \in s..(Past(a, s) - 1),
             s # i \/ w = s \/ w = Past(a, s) - 1
      PROVE  v.a[w] = a[w]
    <2>1. w \in Index /\ s \in Nat /\ Past(a, s) \in Nat /\ s <= w /\ w < Past(a, s)
        <3>1. \A u \in s..(Past(a, s) - 1) : u \in Index
            BY <1>2, TagsInside
        <3>2. s \in Nat /\ Past(a, s) \in Nat
            BY <1>2, BlockBounds
        <3> QED
            BY <3>1, <3>2
    <2>2. ~ (w > i /\ w < Past(a, i) - 1)
        <3>1. CASE s = i
            BY <1>3, <1>4, <2>1, <3>1
        <3>2. CASE s # i
            <4>1. Past(a, s) <= i \/ Past(a, i) <= s
                BY <1>2, <3>2, BlocksApart
            <4> QED
                BY <1>3, <2>1, <4>1
        <3> QED
            BY <3>1, <3>2
    <2> QED
        BY <1>1, <2>1, <2>2
<1>5. \A s \in S : v.a[s] = a[s] /\ v.a[Past(a, s) - 1] = a[Past(a, s) - 1]
    BY <1>2, <1>4, TagsInside
<1>6. /\ Cut(v.a, S) /\ Free(v.a, S) = Free(a, S)
      /\ \A s \in S : Past(v.a, s) = Past(a, s)
    BY <1>2, <1>5, CutSame
<1>7. ASSUME NEW k \in 1..Len(l)
      PROVE  v.a[l[k] + 1] = a[l[k] + 1] /\ v.a[l[k] + 2] = a[l[k] + 2]
    <2>1. PICK f : f = l[k]
        OBVIOUS
    <2>2. f \in Free(a, S)
        BY <1>2, <2>1
    <2>3. f \in Inner(S)
        BY <1>2, <2>2, FreeInner
    <2>4. f \in S /\ f + 4 <= Past(a, f)
        BY <1>2, <2>3, InnerBounds
    <2>5. f \in Nat /\ Past(a, f) \in Nat
        BY <1>2, <2>4, BlockBounds
    <2>6. f + 1 \in f..(Past(a, f) - 1) /\ f + 2 \in f..(Past(a, f) - 1)
        BY <2>4, <2>5
    <2>7. v.a[f + 1] = a[f + 1] /\ v.a[f + 2] = a[f + 2]
        BY <1>1, <1>4, <2>2, <2>4, <2>6
    <2> QED
        BY <2>1, <2>7
<1>8. Links(v.a, v.avail, l)
    BY <1>2, <1>7, ChainElsewhere
<1>9. Listed(v, S, l)
    BY <1>2, <1>6, <1>8 DEF Listed
<1>10. \A s \in S : s # i => Keeps(a, v.a, s)
    BY <1>4 DEF Keeps
<1> QED
    BY <1>1, <1>5, <1>6, <1>9, <1>10

\* makeTaken() of a whole block outside the list.
LEMMA TakeListed ==
    ASSUME NEW h, NEW S, NEW l, Listed(h, S, l), NEW i \in Inner(S),
           \A k \in 1..Len(l) : l[k] # i,
           NEW sz \in Nat, i + sz = Past(h.a, i)
    PROVE  LET v == MakeTaken(h, i, sz) IN
           /\ Listed(v, S, l) /\ v.avail = h.avail /\ v.a[i] = -sz
           /\ \A s \in S : s # i => v.a[s] = h.a[s]
           /\ \A s \in S : s # i => Keeps(h.a, v.a, s)
<1>1. PICK a, v, e : a = h.a /\ v = MakeTaken(h, i, sz) /\ e = Past(a, i)
    OBVIOUS
<1>2. /\ h \in Heaps /\ a \in Arrays /\ Cut(a, S) /\ l \in Seq(Free(a, S)) /\ Once(l)
      /\ Links(a, h.avail, l)
    BY <1>1 DEF Listed, Heaps
<1>3. i \in S /\ 2 <= i /\ i + 4 <= e /\ e <= len - 2 /\ e \in S
    BY <1>1, <1>2, InnerBounds
<1>4. i \in Nat /\ e \in Nat
    BY <1>1, <1>2, <1>3, BlockBounds
<1>5. /\ i < e /\ i + sz - 1 = e - 1 /\ i + sz - 1 \in Index /\ e - 1 \in Index
      /\ sz >= 4 /\ i + sz = e
    BY <1>1, <1>3, <1>4, HeapAssumption DEF Index
<1>6. /\ v \in Heaps /\ v.avail = h.avail /\ v.a[i] = -sz /\ v.a[e - 1] = -sz
      /\ \A w \in Index : w # i /\ w # e - 1 => v.a[w] = a[w]
    <2>1. h \in Heaps /\ i \in Nat /\ sz \in Nat /\ sz >= 2 /\ i + sz - 1 \in Index
        BY <1>2, <1>4, <1>5
    <2>2. LET x == MakeTaken(h, i, sz) IN
          /\ x \in Heaps /\ x.avail = h.avail
          /\ x.a[i] = -sz /\ x.a[i + sz - 1] = -sz
          /\ \A w \in Index : w # i /\ w # i + sz - 1 => x.a[w] = h.a[w]
        BY <2>1, MakeTakenWrites
    <2> QED
        BY <1>1, <1>5, <2>2
<1>7. /\ \A s \in S : s # i => s < i \/ s >= e
      /\ \A s \in S : s \in i..(e - 1) <=> s = i
    BY <1>1, <1>2, RunOfOne
<1>8. ASSUME NEW s \in S, s # i, NEW w \in s..(Past(a, s) - 1)
      PROVE  v.a[w] = a[w]
    <2>1. w \in Index /\ (w < i \/ w >= e)
        BY <1>2, <1>3, <1>5, <1>7, <1>8, RunApart
    <2>2. w # i /\ w # e - 1
        BY <1>4, <1>5, <2>1, HeapAssumption DEF Index
    <2> QED
        BY <1>6, <2>1, <2>2
<1>9. \A s \in S : s # i => v.a[s] = a[s] /\ v.a[Past(a, s) - 1] = a[Past(a, s) - 1]
    BY <1>2, <1>8, TagsInside
<1>10. v.a \in Arrays
    BY <1>6 DEF Heaps
<1>11. Cut(v.a, S)
    <2>1. /\ Past(v.a, i) = e /\ v.a[i] # 0 /\ Abs(v.a[i]) >= 4
        <3>1. -sz \in Int /\ -sz # 0 /\ Abs(-sz) = sz
            BY <1>5, AbsIs
        <3>2. v.a[i] = -sz
            BY <1>6
        <3> QED
            BY <1>5, <3>1, <3>2 DEF Past
    <2>2. PICK X : X = {i}
        OBVIOUS
    <2>3. X \subseteq i..(e - 1) /\ i \in X
        BY <1>4, <1>5, <2>2
    <2>4. \A u \in X : /\ v.a[u] # 0 /\ v.a[Past(v.a, u) - 1] = v.a[u]
                       /\ Past(v.a, u) \in X \union {e} /\ Abs(v.a[u]) >= 4
        BY <1>6, <2>1, <2>2
    <2>5. \A u, w \in X : u < w => Past(v.a, u) <= w
        BY <1>4, <2>2
    <2>6. \A s \in S : s < i \/ s >= e =>
                v.a[s] = a[s] /\ v.a[Past(a, s) - 1] = a[Past(a, s) - 1]
        BY <1>4, <1>5, <1>9
    <2>7. Cut(v.a, (S \ (i..(e - 1))) \union X)
        BY <1>2, <1>3, <1>5, <1>10, <2>3, <2>4, <2>5, <2>6, CutAgain
    <2>8. (S \ (i..(e - 1))) \union X = S
        BY <1>3, <1>7, <2>2
    <2> QED
        BY <2>7, <2>8
<1>12. ASSUME NEW k \in 1..Len(l)
       PROVE  /\ l[k] \in S /\ v.a[l[k]] = a[l[k]]
              /\ v.a[l[k] + 1] = a[l[k] + 1] /\ v.a[l[k] + 2] = a[l[k] + 2]
    <2>1. PICK f : f = l[k]
        OBVIOUS
    <2>2. f \in Free(a, S) /\ f # i
        BY <1>2, <2>1
    <2>3. f \in Inner(S)
        BY <1>2, <2>2, FreeInner
    <2>4. f \in S /\ f + 4 <= Past(a, f)
        BY <1>2, <2>3, InnerBounds
    <2>5. f \in Nat /\ Past(a, f) \in Nat
        BY <1>2, <2>4, BlockBounds
    <2>6. f + 1 \in f..(Past(a, f) - 1) /\ f + 2 \in f..(Past(a, f) - 1)
        BY <2>4, <2>5
    <2>7. v.a[f + 1] = a[f + 1] /\ v.a[f + 2] = a[f + 2] /\ v.a[f] = a[f]
        BY <1>8, <1>9, <2>2, <2>4, <2>6
    <2> QED
        BY <2>1, <2>4, <2>7
<1>13. Links(v.a, v.avail, l)
    BY <1>2, <1>6, <1>12, ChainElsewhere
<1>14. l \in Seq(Free(v.a, S))
    BY <1>2, <1>12, StillListed
<1>15. Listed(v, S, l)
    BY <1>2, <1>6, <1>11, <1>13, <1>14 DEF Listed
<1>16. \A s \in S : s # i => Keeps(a, v.a, s)
    BY <1>8 DEF Keeps
<1> QED
    BY <1>1, <1>6, <1>9, <1>15, <1>16


-----------------------------------------------------------------------------
(* malloc and free *)

\* The list holds every available block, and no two of them are neighbours.
Whole(h, S, l) ==
    /\ Listed(h, S, l)
    /\ \A i \in Free(h.a, S) : In(l, i)
    /\ Coalesced(h.a, S)

\* The headers are the same, and so is what is not available.
Touches(a, b, S) ==
    /\ \A s \in S : b[s] = a[s]
    /\ \A s \in S : s \notin Free(a, S) => Keeps(a, b, s)

\* Keeping twice.
LEMMA KeepsTwice ==
    ASSUME NEW a, NEW b, NEW c, NEW s, b[s] = a[s], Keeps(a, b, s), Keeps(b, c, s)
    PROVE  Keeps(a, c, s)
<1>1. Past(b, s) = Past(a, s)
    BY DEF Past
<1> QED
    BY <1>1 DEF Keeps

\* The same headers say the same blocks are available.
LEMMA TouchesFree ==
    ASSUME NEW a, NEW b, NEW S, Touches(a, b, S)
    PROVE  Free(b, S) = Free(a, S) /\ \A s \in S : Past(b, s) = Past(a, s)
BY DEF Touches, Free, Past

\* The blocks of the list without one of them.
LEMMA UnlinkAll ==
    ASSUME NEW h, NEW S, NEW l, Listed(h, S, l), NEW i, In(l, i)
    PROVE  \E m : /\ Listed(Unlink(h, i), S, m) /\ Touches(h.a, Unlink(h, i).a, S)
                  /\ \A x : In(m, x) <=> (x # i /\ In(l, x))
<1>1. PICK p \in 1..Len(l) : l[p] = i
    BY DEF In
<1>2. PICK u, m : u = Unlink(h, i) /\ m = Skip(l, p)
    OBVIOUS
<1>3. LET x == Unlink(h, l[p]) IN
      /\ Listed(x, S, Skip(l, p))
      /\ \A s \in S : x.a[s] = h.a[s]
      /\ \A s \in S : s \notin Free(h.a, S) \/ s = l[p] => Keeps(h.a, x.a, s)
    BY UnlinkListed
<1>4. Listed(u, S, m) /\ Touches(h.a, u.a, S)
    BY <1>1, <1>2, <1>3 DEF Touches
<1>5. l \in Seq(Free(h.a, S)) /\ Once(l)
    BY DEF Listed
<1>6. \A x : (\E k \in 1..Len(Skip(l, p)) : Skip(l, p)[k] = x)
                        <=> (x # l[p] /\ \E k \in 1..Len(l) : l[k] = x)
    BY <1>5, SkipMembers
<1>7. \A x : In(m, x) <=> (x # i /\ In(l, x))
    BY <1>1, <1>2, <1>6 DEF In
<1> QED
    BY <1>2, <1>4, <1>7

\* The blocks of a list with one in front.
LEMMA InPush ==
    ASSUME NEW U, NEW l \in Seq(U), NEW i, ~In(l, i), Once(l)
    PROVE  \A x : In(Push(i, l), x) <=> (x = i \/ In(l, x))
<1>1. PICK V : V = U \union {i}
    OBVIOUS
<1>2. l \in Seq(V)
    <2>1. \A k \in 1..Len(l) : l[k] \in V
        BY <1>1
    <2> QED
        BY <2>1, SeqDef
<1>3. i \in V /\ \A k \in 1..Len(l) : l[k] # i
    BY <1>1 DEF In
<1>4. \A x : (\E k \in 1..Len(Push(i, l)) : Push(i, l)[k] = x)
                        <=> (x = i \/ \E k \in 1..Len(l) : l[k] = x)
    BY <1>2, <1>3, PushMembers
<1> QED
    BY <1>4 DEF In

\* malloc's part with the block it has chosen.
LEMMA CarveSound ==
    ASSUME NEW h, NEW S, NEW l, Whole(h, S, l), NEW i, In(l, i),
           NEW ints \in Nat, ints >= 4, Size(h, i) >= ints
    PROVE  LET v == Carve(h, i, ints) IN
           \E T, m : /\ Whole(v, T, m) /\ S \subseteq T /\ i \in Inner(T)
                     /\ v.a[i] < 0 /\ Abs(v.a[i]) >= ints
                     /\ \A s \in S : s \notin Free(h.a, S) => Keeps(h.a, v.a, s)
<1>1. PICK a, u, v, sz : /\ a = h.a /\ u = Unlink(h, i) /\ v = Carve(h, i, ints)
                         /\ sz = Size(h, i)
    OBVIOUS
<1>2. /\ Listed(h, S, l) /\ h \in Heaps /\ a \in Arrays /\ Cut(a, S)
      /\ l \in Seq(Free(a, S)) /\ Once(l)
      /\ Coalesced(a, S) /\ \A f \in Free(a, S) : In(l, f)
    BY <1>1 DEF Whole, Listed, Heaps
<1>3. i \in Free(a, S)
    BY <1>2 DEF In
<1>4. /\ i \in Inner(S) /\ a[i] > 0 /\ Abs(a[i]) = a[i]
    BY <1>2, <1>3, FreeInner
<1>5. i \in S /\ Past(a, i) \in S
    BY <1>2, <1>4, InnerBounds
<1>6. sz \in Nat /\ i \in Nat /\ i + sz = Past(a, i) /\ sz = a[i]
    BY <1>1, <1>2, <1>4, <1>5, BlockBounds DEF Size
<1>7. PICK n : /\ Listed(u, S, n) /\ Touches(a, u.a, S)
               /\ \A x : In(n, x) <=> (x # i /\ In(l, x))
    BY <1>1, <1>2, UnlinkAll
<1>8. Free(u.a, S) = Free(a, S) /\ \A s \in S : Past(u.a, s) = Past(a, s) /\ u.a[s] = a[s]
    <2>1. Free(u.a, S) = Free(a, S) /\ \A s \in S : Past(u.a, s) = Past(a, s)
        BY <1>7, TouchesFree
    <2> QED
        BY <1>7, <2>1 DEF Touches
<1>9. \A k \in 1..Len(n) : n[k] # i
    BY <1>7 DEF In
<1>10. /\ n \in Seq(Free(u.a, S)) /\ Once(n)
    BY <1>7 DEF Listed
<1>11. ASSUME NEW f \in Free(a, S), f # i
       PROVE  f \in S /\ Past(a, f) \in S /\ Past(a, f) \notin Free(a, S) /\ Past(a, f) # i
    <2>1. f \in Inner(S)
        BY <1>2, FreeInner
    <2>2. f \in S /\ Past(a, f) \in S
        BY <1>2, <2>1, InnerBounds
    <2>3. Past(a, f) \notin Free(a, S)
        BY <1>2 DEF Coalesced
    <2> QED
        BY <1>3, <2>2, <2>3
<1>12. CASE sz - ints >= 4
    <2>1. PICK j, r : j = i + ints /\ r = sz - ints
        OBVIOUS
    <2>2. r \in Nat /\ r >= 4 /\ j + r = Past(u.a, i) /\ j \in Nat
        BY <1>5, <1>6, <1>8, <1>12, <2>1
    <2>3. v = MakeAvail(MakeTaken(u, i, ints), j, r)
        BY <1>1, <1>12, <2>1 DEF Carve
    <2>4. Splits(u, S, n, i, ints, j, r)
        BY <1>4, <1>7, <1>9, <2>1, <2>2 DEF Splits
    <2>5. SplitAt(u, v, S, n, i, ints, j, r)
        BY <2>3, <2>4, SplitListed
    <2>6. /\ Listed(v, S \union {j}, Push(j, n)) /\ v.a[i] = -ints /\ v.a[j] = r
          /\ j \notin S
          /\ \A s \in S : s # i => v.a[s] = a[s]
          /\ \A s \in S : s # i /\ s \notin Free(a, S) => Keeps(u.a, v.a, s)
        BY <1>8, <2>5 DEF SplitAt
    <2>7. PICK T, m : T = S \union {j} /\ m = Push(j, n)
        OBVIOUS
    <2>8. ASSUME NEW f \in Free(v.a, T)
          PROVE  f = j \/ (f \in Free(a, S) /\ f # i)
        <3>1. f \in T /\ v.a[f] > 0
            BY DEF Free
        <3>2. f # i
            BY <2>6, <3>1
        <3> QED
            BY <2>6, <2>7, <3>1, <3>2 DEF Free
    <2>9. \A x : In(m, x) <=> (x = j \/ In(n, x))
        <3>1. ~In(n, j)
            <4>1. \A k \in 1..Len(n) : n[k] \in S
                BY <1>10 DEF Free
            <4> QED
                BY <2>6, <4>1 DEF In
        <3>2. \A x : In(Push(j, n), x) <=> (x = j \/ In(n, x))
            BY <1>10, <3>1, InPush
        <3> QED
            BY <2>7, <3>2
    <2>10. \A f \in Free(v.a, T) : In(m, f)
        BY <1>2, <1>7, <2>8, <2>9
    <2>11. Past(v.a, j) = Past(a, i)
        <3>1. Abs(r) = r
            BY <2>2, AbsIs
        <3> QED
            BY <1>6, <2>1, <2>2, <2>6, <3>1 DEF Past
    <2>12. ASSUME NEW f \in Free(v.a, T)
           PROVE  Past(v.a, f) \notin Free(v.a, T)
        <3>1. PICK g : g = Past(v.a, f)
            OBVIOUS
        <3>2. g \in S /\ g \notin Free(a, S)
            <4>1. CASE f = j
                <5>1. Past(a, i) \notin Free(a, S)
                    BY <1>2, <1>3 DEF Coalesced
                <5> QED
                    BY <1>5, <2>11, <3>1, <4>1, <5>1
            <4>2. CASE f \in Free(a, S) /\ f # i
                <5>1. f \in S /\ Past(a, f) \in S /\ Past(a, f) \notin Free(a, S)
                    BY <1>11, <4>2
                <5>2. Past(v.a, f) = Past(a, f)
                    BY <2>6, <4>2, <5>1 DEF Past
                <5> QED
                    BY <3>1, <5>1, <5>2
            <4> QED
                BY <2>8, <4>1, <4>2
        <3>3. g # j
            BY <2>6, <3>2
        <3>4. g \notin Free(v.a, T)
            BY <2>8, <3>2, <3>3
        <3> QED
            BY <3>1, <3>4
    <2>13. Whole(v, T, m)
        BY <2>6, <2>7, <2>10, <2>12 DEF Whole, Coalesced
    <2>14. ASSUME NEW s \in S, s \notin Free(a, S)
           PROVE  Keeps(a, v.a, s)
        <3>1. s # i /\ Keeps(u.a, v.a, s) /\ Keeps(a, u.a, s) /\ u.a[s] = a[s]
            BY <1>3, <1>7, <2>6, <2>14 DEF Touches
        <3> QED
            BY <3>1, KeepsTwice
    <2>15. v.a[i] < 0 /\ Abs(v.a[i]) >= ints
        <3>1. Abs(-ints) = ints /\ -ints < 0
            BY AbsIs
        <3> QED
            BY <2>6, <3>1
    <2>16. S \subseteq T /\ i \in Inner(T)
        BY <1>4, <2>7 DEF Inner
    <2> QED
        BY <1>1, <2>13, <2>14, <2>15, <2>16
<1>13. CASE ~ (sz - ints >= 4)
    <2>1. v = MakeTaken(u, i, sz)
        BY <1>1, <1>13 DEF Carve
    <2>2. i + sz = Past(u.a, i)
        BY <1>5, <1>6, <1>8
    <2>3. LET x == MakeTaken(u, i, sz) IN
          /\ Listed(x, S, n) /\ x.avail = u.avail /\ x.a[i] = -sz
          /\ \A s \in S : s # i => x.a[s] = u.a[s]
          /\ \A s \in S : s # i => Keeps(u.a, x.a, s)
        BY <1>4, <1>6, <1>7, <1>9, <2>2, TakeListed
    <2>4. /\ Listed(v, S, n) /\ v.a[i] = -sz
          /\ \A s \in S : s # i => v.a[s] = a[s] /\ Keeps(u.a, v.a, s)
        BY <1>8, <2>1, <2>3
    <2>5. ASSUME NEW f \in Free(v.a, S)
          PROVE  f \in Free(a, S) /\ f # i
        <3>1. f \in S /\ v.a[f] > 0
            BY DEF Free
        <3>2. f # i
            BY <1>6, <2>4, <3>1
        <3> QED
            BY <2>4, <3>1, <3>2 DEF Free
    <2>6. \A f \in Free(v.a, S) : In(n, f)
        BY <1>2, <1>7, <2>5
    <2>7. ASSUME NEW f \in Free(v.a, S)
          PROVE  Past(v.a, f) \notin Free(v.a, S)
        <3>1. f \in S /\ f # i /\ Past(a, f) \notin Free(a, S)
            BY <1>11, <2>5
        <3>2. Past(v.a, f) = Past(a, f)
            BY <2>4, <3>1 DEF Past
        <3> QED
            BY <2>5, <3>1, <3>2
    <2>8. Whole(v, S, n)
        BY <2>4, <2>6, <2>7 DEF Whole, Coalesced
    <2>9. ASSUME NEW s \in S, s \notin Free(a, S)
          PROVE  Keeps(a, v.a, s)
        <3>1. s # i /\ Keeps(u.a, v.a, s) /\ Keeps(a, u.a, s) /\ u.a[s] = a[s]
            BY <1>3, <1>7, <2>4, <2>9 DEF Touches
        <3> QED
            BY <3>1, KeepsTwice
    <2>10. v.a[i] < 0 /\ Abs(v.a[i]) >= ints
        <3>1. Abs(-sz) = sz /\ -sz < 0 /\ sz >= ints
            BY <1>1, <1>6, AbsIs
        <3> QED
            BY <2>4, <3>1
    <2> QED
        BY <1>1, <1>4, <2>8, <2>9, <2>10
<1> QED
    BY <1>12, <1>13


\* A neighbour leaves the list if it is available.
LEMMA UnlinkIf ==
    ASSUME NEW h, NEW S, NEW l, Listed(h, S, l), NEW s \in S, NEW c \in BOOLEAN,
           c <=> s \in Free(h.a, S), c => In(l, s)
    PROVE  LET u == IF c THEN Unlink(h, s) ELSE h IN
           \E m : /\ Listed(u, S, m) /\ Touches(h.a, u.a, S)
                  /\ \A x : In(m, x) <=> (x # s /\ In(l, x))
<1>1. CASE c
    BY <1>1, UnlinkAll
<1>2. CASE ~c
    <2>1. Touches(h.a, h.a, S)
        BY DEF Touches, Keeps
    <2>2. ~In(l, s)
        BY <1>2 DEF In, Listed
    <2> QED
        BY <1>2, <2>1, <2>2
<1> QED
    BY <1>1, <1>2

\* The neighbours as free() finds them.
LEMMA Neighbours ==
    ASSUME NEW h \in Heaps, NEW S, Cut(h.a, S), NEW i \in Inner(S)
    PROVE  /\ Left(h, i) \in S /\ Left(h, i) < i /\ Past(h.a, Left(h, i)) = i
           /\ Right(h, i) = Past(h.a, i) /\ Right(h, i) \in S
           /\ \A s \in S : IsAvail(h, s) <=> s \in Free(h.a, S)
<1>1. PICK a : a = h.a
    OBVIOUS
<1>2. a \in Arrays /\ Cut(a, S)
    BY <1>1 DEF Heaps
<1>3. i \in S /\ i # 0 /\ Past(a, i) \in S
    BY <1>2, InnerBounds DEF Inner
<1>4. PICK p \in S : p < i /\ Past(a, p) = i
    BY <1>2, <1>3, HasLeft
<1>5. /\ p \in Nat /\ Abs(a[p]) \in Nat /\ i = p + Abs(a[p]) /\ a[i - 1] = a[p]
    BY <1>2, <1>4, BlockBounds
<1>6. i \in Nat
    BY <1>2, <1>3, BlockBounds
<1>7. (i - 1) - Abs(a[i - 1]) + 1 = p
    BY <1>5, <1>6
<1>8. Left(h, i) = p
    BY <1>1, <1>7 DEF Left, Size
<1>9. Right(h, i) = Past(h.a, i)
    BY DEF Right, Size, Past
<1>10. \A s \in S : IsAvail(h, s) <=> s \in Free(h.a, S)
    BY DEF IsAvail, Free
<1> QED
    BY <1>1, <1>3, <1>4, <1>8, <1>9, <1>10

\* What free() does to the words and the list.
LEMMA MergeSound ==
    ASSUME NEW h, NEW S, NEW l, Whole(h, S, l), NEW i \in Inner(S), h.a[i] < 0
    PROVE  LET v == Merge(h, i) IN
           \E T, m : /\ Whole(v, T, m) /\ v.avail \in Free(v.a, T)
                     /\ \A s \in S : s # i /\ s \notin Free(h.a, S) =>
                            s \in T /\ v.a[s] = h.a[s] /\ Keeps(h.a, v.a, s)
<1>1. PICK a, p, r, v : /\ a = h.a /\ p = Left(h, i) /\ r = Right(h, i)
                        /\ v = Merge(h, i)
    OBVIOUS
<1>2. /\ Listed(h, S, l) /\ h \in Heaps /\ a \in Arrays /\ Cut(a, S)
      /\ l \in Seq(Free(a, S)) /\ Once(l)
      /\ Coalesced(a, S) /\ \A f \in Free(a, S) : In(l, f)
    BY <1>1 DEF Whole, Listed, Heaps
<1>3. /\ p \in S /\ p < i /\ Past(a, p) = i /\ r = Past(a, i) /\ r \in S
      /\ IsAvail(h, p) <=> p \in Free(a, S)
      /\ IsAvail(h, r) <=> r \in Free(a, S)
    BY <1>1, <1>2, Neighbours
<1>4. PICK c \in BOOLEAN, d \in BOOLEAN : /\ c <=> p \in Free(a, S)
                                          /\ d <=> r \in Free(a, S)
    OBVIOUS
<1>5. PICK b, e : b = (IF c THEN p ELSE i) /\ e = (IF d THEN Past(a, r) ELSE r)
    OBVIOUS
<1>6. /\ i \in S /\ i \in Nat /\ p \in Nat /\ r \in Nat /\ i + 4 <= r
      /\ i \notin Free(a, S)
    <2>1. i \in S /\ i + 4 <= Past(a, i)
        BY <1>2, InnerBounds
    <2>2. a[i] \in Int /\ a[i] < 0
        BY <1>1, <1>2, <2>1, BlockBounds
    <2>3. i \notin Free(a, S)
        BY <2>2 DEF Free
    <2> QED
        BY <1>2, <1>3, <2>1, <2>3, BlockBounds
<1>7. /\ d => Past(a, r) \in S /\ r < Past(a, r) /\ Past(a, r) \notin Free(a, S)
      /\ Past(a, r) \in Nat
    <2>1. Past(a, r) \in Nat
        BY <1>2, <1>3, BlockBounds
    <2>2. ASSUME d
          PROVE  Past(a, r) \in S /\ r < Past(a, r) /\ Past(a, r) \notin Free(a, S)
        <3>1. r \in Free(a, S)
            BY <1>4, <2>2
        <3>2. r \in Inner(S)
            BY <1>2, <3>1, FreeInner
        <3>3. Past(a, r) \in S /\ r + 4 <= Past(a, r)
            BY <1>2, <3>2, InnerBounds
        <3>4. Past(a, r) \notin Free(a, S)
            BY <1>2, <3>1 DEF Coalesced
        <3> QED
            BY <1>6, <2>1, <3>3, <3>4
    <2> QED
        BY <2>1, <2>2
<1>8. /\ b \in Inner(S) /\ b \in Nat /\ b <= i
      /\ e \in S /\ e \in Nat /\ r <= e /\ e \notin Free(a, S) /\ b < e
    <2>1. c => p \in Inner(S)
        BY <1>2, <1>4, FreeInner
    <2>2. b \in Inner(S) /\ b \in Nat /\ b <= i
        BY <1>3, <1>5, <1>6, <2>1
    <2>3. e \in S /\ e \in Nat /\ r <= e /\ e \notin Free(a, S)
        BY <1>3, <1>4, <1>5, <1>6, <1>7
    <2> QED
        BY <1>6, <2>2, <2>3
<1>9. ASSUME NEW s \in S
      PROVE  /\ s < b \/ s >= e \/ s = i \/ (s = p /\ c) \/ (s = r /\ d)
             /\ s = i \/ (s = p /\ c) \/ (s = r /\ d) => s \in b..(e - 1)
    <2>1. s \in Nat
        BY <1>2, BlockBounds
    <2>2. s > p => s >= i
        BY <1>2, <1>3 DEF Cut
    <2>3. s > i => s >= r
        BY <1>2, <1>3, <1>6 DEF Cut
    <2>4. s > r => s >= Past(a, r)
        BY <1>2, <1>3 DEF Cut
    <2>5. s < b \/ s >= e \/ s = i \/ (s = p /\ c) \/ (s = r /\ d)
        BY <1>3, <1>5, <1>6, <1>7, <2>1, <2>2, <2>3, <2>4
    <2>6. s = i \/ (s = p /\ c) \/ (s = r /\ d) => s \in b..(e - 1)
        BY <1>3, <1>5, <1>6, <1>7, <1>8, <2>1
    <2> QED
        BY <2>5, <2>6
<1>10. PICK g1 : g1 = IF c THEN Unlink(h, p) ELSE h
    OBVIOUS
<1>11. PICK g2 : g2 = IF d THEN Unlink(g1, r) ELSE g1
    OBVIOUS
<1>12. PICK l1 : /\ Listed(g1, S, l1) /\ Touches(a, g1.a, S)
                 /\ \A x : In(l1, x) <=> (x # p /\ In(l, x))
    <2>1. /\ Listed(h, S, l) /\ p \in S /\ (c <=> p \in Free(h.a, S)) /\ (c => In(l, p))
        BY <1>1, <1>2, <1>3, <1>4
    <2> QED
        BY <1>1, <1>10, <2>1, UnlinkIf
<1>13. /\ Free(g1.a, S) = Free(a, S)
       /\ \A s \in S : g1.a[s] = a[s] /\ Past(g1.a, s) = Past(a, s)
    BY <1>12, TouchesFree DEF Touches
<1>14. PICK l2 : /\ Listed(g2, S, l2) /\ Touches(g1.a, g2.a, S)
                 /\ \A x : In(l2, x) <=> (x # r /\ In(l1, x))
    <2>1. p # r
        BY <1>3, <1>6
    <2>2. /\ Listed(g1, S, l1) /\ r \in S /\ (d <=> r \in Free(g1.a, S)) /\ (d => In(l1, r))
        BY <1>2, <1>3, <1>4, <1>12, <1>13, <2>1
    <2> QED
        BY <1>11, <2>2, UnlinkIf
<1>15. /\ Free(g2.a, S) = Free(a, S)
       /\ \A s \in S : g2.a[s] = a[s] /\ Past(g2.a, s) = Past(a, s)
    <2>1. /\ Free(g2.a, S) = Free(g1.a, S)
          /\ \A s \in S : g2.a[s] = g1.a[s] /\ Past(g2.a, s) = Past(g1.a, s)
        <3>1. Free(g2.a, S) = Free(g1.a, S) /\ \A s \in S : Past(g2.a, s) = Past(g1.a, s)
            BY <1>14, TouchesFree
        <3>2. \A s \in S : g2.a[s] = g1.a[s]
            BY <1>14 DEF Touches
        <3> QED
            BY <3>1, <3>2
    <2> QED
        BY <1>13, <2>1
<1>16. v = MakeAvail(g2, b, e - b)
    <2>1. PICK x, y, z : x = Size(h, i) /\ y = Size(h, p) /\ z = Size(h, r)
        OBVIOUS
    <2>2. /\ x \in Nat /\ y \in Nat /\ z \in Nat
          /\ r = i + x /\ i = p + y /\ Past(a, r) = r + z
        <3>1. x = Abs(a[i]) /\ y = Abs(a[p]) /\ z = Abs(a[r])
            BY <1>1, <2>1 DEF Size
        <3>2. Abs(a[i]) \in Nat /\ Past(a, i) = i + Abs(a[i])
            BY <1>2, <1>6, BlockBounds
        <3>3. Abs(a[p]) \in Nat /\ Past(a, p) = p + Abs(a[p])
            BY <1>2, <1>3, BlockBounds
        <3>4. Abs(a[r]) \in Nat /\ Past(a, r) = r + Abs(a[r])
            BY <1>2, <1>3, BlockBounds
        <3> QED
            BY <1>3, <3>1, <3>2, <3>3, <3>4
    <2>3. e - b = x + (IF c THEN y ELSE 0) + (IF d THEN z ELSE 0)
        BY <1>5, <1>6, <2>2
    <2>4. (c <=> IsAvail(h, p)) /\ (d <=> IsAvail(h, r))
        BY <1>3, <1>4
    <2>5. v = MakeAvail(g2, b, x + (IF c THEN y ELSE 0) + (IF d THEN z ELSE 0))
        BY <1>1, <1>5, <1>10, <1>11, <2>1, <2>4 DEF Merge
    <2> QED
        BY <2>3, <2>5
<1>17. l2 \in Seq(Free(a, S)) /\ Once(l2)
    BY <1>14, <1>15 DEF Listed
<1>18. \A k \in 1..Len(l2) : l2[k] < b \/ l2[k] >= e
    <2>1. ASSUME NEW k \in 1..Len(l2)
          PROVE  l2[k] < b \/ l2[k] >= e
        <3>1. l2[k] \in Free(a, S) /\ In(l2, l2[k])
            BY <1>17 DEF In
        <3>2. l2[k] \in S /\ l2[k] # i /\ l2[k] # r /\ l2[k] # p
            BY <1>6, <1>12, <1>14, <3>1 DEF Free
        <3> QED
            BY <1>9, <3>2
    <2> QED
        BY <2>1
<1>19. PICK T, m : T = (S \ (b..(e - 1))) \union {b} /\ m = Push(b, l2)
    OBVIOUS
<1>20. /\ Listed(v, T, m) /\ v.avail = b /\ v.a[b] = e - b
       /\ \A s \in S : s < b \/ s >= e => s \in T /\ v.a[s] = a[s]
       /\ \A s \in S : (s < b \/ s >= e) /\ s \notin Free(a, S) => Keeps(g2.a, v.a, s)
    <2>1. /\ Listed(g2, S, l2) /\ b \in Inner(S) /\ e \in S /\ b < e
          /\ \A k \in 1..Len(l2) : l2[k] < b \/ l2[k] >= e
        BY <1>8, <1>14, <1>18
    <2>2. LET x == MakeAvail(g2, b, e - b)
              Y == (S \ (b..(e - 1))) \union {b}
          IN  /\ Listed(x, Y, Push(b, l2)) /\ x.avail = b /\ x.a[b] = e - b
              /\ \A s \in S : s < b \/ s >= e => s \in Y /\ x.a[s] = g2.a[s]
              /\ \A s \in S : (s < b \/ s >= e) /\ s \notin Free(g2.a, S)
                                    => Keeps(g2.a, x.a, s)
        BY <2>1, JoinListed
    <2> QED
        BY <1>15, <1>16, <1>19, <2>2
<1>21. ASSUME NEW f \in Free(v.a, T), f # b
       PROVE  /\ f \in Free(a, S) /\ f \in S /\ (f < b \/ f >= e) /\ In(l2, f)
              /\ v.a[f] = a[f]
    <2>1. f \in S /\ f \notin b..(e - 1) /\ v.a[f] > 0
        BY <1>19, <1>21 DEF Free
    <2>2. f # i /\ ~(f = p /\ c) /\ ~(f = r /\ d) /\ (f < b \/ f >= e)
        BY <1>9, <2>1
    <2>3. v.a[f] = a[f]
        BY <1>20, <2>1, <2>2
    <2>4. f \in Free(a, S)
        BY <2>1, <2>3 DEF Free
    <2>5. In(l2, f)
        BY <1>2, <1>4, <1>12, <1>14, <2>2, <2>4
    <2> QED
        BY <2>1, <2>2, <2>3, <2>4, <2>5
<1>22. b \in Free(v.a, T)
    BY <1>8, <1>19, <1>20 DEF Free
<1>23. \A f \in Free(v.a, T) : In(m, f)
    <2>1. ~In(l2, b)
        BY <1>8, <1>18 DEF In
    <2>2. \A x : In(Push(b, l2), x) <=> (x = b \/ In(l2, x))
        BY <1>17, <2>1, InPush
    <2> QED
        BY <1>19, <1>21, <2>2
<1>24. Past(v.a, b) = e
    <2>1. e - b \in Int /\ e - b > 0
        BY <1>8
    <2>2. Abs(e - b) = e - b
        BY <2>1, AbsIs
    <2> QED
        BY <1>8, <1>20, <2>2 DEF Past
<1>25. ASSUME NEW f \in Free(v.a, T)
       PROVE  Past(v.a, f) \notin Free(v.a, T)
    <2>1. PICK g : g = Past(v.a, f)
        OBVIOUS
    <2>2. g \notin Free(a, S) /\ g # b
        <3>1. CASE f = b
            BY <1>8, <1>24, <2>1, <3>1
        <3>2. CASE f # b
            <4>1. f \in Free(a, S) /\ f \in S /\ v.a[f] = a[f]
                BY <1>21, <3>2
            <4>2. g = Past(a, f)
                BY <2>1, <4>1 DEF Past
            <4>3. g \notin Free(a, S)
                BY <1>2, <4>1, <4>2 DEF Coalesced
            <4>4. ASSUME g = b
                  PROVE  FALSE
                <5>1. ~c /\ b = i
                    BY <1>4, <1>5, <4>3, <4>4
                <5>2. f = p
                    <6>1. CASE f # p
                        <7>1. Past(a, f) <= p \/ Past(a, p) <= f
                            BY <1>2, <1>3, <4>1, <6>1, BlocksApart
                        <7>2. f \in Nat /\ Past(a, f) \in Nat /\ f + 2 <= Past(a, f)
                            BY <1>2, <4>1, BlockBounds
                        <7> QED
                            BY <1>3, <1>6, <4>2, <4>4, <5>1, <7>1, <7>2
                    <6> QED
                        BY <6>1
                <5> QED
                    BY <1>4, <4>1, <5>1, <5>2
            <4> QED
                BY <4>3, <4>4
        <3> QED
            BY <3>1, <3>2
    <2> QED
        BY <1>21, <2>1, <2>2
<1>26. Whole(v, T, m)
    BY <1>20, <1>23, <1>25 DEF Whole, Coalesced
<1>27. ASSUME NEW s \in S, s # i, s \notin Free(a, S)
       PROVE  s \in T /\ v.a[s] = a[s] /\ Keeps(a, v.a, s)
    <2>1. s < b \/ s >= e
        BY <1>4, <1>9, <1>27
    <2>2. /\ Keeps(a, g1.a, s) /\ g1.a[s] = a[s] /\ Keeps(g1.a, g2.a, s)
          /\ g2.a[s] = a[s] /\ Keeps(g2.a, v.a, s)
        BY <1>12, <1>13, <1>14, <1>15, <1>20, <1>27, <2>1 DEF Touches
    <2>3. Keeps(a, g2.a, s)
        BY <2>2, KeepsTwice
    <2>4. Keeps(a, v.a, s)
        BY <2>2, <2>3, KeepsTwice
    <2> QED
        BY <1>20, <2>1, <2>4
<1>28. v.avail \in Free(v.a, T)
    BY <1>20, <1>22
<1> QED
    BY <1>1, <1>26, <1>27, <1>28


\* What is written strictly inside a block leaves the heap sound.
LEMMA InsideSound ==
    ASSUME NEW h, NEW S, NEW l, Whole(h, S, l), NEW v \in Heaps, v.avail = h.avail,
           NEW i \in S,
           \A w \in Index : ~ (w > i /\ w < Past(h.a, i) - 1) => v.a[w] = h.a[w],
           i \in Free(h.a, S) => v.a[i + 1] = h.a[i + 1] /\ v.a[i + 2] = h.a[i + 2]
    PROVE  /\ Whole(v, S, l) /\ v.a[i] = h.a[i]
           /\ \A s \in S : s # i => Keeps(h.a, v.a, s)
<1>1. Listed(h, S, l) /\ (\A f \in Free(h.a, S) : In(l, f)) /\ Coalesced(h.a, S)
    BY DEF Whole
<1>2. /\ Listed(v, S, l) /\ Free(v.a, S) = Free(h.a, S)
      /\ \A s \in S : v.a[s] = h.a[s] /\ Past(v.a, s) = Past(h.a, s)
      /\ \A s \in S : s # i => Keeps(h.a, v.a, s)
    BY <1>1, InsideListed
<1>3. Coalesced(v.a, S)
    <2>1. \A f \in Free(h.a, S) : f \in S
        BY DEF Free
    <2> QED
        BY <1>1, <1>2, <2>1 DEF Coalesced
<1> QED
    BY <1>1, <1>2, <1>3 DEF Whole

\* What Whole says of a block that is taken.
LEMMA TakenBlock ==
    ASSUME NEW h, NEW S, NEW l, Whole(h, S, l), NEW i \in Inner(S), h.a[i] < 0
    PROVE  /\ h \in Heaps /\ h.a \in Arrays /\ Cut(h.a, S) /\ i \in S /\ i \in Nat
           /\ i \notin Free(h.a, S) /\ Right(h, i) = Past(h.a, i)
           /\ Past(h.a, i) \in Nat /\ Past(h.a, i) = i + Abs(h.a[i]) /\ Abs(h.a[i]) \in Nat
           /\ Past(h.a, i) <= len - 2
<1>1. PICK a : a = h.a
    OBVIOUS
<1>2. h \in Heaps /\ a \in Arrays /\ Cut(a, S)
    BY <1>1 DEF Whole, Listed, Heaps
<1>3. i \in S /\ Past(a, i) <= len - 2
    BY <1>2, InnerBounds
<1>4. /\ i \in Nat /\ a[i] \in Int /\ Abs(a[i]) \in Nat /\ Past(a, i) \in Nat
      /\ Past(a, i) = i + Abs(a[i])
    BY <1>2, <1>3, BlockBounds
<1>5. i \notin Free(a, S)
    BY <1>1, <1>4 DEF Free
<1>6. Right(h, i) = Past(h.a, i)
    BY DEF Right, Size, Past
<1> QED
    BY <1>1, <1>2, <1>3, <1>4, <1>5, <1>6

\* The owner of a block writes to it.
LEMMA FillSound ==
    ASSUME NEW h, NEW S, NEW l, Whole(h, S, l), NEW i \in Inner(S), h.a[i] < 0,
           NEW from \in Nat, from >= 1
    PROVE  LET v == Fill(h, i, from) IN
           /\ Whole(v, S, l) /\ v.a[i] = h.a[i]
           /\ \A s \in S : s # i => Keeps(h.a, v.a, s)
           /\ \A w \in Index :
                v.a[w] = IF w >= i + from /\ w < Past(h.a, i) - 1 THEN w - i ELSE h.a[w]
<1>1. PICK a, v, e : a = h.a /\ v = Fill(h, i, from) /\ e = Past(a, i)
    OBVIOUS
<1>2. PICK b : b = [w \in Index |-> IF w >= i + from /\ w < e - 1 THEN w - i ELSE a[w]]
    OBVIOUS
<1>3. /\ a = h.a /\ v = Fill(h, i, from) /\ e = Past(a, i)
      /\ b = [w \in Index |-> IF w >= i + from /\ w < e - 1 THEN w - i ELSE a[w]]
    BY <1>1, <1>2
<1>4. /\ h \in Heaps /\ a \in Arrays /\ i \in S /\ i \in Nat /\ i \notin Free(a, S)
      /\ Right(h, i) = e /\ e \in Nat
    BY <1>3, TakenBlock
<1>5. DOMAIN a = Index
    BY <1>4 DEF Arrays
<1>6. v = [h EXCEPT !.a = b]
    BY <1>3, <1>4, <1>5 DEF Fill
<1>7. b \in Arrays
    <2>1. \A w \in Index : w \in Int /\ a[w] \in Int
        BY <1>4, HeapAssumption DEF Arrays, Index
    <2>2. \A w \in Index : (IF w >= i + from /\ w < e - 1 THEN w - i ELSE a[w]) \in Int
        BY <1>4, <2>1
    <2> QED
        BY <1>3, <2>2 DEF Arrays
<1>8. v \in Heaps /\ v.a = b /\ v.avail = h.avail
    BY <1>4, <1>6, <1>7 DEF Heaps
<1>9. \A w \in Index : v.a[w] = IF w >= i + from /\ w < e - 1 THEN w - i ELSE a[w]
    BY <1>3, <1>8
<1>10. \A w \in Index : ~ (w > i /\ w < Past(h.a, i) - 1) => v.a[w] = h.a[w]
    <2>1. \A w \in Index : w \in Int
        BY HeapAssumption DEF Index
    <2> QED
        BY <1>3, <1>4, <1>9, <2>1
<1>11. /\ Whole(v, S, l) /\ v.a[i] = h.a[i]
       /\ \A s \in S : s # i => Keeps(h.a, v.a, s)
    BY <1>3, <1>4, <1>8, <1>10, InsideSound
<1> QED
    BY <1>3, <1>9, <1>11

\* realloc copies into a block.
LEMMA CopySound ==
    ASSUME NEW h, NEW S, NEW l, Whole(h, S, l), NEW i \in Inner(S), h.a[i] < 0,
           NEW j \in Inner(S), h.a[j] < 0, NEW m \in Nat, NEW n \in Nat, n = (m + 3) \div 4,
           n <= Abs(h.a[i]) - 2, n <= Abs(h.a[j])
    PROVE  LET v == Copied(h, j, i, m) IN
           /\ Whole(v, S, l) /\ v.a[i] = h.a[i]
           /\ \A s \in S : s # i => Keeps(h.a, v.a, s)
           /\ \A k \in 1..n : v.a[i + k] = h.a[j + k]
<1>1. PICK a, v, b, e :
            /\ a = h.a /\ v = Copied(h, j, i, m) /\ e = Past(a, i)
            /\ b = [w \in Index |-> IF w > i /\ w <= i + n THEN a[j + (w - i)] ELSE a[w]]
    OBVIOUS
<1>2. /\ h \in Heaps /\ a \in Arrays /\ i \in S /\ i \in Nat /\ i \notin Free(a, S)
      /\ e \in Nat /\ e = i + Abs(a[i]) /\ Abs(a[i]) \in Nat /\ e <= len - 2
    BY <1>1, TakenBlock
<1>3. /\ j \in Nat /\ Past(a, j) \in Nat /\ Past(a, j) <= len - 2
      /\ Past(a, j) = j + Abs(a[j]) /\ Abs(a[j]) \in Nat
    BY <1>1, TakenBlock
<1>4. DOMAIN a = Index /\ len \in Nat
    BY <1>2, HeapAssumption DEF Arrays
<1>5. v = [h EXCEPT !.a = b]
    BY <1>1, <1>4 DEF Copied
<1>6. b \in Arrays
    <2>1. \A w \in Index : w \in Int /\ a[w] \in Int
        BY <1>2, <1>4 DEF Arrays, Index
    <2>2. ASSUME NEW w \in Index, w > i, w <= i + n
          PROVE  a[j + (w - i)] \in Int
        <3>1. j + (w - i) \in Index
            BY <1>1, <1>2, <1>3, <1>4, <2>1, <2>2 DEF Index
        <3> QED
            BY <2>1, <3>1
    <2>3. \A w \in Index : (IF w > i /\ w <= i + n THEN a[j + (w - i)] ELSE a[w]) \in Int
        BY <2>1, <2>2
    <2> QED
        BY <1>1, <2>3 DEF Arrays
<1>7. v \in Heaps /\ v.a = b /\ v.avail = h.avail
    BY <1>2, <1>5, <1>6 DEF Heaps
<1>8. \A w \in Index : v.a[w] = IF w > i /\ w <= i + n THEN a[j + (w - i)] ELSE a[w]
    BY <1>1, <1>7
<1>9. \A w \in Index : ~ (w > i /\ w < Past(h.a, i) - 1) => v.a[w] = h.a[w]
    <2>1. \A w \in Index : w \in Int
        BY <1>4 DEF Index
    <2>2. i + n < e - 1
        BY <1>1, <1>2
    <2> QED
        BY <1>1, <1>2, <1>8, <2>1, <2>2
<1>10. /\ Whole(v, S, l) /\ v.a[i] = h.a[i]
       /\ \A s \in S : s # i => Keeps(h.a, v.a, s)
    <2>1. v \in Heaps /\ v.avail = h.avail /\ i \in S /\ i \notin Free(h.a, S)
        BY <1>1, <1>2, <1>7
    <2> QED
        BY <1>9, <2>1, InsideSound
<1>11. ASSUME NEW k \in 1..n
       PROVE  v.a[i + k] = h.a[j + k]
    <2>1. PICK w : w = i + k
        OBVIOUS
    <2>2. w \in Index /\ w > i /\ w <= i + n /\ w - i = k
        BY <1>1, <1>2, <1>4, <2>1 DEF Index
    <2>3. v.a[w] = a[j + (w - i)]
        BY <1>8, <2>2
    <2> QED
        BY <1>1, <2>1, <2>2, <2>3
<1> QED
    BY <1>1, <1>10, <1>11

\* free() leaves the blocks of the others.
LEMMA FreeSound ==
    ASSUME NEW h, NEW S, NEW l, Whole(h, S, l), NEW i \in Inner(S), h.a[i] < 0
    PROVE  LET v == Forget(Merge(h, i)) IN
           \E T, m : /\ Whole(v, T, m)
                     /\ \A s \in S : s # i /\ s \notin Free(h.a, S) =>
                            s \in T /\ Keeps(h.a, v.a, s)
<1>1. PICK g : g = Merge(h, i)
    OBVIOUS
<1>2. PICK T, m : /\ Whole(g, T, m) /\ g.avail \in Free(g.a, T)
                  /\ \A s \in S : s # i /\ s \notin Free(h.a, S) =>
                        s \in T /\ g.a[s] = h.a[s] /\ Keeps(h.a, g.a, s)
    BY <1>1, MergeSound
<1>3. PICK x, a, e, b : /\ x = g.avail /\ a = g.a /\ e = Past(a, x)
                        /\ b = [w \in Index |-> IF w > x + 2 /\ w < e - 1 THEN 0 ELSE a[w]]
    OBVIOUS
<1>4. g \in Heaps /\ a \in Arrays /\ Cut(a, T)
    BY <1>2, <1>3 DEF Whole, Listed, Heaps
<1>5. x \in Inner(T) /\ x \in T /\ x + 4 <= e
    <2>1. x \in Inner(T)
        BY <1>2, <1>3, <1>4, FreeInner
    <2> QED
        BY <1>3, <1>4, <2>1, InnerBounds
<1>6. x \in Nat /\ e \in Nat /\ e <= len
    BY <1>3, <1>4, <1>5, BlockBounds
<1>7. PICK v : v = Forget(g)
    OBVIOUS
<1>8. Right(g, x) = e /\ DOMAIN a = Index
    BY <1>3, <1>4 DEF Right, Size, Past, Arrays
<1>9. v = [g EXCEPT !.a = b]
    BY <1>3, <1>7, <1>8 DEF Forget
<1>10. b \in Arrays
    <2>1. \A w \in Index : a[w] \in Int
        BY <1>4 DEF Arrays
    <2> QED
        BY <1>3, <2>1 DEF Arrays
<1>11. v \in Heaps /\ v.a = b /\ v.avail = g.avail
    BY <1>4, <1>9, <1>10 DEF Heaps
<1>12. \A w \in Index : v.a[w] = IF w > x + 2 /\ w < e - 1 THEN 0 ELSE a[w]
    BY <1>3, <1>11
<1>13. \A w \in Index : ~ (w > x /\ w < Past(g.a, x) - 1) => v.a[w] = g.a[w]
    <2>1. \A w \in Index : w \in Int
        BY HeapAssumption DEF Index
    <2> QED
        BY <1>3, <1>6, <1>12, <2>1
<1>14. v.a[x + 1] = g.a[x + 1] /\ v.a[x + 2] = g.a[x + 2]
    <2>1. x + 1 \in Index /\ x + 2 \in Index
        BY <1>5, <1>6, HeapAssumption DEF Index
    <2> QED
        BY <1>3, <1>6, <1>12, <2>1
<1>15. Whole(v, T, m) /\ \A s \in T : s # x => Keeps(g.a, v.a, s)
    BY <1>2, <1>5, <1>11, <1>13, <1>14, InsideSound
<1>16. ASSUME NEW s \in S, s # i, s \notin Free(h.a, S)
       PROVE  s \in T /\ Keeps(h.a, v.a, s)
    <2>1. s \in T /\ g.a[s] = h.a[s] /\ Keeps(h.a, g.a, s)
        BY <1>2, <1>16
    <2>2. s # x
        BY <1>2, <1>3, <1>16, <2>1 DEF Free
    <2> QED
        BY <1>15, <2>1, <2>2, KeepsTwice
<1> QED
    BY <1>1, <1>7, <1>15, <1>16


-----------------------------------------------------------------------------
(* What the walk over the links finds *)

\* Blocks that are four words apart begin in different groups of four words.
LEMMA Quarters ==
    ASSUME NEW x \in Nat, NEW y \in Nat, x + 4 <= y
    PROVE  x \div 4 \in Nat /\ y \div 4 \in Nat /\ x \div 4 < y \div 4
OBVIOUS

\* There are not more blocks in the list than the walk takes.
LEMMA ListShort ==
    ASSUME NEW l, Spread(l)
    PROVE  Len(l) \in Nat /\ len \div 4 \in Nat /\ Len(l) <= len \div 4
<1>1. l \in Seq(Nat) /\ Len(l) \in Nat /\ len \in Nat /\ len >= 8
    BY HeapAssumption DEF Spread
<1>2. PICK q : q = len \div 4
    OBVIOUS
<1>3. q \in Nat
    BY <1>1, <1>2
<1>4. PICK D, E, f : D = 1..Len(l) /\ E = 0..(q - 1) /\ f = [k \in D |-> l[k] \div 4]
    OBVIOUS
<1>5. f \in [D -> E]
    <2>1. ASSUME NEW k \in 1..Len(l)
          PROVE  l[k] \div 4 \in 0..(q - 1)
        <3>1. l[k] \in Nat /\ l[k] + 3 \in Index
            BY DEF Spread
        <3>2. PICK x \in Nat : x = l[k]
            BY <3>1
        <3>3. x + 4 <= len
            BY <1>1, <3>1, <3>2 DEF Index
        <3>4. x \div 4 \in Nat /\ x \div 4 < len \div 4
            BY <1>1, <3>3, Quarters
        <3> QED
            BY <1>2, <1>3, <3>2, <3>4
    <2> QED
        BY <1>4, <2>1
<1>6. \A x, y \in D : x # y => f[x] # f[y]
    <2>1. ASSUME NEW x \in 1..Len(l), NEW y \in 1..Len(l), x # y
          PROVE  l[x] \div 4 # l[y] \div 4
        <3>1. l[x] \in Nat /\ l[y] \in Nat /\ (l[x] + 4 <= l[y] \/ l[y] + 4 <= l[x])
            BY <2>1 DEF Spread
        <3>2. PICK a \in Nat, b \in Nat : a = l[x] /\ b = l[y]
            BY <3>1
        <3>3. a \div 4 \in Nat /\ b \div 4 \in Nat /\ a \div 4 # b \div 4
            <4>1. CASE a + 4 <= b
                BY <4>1, Quarters
            <4>2. CASE b + 4 <= a
                BY <4>2, Quarters
            <4> QED
                BY <3>1, <3>2, <4>1, <4>2
        <3> QED
            BY <3>2, <3>3
    <2> QED
        BY <1>4, <2>1
<1>7. /\ IsFiniteSet(D) /\ Cardinality(D) = Len(l)
      /\ IsFiniteSet(E) /\ Cardinality(E) = q
    <2>1. IsFiniteSet(1..Len(l)) /\ Cardinality(1..Len(l)) = IF 1 > Len(l) THEN 0 ELSE Len(l) - 1 + 1
        BY <1>1, FS_Interval
    <2>2. q - 1 \in Int
        BY <1>3
    <2>3. IsFiniteSet(0..(q - 1)) /\ Cardinality(0..(q - 1)) = IF 0 > q - 1 THEN 0 ELSE (q - 1) - 0 + 1
        BY <2>2, FS_Interval
    <2>4. (IF 1 > Len(l) THEN 0 ELSE Len(l) - 1 + 1) = Len(l)
        BY <1>1
    <2>5. (IF 0 > q - 1 THEN 0 ELSE (q - 1) - 0 + 1) = q
        BY <1>3
    <2> QED
        BY <1>4, <2>1, <2>3, <2>4, <2>5
<1>8. ~ (Cardinality(E) < Cardinality(D))
    BY <1>5, <1>6, <1>7, FS_PigeonHole
<1> QED
    BY <1>1, <1>2, <1>3, <1>7, <1>8

\* The walk over the links, of no more than `most` blocks.
Walks(node, a, head, most) ==
    node = [k \in 1..most |->
                IF k = 1 THEN head
                ELSE IF node[k - 1] = 0 THEN 0 ELSE a[node[k - 1] + 1]]

\* It finds the blocks of the list.
LEMMA NodesAre ==
    ASSUME NEW a, NEW head, NEW l, Spread(l), Links(a, head, l), NEW most \in Nat,
           NEW node, Walks(node, a, head, most)
    PROVE  \A k \in 1..most : node[k] = Nth(l, k)
<1>1. l \in Seq(Nat) /\ Len(l) \in Nat
    BY DEF Spread
<1>2. PICK T : T = {k \in 1..most : node[k] # Nth(l, k)}
    OBVIOUS
<1>3. SUFFICES ASSUME T # {}
               PROVE  FALSE
    BY <1>2
<1>4. T \subseteq Nat
    BY <1>2
<1>5. PICK k \in T : \A y \in T : k <= y
    BY <1>3, <1>4, LeastNumber
<1>6. k \in 1..most /\ node[k] # Nth(l, k) /\ k \in Nat
    BY <1>2, <1>5
<1>7. node[k] = IF k = 1 THEN head
                ELSE IF node[k - 1] = 0 THEN 0 ELSE a[node[k - 1] + 1]
    BY <1>6 DEF Walks
<1>8. k # 1
    BY <1>6, <1>7 DEF Links
<1>9. PICK j \in Nat : j = k - 1
    BY <1>6
<1>10. j \in 1..most /\ j >= 1 /\ j + 1 = k
    BY <1>6, <1>8, <1>9
<1>11. node[j] = Nth(l, j)
    BY <1>2, <1>5, <1>6, <1>10
<1>12. node[k] = IF node[j] = 0 THEN 0 ELSE a[node[j] + 1]
    BY <1>7, <1>8, <1>9
<1>13. j \in 1..Len(l) <=> Nth(l, j) # 0
    BY NthBounds
<1>14. CASE j \in 1..Len(l)
    <2>1. Nth(l, j) = l[j] /\ a[l[j] + 1] = Nth(l, j + 1)
        BY <1>14 DEF Nth, Links
    <2> QED
        BY <1>6, <1>10, <1>11, <1>12, <1>13, <1>14, <2>1
<1>15. CASE j \notin 1..Len(l)
    <2>1. k \notin 1..Len(l)
        BY <1>1, <1>10, <1>15
    <2>2. Nth(l, k) = 0
        BY <2>1 DEF Nth
    <2> QED
        BY <1>6, <1>11, <1>12, <1>13, <1>15, <2>2
<1> QED
    BY <1>14, <1>15

\* There is such a walk.
LEMMA NodesExist ==
    ASSUME NEW a, NEW head, NEW l, Spread(l), Links(a, head, l), NEW most \in Nat
    PROVE  \E node : Walks(node, a, head, most)
<1>1. l \in Seq(Nat) /\ Len(l) \in Nat
    BY DEF Spread
<1>2. PICK node : node = [k \in 1..most |-> Nth(l, k)]
    OBVIOUS
<1>3. ASSUME NEW k \in 1..most
      PROVE  node[k] = IF k = 1 THEN head
                       ELSE IF node[k - 1] = 0 THEN 0 ELSE a[node[k - 1] + 1]
    <2>1. CASE k = 1
        BY <1>2, <2>1 DEF Links
    <2>2. CASE k # 1
        <3>1. PICK j \in Nat : j = k - 1
            OBVIOUS
        <3>2. j \in 1..most /\ j >= 1 /\ j + 1 = k
            BY <2>2, <3>1
        <3>3. node[j] = Nth(l, j) /\ node[k] = Nth(l, k)
            BY <1>2, <3>2
        <3>4. j \in 1..Len(l) <=> Nth(l, j) # 0
            BY NthBounds
        <3>5. CASE j \in 1..Len(l)
            <4>1. Nth(l, j) = l[j] /\ a[l[j] + 1] = Nth(l, j + 1)
                BY <3>5 DEF Nth, Links
            <4> QED
                BY <2>2, <3>1, <3>2, <3>3, <3>4, <3>5, <4>1
        <3>6. CASE j \notin 1..Len(l)
            <4>1. k \notin 1..Len(l)
                BY <1>1, <3>2, <3>6
            <4>2. Nth(l, k) = 0
                BY <4>1 DEF Nth
            <4> QED
                BY <2>2, <3>1, <3>3, <3>4, <3>6, <4>2
        <3> QED
            BY <3>5, <3>6
    <2> QED
        BY <2>1, <2>2
<1>4. Walks(node, a, head, most)
    BY <1>2, <1>3 DEF Walks
<1> QED
    BY <1>4

\* So malloc meets exactly the blocks of the list, in its order.
LEMMA FreeListIs ==
    ASSUME NEW h, NEW S, NEW l, Whole(h, S, l)
    PROVE  FreeList(h) = l
<1>1. /\ h \in Heaps /\ h.a \in Arrays /\ Cut(h.a, S) /\ l \in Seq(Free(h.a, S)) /\ Once(l)
      /\ Links(h.a, h.avail, l)
    BY DEF Whole, Listed, Heaps
<1>2. Spread(l)
    BY <1>1, FreeSpread
<1>3. Len(l) \in Nat /\ len \div 4 \in Nat /\ Len(l) <= len \div 4
    BY <1>2, ListShort
<1>4. PICK most \in Nat : most = len \div 4
    BY <1>3
<1> DEFINE node == CHOOSE f : Walks(f, h.a, h.avail, most)
           walk == CHOOSE f : f = [k \in 1..(len \div 4) |->
                        IF k = 1 THEN h.avail
                        ELSE IF f[k - 1] = 0 THEN 0 ELSE h.a[f[k - 1] + 1]]
<1>5. Walks(node, h.a, h.avail, most)
    <2>1. \E f : Walks(f, h.a, h.avail, most)
        BY <1>1, <1>2, NodesExist
    <2> QED
        BY <2>1
<1>6. FreeList(h) = [k \in 1..Cardinality({j \in 1..(len \div 4) : walk[j] # 0}) |-> walk[k]]
    BY DEF FreeList
<1>7. walk = node
    BY <1>4 DEF Walks
<1> HIDE DEF node, walk
<1>8. FreeList(h) = [k \in 1..Cardinality({j \in 1..most : node[j] # 0}) |-> node[k]]
    BY <1>4, <1>6, <1>7
<1>9. \A k \in 1..most : node[k] = Nth(l, k)
    BY <1>1, <1>2, <1>5, NodesAre
<1>10. {j \in 1..most : node[j] # 0} = 1..Len(l)
    <2>1. ASSUME NEW j \in 1..most
          PROVE  node[j] # 0 <=> j \in 1..Len(l)
        <3>1. j \in Int
            OBVIOUS
        <3>2. j \in 1..Len(l) <=> Nth(l, j) # 0
            BY <1>2, <3>1, NthBounds
        <3> QED
            BY <1>9, <3>2
    <2>2. \A j \in 1..Len(l) : j \in 1..most
        BY <1>3, <1>4
    <2> QED
        BY <2>1, <2>2
<1>11. Cardinality(1..Len(l)) = Len(l)
    <2>1. PICK n \in Int : n = Len(l) /\ n \in Nat
        BY <1>3
    <2>2. Cardinality(1..n) = IF 1 > n THEN 0 ELSE n - 1 + 1
        BY FS_Interval
    <2>3. (IF 1 > n THEN 0 ELSE n - 1 + 1) = n
        BY <2>1
    <2> QED
        BY <2>1, <2>2, <2>3
<1>12. FreeList(h) = [k \in 1..Len(l) |-> node[k]]
    BY <1>8, <1>10, <1>11
<1>13. \A k \in 1..Len(l) : node[k] = l[k]
    <2>1. \A k \in 1..Len(l) : k \in 1..most
        BY <1>3, <1>4
    <2> QED
        BY <1>9, <2>1 DEF Nth
<1>14. l = [k \in 1..Len(l) |-> l[k]]
    BY <1>1
<1> QED
    BY <1>12, <1>13, <1>14


\* malloc chooses one of the blocks that fit.
LEMMA BestIn ==
    ASSUME NEW h, NEW S, NEW l, Whole(h, S, l), NEW fit, fit \subseteq 1..Len(l), fit # {}
    PROVE  \E k \in fit : Best(h, fit) = l[k]
<1>1. h.a \in Arrays /\ Cut(h.a, S) /\ l \in Seq(Free(h.a, S)) /\ FreeList(h) = l
    BY FreeListIs DEF Whole, Listed, Heaps
<1>2. PICK size : size = [k \in 1..Len(l) |-> Size(h, l[k])]
    OBVIOUS
<1>3. \A k \in fit : size[k] \in Nat /\ size[k] = Size(h, l[k])
    <2>1. ASSUME NEW k \in 1..Len(l)
          PROVE  Size(h, l[k]) \in Nat
        <3>1. l[k] \in S
            BY <1>1 DEF Free
        <3>2. Abs(h.a[l[k]]) \in Nat
            BY <1>1, <3>1, BlockBounds
        <3> QED
            BY <3>2 DEF Size
    <2> QED
        BY <1>2, <2>1
<1>4. PICK x \in {size[k] : k \in fit} : \A y \in {size[k] : k \in fit} : x <= y
    <2>1. {size[k] : k \in fit} \subseteq Nat /\ {size[k] : k \in fit} # {}
        BY <1>3
    <2> QED
        BY <2>1, LeastNumber
<1>5. PICK j \in {k \in fit : size[k] = x} : \A y \in {k \in fit : size[k] = x} : j <= y
    <2>1. \A k \in fit : k \in Nat
        BY <1>1
    <2>2. \E k \in fit : size[k] = x
        BY <1>4
    <2>3. {k \in fit : size[k] = x} \subseteq Nat /\ {k \in fit : size[k] = x} # {}
        BY <2>1, <2>2
    <2> QED
        BY <2>3, LeastNumber
<1>6. j \in fit /\ size[j] = x /\ x \in Nat
    BY <1>3, <1>5
<1>7. \A i \in fit : size[j] < size[i] \/ (size[j] = size[i] /\ j <= i)
    <2>1. ASSUME NEW i \in fit
          PROVE  size[j] < size[i] \/ (size[j] = size[i] /\ j <= i)
        <3>1. x <= size[i] /\ size[i] \in Nat
            BY <1>3, <1>4
        <3>2. size[i] = x => j <= i
            BY <1>5
        <3> QED
            BY <1>6, <3>1, <3>2
    <2> QED
        BY <2>1
<1> DEFINE First(k) == \A i \in fit :
                Size(h, l[k]) < Size(h, l[i]) \/ (Size(h, l[k]) = Size(h, l[i]) /\ k <= i)
<1>8. First(j)
    BY <1>3, <1>6, <1>7
<1>9. Best(h, fit) = l[CHOOSE k \in fit : First(k)]
    BY <1>1 DEF Best
<1> HIDE DEF First
<1>10. (CHOOSE k \in fit : First(k)) \in fit
    BY <1>6, <1>8
<1> QED
    BY <1>9, <1>10

\* What malloc chooses is in the list and large enough.
LEMMA ChosenFits ==
    ASSUME NEW h, NEW S, NEW l, Whole(h, S, l), NEW ints, NEW n,
           Fitting(h, ints, n) # {}
    PROVE  LET it == Best(h, Fitting(h, ints, n)) IN
           In(l, it) /\ Size(h, it) >= ints
<1>1. PICK fit : fit = Fitting(h, ints, n)
    OBVIOUS
<1>2. FreeList(h) = l /\ DOMAIN l = 1..Len(l)
    <2>1. FreeList(h) = l
        BY FreeListIs
    <2>2. l \in Seq(Free(h.a, S))
        BY DEF Whole, Listed
    <2> QED
        BY <2>1, <2>2
<1>3. \A k \in fit : k \in 1..Len(l) /\ Size(h, l[k]) >= ints
    BY <1>1, <1>2 DEF Fitting
<1>4. PICK k \in fit : Best(h, fit) = l[k]
    BY <1>1, <1>3, BestIn
<1> QED
    BY <1>1, <1>3, <1>4 DEF In

-----------------------------------------------------------------------------
(* What the walk over the sizes finds *)

\* The walk over the sizes, of no more than `most` blocks.
Steps(start, a, most) ==
    start = [k \in 1..most |->
                IF k = 1 THEN 0
                ELSE IF start[k - 1] >= len \/ a[start[k - 1]] = 0 THEN len
                ELSE start[k - 1] + Abs(a[start[k - 1]])]

\* There is such a walk.
LEMMA StepsExist ==
    ASSUME NEW a, NEW most \in Nat
    PROVE  \E f : Steps(f, a, most)
<1> DEFINE T == {x \in Nat : ~ \E f : Steps(f, a, x)}
<1>1. SUFFICES ASSUME most \in T
               PROVE  FALSE
    OBVIOUS
<1>2. PICK x \in T : \A y \in T : x <= y
    BY <1>1, LeastNumber
<1>3. x \in Nat
    OBVIOUS
<1>4. CASE x = 0
    <2>1. PICK f : f = [k \in 1..0 |-> 0]
        OBVIOUS
    <2>2. Steps(f, a, 0)
        BY <2>1 DEF Steps
    <2> QED
        BY <1>4, <2>2
<1>5. CASE x # 0
    <2>1. PICK y \in Nat : y = x - 1
        BY <1>3, <1>5
    <2>2. ~ (x <= y)
        BY <1>3, <2>1
    <2>3. y \notin T
        BY <1>2, <2>2
    <2>4. PICK g : Steps(g, a, y)
        BY <2>3
    <2> DEFINE Next1(i) == IF i >= len \/ a[i] = 0 THEN len ELSE i + Abs(a[i])
    <2>5. \A k \in 1..y : g[k] = IF k = 1 THEN 0 ELSE Next1(g[k - 1])
        BY <2>4 DEF Steps
    <2>6. PICK f : f = [k \in 1..x |-> IF k = 1 THEN 0 ELSE Next1(g[k - 1])]
        OBVIOUS
    <2> HIDE DEF Next1
    <2>7. ASSUME NEW k \in 1..y
          PROVE  f[k] = g[k]
        <3>1. k \in 1..x
            BY <1>3, <2>1
        <3> QED
            BY <2>5, <2>6, <3>1
    <2>8. ASSUME NEW k \in 1..x
          PROVE  f[k] = IF k = 1 THEN 0 ELSE Next1(f[k - 1])
        <3>1. k # 1 => k - 1 \in 1..y
            BY <1>3, <2>1
        <3>2. k # 1 => f[k - 1] = g[k - 1]
            BY <2>7, <3>1
        <3> QED
            BY <2>6, <3>2
    <2>9. f = [k \in 1..x |-> IF k = 1 THEN 0 ELSE Next1(f[k - 1])]
        BY <2>6, <2>8
    <2>10. Steps(f, a, x)
        BY <2>9 DEF Steps, Next1
    <2> QED
        BY <2>10
<1> QED
    BY <1>4, <1>5

\* It goes from header to header, by two words or more each time.
LEMMA StepsInside ==
    ASSUME NEW a \in Arrays, NEW S, Cut(a, S), NEW most \in Nat, NEW start,
           Steps(start, a, most)
    PROVE  /\ \A k \in 1..most : start[k] = len \/ (start[k] \in S /\ start[k] >= 2 * (k - 1))
           /\ \A k \in 1..most : k # 1 /\ start[k - 1] \in S => start[k] = Past(a, start[k - 1])
<1> DEFINE Fine(k) == start[k] = len \/ (start[k] \in S /\ start[k] >= 2 * (k - 1))
<1>1. ASSUME NEW k \in 1..most, k # 1, start[k - 1] \in S
      PROVE  start[k] = Past(a, start[k - 1])
    <2>1. PICK i : i = start[k - 1]
        OBVIOUS
    <2>2. i \in Index /\ a[i] # 0
        BY <1>1, <2>1 DEF Cut
    <2>3. ~ (i >= len)
        BY <2>2, HeapAssumption DEF Index
    <2>4. start[k] = IF start[k - 1] >= len \/ a[start[k - 1]] = 0 THEN len
                     ELSE start[k - 1] + Abs(a[start[k - 1]])
        BY <1>1 DEF Steps
    <2> QED
        BY <2>1, <2>2, <2>3, <2>4 DEF Past
<1>2. PICK T : T = {k \in 1..most : ~ Fine(k)}
    OBVIOUS
<1>3. ASSUME T # {}
      PROVE  FALSE
    <2>1. T \subseteq Nat
        BY <1>2
    <2>2. PICK k \in T : \A y \in T : k <= y
        BY <1>3, <2>1, LeastNumber
    <2>3. k \in 1..most /\ ~ Fine(k) /\ k \in Nat
        BY <1>2, <2>2
    <2>4. k # 1
        <3>1. CASE k = 1
            <4>1. start[1] = 0
                BY <2>3, <3>1 DEF Steps
            <4>2. 0 \in S
                BY DEF Cut
            <4> QED
                BY <2>3, <3>1, <4>1, <4>2
        <3> QED
            BY <3>1
    <2>5. PICK j \in Nat : j = k - 1
        BY <2>3
    <2>6. j \in 1..most /\ j + 1 = k /\ ~ (k <= j)
        BY <2>3, <2>4, <2>5
    <2>7. Fine(j)
        BY <1>2, <2>2, <2>6
    <2>8. CASE start[j] = len
        <3>1. len >= len
            BY HeapAssumption
        <3>2. start[k] = len
            BY <2>3, <2>4, <2>5, <2>8, <3>1 DEF Steps
        <3> QED
            BY <2>3, <3>2
    <2>9. CASE start[j] \in S /\ start[j] >= 2 * (j - 1)
        <3>1. PICK i \in S : i = start[j]
            BY <2>9
        <3>2. start[k] = Past(a, i)
            BY <1>1, <2>3, <2>4, <2>5, <2>9, <3>1
        <3>3. /\ i \in Nat /\ Past(a, i) \in Nat /\ i + 2 <= Past(a, i)
            BY BlockBounds
        <3>4. Past(a, i) \in S \union {len}
            BY DEF Cut
        <3>5. Past(a, i) >= 2 * (k - 1)
            BY <2>5, <2>6, <2>9, <3>1, <3>3
        <3> QED
            BY <2>3, <3>2, <3>4, <3>5
    <2> QED
        BY <2>7, <2>8, <2>9
<1>4. \A k \in 1..most : Fine(k)
    BY <1>2, <1>3
<1> QED
    BY <1>1, <1>4

\* It finds every block.
LEMMA StepsAll ==
    ASSUME NEW a \in Arrays, NEW S, Cut(a, S), NEW start, Steps(start, a, len \div 2)
    PROVE  {start[k] : k \in 1..(len \div 2)} \ {len} = S
<1>1. len \in Nat /\ len >= 8
    BY HeapAssumption
<1>2. PICK most \in Nat : most = len \div 2 /\ most >= 4 /\ 2 * most >= len - 1
    BY <1>1
<1>3. Steps(start, a, most)
    BY <1>2
<1>4. /\ \A k \in 1..most : start[k] = len \/ (start[k] \in S /\ start[k] >= 2 * (k - 1))
      /\ \A k \in 1..most : k # 1 /\ start[k - 1] \in S => start[k] = Past(a, start[k - 1])
    BY <1>3, StepsInside
<1>5. \A s \in S : s \in Nat /\ s <= len - 2
    <2>1. ASSUME NEW s \in S
          PROVE  s \in Nat /\ s <= len - 2
        <3>1. s \in Nat /\ Past(a, s) \in Nat /\ s + 2 <= Past(a, s) /\ Past(a, s) <= len
            BY BlockBounds
        <3> QED
            BY <1>1, <3>1
    <2> QED
        BY <2>1
<1>6. PICK T : T = {s \in S : \A k \in 1..most : start[k] # s}
    OBVIOUS
<1>7. ASSUME T # {}
      PROVE  FALSE
    <2>1. T \subseteq Nat
        BY <1>5, <1>6
    <2>2. PICK s \in T : \A y \in T : s <= y
        BY <1>7, <2>1, LeastNumber
    <2>3. s \in S /\ \A k \in 1..most : start[k] # s
        BY <1>6, <2>2
    <2>4. s # 0
        <3>1. 1 \in 1..most
            BY <1>2
        <3>2. start[1] = 0
            BY <1>3, <3>1 DEF Steps
        <3> QED
            BY <2>3, <3>1, <3>2
    <2>5. PICK p \in S : p < s /\ Past(a, p) = s
        BY <2>3, <2>4, HasLeft
    <2>6. p \notin T
        BY <1>5, <2>2, <2>3, <2>5
    <2>7. PICK k \in 1..most : start[k] = p
        BY <1>6, <2>6
    <2>8. CASE k = most
        <3>1. p \in Nat /\ s \in Nat /\ p + 2 <= s /\ s <= len - 2
            BY <1>5, <2>3, <2>5, BlockBounds
        <3>2. p # len
            BY <1>1, <1>5
        <3>3. p >= 2 * (most - 1)
            BY <1>4, <2>7, <2>8, <3>2
        <3> QED
            BY <1>1, <1>2, <3>1, <3>3
    <2>9. CASE k # most
        <3>1. PICK j : j = k + 1
            OBVIOUS
        <3>2. j \in 1..most /\ j # 1 /\ j - 1 = k
            BY <1>2, <2>9, <3>1
        <3>3. start[j] = Past(a, start[j - 1])
            BY <1>4, <2>7, <3>2
        <3> QED
            BY <2>3, <2>5, <2>7, <3>2, <3>3
    <2> QED
        BY <2>8, <2>9
<1>8. \A s \in S : s # len /\ \E k \in 1..most : start[k] = s
    BY <1>1, <1>5, <1>6, <1>7
<1>9. \A k \in 1..most : start[k] = len \/ start[k] \in S
    BY <1>4
<1> QED
    BY <1>2, <1>8, <1>9


\* So the blocks are the ones of the cut.
LEMMA BlocksAre ==
    ASSUME NEW S, array \in Arrays, Cut(array, S)
    PROVE  Blocks = S
<1>1. len \div 2 \in Nat
    BY HeapAssumption
<1>2. PICK most, a : most \in Nat /\ most = len \div 2 /\ a = array
    BY <1>1
<1> DEFINE f == CHOOSE g : Steps(g, a, most)
           start == CHOOSE g : g = [k \in 1..(len \div 2) |->
                        IF k = 1 THEN 0
                        ELSE IF g[k - 1] >= len \/ array[g[k - 1]] = 0 THEN len
                        ELSE g[k - 1] + Abs(array[g[k - 1]])]
<1>3. Steps(f, a, most)
    <2>1. \E g : Steps(g, a, most)
        BY <1>2, StepsExist
    <2> QED
        BY <2>1
<1>4. Blocks = {start[k] : k \in 1..(len \div 2)} \ {len}
    BY DEF Blocks, Right, Size, State
<1>5. start = f
    BY <1>2 DEF Steps
<1> HIDE DEF start, f
<1>6. {f[k] : k \in 1..(len \div 2)} \ {len} = S
    <2>1. a \in Arrays /\ Cut(a, S) /\ Steps(f, a, len \div 2)
        BY <1>2, <1>3
    <2> QED
        BY <2>1, StepsAll
<1> QED
    BY <1>4, <1>5, <1>6

\* The words of a request.
Words(bytes) == (bytes + 3) \div 4

\* Block i is taken, large enough, and holds what its owner has written.
Owns(a, S, i, bytes) ==
    /\ i \in Inner(S) /\ a[i] < 0
    /\ bytes \in Nat /\ Words(bytes) + 2 <= Abs(a[i])
    /\ \A k \in 1..Words(bytes) : a[i + k] = k

\* The inductive invariant: a cut of the words into blocks and a list of the
\* available ones that the tags and the links describe.
HeapInv ==
    \E S, l : /\ Whole(State, S, l)
              /\ \A i \in DOMAIN owned : Owns(array, S, i, owned[i])

\* Words for the payload are enough for the bytes.
LEMMA WordsEnough ==
    ASSUME NEW b \in Nat
    PROVE  Words(b) \in Nat /\ 4 * Words(b) >= b
BY DEF Words

\* What Whole says of the state.
LEMMA SoundState ==
    ASSUME NEW S, NEW l, Whole(State, S, l)
    PROVE  /\ State.a = array /\ State.avail = avail /\ array \in Arrays /\ Cut(array, S)
           /\ l \in Seq(Free(array, S)) /\ Once(l) /\ Links(array, avail, l)
           /\ Coalesced(array, S) /\ \A f \in Free(array, S) : In(l, f)
           /\ Blocks = S /\ FreeList(State) = l
           /\ \A s \in S : Right(State, s) = Past(array, s)
<1>1. State.a = array /\ State.avail = avail
    BY DEF State
<1>2. /\ array \in Arrays /\ Cut(array, S)
      /\ l \in Seq(Free(array, S)) /\ Once(l) /\ Links(array, avail, l)
      /\ Coalesced(array, S) /\ \A f \in Free(array, S) : In(l, f)
    BY <1>1 DEF Whole, Listed, Heaps
<1>3. Blocks = S
    BY <1>2, BlocksAre
<1>4. FreeList(State) = l
    BY FreeListIs
<1>5. \A s \in S : Right(State, s) = Past(array, s)
    BY <1>1 DEF Right, Size, Past
<1> QED
    BY <1>1, <1>2, <1>3, <1>4, <1>5

\* Tiled is the cut.
LEMMA InvTiled == HeapInv => Tiled
<1> SUFFICES ASSUME HeapInv PROVE Tiled
    OBVIOUS
<1>1. PICK S, l : Whole(State, S, l)
    BY DEF HeapInv
<1>2. /\ State.a = array /\ array \in Arrays /\ Cut(array, S) /\ Coalesced(array, S)
      /\ Blocks = S /\ \A s \in S : Right(State, s) = Past(array, s)
    BY <1>1, SoundState
<1>3. ASSUME NEW i \in S
      PROVE  /\ Right(State, i) \in S \union {len} /\ array[i] # 0
             /\ array[i] = array[Right(State, i) - 1]
    BY <1>2 DEF Cut
<1>4. {0, len - 2} \subseteq S
    BY <1>2 DEF Cut
<1>5. ASSUME NEW i \in S, IsAvail(State, i)
      PROVE  ~IsAvail(State, Right(State, i))
    <2>1. i \in Free(array, S)
        BY <1>2, <1>5 DEF IsAvail, Free
    <2>2. i \in Inner(S)
        BY <1>2, <2>1, FreeInner
    <2>3. Past(array, i) \in S
        BY <1>2, <2>2, InnerBounds
    <2>4. Past(array, i) \notin Free(array, S)
        BY <1>2, <2>1 DEF Coalesced
    <2>5. ~ (array[Past(array, i)] > 0)
        BY <2>3, <2>4 DEF Free
    <2> QED
        BY <1>2, <2>5 DEF IsAvail
<1> QED
    BY <1>2, <1>3, <1>4, <1>5 DEF Tiled

\* FreeListExact is the list.
LEMMA InvFreeListExact == HeapInv => FreeListExact
<1> SUFFICES ASSUME HeapInv PROVE FreeListExact
    OBVIOUS
<1>1. PICK S, l : Whole(State, S, l)
    BY DEF HeapInv
<1>2. /\ State.a = array /\ array \in Arrays /\ Cut(array, S)
      /\ l \in Seq(Free(array, S)) /\ Once(l) /\ Links(array, avail, l)
      /\ \A f \in Free(array, S) : In(l, f)
      /\ Blocks = S /\ FreeList(State) = l
    BY <1>1, SoundState
<1>3. DOMAIN l = 1..Len(l) /\ Len(l) \in Nat
    BY <1>2
<1>4. \A i \in S : IsAvail(State, i) <=> i \in Free(array, S)
    BY <1>2 DEF IsAvail, Free
<1>5. ToSet(l) = {i \in S : IsAvail(State, i)}
    <2>1. ToSet(l) = {l[k] : k \in 1..Len(l)}
        BY <1>3 DEF ToSet
    <2>2. \A k \in 1..Len(l) : l[k] \in Free(array, S) /\ l[k] \in S
        BY <1>2 DEF Free
    <2>3. \A i \in Free(array, S) : \E k \in 1..Len(l) : l[k] = i
        BY <1>2 DEF In
    <2> QED
        BY <1>4, <2>1, <2>2, <2>3
<1>6. IsInjective(l)
    BY <1>2, <1>3 DEF Once, IsInjective
<1>7. ASSUME NEW k \in 1..Len(l)
      PROVE  array[l[k] + 2] = IF k = 1 THEN 0 ELSE l[k - 1]
    <2>1. array[l[k] + 2] = Nth(l, k - 1)
        BY <1>2 DEF Links
    <2>2. k - 1 \in 1..Len(l) <=> k # 1
        BY <1>3
    <2> QED
        BY <2>1, <2>2 DEF Nth
<1> QED
    BY <1>2, <1>3, <1>5, <1>6, <1>7 DEF FreeListExact

\* OwnedIntact is what the owners have.
LEMMA InvOwnedIntact == HeapInv => OwnedIntact
<1> SUFFICES ASSUME HeapInv PROVE OwnedIntact
    OBVIOUS
<1>1. PICK S, l : /\ Whole(State, S, l)
                  /\ \A i \in DOMAIN owned : Owns(array, S, i, owned[i])
    BY DEF HeapInv
<1>2. State.a = array /\ array \in Arrays /\ Cut(array, S) /\ Blocks = S
    BY <1>1, SoundState
<1>3. ASSUME NEW i \in DOMAIN owned
      PROVE  /\ i \in Blocks \ {0, len - 2} /\ ~IsAvail(State, i)
             /\ 4 * (Size(State, i) - 2) >= owned[i]
             /\ \A k \in 1..((owned[i] + 3) \div 4) : array[i + k] = k
    <2>1. /\ i \in Inner(S) /\ array[i] < 0 /\ owned[i] \in Nat
          /\ Words(owned[i]) + 2 <= Abs(array[i])
          /\ \A k \in 1..Words(owned[i]) : array[i + k] = k
        BY <1>1 DEF Owns
    <2>2. i \in S /\ array[i] \in Int /\ Abs(array[i]) \in Nat
        BY <1>2, <2>1, BlockBounds DEF Inner
    <2>3. PICK b \in Nat, w \in Nat, x \in Nat :
                b = owned[i] /\ w = Words(owned[i]) /\ x = Abs(array[i])
        BY <2>1, <2>2, WordsEnough
    <2>4. 4 * w >= b
        BY <2>3, WordsEnough
    <2>5. 4 * (x - 2) >= b
        BY <2>1, <2>3, <2>4
    <2>6. Size(State, i) = x
        BY <1>2, <2>3 DEF Size
    <2>7. ~IsAvail(State, i)
        BY <1>2, <2>1, <2>2 DEF IsAvail
    <2> QED
        BY <1>2, <2>1, <2>3, <2>5, <2>6, <2>7 DEF Inner, Words
<1> QED
    BY <1>3 DEF OwnedIntact


-----------------------------------------------------------------------------
(* The operations *)

\* What the callers ask for, in words.
LEMMA IntsEnough ==
    ASSUME NEW bytes \in Requests
    PROVE  /\ bytes \in Nat /\ Ints(bytes) \in Nat /\ Ints(bytes) >= 4
           /\ Words(bytes) \in Nat /\ Words(bytes) + 2 <= Ints(bytes)
<1>1. bytes \in Nat /\ Word \in Nat /\ bytes <= Word - 4
    BY HeapAssumption
<1>2. (bytes + 3) % Word = bytes + 3
    <2>1. PICK x \in Nat : x = bytes + 3
        BY <1>1
    <2>2. x < Word
        BY <1>1, <2>1
    <2>3. x % Word = x
        BY <1>1, <2>2
    <2> QED
        BY <2>1, <2>3
<1>3. Ints(bytes) = IF Words(bytes) + 2 < 4 THEN 4 ELSE Words(bytes) + 2
    BY <1>2 DEF Ints, Words
<1>4. Words(bytes) \in Nat
    BY <1>1, WordsEnough
<1> QED
    BY <1>1, <1>3, <1>4

\* An owner whose block is kept.
LEMMA OwnsKept ==
    ASSUME NEW a \in Arrays, NEW S, Cut(a, S), NEW i, NEW b, Owns(a, S, i, b),
           NEW c, NEW T, i \in T, Keeps(a, c, i)
    PROVE  Owns(c, T, i, b) /\ i \in S /\ i \notin Free(a, S)
<1>1. /\ i \in Inner(S) /\ a[i] < 0 /\ b \in Nat /\ Words(b) + 2 <= Abs(a[i])
      /\ \A k \in 1..Words(b) : a[i + k] = k
    BY DEF Owns
<1>2. i \in S
    BY <1>1 DEF Inner
<1>3. /\ i \in Nat /\ a[i] \in Int /\ Abs(a[i]) \in Nat /\ Past(a, i) = i + Abs(a[i])
      /\ Past(a, i) \in Nat
    BY <1>2, BlockBounds
<1>4. PICK w \in Nat : w = Words(b)
    BY <1>1, WordsEnough
<1>5. i \in i..(Past(a, i) - 1) /\ \A k \in 1..w : i + k \in i..(Past(a, i) - 1)
    BY <1>1, <1>3, <1>4
<1>6. c[i] = a[i] /\ \A k \in 1..w : c[i + k] = a[i + k]
    BY <1>5 DEF Keeps
<1>7. i \in Inner(T)
    BY <1>1 DEF Inner
<1>8. i \notin Free(a, S)
    BY <1>1, <1>3 DEF Free
<1> QED
    BY <1>1, <1>2, <1>4, <1>6, <1>7, <1>8 DEF Owns

\* The words and the head of the list after an operation.
LEMMA Updated ==
    ASSUME NEW h, NEW S, NEW l, Whole(h, S, l), Update(h)
    PROVE  State' = h /\ array' = h.a
<1>1. h \in [a : Arrays, avail : Nat]
    BY DEF Whole, Listed, Heaps
<1>2. h = [a |-> h.a, avail |-> h.avail]
    BY <1>1
<1>3. array' = h.a /\ avail' = h.avail
    BY DEF Update
<1>4. State' = [a |-> array', avail |-> avail']
    BY DEF State
<1> QED
    BY <1>2, <1>3, <1>4

\* A block that malloc has just cut out.
LEMMA NewBlock ==
    ASSUME NEW S, NEW l, Whole(State, S, l), NEW bytes \in Requests, NEW n,
           Fitting(State, Ints(bytes), n) # {}
    PROVE  LET it == Best(State, Fitting(State, Ints(bytes), n))
               v == Carve(State, it, Ints(bytes))
           IN  /\ it \in Free(array, S)
               /\ \E T, m : /\ Whole(v, T, m) /\ S \subseteq T /\ it \in Inner(T)
                            /\ v.a[it] < 0 /\ Abs(v.a[it]) >= Ints(bytes)
                            /\ \A s \in S : s \notin Free(array, S) => Keeps(array, v.a, s)
<1>1. PICK it, ints : /\ it = Best(State, Fitting(State, Ints(bytes), n))
                      /\ ints = Ints(bytes)
    OBVIOUS
<1>2. In(l, it) /\ Size(State, it) >= ints
    BY <1>1, ChosenFits
<1>3. ints \in Nat /\ ints >= 4
    BY <1>1, IntsEnough
<1>4. State.a = array /\ l \in Seq(Free(array, S))
    BY SoundState
<1>5. PICK h : h = State
    OBVIOUS
<1>6. LET v == Carve(h, it, ints) IN
      \E T, m : /\ Whole(v, T, m) /\ S \subseteq T /\ it \in Inner(T)
                /\ v.a[it] < 0 /\ Abs(v.a[it]) >= ints
                /\ \A s \in S : s \notin Free(h.a, S) => Keeps(h.a, v.a, s)
    BY <1>2, <1>3, <1>5, CarveSound
<1>7. it \in Free(array, S)
    BY <1>2, <1>4 DEF In
<1> QED
    BY <1>1, <1>4, <1>5, <1>6, <1>7

\* malloc
LEMMA MallocKeeps ==
    ASSUME HeapInv, NEW bytes \in Requests, NEW n, Malloc(bytes, n)
    PROVE  HeapInv'
<1>1. PICK S, l : /\ Whole(State, S, l)
                  /\ \A i \in DOMAIN owned : Owns(array, S, i, owned[i])
    BY DEF HeapInv
<1>2. array \in Arrays /\ Cut(array, S)
    BY <1>1, SoundState
<1>3. PICK it, v, ints : /\ it = Best(State, Fitting(State, Ints(bytes), n))
                         /\ v = Carve(State, it, Ints(bytes)) /\ ints = Ints(bytes)
    OBVIOUS
<1>4. /\ Fitting(State, Ints(bytes), n) # {} /\ Update(Fill(v, it, 1))
      /\ owned' = [i \in DOMAIN owned \union {it} |-> IF i = it THEN bytes ELSE owned[i]]
    BY <1>3 DEF Malloc
<1>5. it \in Free(array, S)
    BY <1>1, <1>3, <1>4, NewBlock
<1>6. PICK T, m : /\ Whole(v, T, m) /\ S \subseteq T /\ it \in Inner(T)
                  /\ v.a[it] < 0 /\ Abs(v.a[it]) >= ints
                  /\ \A s \in S : s \notin Free(array, S) => Keeps(array, v.a, s)
    BY <1>1, <1>3, <1>4, NewBlock
<1>7. PICK f : f = Fill(v, it, 1)
    OBVIOUS
<1>8. /\ Whole(f, T, m) /\ f.a[it] = v.a[it]
      /\ \A s \in T : s # it => Keeps(v.a, f.a, s)
      /\ \A w \in Index :
            f.a[w] = IF w >= it + 1 /\ w < Past(v.a, it) - 1 THEN w - it ELSE v.a[w]
    BY <1>6, <1>7, FillSound
<1>9. State' = f /\ array' = f.a
    BY <1>4, <1>7, <1>8, Updated
<1>10. ASSUME NEW i \in DOMAIN owned
       PROVE  i # it /\ Owns(f.a, T, i, owned[i])
    <2>1. Owns(array, S, i, owned[i])
        BY <1>1
    <2>2. i \in S /\ i \notin Free(array, S)
        <3>1. Keeps(array, array, i)
            BY DEF Keeps
        <3>2. i \in S
            BY <2>1 DEF Owns, Inner
        <3> QED
            BY <1>2, <2>1, <3>1, <3>2, OwnsKept
    <2>3. i # it /\ i \in T /\ Keeps(array, v.a, i)
        BY <1>5, <1>6, <2>2
    <2>4. Keeps(v.a, f.a, i)
        BY <1>8, <2>3
    <2>5. v.a[i] = array[i]
        <3>1. i \in i..(Past(array, i) - 1)
            BY <1>2, <2>2, TagsInside
        <3> QED
            BY <2>3, <3>1 DEF Keeps
    <2>6. Keeps(array, f.a, i)
        BY <2>3, <2>4, <2>5, KeepsTwice
    <2> QED
        BY <1>2, <2>1, <2>3, <2>6, OwnsKept
<1>11. Owns(f.a, T, it, bytes)
    <2>1. /\ bytes \in Nat /\ ints \in Nat /\ Words(bytes) \in Nat /\ Words(bytes) + 2 <= ints
        BY <1>3, IntsEnough
    <2>2. /\ it \in Nat /\ Past(v.a, it) \in Nat /\ Past(v.a, it) = it + Abs(v.a[it])
          /\ Abs(v.a[it]) \in Nat /\ Past(v.a, it) <= len - 2
        BY <1>6, TakenBlock
    <2>3. ASSUME NEW k \in 1..Words(bytes)
          PROVE  f.a[it + k] = k
        <3>1. PICK w : w = it + k
            OBVIOUS
        <3>2. w \in Index /\ w >= it + 1 /\ w < Past(v.a, it) - 1 /\ w - it = k
            BY <1>6, <2>1, <2>2, <3>1, HeapAssumption DEF Index
        <3> QED
            BY <1>8, <3>1, <3>2
    <2>4. Words(bytes) + 2 <= Abs(v.a[it])
        BY <1>6, <2>1, <2>2
    <2> QED
        BY <1>6, <1>8, <2>1, <2>3, <2>4 DEF Owns
<1>12. \A i \in DOMAIN owned' : Owns(array', T, i, owned'[i])
    BY <1>4, <1>9, <1>10, <1>11
<1>13. Whole(State', T, m)
    BY <1>8, <1>9
<1> QED
    BY <1>12, <1>13 DEF HeapInv

\* free
LEMMA FreeKeeps ==
    ASSUME HeapInv, NEW i, FreeBlock(i)
    PROVE  HeapInv'
<1>1. PICK S, l : /\ Whole(State, S, l)
                  /\ \A j \in DOMAIN owned : Owns(array, S, j, owned[j])
    BY DEF HeapInv
<1>2. array \in Arrays /\ Cut(array, S) /\ State.a = array
    BY <1>1, SoundState
<1>3. /\ i \in DOMAIN owned /\ Update(Forget(Merge(State, i)))
      /\ owned' = [j \in DOMAIN owned \ {i} |-> owned[j]]
    BY DEF FreeBlock, Without
<1>4. PICK h, v : h = State /\ v = Forget(Merge(h, i))
    OBVIOUS
<1>5. Whole(h, S, l) /\ i \in Inner(S) /\ h.a[i] < 0
    BY <1>1, <1>2, <1>3, <1>4 DEF Owns
<1>6. PICK T, m : /\ Whole(v, T, m)
                  /\ \A s \in S : s # i /\ s \notin Free(h.a, S) =>
                        s \in T /\ Keeps(h.a, v.a, s)
    BY <1>4, <1>5, FreeSound
<1>7. State' = v /\ array' = v.a
    BY <1>3, <1>4, <1>6, Updated
<1>8. ASSUME NEW j \in DOMAIN owned, j # i
      PROVE  Owns(v.a, T, j, owned[j])
    <2>1. Owns(array, S, j, owned[j])
        BY <1>1
    <2>2. j \in S /\ j \notin Free(array, S)
        <3>1. Keeps(array, array, j)
            BY DEF Keeps
        <3>2. j \in S
            BY <2>1 DEF Owns, Inner
        <3> QED
            BY <1>2, <2>1, <3>1, <3>2, OwnsKept
    <2>3. j \in T /\ Keeps(array, v.a, j)
        BY <1>2, <1>4, <1>6, <1>8, <2>2
    <2> QED
        BY <1>2, <2>1, <2>3, OwnsKept
<1>9. \A j \in DOMAIN owned' : Owns(array', T, j, owned'[j])
    BY <1>3, <1>7, <1>8
<1>10. Whole(State', T, m)
    BY <1>6, <1>7
<1> QED
    BY <1>9, <1>10 DEF HeapInv


\* The owners of the blocks that are kept.
LEMMA OwnersKept ==
    ASSUME NEW h, NEW S, NEW l, Whole(h, S, l), NEW x, NEW c, NEW T,
           \A s \in S : s # x /\ s \notin Free(h.a, S) => s \in T /\ Keeps(h.a, c, s)
    PROVE  \A j, b : j # x /\ Owns(h.a, S, j, b) => Owns(c, T, j, b)
<1>1. h.a \in Arrays /\ Cut(h.a, S)
    BY DEF Whole, Listed, Heaps
<1>2. ASSUME NEW j, NEW b, j # x, Owns(h.a, S, j, b)
      PROVE  Owns(c, T, j, b)
    <2>1. j \in S /\ Keeps(h.a, h.a, j)
        BY <1>2 DEF Owns, Inner, Keeps
    <2>2. j \notin Free(h.a, S)
        BY <1>1, <1>2, <2>1, OwnsKept
    <2>3. j \in T /\ Keeps(h.a, c, j)
        BY <1>2, <2>1, <2>2
    <2> QED
        BY <1>1, <1>2, <2>3, OwnsKept
<1> QED
    BY <1>2

\* What realloc copies: no more than the new block holds, and all that the
\* old one holds of it.
LEMMA KeptWords ==
    ASSUME NEW bytes \in Nat, NEW x \in Nat, NEW z \in Nat,
           z = IF bytes > 4 * x THEN 4 * x ELSE bytes
    PROVE  /\ Words(z) \in Nat /\ Words(z) <= Words(bytes) /\ Words(z) <= x
           /\ \A k \in 1..Words(bytes) : k <= x => k <= Words(z)
<1>1. CASE bytes > 4 * x
    <2>1. z = 4 * x
        BY <1>1
    <2>2. Words(z) = x
        BY <2>1 DEF Words
    <2>3. Words(bytes) \in Nat /\ x <= Words(bytes)
        BY <1>1 DEF Words
    <2> QED
        BY <2>2, <2>3
<1>2. CASE ~ (bytes > 4 * x)
    <2>1. z = bytes /\ bytes <= 4 * x
        BY <1>2
    <2>2. Words(bytes) \in Nat /\ Words(bytes) <= x
        BY <2>1 DEF Words
    <2> QED
        BY <2>1, <2>2
<1> QED
    BY <1>1, <1>2

\* realloc's new block, with the bytes of the old one.
LEMMA ReallocFills ==
    ASSUME NEW h, NEW T, NEW m, Whole(h, T, m), NEW i, NEW b \in Nat, Owns(h.a, T, i, b),
           NEW it \in Inner(T), it # i, h.a[it] < 0,
           NEW bytes \in Nat, Words(bytes) + 2 <= Abs(h.a[it]),
           NEW z \in Nat, z = IF bytes > 4 * Abs(h.a[i]) THEN 4 * Abs(h.a[i]) ELSE bytes
    PROVE  LET f == Fill(Copied(h, i, it, z), it, Words(b) + 1) IN
           /\ Whole(f, T, m) /\ Owns(f.a, T, it, bytes)
           /\ \A j, c : j # it /\ Owns(h.a, T, j, c) => Owns(f.a, T, j, c)
<1>1. PICK c, f, from : /\ c = Copied(h, i, it, z) /\ from = Words(b) + 1
                        /\ f = Fill(c, it, from)
    OBVIOUS
<1>2. /\ i \in Inner(T) /\ h.a[i] < 0 /\ Words(b) + 2 <= Abs(h.a[i])
      /\ \A k \in 1..Words(b) : h.a[i + k] = k
    BY DEF Owns
<1>3. /\ it \in T /\ it \in Nat /\ Past(h.a, it) \in Nat /\ Abs(h.a[it]) \in Nat
      /\ Past(h.a, it) = it + Abs(h.a[it]) /\ Past(h.a, it) <= len - 2
    BY TakenBlock
<1>4. i \in T /\ Abs(h.a[i]) \in Nat
    BY <1>2, TakenBlock
<1>5. /\ Words(b) \in Nat /\ Words(bytes) \in Nat
    BY WordsEnough
<1>6. PICK n \in Nat, x \in Nat, y \in Nat, w \in Nat, u \in Nat :
            /\ n = Words(z) /\ x = Abs(h.a[i]) /\ y = Abs(h.a[it])
            /\ w = Words(bytes) /\ u = Words(b)
    BY <1>3, <1>4, <1>5, WordsEnough
<1>7. n <= w /\ n <= x /\ \A k \in 1..w : k <= x => k <= n
    <2>1. z = IF bytes > 4 * x THEN 4 * x ELSE bytes
        BY <1>6
    <2> QED
        BY <1>6, <2>1, KeptWords
<1>8. n <= y - 2 /\ u <= x - 2 /\ w <= y - 2
    BY <1>2, <1>6, <1>7
<1>9. /\ Whole(c, T, m) /\ c.a[it] = h.a[it]
      /\ \A s \in T : s # it => Keeps(h.a, c.a, s)
      /\ \A k \in 1..n : c.a[it + k] = h.a[i + k]
    <2>1. n = (z + 3) \div 4
        BY <1>6 DEF Words
    <2>2. n <= Abs(h.a[it]) - 2 /\ n <= Abs(h.a[i])
        BY <1>6, <1>7, <1>8
    <2> QED
        BY <1>1, <1>2, <2>1, <2>2, CopySound
<1>10. from \in Nat /\ from >= 1 /\ from = u + 1
    BY <1>1, <1>6
<1>11. /\ Whole(f, T, m) /\ f.a[it] = c.a[it]
       /\ \A s \in T : s # it => Keeps(c.a, f.a, s)
       /\ \A q \in Index :
            f.a[q] = IF q >= it + from /\ q < Past(c.a, it) - 1 THEN q - it ELSE c.a[q]
    <2>1. c.a[it] < 0
        BY <1>9
    <2> QED
        BY <1>1, <1>9, <1>10, <2>1, FillSound
<1>12. Past(c.a, it) = it + y
    BY <1>6, <1>9 DEF Past
<1>13. ASSUME NEW k \in 1..w
       PROVE  f.a[it + k] = k
    <2>1. PICK q \in Nat : q = it + k
        BY <1>3
    <2>2. q \in Index /\ q - it = k /\ q < (it + y) - 1
        BY <1>3, <1>6, <1>8, <2>1, HeapAssumption DEF Index
    <2>3. CASE k >= from
        <3>1. q >= it + from
            BY <1>3, <1>10, <2>1, <2>3
        <3> QED
            BY <1>11, <1>12, <2>1, <2>2, <3>1
    <2>4. CASE ~ (k >= from)
        <3>1. ~ (q >= it + from) /\ k \in 1..u /\ k <= x
            BY <1>3, <1>8, <1>10, <2>1, <2>4
        <3>2. k \in 1..n
            BY <1>7, <3>1
        <3>3. c.a[it + k] = h.a[i + k] /\ h.a[i + k] = k
            BY <1>2, <1>6, <1>9, <3>1, <3>2
        <3>4. f.a[q] = c.a[q]
            BY <1>11, <2>2, <3>1
        <3> QED
            BY <2>1, <3>3, <3>4
    <2> QED
        BY <2>3, <2>4
<1>14. Owns(f.a, T, it, bytes)
    BY <1>6, <1>9, <1>11, <1>13 DEF Owns
<1>15. \A j, d : j # it /\ Owns(h.a, T, j, d) => Owns(c.a, T, j, d)
    BY <1>9, OwnersKept
<1>16. \A j, d : j # it /\ Owns(c.a, T, j, d) => Owns(f.a, T, j, d)
    BY <1>9, <1>11, OwnersKept
<1> QED
    BY <1>1, <1>11, <1>14, <1>15, <1>16

\* realloc
LEMMA ReallocKeeps ==
    ASSUME HeapInv, NEW i \in DOMAIN owned, NEW bytes \in Requests, Realloc(i, bytes)
    PROVE  HeapInv'
<1>1. PICK S, l : /\ Whole(State, S, l)
                  /\ \A j \in DOMAIN owned : Owns(array, S, j, owned[j])
    BY DEF HeapInv
<1>2. array \in Arrays /\ Cut(array, S) /\ State.a = array
    BY <1>1, SoundState
<1>3. PICK it, v, z : /\ it = Best(State, Fitting(State, Ints(bytes), 1))
                      /\ v = Carve(State, it, Ints(bytes)) /\ z = Kept(i, bytes)
    OBVIOUS
<1>4. PICK f, g : /\ f = Fill(Copied(v, i, it, z), it, Words(owned[i]) + 1)
                  /\ g = Forget(Merge(f, i))
    OBVIOUS
<1>5. /\ Fitting(State, Ints(bytes), 1) # {} /\ Update(g)
      /\ owned' = [j \in (DOMAIN owned \ {i}) \union {it} |->
                        IF j = it THEN bytes ELSE owned[j]]
    BY <1>3, <1>4 DEF Realloc, Replaced, Unwritten, Words
<1>6. it \in Free(array, S)
    BY <1>1, <1>3, <1>5, NewBlock
<1>7. PICK T, m : /\ Whole(v, T, m) /\ S \subseteq T /\ it \in Inner(T)
                  /\ v.a[it] < 0 /\ Abs(v.a[it]) >= Ints(bytes)
                  /\ \A s \in S : s \notin Free(array, S) => Keeps(array, v.a, s)
    BY <1>1, <1>3, <1>5, NewBlock
<1>8. \A j, c : j # it /\ Owns(array, S, j, c) => Owns(v.a, T, j, c)
    <2>1. PICK h : h = State
        OBVIOUS
    <2>2. \A j, c : j # it /\ Owns(h.a, S, j, c) => Owns(v.a, T, j, c)
        <3>1. Whole(h, S, l)
            BY <1>1, <2>1
        <3>2. \A s \in S : s # it /\ s \notin Free(h.a, S) => s \in T /\ Keeps(h.a, v.a, s)
            BY <1>2, <1>7, <2>1
        <3> QED
            BY <3>1, <3>2, OwnersKept
    <2> QED
        BY <1>2, <2>1, <2>2
<1>9. ASSUME NEW j \in DOMAIN owned
      PROVE  j # it /\ Owns(v.a, T, j, owned[j])
    <2>1. Owns(array, S, j, owned[j])
        BY <1>1
    <2>2. j \in S /\ Keeps(array, array, j)
        BY <2>1 DEF Owns, Inner, Keeps
    <2>3. j \notin Free(array, S)
        BY <1>2, <2>1, <2>2, OwnsKept
    <2> QED
        BY <1>6, <1>8, <2>1, <2>3
<1>10. v.a[i] = array[i]
    <2>1. Owns(array, S, i, owned[i])
        BY <1>1
    <2>2. i \in S /\ Keeps(array, array, i)
        BY <2>1 DEF Owns, Inner, Keeps
    <2>3. i \notin Free(array, S)
        BY <1>2, <2>1, <2>2, OwnsKept
    <2>4. i \in i..(Past(array, i) - 1)
        BY <1>2, <2>2, TagsInside
    <2> QED
        BY <1>7, <2>2, <2>3, <2>4 DEF Keeps
<1>11. PICK b \in Nat : b = owned[i]
    BY <1>1 DEF Owns
<1>12. /\ bytes \in Nat /\ Words(bytes) \in Nat /\ Ints(bytes) \in Nat
       /\ Words(bytes) + 2 <= Ints(bytes)
    BY IntsEnough
<1>13. PICK x \in Nat, y \in Nat : x = Abs(v.a[i]) /\ y = Abs(v.a[it])
    <2>1. v.a[i] < 0 /\ i \in Inner(T)
        BY <1>9 DEF Owns
    <2> QED
        BY <1>7, <2>1, TakenBlock
<1>14. z = IF bytes > 4 * x THEN 4 * x ELSE bytes
    BY <1>2, <1>3, <1>10, <1>13 DEF Kept, Size
<1>15. z \in Nat
    BY <1>12, <1>14
<1>16. /\ Whole(f, T, m) /\ Owns(f.a, T, it, bytes)
       /\ \A j, c : j # it /\ Owns(v.a, T, j, c) => Owns(f.a, T, j, c)
    <2>1. /\ Whole(v, T, m) /\ Owns(v.a, T, i, b) /\ it \in Inner(T) /\ it # i
          /\ v.a[it] < 0 /\ Words(bytes) + 2 <= Abs(v.a[it])
          /\ z = IF bytes > 4 * Abs(v.a[i]) THEN 4 * Abs(v.a[i]) ELSE bytes
        BY <1>7, <1>9, <1>11, <1>12, <1>13, <1>14
    <2>2. f = Fill(Copied(v, i, it, z), it, Words(b) + 1)
        BY <1>4, <1>11
    <2> QED
        BY <1>12, <1>15, <2>1, <2>2, ReallocFills
<1>17. i \in Inner(T) /\ f.a[i] < 0
    BY <1>9, <1>16 DEF Owns
<1>18. PICK U, n : /\ Whole(g, U, n)
                   /\ \A s \in T : s # i /\ s \notin Free(f.a, T) =>
                        s \in U /\ Keeps(f.a, g.a, s)
    BY <1>4, <1>16, <1>17, FreeSound
<1>19. \A j, c : j # i /\ Owns(f.a, T, j, c) => Owns(g.a, U, j, c)
    BY <1>16, <1>18, OwnersKept
<1>20. State' = g /\ array' = g.a
    BY <1>5, <1>18, Updated
<1>21. ASSUME NEW j \in (DOMAIN owned \ {i}) \union {it}
       PROVE  Owns(g.a, U, j, IF j = it THEN bytes ELSE owned[j])
    <2>1. CASE j = it
        BY <1>9, <1>16, <1>19, <2>1
    <2>2. CASE j # it
        BY <1>9, <1>16, <1>19, <2>2
    <2> QED
        BY <2>1, <2>2
<1>22. \A j \in DOMAIN owned' : Owns(array', U, j, owned'[j])
    BY <1>5, <1>20, <1>21
<1>23. Whole(State', U, n)
    BY <1>18, <1>20
<1> QED
    BY <1>22, <1>23 DEF HeapInv


\* heapInit()
LEMMA InitSound ==
    \E S, l : Whole(InitialHeap, S, l)
<1>1. len \in Nat /\ len >= 8
    BY HeapAssumption
<1>2. PICK z : z = [a |-> [i \in 0..(len - 1) |-> 0], avail |-> 0]
    OBVIOUS
<1>3. z \in Heaps /\ z.avail = 0
    <2>1. [i \in 0..(len - 1) |-> 0] \in Arrays
        BY DEF Arrays, Index
    <2> QED
        BY <1>2, <2>1 DEF Heaps
<1>4. PICK x \in Nat, y \in Nat : x = len - 4 /\ y = len - 2
    BY <1>1
<1>5. PICK h1 : h1 = MakeTaken(z, 0, 2)
    OBVIOUS
<1>6. PICK h2 : h2 = MakeAvail(h1, 2, x)
    OBVIOUS
<1>7. PICK h : h = MakeTaken(h2, y, 2)
    OBVIOUS
<1>8. InitialHeap = h
    BY <1>2, <1>4, <1>5, <1>6, <1>7 DEF InitialHeap
<1>9. h1 \in Heaps /\ h1.avail = 0 /\ h1.a[0] = -2 /\ h1.a[1] = -2
    <2>1. 0 + 2 - 1 = 1 /\ 0 + 2 - 1 \in Index
        BY <1>1 DEF Index
    <2>2. LET v == MakeTaken(z, 0, 2) IN
          /\ v \in Heaps /\ v.avail = z.avail
          /\ v.a[0] = -2 /\ v.a[0 + 2 - 1] = -2
        BY <1>3, <2>1, MakeTakenWrites
    <2> QED
        BY <1>3, <1>5, <2>1, <2>2
<1>10. /\ h2 \in Heaps /\ h2.avail = 2 /\ h2.a[2] = x /\ h2.a[x + 1] = x
       /\ h2.a[3] = 0 /\ h2.a[4] = 0 /\ h2.a[0] = -2 /\ h2.a[1] = -2
    <2>1. 2 + x - 1 = x + 1 /\ 2 + x - 1 \in Index /\ x >= 4
        BY <1>1, <1>4 DEF Index
    <2>2. LET v == MakeAvail(h1, 2, x) IN
          /\ v \in Heaps /\ v.avail = 2
          /\ v.a[2] = x /\ v.a[2 + x - 1] = x
          /\ v.a[2 + 1] = h1.avail /\ v.a[2 + 2] = 0
          /\ \A w \in Index :
                /\ w # 2 /\ w # 2 + x - 1 /\ w # 2 + 1 /\ w # 2 + 2
                /\ h1.avail # 0 => w # h1.avail + 2
                => v.a[w] = h1.a[w]
        BY <1>9, <2>1, MakeAvailWrites
    <2>3. /\ 0 \in Index /\ 1 \in Index /\ 2 + 1 = 3 /\ 2 + 2 = 4
          /\ 0 # 2 /\ 0 # 2 + x - 1 /\ 0 # 3 /\ 0 # 4
          /\ 1 # 2 /\ 1 # 2 + x - 1 /\ 1 # 3 /\ 1 # 4
        BY <1>1, <1>4, <2>1 DEF Index
    <2> QED
        BY <1>6, <1>9, <2>1, <2>2, <2>3
<1>11. /\ h \in Heaps /\ h.avail = 2 /\ h.a[0] = -2 /\ h.a[1] = -2
       /\ h.a[2] = x /\ h.a[x + 1] = x /\ h.a[3] = 0 /\ h.a[4] = 0
       /\ h.a[y] = -2 /\ h.a[y + 1] = -2
    <2>1. y + 2 - 1 = y + 1 /\ y + 2 - 1 \in Index
        BY <1>1, <1>4 DEF Index
    <2>2. LET v == MakeTaken(h2, y, 2) IN
          /\ v \in Heaps /\ v.avail = h2.avail
          /\ v.a[y] = -2 /\ v.a[y + 2 - 1] = -2
          /\ \A w \in Index : w # y /\ w # y + 2 - 1 => v.a[w] = h2.a[w]
        BY <1>10, <2>1, MakeTakenWrites
    <2>3. \A w \in {0, 1, 2, 3, 4, x + 1} : w \in Index /\ w # y /\ w # y + 1
        BY <1>1, <1>4 DEF Index
    <2>4. \A w \in {0, 1, 2, 3, 4, x + 1} : h.a[w] = h2.a[w]
        BY <1>7, <2>1, <2>2, <2>3
    <2> QED
        BY <1>7, <1>10, <2>1, <2>2, <2>4
<1>12. PICK a, S, l : a = h.a /\ S = {0, 2, y} /\ l = <<2>>
    OBVIOUS
<1>13. a \in Arrays
    BY <1>11, <1>12 DEF Heaps
<1>14. /\ Past(a, 0) = 2 /\ Past(a, 2) = y /\ Past(a, y) = len
       /\ Abs(a[2]) = x
    <2>1. Abs(-2) = 2 /\ Abs(x) = x
        BY AbsIs
    <2> QED
        BY <1>1, <1>4, <1>11, <1>12, <2>1 DEF Past
<1>15. Cut(a, S)
    <2>1. S \subseteq Index /\ 0 \in S /\ len - 2 \in S /\ 2 \in S /\ y = len - 2
        BY <1>1, <1>4, <1>12 DEF Index
    <2>2. a[0] = -2 /\ a[len - 2] = -2
        BY <1>4, <1>11, <1>12
    <2>3. ASSUME NEW i \in S
          PROVE  /\ a[i] # 0 /\ a[Past(a, i) - 1] = a[i]
                 /\ Past(a, i) \in S \union {len}
                 /\ i # 0 /\ i # len - 2 => Abs(a[i]) >= 4
        <3>1. CASE i = 0
            BY <1>11, <1>12, <1>14, <3>1
        <3>2. CASE i = 2
            <4>1. y - 1 = x + 1 /\ x >= 4 /\ x # 0
                BY <1>1, <1>4
            <4> QED
                BY <1>11, <1>12, <1>14, <3>2, <4>1
        <3>3. CASE i = y
            <4>1. len - 1 = y + 1
                BY <1>1, <1>4
            <4> QED
                BY <1>4, <1>11, <1>12, <1>14, <3>3, <4>1
        <3> QED
            BY <1>12, <3>1, <3>2, <3>3
    <2>4. ASSUME NEW i \in S, NEW j \in S, i < j
          PROVE  Past(a, i) <= j
        BY <1>1, <1>4, <1>12, <1>14, <2>4
    <2> QED
        BY <2>1, <2>2, <2>3, <2>4 DEF Cut
<1>16. Free(a, S) = {2}
    BY <1>1, <1>4, <1>11, <1>12 DEF Free
<1>17. l \in Seq(Free(a, S)) /\ Len(l) = 1 /\ l[1] = 2
    BY <1>12, <1>16
<1>18. Once(l) /\ In(l, 2)
    BY <1>17 DEF Once, In
<1>19. Links(a, h.avail, l)
    <2>1. Nth(l, 1) = 2 /\ Nth(l, 1 + 1) = 0 /\ Nth(l, 1 - 1) = 0
        BY <1>17 DEF Nth
    <2>2. a[l[1] + 1] = 0 /\ a[l[1] + 2] = 0
        BY <1>11, <1>12, <1>17
    <2> QED
        BY <1>11, <1>17, <2>1, <2>2 DEF Links
<1>20. Coalesced(a, S)
    <2>1. Past(a, 2) # 2
        BY <1>1, <1>4, <1>14
    <2> QED
        BY <1>16, <2>1 DEF Coalesced
<1>21. Whole(h, S, l)
    BY <1>11, <1>12, <1>15, <1>16, <1>17, <1>18, <1>19, <1>20 DEF Whole, Listed
<1> QED
    BY <1>8, <1>21

\* Initially nobody owns anything.
LEMMA InitHeapInv == HeapsInit => HeapInv
<1> SUFFICES ASSUME HeapsInit PROVE HeapInv
    OBVIOUS
<1>1. array = InitialHeap.a /\ avail = InitialHeap.avail /\ owned = << >>
    BY DEF HeapsInit, KernelInit
<1>2. PICK S, l : Whole(InitialHeap, S, l)
    BY InitSound
<1>3. InitialHeap \in [a : Arrays, avail : Nat]
    BY <1>2 DEF Whole, Listed, Heaps
<1>4. State = InitialHeap
    BY <1>1, <1>3 DEF State
<1>5. DOMAIN owned = {}
    BY <1>1
<1> QED
    BY <1>2, <1>4, <1>5 DEF HeapInv

\* Every operation of either heap keeps the invariant.
LEMMA NextHeapInv == HeapInv /\ [HeapsNext]_<<heapVars, user>> => HeapInv'
<1> SUFFICES ASSUME HeapInv, [HeapsNext]_<<heapVars, user>>
             PROVE  HeapInv'
    OBVIOUS
<1>1. ASSUME UNCHANGED heapVars
      PROVE  HeapInv'
    BY <1>1 DEF HeapInv, heapVars, State
<1>2. ASSUME NEW bytes \in Requests, NEW n, Malloc(bytes, n) \/ MallocFails(bytes, n)
      PROVE  HeapInv'
    <2>1. CASE Malloc(bytes, n)
        BY <2>1, MallocKeeps
    <2>2. CASE MallocFails(bytes, n)
        BY <1>1, <2>2 DEF MallocFails
    <2> QED
        BY <1>2, <2>1, <2>2
<1>3. ASSUME NEW i, FreeBlock(i)
      PROVE  HeapInv'
    BY <1>3, FreeKeeps
<1>4. ASSUME NEW i \in DOMAIN owned, NEW bytes \in Requests,
             Realloc(i, bytes) \/ ReallocFails(i, bytes)
      PROVE  HeapInv'
    <2>1. CASE Realloc(i, bytes)
        BY <2>1, ReallocKeeps
    <2>2. CASE ReallocFails(i, bytes)
        BY <1>3, <2>2 DEF ReallocFails
    <2> QED
        BY <1>4, <2>1, <2>2
<1>5. CASE KernelNext
    BY <1>2, <1>3, <1>5 DEF KernelNext
<1>6. CASE UserNext
    BY <1>2, <1>3, <1>4, <1>6 DEF UserNext
<1>7. CASE UNCHANGED <<heapVars, user>>
    BY <1>1, <1>7
<1> QED
    BY <1>5, <1>6, <1>7 DEF HeapsNext

\* In every state of either heap the tags and the links describe a cut into
\* blocks and a list of the available ones, and every owner has its block.
THEOREM HeapInvariance == HeapsSpec => []HeapInv
<1>1. HeapsInit => HeapInv
    BY InitHeapInv
<1>2. HeapInv /\ [HeapsNext]_<<heapVars, user>> => HeapInv'
    BY NextHeapInv
<1> QED
    BY <1>1, <1>2, PTL DEF HeapsSpec

\* The blocks fill the heap without gap or overlap, their tags agree, and no
\* two neighbours are both available: what free() looks at on either side of a
\* block, in kernel/heap.cc and in the heap of the user programs, is a tag of
\* the true neighbour.
THEOREM BlocksTile == HeapsSpec => []Tiled
BY HeapInvariance, InvTiled, PTL

\* The doubly linked list holds exactly the available blocks, each once.
THEOREM ListExact == HeapsSpec => []FreeListExact
BY HeapInvariance, InvFreeListExact, PTL

\* What malloc or realloc returned is a block of its own, large enough and with
\* what its owner wrote, until it is freed.
THEOREM OwnersSafe == HeapsSpec => []OwnedIntact
BY HeapInvariance, InvOwnedIntact, PTL

=============================================================================
