-------------------------- MODULE ProcessesProofs ---------------------------
(***************************************************************************)
(* Proofs about module Processes, for any number of processes, any size of *)
(* the child table and any exit codes: wait reports the status with which  *)
(* the caller's own child called exit.                                     *)
(***************************************************************************)
EXTENDS Processes, TLAPS

Types ==
    /\ pc \in [Procs -> {"unborn", "run", "up", "stopped", "down", "get",
                         "status"}]
    /\ children \in [Procs -> [Slots -> Procs \union {None}]]
    /\ children_promises \in [Procs -> [Slots -> Procs \union {None}]]
    /\ value \in [Procs -> Nat]
    /\ n \in [Procs -> Nat]
    /\ id \in [Procs -> Slots]
    /\ parent \in [Procs -> Procs \union {None}]
    /\ code \in [Procs -> Nat \union {None}]
    /\ status \in [Procs -> (Procs \X Nat) \union {None}]

\* c has set its promise, with what it called exit with, and is through.
Done(c) == pc[c] = "stopped" /\ value[c] = code[c]

\* A promise in the table of a process is that of a child of its own.
OwnChildren ==
    \A p \in Procs : \A i \in Slots :
        children_promises[p][i] # None =>
            /\ parent[children_promises[p][i]] = p
            /\ pc[children_promises[p][i]] # "unborn"

\* set() stores the value before it raises the semaphore.
RaisedLast ==
    \A c \in Procs : /\ pc[c] = "up" => value[c] = code[c]
                     /\ n[c] > 0 => Done(c)

\* A process inside wait waits for a child, and one that has come past
\* down() for a child that is through.
WaitsForChild ==
    \A p \in Procs :
        /\ pc[p] \in {"down", "get", "status"} => Target(p) # None
        /\ pc[p] \in {"get", "status"} => Done(Target(p))

\* What wait has reported is final.
Reported ==
    \A p \in Procs :
        status[p] # None => /\ Done(status[p][1])
                            /\ parent[status[p][1]] = p
                            /\ value[status[p][1]] = status[p][2]

IndInv == Types /\ OwnChildren /\ RaisedLast /\ WaitsForChild /\ Reported

\* The first process has no children and has not waited.
LEMMA InitInv ==
    ASSUME Init
    PROVE  IndInv
<1>1. 0 \in Slots
    BY ProcessesAssumption DEF Slots
<1> QED
    BY <1>1, ProcessesAssumption DEF Init, IndInv, Types, OwnChildren, RaisedLast,
       WaitsForChild, Reported, Done, Target

\* What is done stays done: only its own exit and its own fork change what a
\* process has to report.
LEMMA DoneStays ==
    ASSUME NEW c, Done(c), pc'[c] = pc[c], value'[c] = value[c],
           code'[c] = code[c]
    PROVE  Done(c)'
BY DEF Done

\* fork gives a child that has not begun to its parent.
LEMMA ForkInv ==
    ASSUME IndInv, NEW p \in Procs, NEW c \in Procs, Fork(p, c)
    PROVE  IndInv'
<1>0. Types /\ OwnChildren /\ RaisedLast /\ WaitsForChild /\ Reported
    BY DEF IndInv
<1>1. PICK k \in Slots : k = ChildIdx(p)
    BY ProcessesAssumption DEF Fork, ChildIdx, Slots
<1>2. /\ pc[p] = "run" /\ pc[c] = "unborn" /\ p # c
      /\ children' = [children EXCEPT ![p][k] = c]
      /\ children_promises' = [children_promises EXCEPT ![p][k] = c]
      /\ pc' = [pc EXCEPT ![c] = "run"]
      /\ parent' = [parent EXCEPT ![c] = p]
      /\ UNCHANGED <<value, n, id, code, status>>
    BY <1>1 DEF Fork, At, Goto, promise
<1>3. Types'
    BY <1>0, <1>2 DEF Types
<1>4. \A q \in Procs, i \in Slots : children_promises'[q][i] =
        IF q = p /\ i = k THEN c ELSE children_promises[q][i]
    BY <1>0, <1>2 DEF Types
<1>5. \A q \in Procs : /\ pc'[q] = IF q = c THEN "run" ELSE pc[q]
                       /\ parent'[q] = IF q = c THEN p ELSE parent[q]
    BY <1>0, <1>2 DEF Types
<1>6. \A q \in Procs, i \in Slots : children_promises[q][i] \in Procs \union {None}
    BY <1>0 DEF Types
<1>7. OwnChildren'
    <2> SUFFICES ASSUME NEW q \in Procs, NEW i \in Slots,
                        children_promises'[q][i] # None
                 PROVE  /\ parent'[children_promises'[q][i]] = q
                        /\ pc'[children_promises'[q][i]] # "unborn"
        BY DEF OwnChildren
    <2>1. CASE q = p /\ i = k
        BY <1>4, <1>5, <2>1
    <2>2. CASE ~(q = p /\ i = k)
        <3>1. PICK d \in Procs : d = children_promises[q][i]
            BY <1>4, <1>6, <2>2
        <3>2. children_promises'[q][i] = d /\ parent[d] = q /\ pc[d] # "unborn"
            BY <1>0, <1>4, <2>2, <3>1, ProcessesAssumption DEF OwnChildren
        <3> QED
            BY <1>2, <1>5, <3>2
    <2> QED
        BY <2>1, <2>2
<1>8. \A d \in Procs : Done(d) => Done(d)'
    BY <1>2, <1>5 DEF Done
<1>9. RaisedLast'
    BY <1>0, <1>2, <1>5, <1>8 DEF RaisedLast, Done
<1>10. WaitsForChild'
    <2> SUFFICES ASSUME NEW q \in Procs, pc'[q] \in {"down", "get", "status"}
                 PROVE  /\ Target(q)' # None
                        /\ pc'[q] \in {"get", "status"} => Done(Target(q))'
        BY DEF WaitsForChild
    <2>1. q # p /\ q # c /\ pc[q] = pc'[q]
        BY <1>2, <1>5
    <2>2. id[q] \in Slots
        BY <1>0 DEF Types
    <2>3. PICK d \in Procs : d = children_promises[q][id[q]]
        BY <1>0, <1>6, <2>1, <2>2 DEF WaitsForChild, Target
    <2>4. children_promises'[q][id'[q]] = d
        BY <1>2, <1>4, <2>1, <2>2, <2>3
    <2>5. pc'[q] \in {"get", "status"} => Done(d)
        BY <1>0, <2>1, <2>3 DEF WaitsForChild, Target
    <2> QED
        BY <1>8, <2>3, <2>4, <2>5, ProcessesAssumption DEF Target, Done
<1>11. Reported'
    <2> SUFFICES ASSUME NEW q \in Procs, status'[q] # None
                 PROVE  /\ Done(status[q][1])'
                        /\ parent'[status'[q][1]] = q
                        /\ value'[status'[q][1]] = status'[q][2]
        BY DEF Reported
    <2>1. PICK d \in Procs : d = status[q][1]
        BY <1>0, <1>2 DEF Types
    <2>2. /\ Done(d) /\ parent[d] = q /\ value[d] = status[q][2]
        BY <1>0, <1>2, <2>1 DEF Reported
    <2>3. d # c
        BY <1>2, <2>2 DEF Done
    <2> QED
        BY <1>2, <1>5, <2>1, <2>2, <2>3 DEF Done
<1> QED
    BY <1>3, <1>7, <1>9, <1>10, <1>11 DEF IndInv

\* A step that touches only descriptor 0, or the panic flag.
LEMMA FrameInv ==
    ASSUME IndInv, UNCHANGED <<pc, children, children_promises, value, n, id,
                               parent, code, status>>
    PROVE  IndInv'
BY DEF IndInv, Types, OwnChildren, RaisedLast, WaitsForChild, Reported, Done,
       Target

\* What is reported stays true while nothing that is done changes.
LEMMA ReportedStays ==
    ASSUME Types, Reported, \A d \in Procs : Done(d) => Done(d)' /\ value'[d] = value[d],
           UNCHANGED <<parent, status>>
    PROVE  Reported'
<1> SUFFICES ASSUME NEW q \in Procs, status[q] # None
             PROVE  /\ Done(status[q][1])'
                    /\ parent[status[q][1]] = q
                    /\ value'[status[q][1]] = status[q][2]
    BY DEF Reported
<1>1. PICK d \in Procs : d = status[q][1]
    BY DEF Types
<1>2. Done(d) /\ parent[d] = q /\ value[d] = status[q][2]
    BY <1>1 DEF Reported
<1>3. Done(d)'
    BY <1>2
<1> QED
    BY <1>1, <1>2, <1>3 DEF Done

\* A waiter keeps its child while its own table does not change.
LEMMA WaitStays ==
    ASSUME Types, WaitsForChild, NEW q \in Procs, pc'[q] = pc[q],
           id'[q] = id[q], children_promises'[q] = children_promises[q],
           \A d \in Procs : Done(d) => Done(d)'
    PROVE  /\ pc'[q] \in {"down", "get", "status"} => Target(q)' # None
           /\ pc'[q] \in {"get", "status"} => Done(Target(q))'
<1>1. Target(q)' = Target(q)
    BY DEF Target
<1>2. id[q] \in Slots /\ Target(q) \in Procs \union {None}
    BY DEF Types, Target
<1>3. pc'[q] \in {"down", "get", "status"} => Target(q)' # None
    BY <1>1 DEF WaitsForChild
<1>4. ASSUME pc'[q] \in {"get", "status"}
      PROVE  Done(Target(q))'
    <2>1. PICK d \in Procs : d = Target(q)
        BY <1>2, <1>4 DEF WaitsForChild
    <2>2. Done(d)
        BY <1>4, <2>1 DEF WaitsForChild
    <2>3. Done(d)'
        BY <2>2
    <2> QED
        BY <1>1, <2>1, <2>3 DEF Done
<1> QED
    BY <1>3, <1>4

\* exit stores the status in the promise.
LEMMA ExitInv ==
    ASSUME IndInv, NEW p \in Procs, NEW rc \in Codes, Exit(p, rc)
    PROVE  IndInv'
<1>0. Types /\ OwnChildren /\ RaisedLast /\ WaitsForChild /\ Reported
    BY DEF IndInv
<1>1. /\ pc[p] = "run"
      /\ code' = [code EXCEPT ![p] = rc]
      /\ rc \in Nat
      /\ UNCHANGED <<children, children_promises, n, id, parent, status>>
    BY ProcessesAssumption DEF Exit, At, tables
<1>2. PICK where \in {"up", "stopped"} :
        /\ pc' = [pc EXCEPT ![p] = where]
        /\ where = "up" => value' = [value EXCEPT ![p] = rc]
        /\ where = "stopped" => value' = value
    BY DEF Exit, Goto
<1>3. \A q \in Procs : /\ pc'[q] = IF q = p THEN where ELSE pc[q]
                       /\ code'[q] = IF q = p THEN rc ELSE code[q]
                       /\ q # p => value'[q] = value[q]
                       /\ where = "up" => value'[p] = rc
    BY <1>0, <1>1, <1>2 DEF Types
<1>4. Types'
    BY <1>0, <1>1, <1>2 DEF Types
<1>5. \A d \in Procs : Done(d) => d # p /\ Done(d)' /\ value'[d] = value[d]
    BY <1>1, <1>3 DEF Done
<1>6. OwnChildren'
    <2> SUFFICES ASSUME NEW q \in Procs, NEW i \in Slots,
                        children_promises[q][i] # None
                 PROVE  /\ parent[children_promises[q][i]] = q
                        /\ pc'[children_promises[q][i]] # "unborn"
        BY <1>1 DEF OwnChildren
    <2>1. PICK d \in Procs : d = children_promises[q][i]
        BY <1>0 DEF Types
    <2> QED
        BY <1>0, <1>3, <2>1 DEF OwnChildren
<1>7. RaisedLast'
    BY <1>0, <1>1, <1>3, <1>5 DEF RaisedLast, Done
<1>8. WaitsForChild'
    <2> SUFFICES ASSUME NEW q \in Procs
                 PROVE  /\ pc'[q] \in {"down", "get", "status"} => Target(q)' # None
                        /\ pc'[q] \in {"get", "status"} => Done(Target(q))'
        BY DEF WaitsForChild
    <2>1. CASE q = p
        BY <1>3, <2>1
    <2>2. CASE q # p
        BY <1>0, <1>1, <1>3, <1>5, <2>2, WaitStays
    <2> QED
        BY <2>1, <2>2
<1>9. Reported'
    BY <1>0, <1>1, <1>5, ReportedStays
<1> QED
    BY <1>4, <1>6, <1>7, <1>8, <1>9 DEF IndInv

\* A step that moves one process on to where, and may change semaphores and
\* the slot it waits for.
Moves(p, where) ==
    /\ pc[p] \in {"run", "up", "down", "get"}
    /\ where \in {"stopped", "down", "get", "status"}
    /\ pc' = [pc EXCEPT ![p] = where]
    /\ n' \in [Procs -> Nat]
    /\ id' \in [Procs -> Slots]
    /\ \A q \in Procs : q # p => id'[q] = id[q]
    /\ \A c \in Procs : n'[c] > 0 => Done(c)'
    /\ where \in {"down", "get", "status"} => Target(p)' \in Procs
    /\ where \in {"get", "status"} => Done(Target(p))'
    /\ UNCHANGED <<children, children_promises, value, parent, code, status>>

\* It keeps what is said of the tables and of what is done.
LEMMA SemInv ==
    ASSUME IndInv, NEW p \in Procs, NEW where, Moves(p, where)
    PROVE  IndInv'
<1> USE DEF Moves
<1>0. Types /\ OwnChildren /\ RaisedLast /\ WaitsForChild /\ Reported
    BY DEF IndInv
<1>1. \A q \in Procs : pc'[q] = IF q = p THEN where ELSE pc[q]
    BY <1>0 DEF Types
<1>2. Types'
    BY <1>0, <1>1 DEF Types
<1>3. \A d \in Procs : Done(d) => d # p /\ Done(d)' /\ value'[d] = value[d]
    BY <1>1 DEF Done
<1>4. OwnChildren'
    <2> SUFFICES ASSUME NEW q \in Procs, NEW i \in Slots,
                        children_promises[q][i] # None
                 PROVE  /\ parent[children_promises[q][i]] = q
                        /\ pc'[children_promises[q][i]] # "unborn"
        BY <1>0 DEF OwnChildren
    <2>1. PICK d \in Procs : d = children_promises[q][i]
        BY <1>0 DEF Types
    <2> QED
        BY <1>0, <1>1, <2>1 DEF OwnChildren
<1>5. RaisedLast'
    BY <1>0, <1>1 DEF RaisedLast, Done
<1>6. WaitsForChild'
    <2> SUFFICES ASSUME NEW q \in Procs
                 PROVE  /\ pc'[q] \in {"down", "get", "status"} => Target(q)' # None
                        /\ pc'[q] \in {"get", "status"} => Done(Target(q))'
        BY DEF WaitsForChild
    <2>1. CASE q = p
        <3>1. pc'[q] = where
            BY <1>1, <2>1
        <3> QED
            BY <2>1, <3>1, ProcessesAssumption
    <2>2. CASE q # p
        BY <1>0, <1>1, <1>3, <2>2, WaitStays
    <2> QED
        BY <2>1, <2>2
<1>7. Reported'
    BY <1>0, <1>3, ReportedStays
<1> QED
    BY <1>2, <1>4, <1>5, <1>6, <1>7 DEF IndInv

\* set() raises the semaphore of what it has stored.
LEMMA ExitUpInv ==
    ASSUME IndInv, NEW p \in Procs, ExitUp(p)
    PROVE  IndInv'
<1>0. Types /\ OwnChildren /\ RaisedLast /\ WaitsForChild /\ Reported
    BY DEF IndInv
<1>1. /\ pc[p] = "up"
      /\ pc' = [pc EXCEPT ![p] = "stopped"]
      /\ n' = [n EXCEPT ![p] = n[p] + 1]
      /\ UNCHANGED <<children, children_promises, value, id, parent, code, status>>
    BY DEF ExitUp, At, Goto, tables, history
<1>2. n' \in [Procs -> Nat] /\ id' \in [Procs -> Slots]
    BY <1>0, <1>1 DEF Types
<1>3. value[p] = code[p]
    BY <1>0, <1>1 DEF RaisedLast
<1>4. \A c \in Procs : n'[c] > 0 => Done(c)'
    BY <1>0, <1>1, <1>3 DEF Types, RaisedLast, Done
<1>5. Moves(p, "stopped")
    BY <1>1, <1>2, <1>4 DEF Moves
<1> QED
    BY <1>5, SemInv

\* wait finds a child in its slot.
LEMMA WaitInv ==
    ASSUME IndInv, NEW p \in Procs, NEW i \in Slots, Wait(p, i)
    PROVE  IndInv'
<1>0. Types /\ OwnChildren /\ RaisedLast /\ WaitsForChild /\ Reported
    BY DEF IndInv
<1>1. /\ pc[p] = "run"
      /\ pc' = [pc EXCEPT ![p] = "down"]
      /\ children_promises[p][i] # None
      /\ id' = [id EXCEPT ![p] = i]
      /\ UNCHANGED <<children, children_promises, value, n, parent, code, status>>
    BY DEF Wait, At, Goto, tables, promise, history
<1>2. n' \in [Procs -> Nat] /\ id' \in [Procs -> Slots]
    BY <1>0, <1>1 DEF Types
<1>3. \A c \in Procs : n'[c] > 0 => Done(c)'
    BY <1>0, <1>1 DEF Types, RaisedLast, Done
<1>4. Target(p)' \in Procs
    BY <1>0, <1>1 DEF Types, Target
<1>5. \A q \in Procs : q # p => id'[q] = id[q]
    BY <1>0, <1>1 DEF Types
<1>6. Moves(p, "down")
    BY <1>1, <1>2, <1>3, <1>4, <1>5 DEF Moves
<1> QED
    BY <1>6, SemInv

\* down() and up() of get() move the semaphore of a child that is through.
LEMMA WaitDownInv ==
    ASSUME IndInv, NEW p \in Procs, WaitDown(p) \/ WaitUp(p)
    PROVE  IndInv'
<1>0. Types /\ OwnChildren /\ RaisedLast /\ WaitsForChild /\ Reported
    BY DEF IndInv
<1>1. /\ pc[p] \in {"down", "get"}
      /\ UNCHANGED <<children, children_promises, value, id, parent, code, status>>
    BY DEF WaitDown, WaitUp, At, tables, history
<1>2. PICK d \in Procs : d = Target(p)
    BY <1>0, <1>1 DEF Types, WaitsForChild, Target
<1>3. Done(d) /\ d # p
    BY <1>0, <1>1, <1>2 DEF WaitDown, WaitUp, At, RaisedLast, WaitsForChild, Done
<1>4. PICK where \in {"get", "status"} : pc' = [pc EXCEPT ![p] = where]
    BY DEF WaitDown, WaitUp, Goto
<1>5. PICK m \in Nat : n' = [n EXCEPT ![d] = m]
    BY <1>0, <1>2 DEF WaitDown, WaitUp, Types
<1>6. n' \in [Procs -> Nat] /\ id' \in [Procs -> Slots]
    BY <1>0, <1>1, <1>5 DEF Types
<1>7. \A c \in Procs : Done(c) => Done(c)'
    BY <1>0, <1>1, <1>4 DEF Types, Done
<1>8. \A c \in Procs : n'[c] > 0 => Done(c)'
    BY <1>0, <1>3, <1>5, <1>7 DEF Types, RaisedLast
<1>9. Target(p)' = d
    BY <1>1, <1>2 DEF Target
<1>10. Done(Target(p))'
    BY <1>3, <1>7, <1>9 DEF Done
<1>11. Moves(p, where)
    BY <1>1, <1>4, <1>6, <1>8, <1>9, <1>10 DEF Moves
<1> QED
    BY <1>11, SemInv

\* A slot is forgotten by a process that is not, or no longer, waiting.
LEMMA ClearInv ==
    ASSUME Types, OwnChildren, RaisedLast, WaitsForChild, Reported,
           NEW p \in Procs, NEW i \in Slots, pc[p] \in {"run", "status"},
           Clear(p, i), pc' = [pc EXCEPT ![p] = "run"],
           UNCHANGED <<value, n, id, parent, code>>,
           status' \in [Procs -> (Procs \X Nat) \union {None}], Reported'
    PROVE  IndInv'
<1>1. \A q \in Procs : pc'[q] = IF q = p THEN "run" ELSE pc[q]
    BY DEF Types
<1>2. \A q \in Procs : \A j \in Slots : children_promises'[q][j] =
        IF q = p /\ j = i THEN None ELSE children_promises[q][j]
    BY DEF Types, Clear
<1>3. Types'
    BY DEF Types, Clear
<1>4. \A d \in Procs : Done(d) => d # p /\ Done(d)' /\ value'[d] = value[d]
    BY <1>1 DEF Done
<1>5. OwnChildren'
    <2> SUFFICES ASSUME NEW q \in Procs, NEW j \in Slots,
                        children_promises'[q][j] # None
                 PROVE  /\ parent[children_promises'[q][j]] = q
                        /\ pc'[children_promises'[q][j]] # "unborn"
        BY DEF OwnChildren
    <2>1. children_promises'[q][j] = children_promises[q][j]
        BY <1>2
    <2>2. PICK d \in Procs : d = children_promises[q][j]
        BY <2>1 DEF Types
    <2> QED
        BY <1>1, <2>1, <2>2 DEF OwnChildren
<1>6. RaisedLast'
    BY <1>1, <1>4 DEF RaisedLast, Done
<1>7. WaitsForChild'
    <2> SUFFICES ASSUME NEW q \in Procs
                 PROVE  /\ pc'[q] \in {"down", "get", "status"} => Target(q)' # None
                        /\ pc'[q] \in {"get", "status"} => Done(Target(q))'
        BY DEF WaitsForChild
    <2>1. CASE q = p
        BY <1>1, <2>1
    <2>2. CASE q # p
        <3>1. children_promises'[q] = children_promises[q]
            BY <2>2 DEF Clear, Types
        <3> QED
            BY <1>1, <1>4, <2>2, <3>1, WaitStays
    <2> QED
        BY <2>1, <2>2
<1> QED
    BY <1>3, <1>5, <1>6, <1>7 DEF IndInv

\* wait reports a child that is through and forgets it.
LEMMA WaitReturnsInv ==
    ASSUME IndInv, NEW p \in Procs, WaitReturns(p)
    PROVE  IndInv'
<1>0. Types /\ OwnChildren /\ RaisedLast /\ WaitsForChild /\ Reported
    BY DEF IndInv
<1>1. /\ pc[p] = "status" /\ Clear(p, id[p]) /\ id[p] \in Slots
      /\ pc' = [pc EXCEPT ![p] = "run"]
      /\ UNCHANGED <<value, n, id, parent, code>>
    BY <1>0 DEF WaitReturns, At, Goto, promise, Types
<1>2. PICK d \in Procs : d = Target(p)
    BY <1>0, <1>1 DEF Types, WaitsForChild, Target
<1>3. Done(d) /\ parent[d] = p /\ value[d] \in Nat
    BY <1>0, <1>1, <1>2 DEF WaitsForChild, OwnChildren, Target, Types
<1>4. status' = [status EXCEPT ![p] = <<d, value[d]>>]
    BY <1>2 DEF WaitReturns
<1>5. status' \in [Procs -> (Procs \X Nat) \union {None}]
    BY <1>0, <1>3, <1>4 DEF Types
<1>6. \A c \in Procs : Done(c) => Done(c)' /\ value'[c] = value[c]
    BY <1>0, <1>1 DEF Types, Done
<1>7. Reported'
    <2> SUFFICES ASSUME NEW q \in Procs, status'[q] # None
                 PROVE  /\ Done(status[q][1])'
                        /\ parent[status'[q][1]] = q
                        /\ value[status'[q][1]] = status'[q][2]
        BY <1>1 DEF Reported
    <2>1. CASE q = p
        <3>1. status'[q] = <<d, value[d]>>
            BY <1>0, <1>4, <2>1 DEF Types
        <3> QED
            BY <1>3, <1>6, <2>1, <3>1 DEF Done
    <2>2. CASE q # p
        <3>1. status'[q] = status[q]
            BY <1>0, <1>4, <2>2 DEF Types
        <3>2. PICK c \in Procs : c = status[q][1]
            BY <1>0, <3>1 DEF Types
        <3>3. Done(c) /\ parent[c] = q /\ value[c] = status[q][2]
            BY <1>0, <3>1, <3>2 DEF Reported
        <3> QED
            BY <1>6, <3>1, <3>2, <3>3 DEF Done
    <2> QED
        BY <2>1, <2>2
<1> QED
    BY <1>0, <1>1, <1>5, <1>7, ClearInv

\* close forgets a child in the same way.
LEMMA CloseChildInv ==
    ASSUME IndInv, NEW p \in Procs, NEW i \in Slots, CloseChild(p, i)
    PROVE  IndInv'
<1>0. Types /\ OwnChildren /\ RaisedLast /\ WaitsForChild /\ Reported
    BY DEF IndInv
<1>1. /\ pc[p] = "run" /\ Clear(p, i)
      /\ UNCHANGED <<pc, value, n, id, parent, code, status>>
    BY DEF CloseChild, At, promise
<1>2. pc' = [pc EXCEPT ![p] = "run"]
    BY <1>0, <1>1 DEF Types
<1>3. status' \in [Procs -> (Procs \X Nat) \union {None}]
    BY <1>0, <1>1 DEF Types
<1>4. \A d \in Procs : Done(d) => Done(d)' /\ value'[d] = value[d]
    BY <1>1 DEF Done
<1>5. Reported'
    BY <1>0, <1>1, <1>4, ReportedStays
<1> QED
    BY <1>0, <1>1, <1>2, <1>3, <1>5, ClearInv

\* Every step keeps the invariant.
LEMMA NextInv ==
    ASSUME IndInv, [Next]_vars
    PROVE  IndInv'
<1>1. CASE UNCHANGED vars
    BY <1>1, FrameInv DEF vars, tables, promise, history
<1>2. ASSUME NEW p \in Procs, Step(p)
      PROVE  IndInv'
    <2>1. CASE \E c \in Procs : Fork(p, c)
        BY <2>1, ForkInv
    <2>2. CASE ForkPanics(p) \/ Close0(p) \/ Open0(p)
        BY <2>2, FrameInv DEF ForkPanics, Close0, Open0, promise, history
    <2>3. CASE \E rc \in Codes : Exit(p, rc)
        BY <2>3, ExitInv
    <2>4. CASE ExitUp(p)
        BY <2>4, ExitUpInv
    <2>5. CASE \E i \in Slots : Wait(p, i) \/ CloseChild(p, i)
        BY <2>5, WaitInv, CloseChildInv
    <2>6. CASE WaitDown(p) \/ WaitUp(p)
        BY <2>6, WaitDownInv
    <2>7. CASE WaitReturns(p)
        BY <2>7, WaitReturnsInv
    <2> QED
        BY <1>2, <2>1, <2>2, <2>3, <2>4, <2>5, <2>6, <2>7 DEF Step
<1> QED
    BY <1>1, <1>2 DEF Next

\* WaitReportsExit, for any number of processes: the status that wait() of
\* sys.cc gives its caller is what a child of that caller passed to exit(),
\* however the two halves of Promise::set and the three of Promise::get
\* interleave, and whatever slots are closed or used again meanwhile.
THEOREM ExitStatusReported == Spec => []WaitReportsExit
<1>1. Spec => []IndInv
    BY InitInv, NextInv, PTL DEF Spec
<1>2. IndInv => WaitReportsExit
    <2> SUFFICES ASSUME IndInv, NEW p \in Procs, status[p] # None
                 PROVE  /\ parent[status[p][1]] = p
                        /\ code[status[p][1]] = status[p][2]
        BY DEF WaitReportsExit
    <2> QED
        BY DEF IndInv, Reported, Done
<1> QED
    BY <1>1, <1>2, PTL

=============================================================================
