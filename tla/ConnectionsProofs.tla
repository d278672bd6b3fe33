-------------------------- MODULE ConnectionsProofs --------------------------
(***************************************************************************)
(* The free list stays intact and the table implements SlotPool, for any   *)
(* number of slots and any descriptors.                                    *)
(***************************************************************************)
EXTENDS Connections, FiniteSetTheorems, TLAPS

\* The list itself is the witness: what it contains is exactly the slots
\* without a descriptor, so its first element can be handed out and a closed
\* slot is not on it yet.
IInv == TypeOK /\ FreeListIntact

\* A chain has no more elements than there are slots.
LEMMA ChainLength ==
  ASSUME NEW n \in Nat, NEW q \in [1 .. n -> Conns],
         \A i, j \in 1 .. n : q[i] = q[j] => i = j
  PROVE  n <= N
<1>1. IsFiniteSet(Conns) /\ Cardinality(Conns) = N
  <2>1. 0 \in Int /\ N - 1 \in Int /\ N \in Nat
    BY TableAssumption
  <2>2. /\ IsFiniteSet(0 .. N - 1)
        /\ Cardinality(0 .. N - 1) = IF 0 > N - 1 THEN 0 ELSE N - 1 - 0 + 1
    BY <2>1, FS_Interval, Zenon
  <2> QED
    BY <2>1, <2>2 DEF Conns
<1>2. Cardinality(1 .. n) = n
  <2>1. 1 \in Int /\ n \in Int
    OBVIOUS
  <2>2. Cardinality(1 .. n) = IF 1 > n THEN 0 ELSE n - 1 + 1
    BY <2>1, FS_Interval, Zenon
  <2> QED
    BY <2>2
<1>3. q \in Injection(1 .. n, Conns)
  BY DEF Injection, IsInjective
<1>4. Cardinality(1 .. n) <= Cardinality(Conns)
  BY <1>1, <1>3, FS_Injection
<1> QED
  BY <1>1, <1>2, <1>4

\* The list that the start-up links holds every slot.
LEMMA InitInv == Init => IInv
<1> SUFFICES ASSUME Init PROVE IInv
  OBVIOUS
<1>1. TypeOK
  BY TableAssumption DEF Init, TypeOK, Conns, Nil
<1>2. FreeListIntact
  <2> DEFINE q == [i \in 1 .. N |-> i - 1]
  <2>1. q \in [1 .. free_connection_n -> Conns]
    BY TableAssumption DEF Init, Conns
  <2>2. N \in Nat
    BY TableAssumption
  <2>3. {q[i] : i \in 1 .. N} = {c \in Conns : fd[c] = -1}
    <3>1. \A c \in Conns : c + 1 \in 1 .. N /\ q[c + 1] = c
      BY <2>2 DEF Conns
    <3>2. \A i \in 1 .. N : q[i] \in Conns
      BY <2>2 DEF Conns
    <3> QED
      BY <3>1, <3>2 DEF Init
  <2>4. /\ \A i \in 1 .. N - 1 : data[q[i]] = q[i + 1]
        /\ N > 0 => free_connections = q[1] /\ data[q[N]] = Nil
    BY <2>2 DEF Init, Conns
  <2>5. Chain(q)
    BY <2>2, <2>3, <2>4 DEF Init, Chain
  <2> QED
    BY <2>1, <2>5 DEF FreeListIntact
<1> QED
  BY <1>1, <1>2 DEF IInv

\* Taking the first slot leaves the rest of the list.
LEMMA GetInv ==
  ASSUME IInv, NEW f \in Fds, GetConnection(f)
  PROVE  IInv' /\ fd[free_connections] = -1 /\ free_connections \in Conns
<1> DEFINE n == free_connection_n
           c == free_connections
<1>1. PICK q \in [1 .. n -> Conns] : Chain(q)
  BY DEF IInv, FreeListIntact
<1>2. n \in Nat /\ n > 0 /\ n <= N /\ N \in Nat
  BY <1>1, TableAssumption DEF IInv, TypeOK, Chain, GetConnection, Nil
<1>3. c = q[1] /\ c \in Conns /\ fd[c] = -1 /\ fd \in [Conns -> Fds \cup {-1}]
  BY <1>1, <1>2 DEF Chain, IInv, TypeOK
<1>4. f # -1 /\ f \in Fds
  BY TableAssumption
<1>p. PICK p : p = [i \in 1 .. n - 1 |-> q[i + 1]]
  OBVIOUS
<1>5. p \in [1 .. n - 1 -> Conns]
  BY <1>p, <1>2
<1>6. data[c] = IF n = 1 THEN Nil ELSE q[2]
  BY <1>1, <1>2, <1>3 DEF Chain
<1>7. free_connection_n' = n - 1 /\ free_connections' = data[c]
      /\ data' = [data EXCEPT ![c] = Nil] /\ fd' = [fd EXCEPT ![c] = f] /\ got' = c
  BY DEF GetConnection
<1>8. TypeOK'
  BY <1>2, <1>3, <1>4, <1>6, <1>7 DEF IInv, TypeOK, Nil
<1>9. \A i \in 1 .. n - 1 : p[i] = q[i + 1] /\ p[i] # c /\ i + 1 \in 1 .. n
  BY <1>p, <1>1, <1>2, <1>3 DEF Chain
<1>10. {p[i] : i \in 1 .. n - 1} = {d \in Conns : fd'[d] = -1}
  <2>1. ASSUME NEW d \in Conns, fd'[d] = -1 PROVE \E i \in 1 .. n - 1 : p[i] = d
    <3>1. d # c /\ fd[d] = -1
      BY <1>3, <1>4, <1>7, <2>1
    <3>2. PICK j \in 1 .. n : q[j] = d
      BY <1>1, <3>1 DEF Chain
    <3>3. j - 1 \in 1 .. n - 1 /\ p[j - 1] = d
      BY <1>p, <1>2, <1>3, <3>1, <3>2
    <3> QED
      BY <3>3
  <2>2. ASSUME NEW i \in 1 .. n - 1 PROVE p[i] \in Conns /\ fd'[p[i]] = -1
    <3>1. fd[q[i + 1]] = -1 /\ q[i + 1] \in Conns
      BY <1>1, <1>2, <1>9 DEF Chain
    <3> QED
      BY <1>3, <1>7, <1>9, <3>1
  <2> QED
    BY <2>1, <2>2
<1>11. Chain(p)'
  <2>1. \A i, j \in 1 .. n - 1 : p[i] = p[j] => i = j
    BY <1>1, <1>2, <1>9 DEF Chain
  <2>2. \A i \in 1 .. n - 2 : data'[p[i]] = p[i + 1]
    <3> TAKE i \in 1 .. n - 2
    <3>1. i + 1 \in 1 .. n - 1 /\ i \in 1 .. n - 1
      BY <1>2
    <3>2. data[q[i + 1]] = q[(i + 1) + 1]
      BY <1>1, <3>1 DEF Chain
    <3> QED
      BY <1>5, <1>7, <1>9, <3>1, <3>2 DEF IInv, TypeOK
  <2>3. n - 1 = 0 => free_connections' = Nil
    BY <1>6, <1>7
  <2>4. n - 1 > 0 => free_connections' = p[1] /\ data'[p[n - 1]] = Nil
    <3> HAVE n - 1 > 0
    <3>1. data[q[n]] = Nil /\ p[n - 1] = q[n] /\ p[1] = q[2] /\ n - 1 \in 1 .. n - 1
      BY <1>p, <1>1, <1>2 DEF Chain
    <3> QED
      BY <1>2, <1>5, <1>6, <1>7, <1>9, <3>1 DEF IInv, TypeOK
  <2> QED
    BY <1>2, <1>7, <1>10, <2>1, <2>2, <2>3, <2>4 DEF Chain
<1>12. FreeListIntact'
  BY <1>5, <1>7, <1>11 DEF FreeListIntact
<1> QED
  BY <1>3, <1>8, <1>12 DEF IInv

\* A closed slot becomes the first of the list.
LEMMA CloseInv ==
  ASSUME IInv, NEW c \in Conns, CloseConnection(c)
  PROVE  IInv'
<1> DEFINE n == free_connection_n
<1>1. PICK q \in [1 .. n -> Conns] : Chain(q)
  BY DEF IInv, FreeListIntact
<1>2. n \in Nat /\ n + 1 \in Nat
  BY TableAssumption DEF IInv, TypeOK
<1>3. /\ fd[c] # -1 /\ fd' = [fd EXCEPT ![c] = -1] /\ got' = got
      /\ data' = [data EXCEPT ![c] = free_connections]
      /\ free_connections' = c /\ free_connection_n' = n + 1
  BY DEF CloseConnection
<1>p. PICK p : p = [i \in 1 .. n + 1 |-> IF i = 1 THEN c ELSE q[i - 1]]
  OBVIOUS
<1>4. p \in [1 .. n + 1 -> Conns]
  BY <1>p, <1>2
<1>5. \A i \in 1 .. n : q[i] # c /\ q[i] \in Conns
  BY <1>1, <1>3 DEF Chain
<1>6. \A i, j \in 1 .. n + 1 : p[i] = p[j] => i = j
  BY <1>p, <1>1, <1>2, <1>5 DEF Chain
<1>7. n + 1 <= N
  BY <1>2, <1>4, <1>6, ChainLength
<1>8. TypeOK'
  BY <1>2, <1>3, <1>7, TableAssumption DEF IInv, TypeOK
<1>9. {p[i] : i \in 1 .. n + 1} = {d \in Conns : fd'[d] = -1}
  <2>1. ASSUME NEW d \in Conns, fd'[d] = -1 PROVE \E i \in 1 .. n + 1 : p[i] = d
    <3>1. CASE d = c
      <4>1. 1 \in 1 .. n + 1 /\ p[1] = d
        BY <1>p, <1>2, <3>1
      <4> QED
        BY <4>1
    <3>2. CASE d # c
      <4>1. fd[d] = -1
        BY <1>3, <2>1, <3>2 DEF IInv, TypeOK
      <4>2. PICK j \in 1 .. n : q[j] = d
        BY <1>1, <4>1 DEF Chain
      <4>3. j + 1 \in 1 .. n + 1 /\ p[j + 1] = d
        BY <1>p, <1>2, <4>2
      <4> QED
        BY <4>3
    <3> QED
      BY <3>1, <3>2
  <2>2. ASSUME NEW i \in 1 .. n + 1 PROVE p[i] \in Conns /\ fd'[p[i]] = -1
    <3>1. CASE i = 1
      BY <1>p, <1>2, <1>3, <3>1 DEF IInv, TypeOK
    <3>2. CASE i # 1
      <4>1. i - 1 \in 1 .. n /\ p[i] = q[i - 1]
        BY <1>p, <1>2, <3>2
      <4>2. fd[q[i - 1]] = -1 /\ q[i - 1] \in Conns
        BY <1>1, <4>1 DEF Chain
      <4> QED
        BY <1>3, <1>5, <4>1, <4>2 DEF IInv, TypeOK
    <3> QED
      BY <3>1, <3>2
  <2> QED
    BY <2>1, <2>2
<1>10. \A i \in 1 .. n : data'[p[i]] = p[i + 1]
  <2> TAKE i \in 1 .. n
  <2>1. CASE i = 1
    <3>1. p[1] = c /\ p[2] = q[1] /\ free_connections = q[1]
      BY <1>p, <1>1, <1>2, <2>1 DEF Chain
    <3> QED
      BY <1>3, <2>1, <3>1 DEF IInv, TypeOK
  <2>2. CASE i # 1
    <3>1. i - 1 \in 1 .. n - 1 /\ i - 1 \in 1 .. n
      BY <1>2, <2>2
    <3>2. p[i] = q[i - 1] /\ p[i + 1] = q[i]
      BY <1>p, <1>2, <2>2
    <3>3. data[q[i - 1]] = q[(i - 1) + 1] /\ q[i - 1] # c /\ q[i - 1] \in Conns
      BY <1>1, <1>5, <3>1 DEF Chain
    <3> QED
      BY <1>2, <1>3, <3>2, <3>3 DEF IInv, TypeOK
  <2> QED
    BY <2>1, <2>2
<1>11. p[1] = c /\ data'[p[n + 1]] = Nil
  <2>1. CASE n = 0
    BY <1>p, <1>1, <1>3, <2>1 DEF Chain, IInv, TypeOK
  <2>2. CASE n > 0
    <3>1. data[q[n]] = Nil /\ p[n + 1] = q[n] /\ q[n] # c /\ q[n] \in Conns /\ p[1] = c
      BY <1>p, <1>1, <1>2, <1>5, <2>2 DEF Chain
    <3> QED
      BY <1>3, <3>1 DEF IInv, TypeOK
  <2> QED
    BY <1>2, <2>1, <2>2
<1>12. Chain(p)'
  <2> QED
    BY <1>2, <1>3, <1>6, <1>9, <1>10, <1>11 DEF Chain
<1>13. FreeListIntact'
  BY <1>3, <1>4, <1>12 DEF FreeListIntact
<1> QED
  BY <1>8, <1>13 DEF IInv

\* A request stored in a slot in use does not touch the list.
LEMMA RequestInv ==
  ASSUME IInv, NEW c \in Conns, SetRequest(c)
  PROVE  IInv'
<1>1. /\ fd[c] # -1 /\ data' = [data EXCEPT ![c] = Request] /\ fd' = fd /\ got' = got
      /\ free_connections' = free_connections /\ free_connection_n' = free_connection_n
  BY DEF SetRequest
<1>2. TypeOK'
  BY <1>1 DEF IInv, TypeOK
<1>3. PICK q \in [1 .. free_connection_n -> Conns] : Chain(q)
  BY DEF IInv, FreeListIntact
<1>4. \A i \in 1 .. free_connection_n : data'[q[i]] = data[q[i]]
  BY <1>1, <1>3 DEF Chain, IInv, TypeOK
<1>5. Chain(q)'
  <2>1. free_connection_n \in Nat
    BY TableAssumption DEF IInv, TypeOK
  <2>2. free_connection_n > 0 => data'[q[free_connection_n]] = Nil
    BY <1>3, <1>4, <2>1 DEF Chain
  <2>3. \A i \in 1 .. free_connection_n - 1 : data'[q[i]] = q[i + 1]
    BY <1>3, <1>4, <2>1 DEF Chain
  <2> QED
    BY <1>1, <1>3, <2>2, <2>3 DEF Chain
<1>6. FreeListIntact'
  BY <1>1, <1>5 DEF FreeListIntact
<1> QED
  BY <1>2, <1>6 DEF IInv

\* A refused request changes nothing of the list.
LEMMA NothingInv ==
  ASSUME IInv, GetNothing
  PROVE  IInv' /\ \A c \in Conns : fd[c] # -1
<1>1. PICK q \in [1 .. free_connection_n -> Conns] : Chain(q)
  BY DEF IInv, FreeListIntact
<1>2. free_connection_n = 0
  BY <1>1, TableAssumption DEF GetNothing, Chain, IInv, TypeOK, Conns, Nil
<1>3. \A c \in Conns : fd[c] # -1
  BY <1>1, <1>2 DEF Chain
<1>4. TypeOK' /\ Chain(q)' /\ free_connection_n' = free_connection_n
  BY <1>1 DEF GetNothing, Chain, IInv, TypeOK
<1> QED
  BY <1>3, <1>4 DEF IInv, FreeListIntact

\* Nor does a step that is not one of the table.
LEMMA StutterInv ==
  ASSUME IInv, UNCHANGED vars
  PROVE  IInv'
<1>1. PICK q \in [1 .. free_connection_n -> Conns] : Chain(q)
  BY DEF IInv, FreeListIntact
<1>2. Chain(q)' /\ TypeOK' /\ free_connection_n' = free_connection_n
  BY <1>1 DEF Chain, IInv, TypeOK, vars
<1> QED
  BY <1>2 DEF IInv, FreeListIntact

\* Every operation keeps the list whole.
LEMMA StepInv == IInv /\ [Next]_vars => IInv'
BY GetInv, NothingInv, RequestInv, CloseInv, StutterInv DEF Next

\* The type of the table and the shape of its free list are invariant.
THEOREM Invariant == Spec => []IInv
BY InitInv, StepInv, PTL DEF Spec

\* The links always lead through the free slots, each once, and to NULL.
THEOREM FreeListAlwaysIntact == Spec => []FreeListIntact
<1>1. IInv => FreeListIntact
  BY DEF IInv
<1> QED
  BY <1>1, Invariant, PTL

\* The links, the counter and the answers of xdbd_get_connection have their
\* types: the counter of free slots stays between 0 and N, however slots are
\* taken and closed.
THEOREM TypeCorrect == Spec => []TypeOK
<1>1. IInv => TypeOK
  BY DEF IInv
<1> QED
  BY <1>1, Invariant, PTL

\* Every step of the table is a step the abstract pool allows, or none.
LEMMA StepRefines ==
  IInv /\ [Next]_vars => [Pool!PoolNext]_<<fd, got>>
<1> SUFFICES ASSUME IInv, [Next]_vars PROVE [Pool!PoolNext]_<<fd, got>>
  OBVIOUS
<1>1. ASSUME NEW f \in Fds, GetConnection(f) PROVE Pool!PoolNext
  <2>1. Pool!Take(free_connections, f) /\ free_connections \in Conns
    BY <1>1, GetInv DEF GetConnection, Pool!Take, Pool!Free
  <2> QED
    BY <2>1 DEF Pool!PoolNext
<1>2. ASSUME GetNothing PROVE Pool!PoolNext
  BY <1>2, NothingInv DEF GetNothing, Pool!PoolNext, Pool!Refuse, Pool!Free
<1>3. ASSUME NEW c \in Conns, SetRequest(c) PROVE UNCHANGED <<fd, got>>
  BY <1>3 DEF SetRequest
<1>4. ASSUME NEW c \in Conns, CloseConnection(c) PROVE Pool!PoolNext
  BY <1>4 DEF CloseConnection, Pool!PoolNext, Pool!GiveBack, Pool!Free
<1>5. CASE UNCHANGED vars
  BY <1>5 DEF vars
<1> QED
  BY <1>1, <1>2, <1>3, <1>4, <1>5 DEF Next

\* The linked list implements the abstract pool: a slot is handed out only
\* when nobody holds it, and refused only when all are held.
THEOREM TableImplementsPool == Spec => ImplementsPool
<1>1. Init => Pool!PoolInit
  BY DEF Init, Pool!PoolInit
<1> QED
  BY <1>1, Invariant, StepRefines, PTL DEF Spec, ImplementsPool, Pool!PoolSpec
=============================================================================
