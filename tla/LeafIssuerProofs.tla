--------------------------- MODULE LeafIssuerProofs ---------------------------
(***************************************************************************)
(* The safety properties of LeafIssuer for any hosts, calls, sizes of the   *)
(* table and lengths of time.                                               *)
(***************************************************************************)
EXTENDS LeafIssuer, TLAPS

-----------------------------------------------------------------------------
(***************************************************************************)
(* The inductive invariant: what the properties need of the calls beside    *)
(* the table.                                                               *)
(***************************************************************************)
\* A call that was made has its host, which stays; an entry is of such a call.
HostInv ==
    /\ \A c \in Calls : pc[c] # "idle" => host[c] \in Hosts
    /\ \A h \in Hosts : entries[h] # None => pc[entries[h]] # "idle"

\* What a call has of its generation.
MadeInv ==
    \A c \in Calls :
        /\ made[c].notAfter <= CAEnd
        /\ pc[c] = "close" /\ made[c].failed = FALSE => made[c].notAfter # 0
        /\ pc[c] = "failed" => made[c].ready = TRUE /\ made[c].failed = TRUE

IInv == TypeOK /\ TableConsistent /\ HostInv /\ MadeInv

-----------------------------------------------------------------------------
(***************************************************************************)
(* Lemmas about the table.                                                  *)
(***************************************************************************)
\* removeLocked takes exactly the host out of a list without repetitions.
LEMMA RemoveFirstAt ==
    ASSUME NEW o \in Seq(Hosts), IsInjective(o), NEW k \in 1..Len(o)
    PROVE  RemoveFirst(o, o[k]) = SubSeq(o, 1, k - 1) \o SubSeq(o, k + 1, Len(o))
  <1> DEFINE I == {i \in 1..Len(o) : o[i] = o[k]}
  <1>1. I = {k}
    BY DEF IsInjective
  <1>2. Min(I) = k
    BY <1>1 DEF Min
  <1>3. RemoveFirst(o, o[k]) = RemoveAt(o, Min(I))
    BY <1>1 DEF RemoveFirst, SelectInSeq
  <1> QED
    BY <1>2, <1>3 DEF RemoveAt

LEMMA RemoveFirstFacts ==
    ASSUME NEW o \in Seq(Hosts), IsInjective(o), NEW h \in Hosts
    PROVE  LET r == RemoveFirst(o, h) IN
           /\ r \in Seq(Hosts) /\ IsInjective(r)
           /\ Contains(o, h) => Len(r) = Len(o) - 1
           /\ ~Contains(o, h) => r = o
           /\ \A g \in Hosts : Contains(r, g) <=> Contains(o, g) /\ g # h
  <1>1. CASE ~Contains(o, h)
    BY <1>1 DEF Contains, RemoveFirst
  <1>2. CASE Contains(o, h)
    <2>1. PICK k \in 1..Len(o) : o[k] = h
      BY <1>2 DEF Contains
    <2> DEFINE r == RemoveFirst(o, h)
               a == SubSeq(o, 1, k - 1)
               b == SubSeq(o, k + 1, Len(o))
    <2>2. r = a \o b
      BY <2>1, RemoveFirstAt
    <2>3. /\ a \in Seq(Hosts) /\ Len(a) = k - 1
          /\ \A i \in 1..(k - 1) : a[i] = o[i]
      OBVIOUS
    <2>4. /\ b \in Seq(Hosts) /\ Len(b) = Len(o) - k
          /\ \A i \in 1..(Len(o) - k) : b[i] = o[i + k]
      OBVIOUS
    <2>5. /\ r \in Seq(Hosts) /\ Len(r) = Len(o) - 1
          /\ \A i \in 1..(Len(o) - 1) : r[i] = IF i < k THEN o[i] ELSE o[i + 1]
      <3> HIDE DEF r, a, b
      <3>1. r \in Seq(Hosts) /\ Len(r) = Len(o) - 1
        BY <2>2, <2>3, <2>4
      <3>2. ASSUME NEW i \in 1..(Len(o) - 1), i < k PROVE r[i] = o[i]
        BY <2>2, <2>3, <2>4, <3>2
      <3>3. ASSUME NEW i \in 1..(Len(o) - 1), ~(i < k) PROVE r[i] = o[i + 1]
        <4>1. i \in (Len(a) + 1)..(Len(a) + Len(b)) /\ i - Len(a) \in 1..(Len(o) - k)
          BY <2>3, <2>4, <3>3
        <4>2. r[i] = b[i - Len(a)]
          <5>1. a \in Seq(Hosts) /\ b \in Seq(Hosts) /\ r = a \o b
            BY <2>2, <2>3, <2>4
          <5> QED
            BY <4>1, <5>1
        <4> QED
          BY <2>3, <2>4, <4>1, <4>2
      <3> QED
        BY <3>1, <3>2, <3>3
    <2> HIDE DEF r
    <2>6. IsInjective(r)
      <3> SUFFICES ASSUME NEW i \in 1..(Len(o) - 1), NEW j \in 1..(Len(o) - 1), r[i] = r[j]
                   PROVE  i = j
        BY <2>5 DEF IsInjective
      <3> DEFINE at(n) == IF n < k THEN n ELSE n + 1
      <3>1. at(i) \in 1..Len(o) /\ at(j) \in 1..Len(o) /\ o[at(i)] = o[at(j)]
        BY <2>5
      <3>2. at(i) = at(j)
        BY <3>1 DEF IsInjective
      <3> QED
        BY <3>2
    <2>7. ASSUME NEW g \in Hosts
          PROVE  Contains(r, g) <=> Contains(o, g) /\ g # h
      <3>1. ASSUME NEW i \in 1..Len(r) PROVE Contains(o, r[i]) /\ r[i] # h
        <4>1. PICK n \in 1..Len(o) : n # k /\ r[i] = o[n]
          <5>1. CASE i < k
            BY <2>5, <5>1
          <5>2. CASE ~(i < k)
            <6>1. i + 1 \in 1..Len(o) /\ i + 1 # k /\ r[i] = o[i + 1]
              BY <2>5, <5>2
            <6> QED
              BY <6>1
          <5> QED
            BY <5>1, <5>2
        <4>2. o[n] # o[k]
          BY <4>1 DEF IsInjective
        <4> QED
          BY <2>1, <4>1, <4>2 DEF Contains
      <3>2. ASSUME NEW i \in 1..Len(o), o[i] # h PROVE Contains(r, o[i])
        <4>1. CASE i < k
          BY <4>1, <2>5 DEF Contains
        <4>2. CASE i > k
          <5>1. i - 1 \in 1..Len(r) /\ r[i - 1] = o[i]
            BY <4>2, <2>5
          <5> QED
            BY <5>1 DEF Contains
        <4> QED
          BY <2>1, <3>2, <4>1, <4>2
      <3> QED
        BY <3>1, <3>2 DEF Contains
    <2> QED
      BY <1>2, <2>5, <2>6, <2>7 DEF r
  <1> QED
    BY <1>1, <1>2
\* A table whose list is in step, and what is left of it.
InStep(es, o) ==
    /\ es \in [Hosts -> Calls \cup {None}] /\ o \in Seq(Hosts)
    /\ IsInjective(o)
    /\ \A h \in Hosts : (es[h] # None) <=> Contains(o, h)

LEMMA RemovedKeeps ==
    ASSUME NEW es, NEW o, InStep(es, o), NEW h \in Hosts
    PROVE  /\ Removed(es, o, h) = <<[es EXCEPT ![h] = None], RemoveFirst(o, h)>>
           /\ InStep([es EXCEPT ![h] = None], RemoveFirst(o, h))
           /\ es[h] # None => Len(RemoveFirst(o, h)) = Len(o) - 1
           /\ es[h] = None => RemoveFirst(o, h) = o
  <1> DEFINE e == [es EXCEPT ![h] = None]
             r == RemoveFirst(o, h)
  <1>1. /\ r \in Seq(Hosts) /\ IsInjective(r)
        /\ Contains(o, h) => Len(r) = Len(o) - 1
        /\ ~Contains(o, h) => r = o
        /\ \A g \in Hosts : Contains(r, g) <=> Contains(o, g) /\ g # h
    BY RemoveFirstFacts DEF InStep
  <1>2. e \in [Hosts -> Calls \cup {None}] /\ \A g \in Hosts : e[g] = IF g = h THEN None ELSE es[g]
    BY DEF InStep
  <1>3. Removed(es, o, h) = <<e, r>>
    BY DEF Removed
  <1> HIDE DEF e, r
  <1>4. InStep(e, r)
    BY <1>1, <1>2 DEF InStep
  <1>5. /\ es[h] # None => Len(r) = Len(o) - 1
        /\ es[h] = None => r = o
    BY <1>1 DEF InStep
  <1> QED
    BY <1>3, <1>4, <1>5 DEF e, r

\* What MakeRoom leaves: at most the oldest host of a full table has gone.
LEMMA MakeRoomKeeps ==
    ASSUME NEW es, NEW o, InStep(es, o), Len(o) <= MaxEntries
    PROVE  \E e \in [Hosts -> Calls \cup {None}], r \in Seq(Hosts) :
               /\ MakeRoom(es, o) = <<e, r>>
               /\ InStep(e, r) /\ Len(r) < MaxEntries
               /\ \A h \in Hosts :
                     /\ e[h] # es[h] => e[h] = None /\ Len(o) = MaxEntries
                     /\ es[h] = None => e[h] = None
  <1>1. o \in Seq(Hosts) /\ Len(o) \in Nat /\ es \in [Hosts -> Calls \cup {None}]
    BY DEF InStep
  <1>2. CASE ~(Len(o) >= MaxEntries)
    <2>1. MakeRoom(es, o) = <<es, o>> /\ Len(o) < MaxEntries
      BY <1>1, <1>2, IssuerAssumption DEF MakeRoom
    <2> QED
      BY <1>1, <2>1
  <1>3. CASE Len(o) >= MaxEntries
    <2>1. Len(o) = MaxEntries /\ Len(o) # 0
      BY <1>1, <1>3, IssuerAssumption
    <2>2. PICK x \in Hosts : x = Head(o) /\ es[x] # None
      BY <1>1, <2>1 DEF InStep, Contains
    <2> DEFINE e == [es EXCEPT ![x] = None]
               r == RemoveFirst(o, x)
    <2>3. MakeRoom(es, o) = <<e, r>>
      BY <1>3, <2>2, RemovedKeeps DEF MakeRoom
    <2>4. InStep(e, r) /\ Len(r) = Len(o) - 1
      BY <2>2, RemovedKeeps
    <2>5. /\ e \in [Hosts -> Calls \cup {None}]
          /\ \A h \in Hosts : e[h] = IF h = x THEN None ELSE es[h]
      BY <1>1
    <2>6. r \in Seq(Hosts) /\ Len(r) < MaxEntries
      BY <2>1, <2>4, IssuerAssumption DEF InStep
    <2> HIDE DEF e, r
    <2> QED
      BY <2>1, <2>3, <2>4, <2>5, <2>6
  <1> QED
    BY <1>2, <1>3

\* A new entry at the end of the list.
LEMMA AddedKeeps ==
    ASSUME NEW es, NEW o, InStep(es, o), NEW h \in Hosts, NEW c \in Calls, es[h] = None
    PROVE  /\ InStep([es EXCEPT ![h] = c], Append(o, h))
           /\ Len(Append(o, h)) = Len(o) + 1
  <1> DEFINE e == [es EXCEPT ![h] = c]
             r == Append(o, h)
  <1>1. /\ r \in Seq(Hosts) /\ Len(r) = Len(o) + 1 /\ r[Len(o) + 1] = h
        /\ \A i \in 1..Len(o) : r[i] = o[i]
    BY DEF InStep
  <1>2. e \in [Hosts -> Calls \cup {None}] /\ \A g \in Hosts : e[g] = IF g = h THEN c ELSE es[g]
    BY DEF InStep
  <1>3. Len(o) \in Nat /\ o \in Seq(Hosts)
    BY DEF InStep
  <1> HIDE DEF e, r
  <1>4. \A g \in Hosts : Contains(r, g) <=> Contains(o, g) \/ g = h
    BY <1>1, <1>3 DEF Contains
  <1>5. ~Contains(o, h)
    BY DEF InStep
  <1>6. IsInjective(r)
    BY <1>1, <1>3, <1>5 DEF InStep, IsInjective, Contains
  <1>7. \A g \in Hosts : (e[g] # None) <=> Contains(r, g)
    BY <1>2, <1>4, IssuerAssumption DEF InStep
  <1> QED
    BY <1>1, <1>2, <1>6, <1>7 DEF InStep, e, r

-----------------------------------------------------------------------------
(***************************************************************************)
(* The steps.                                                               *)
(***************************************************************************)
LEMMA TableInStep ==
    ASSUME IInv PROVE InStep(entries, order)
  BY DEF IInv, TypeOK, TableConsistent, InStep

LEMMA Initially == Init => IInv
  <1> SUFFICES ASSUME Init PROVE IInv
    OBVIOUS
  <1> USE IssuerAssumption DEF Init
  <1>1. TypeOK
    BY DEF TypeOK, Entries, Blank
  <1>2. TableConsistent
    BY DEF TableConsistent, IsInjective, Contains
  <1>3. HostInv /\ MadeInv
    BY DEF HostInv, MadeInv, Blank
  <1> QED
    BY <1>1, <1>2, <1>3 DEF IInv

\* Steps of a call that leave the table alone.
LEMMA QuietKeeps ==
    ASSUME IInv, NEW c \in Calls,
           \/ Hit(c) \/ Join(c) \/ Sign(c) \/ Close(c) \/ Wake(c)
           \/ \E h \in Hosts : Call(c, h)
    PROVE  IInv'
  <1> USE DEF At, Goto, InTable
  <1> TypeOK /\ TableConsistent /\ HostInv /\ MadeInv
    BY DEF IInv
  <1>1. CASE Hit(c)
    <2> USE <1>1 DEF Hit
    <2> DEFINE e == entries[host[c]]
    <2>1. host[c] \in Hosts /\ e \in Calls
      BY DEF HostInv, TypeOK
    <2>2. host[e] \in Hosts /\ made[e].notAfter \in Nat
      BY <2>1 DEF HostInv, TypeOK, Entries
    <2>3. TypeOK'
      BY <2>1, <2>2 DEF TypeOK, Certificates
    <2>4. TableConsistent' /\ HostInv' /\ MadeInv'
      BY DEF TableConsistent, HostInv, MadeInv, TypeOK
    <2> QED
      BY <2>3, <2>4 DEF IInv
  <1>2. CASE Join(c)
    <2> USE <1>2 DEF Join
    <2>1. host[c] \in Hosts
      BY DEF HostInv
    <2>2. TypeOK'
      BY <2>1 DEF TypeOK
    <2>3. TableConsistent' /\ HostInv' /\ MadeInv'
      BY DEF TableConsistent, HostInv, MadeInv, TypeOK
    <2> QED
      BY <2>2, <2>3 DEF IInv
  <1>3. CASE Sign(c)
    <2> USE <1>3 DEF Sign
    <2> now \in Nat /\ CAEnd \in Nat \ {0} /\ Validity \in Nat \ {0}
      BY IssuerAssumption DEF TypeOK
    <2>1. SignedUntil \in Nat \ {0} /\ SignedUntil <= CAEnd
      BY DEF SignedUntil
    <2>2. PICK failed \in BOOLEAN :
             made' = [made EXCEPT ![c] =
                         [ready |-> FALSE, failed |-> failed,
                          notAfter |-> IF failed THEN 0 ELSE SignedUntil]]
      OBVIOUS
    <2>3. TypeOK'
      BY <2>1, <2>2 DEF TypeOK, Entries
    <2>4. MadeInv'
      <3> SUFFICES ASSUME NEW d \in Calls
                   PROVE  /\ made'[d].notAfter <= CAEnd
                          /\ pc'[d] = "close" /\ made'[d].failed = FALSE =>
                                made'[d].notAfter # 0
                          /\ pc'[d] = "failed" =>
                                made'[d].ready = TRUE /\ made'[d].failed = TRUE
        BY DEF MadeInv
      <3>1. CASE d = c
        BY <2>1, <2>2, <3>1 DEF TypeOK
      <3>2. CASE d # c
        BY <2>2, <3>2 DEF TypeOK, MadeInv
      <3> QED
        BY <3>1, <3>2
    <2>5. TableConsistent' /\ HostInv'
      BY DEF TableConsistent, HostInv, TypeOK
    <2> QED
      BY <2>3, <2>4, <2>5 DEF IInv
  <1>4. CASE Close(c)
    <2> USE <1>4 DEF Close, Closed
    <2>1. host[c] \in Hosts /\ made[c] \in Entries
      BY DEF HostInv, TypeOK
    <2>2. made' \in [Calls -> Entries]
      BY <2>1 DEF TypeOK, Entries
    <2>3. \A d \in Calls : /\ made'[d].notAfter = made[d].notAfter
                           /\ made'[d].failed = made[d].failed
                           /\ made'[d].ready = IF d = c THEN TRUE ELSE made[d].ready
      BY DEF TypeOK, Entries
    <2>4. TypeOK'
      <3>1. [host |-> host[c], notAfter |-> made[c].notAfter] \in Certificates
        BY <2>1 DEF Certificates, Entries
      <3>2. /\ answer' \in [Calls -> Certificates \cup {None}]
            /\ pc' \in [Calls -> {"idle", "lock", "sign", "close", "failed", "wait", "done"}]
        BY <3>1 DEF TypeOK
      <3> QED
        BY <2>2, <3>2 DEF TypeOK
    <2>5. MadeInv'
      BY <2>1, <2>3 DEF MadeInv, TypeOK, Entries
    <2>6. TableConsistent' /\ HostInv'
      BY DEF TableConsistent, HostInv, TypeOK
    <2> QED
      BY <2>4, <2>5, <2>6 DEF IInv
  <1>5. CASE Wake(c)
    <2> USE <1>5 DEF Wake, Recheck
    <2>1. TypeOK'
      BY DEF TypeOK
    <2>2. TableConsistent' /\ HostInv' /\ MadeInv'
      BY DEF TableConsistent, HostInv, MadeInv, TypeOK
    <2> QED
      BY <2>1, <2>2 DEF IInv
  <1>6. ASSUME NEW h \in Hosts, Call(c, h) PROVE IInv'
    <2> USE <1>6 DEF Call
    <2>1. TypeOK'
      BY DEF TypeOK
    <2>2. TableConsistent' /\ HostInv' /\ MadeInv'
      BY DEF TableConsistent, HostInv, MadeInv, TypeOK
    <2> QED
      BY <2>1, <2>2 DEF IInv
  <1> QED
    BY <1>1, <1>2, <1>3, <1>4, <1>5, <1>6

\* What a new entry does to the table.
LEMMA BeginTable ==
    ASSUME IInv, NEW c \in Calls, Begin(c)
    PROVE  /\ host[c] \in Hosts
           /\ InStep(entries', order') /\ Len(order') <= MaxEntries
           /\ entries'[host[c]] = c
           /\ \A h \in Hosts \ {host[c]} :
                 entries'[h] # entries[h] =>
                    /\ entries'[h] = None
                    /\ entries[host[c]] = None /\ Len(order) = MaxEntries
  <1> DEFINE x == host[c]
  <1>1. x \in Hosts /\ InStep(entries, order) /\ Len(order) <= MaxEntries /\ Len(order) \in Nat
    BY TableInStep DEF IInv, HostInv, Begin, At, TableConsistent, TypeOK
  <1> DEFINE e1 == [entries EXCEPT ![x] = None]
             r1 == RemoveFirst(order, x)
  <1> HIDE DEF x
  <1>2. PICK e \in [Hosts -> Calls \cup {None}], r \in Seq(Hosts) :
           /\ InStep(e, r) /\ Len(r) <= MaxEntries
           /\ e[x] = None
           /\ \A h \in Hosts \ {x} : e[h] = entries[h]
           /\ Cleared(c) = <<e, r>>
           /\ entries[x] # None => Len(r) < MaxEntries
           /\ entries[x] = None => r = order
    <2>1. CASE entries[x] = None
      <3>1. Cleared(c) = <<entries, order>>
        BY <2>1 DEF Cleared, InTable, x
      <3> QED
        BY <1>1, <2>1, <3>1 DEF InStep
    <2>2. CASE entries[x] # None
      <3>1. /\ Removed(entries, order, x) = <<e1, r1>>
            /\ InStep(e1, r1) /\ Len(r1) = Len(order) - 1
        BY <1>1, <2>2, RemovedKeeps
      <3>4. Cleared(c) = <<e1, r1>>
        BY <2>2, <3>1 DEF Cleared, InTable, x
      <3>2. /\ e1 \in [Hosts -> Calls \cup {None}] /\ r1 \in Seq(Hosts)
            /\ Len(r1) < MaxEntries /\ Len(r1) <= MaxEntries
        BY <1>1, <3>1, IssuerAssumption DEF InStep
      <3>3. \A h \in Hosts : e1[h] = IF h = x THEN None ELSE entries[h]
        BY <1>1 DEF InStep
      <3> HIDE DEF e1, r1
      <3> QED
        BY <1>1, <2>2, <3>1, <3>2, <3>3, <3>4
    <2> QED
      BY <2>1, <2>2
  <1>3. PICK e2 \in [Hosts -> Calls \cup {None}], r2 \in Seq(Hosts) :
           /\ MakeRoom(e, r) = <<e2, r2>>
           /\ InStep(e2, r2) /\ Len(r2) < MaxEntries
           /\ \A h \in Hosts :
                 /\ e2[h] # e[h] => e2[h] = None /\ Len(r) = MaxEntries
                 /\ e[h] = None => e2[h] = None
    BY <1>2, MakeRoomKeeps
  <1>4. entries' = [e2 EXCEPT ![x] = c] /\ order' = Append(r2, x)
    <2>1. Cleared(c)[1] = e /\ Cleared(c)[2] = r
      BY <1>2
    <2>2. MakeRoom(Cleared(c)[1], Cleared(c)[2]) = <<e2, r2>>
      BY <1>3, <2>1
    <2>3. /\ MakeRoom(Cleared(c)[1], Cleared(c)[2])[1] = e2
          /\ MakeRoom(Cleared(c)[1], Cleared(c)[2])[2] = r2
      BY <2>2
    <2> QED
      BY <2>3 DEF Begin, x
  <1>5. InStep(entries', order') /\ Len(order') = Len(r2) + 1
    BY <1>1, <1>2, <1>3, <1>4, AddedKeeps
  <1>6. Len(order') <= MaxEntries
    BY <1>3, <1>5, IssuerAssumption
  <1>7. \A h \in Hosts : entries'[h] = IF h = x THEN c ELSE e2[h]
    BY <1>4
  <1>8. ASSUME NEW h \in Hosts \ {x}, entries'[h] # entries[h]
        PROVE  /\ entries'[h] = None
               /\ entries[x] = None /\ Len(order) = MaxEntries
    <2>1. e2[h] # e[h]
      BY <1>2, <1>7, <1>8
    <2>2. e2[h] = None /\ Len(r) = MaxEntries
      BY <1>3, <2>1
    <2> QED
      BY <1>2, <1>7, <1>8, <2>2, IssuerAssumption
  <1> QED
    BY <1>1, <1>5, <1>6, <1>7, <1>8 DEF x

LEMMA BeginKeeps ==
    ASSUME IInv, NEW c \in Calls, Begin(c)
    PROVE  IInv'
  <1>1. /\ host[c] \in Hosts
        /\ InStep(entries', order') /\ Len(order') <= MaxEntries
        /\ entries'[host[c]] = c
        /\ \A h \in Hosts \ {host[c]} :
              entries'[h] # entries[h] => entries'[h] = None
    BY BeginTable
  <1>2. /\ pc' = [pc EXCEPT ![c] = "sign"]
        /\ UNCHANGED <<now, host, entry, made, answer>>
        /\ pc[c] = "lock"
    BY DEF Begin, At, Goto
  <1> TypeOK /\ TableConsistent /\ HostInv /\ MadeInv
    BY DEF IInv
  <1>3. TypeOK'
    BY <1>1, <1>2 DEF TypeOK, InStep
  <1>4. TableConsistent'
    BY <1>1, <1>2, IssuerAssumption DEF TableConsistent, InStep
  <1>5. HostInv'
    BY <1>1, <1>2, IssuerAssumption DEF HostInv, TypeOK
  <1>6. MadeInv'
    BY <1>2 DEF MadeInv, TypeOK
  <1> QED
    BY <1>3, <1>4, <1>5, <1>6 DEF IInv

\* What a failed generation does to the table.
LEMMA WithdrawTable ==
    ASSUME IInv, NEW c \in Calls, Withdraw(c)
    PROVE  /\ host[c] \in Hosts
           /\ InStep(entries', order') /\ Len(order') <= MaxEntries
           /\ \A h \in Hosts :
                 entries'[h] # entries[h] => entries'[h] = None /\ entries[h] = c
  <1>1. host[c] \in Hosts /\ InStep(entries, order) /\ Len(order) <= MaxEntries /\ Len(order) \in Nat
    BY TableInStep DEF IInv, HostInv, Withdraw, At, TableConsistent, TypeOK
  <1>2. CASE ~StillMine(c)
    BY <1>1, <1>2 DEF Withdraw
  <1>3. CASE StillMine(c)
    <2> DEFINE e == [entries EXCEPT ![host[c]] = None]
               r == RemoveFirst(order, host[c])
    <2>1. entries[host[c]] = c /\ c # None
      BY <1>3, IssuerAssumption DEF StillMine
    <2>2. /\ Removed(entries, order, host[c]) = <<e, r>>
          /\ InStep(e, r) /\ Len(r) = Len(order) - 1
      BY <1>1, <2>1, RemovedKeeps
    <2>3. \A h \in Hosts : e[h] = IF h = host[c] THEN None ELSE entries[h]
      BY <1>1 DEF InStep
    <2> HIDE DEF e, r
    <2>4. entries' = e /\ order' = r
      BY <1>3, <2>2 DEF Withdraw
    <2> QED
      BY <1>1, <2>1, <2>2, <2>3, <2>4, IssuerAssumption
  <1> QED
    BY <1>2, <1>3

LEMMA WithdrawKeeps ==
    ASSUME IInv, NEW c \in Calls, Withdraw(c)
    PROVE  IInv'
  <1>1. /\ InStep(entries', order') /\ Len(order') <= MaxEntries
        /\ \A h \in Hosts : entries'[h] # entries[h] => entries'[h] = None
    BY WithdrawTable
  <1>2. /\ pc' = [pc EXCEPT ![c] = "done"]
        /\ UNCHANGED <<now, host, entry, made, answer>>
        /\ pc[c] = "failed"
    BY DEF Withdraw, At, Goto
  <1> TypeOK /\ TableConsistent /\ HostInv /\ MadeInv
    BY DEF IInv
  <1>3. TypeOK'
    BY <1>1, <1>2 DEF TypeOK, InStep
  <1>4. TableConsistent'
    BY <1>1, <1>2 DEF TableConsistent, InStep
  <1>5. HostInv'
    BY <1>1, <1>2 DEF HostInv, TypeOK
  <1>6. MadeInv'
    BY <1>2 DEF MadeInv, TypeOK
  <1> QED
    BY <1>3, <1>4, <1>5, <1>6 DEF IInv

LEMMA TickKeeps ==
    ASSUME IInv, Tick
    PROVE  IInv'
  <1>1. TypeOK'
    BY IssuerAssumption DEF Tick, IInv, TypeOK
  <1>2. TableConsistent' /\ HostInv' /\ MadeInv'
    BY DEF Tick, IInv, TableConsistent, HostInv, MadeInv
  <1> QED
    BY <1>1, <1>2 DEF IInv

LEMMA StutterKeeps ==
    ASSUME IInv, UNCHANGED vars
    PROVE  IInv'
  BY DEF vars, IInv, TypeOK, TableConsistent, HostInv, MadeInv

-----------------------------------------------------------------------------
(***************************************************************************)
(* The theorems.                                                            *)
(***************************************************************************)
LEMMA NextKeeps ==
    ASSUME IInv, [Next]_vars
    PROVE  IInv'
  <1>1. CASE Tick
    BY <1>1, TickKeeps
  <1>2. ASSUME NEW c \in Calls, Step(c) \/ \E h \in Hosts : Call(c, h)
        PROVE  IInv'
    BY <1>2, QuietKeeps, BeginKeeps, WithdrawKeeps DEF Step
  <1>3. CASE UNCHANGED vars
    BY <1>3, StutterKeeps
  <1> QED
    BY <1>1, <1>2, <1>3 DEF Next

\* The invariant holds for every table, every number of calls and every validity.
THEOREM Invariance == Spec => []IInv
  BY Initially, NextKeeps, PTL DEF Spec

\* Every variable keeps its sort.
THEOREM TypeCorrect == Spec => []TypeOK
  <1>1. IInv => TypeOK
    BY DEF IInv
  <1> QED
    BY Invariance, <1>1, PTL

\* removeLocked and Certificate keep the map and its order in step and within max.
THEOREM TableCorrect == Spec => []TableConsistent
  <1>1. IInv => TableConsistent
    BY DEF IInv
  <1> QED
    BY Invariance, <1>1, PTL

\* Only the eviction at capacity takes a generation in progress, or a certificate
\* that can be served, out of the table.
THEOREM LostCorrect == Spec => LostOnlyToAnother
  <1> DEFINE Kept ==
        \A h \in Hosts :
          LET e == entries[h] IN
          /\ e # None /\ entries'[h] # e
          /\ ~made[e].ready \/ Usable(e)
          => /\ Len(order) = MaxEntries
             /\ \E g \in Hosts \ {h} : entries[g] = None /\ entries'[g] # None
  <1>1. IInv /\ [Next]_vars => [Kept]_vars
    <2> SUFFICES ASSUME IInv, Next, NEW h \in Hosts, entries[h] # None,
                        entries'[h] # entries[h],
                        ~made[entries[h]].ready \/ Usable(entries[h])
                 PROVE  /\ Len(order) = MaxEntries
                        /\ \E g \in Hosts \ {h} : entries[g] = None /\ entries'[g] # None
      OBVIOUS
    <2>1. PICK c \in Calls : Begin(c) \/ Withdraw(c)
      BY DEF Next, Step, Call, Hit, Join, Sign, Close, Wake, Tick
    <2>2. CASE Begin(c)
      <3>1. /\ host[c] \in Hosts /\ entries'[host[c]] = c
            /\ h # host[c] => entries[host[c]] = None /\ Len(order) = MaxEntries
        BY <2>2, BeginTable
      <3>2. h # host[c]
        BY <2>2 DEF Begin, InTable
      <3> QED
        BY <3>1, <3>2, IssuerAssumption
    <2>3. CASE Withdraw(c)
      <3>1. entries[h] = c
        BY <2>3, WithdrawTable
      <3>2. made[c].ready = TRUE /\ made[c].failed = TRUE
        BY <2>3 DEF Withdraw, At, IInv, MadeInv
      <3> QED
        BY <3>1, <3>2 DEF Usable
    <2> QED
      BY <2>1, <2>2, <2>3
  <1> QED
    BY Invariance, <1>1, PTL DEF Spec, LostOnlyToAnother

\* Who shares a generation gets a certificate for his host, valid and not due.
THEOREM SharedCorrect == Spec => SharedIsFresh
  <1> DEFINE Shared ==
        \A c \in Calls :
          answer'[c] # answer[c] /\ made[c] = Blank =>
              /\ answer'[c].host = host[c]
              /\ answer'[c].notAfter > now
              /\ answer'[c].notAfter <= CAEnd
              /\ answer'[c].notAfter > now + Renewal \/ answer'[c].notAfter = CAEnd
  <1>1. IInv /\ [Next]_vars => [Shared]_vars
    <2> SUFFICES ASSUME IInv, Next, NEW c \in Calls,
                        answer'[c] # answer[c], made[c] = Blank
                 PROVE  /\ answer'[c].host = host[c]
                        /\ answer'[c].notAfter > now
                        /\ answer'[c].notAfter <= CAEnd
                        /\ answer'[c].notAfter > now + Renewal \/ answer'[c].notAfter = CAEnd
      OBVIOUS
    <2>1. PICK d \in Calls : Hit(d) \/ Close(d)
      BY DEF Next, Step, Call, Begin, Join, Sign, Withdraw, Wake, Recheck, Tick
    <2>2. d = c
      BY <2>1 DEF Hit, Close, IInv, TypeOK
    <2>3. CASE Close(d)
      <3>1. pc[c] = "close" /\ made[c].failed = FALSE /\ made[c].notAfter = 0
        BY <2>2, <2>3 DEF Close, At, Blank
      <3> QED
        BY <3>1 DEF IInv, MadeInv
    <2>4. CASE Hit(d)
      <3> DEFINE e == entries[host[c]]
      <3>1. host[c] \in Hosts /\ e \in Calls
        BY <2>2, <2>4 DEF Hit, At, InTable, IInv, HostInv, TypeOK
      <3>2. answer'[c] = [host |-> host[e], notAfter |-> made[e].notAfter] /\ Fresh(made[e].notAfter)
        BY <2>2, <2>4 DEF Hit, InTable, Usable, IInv, TypeOK
      <3>3. host[e] = host[c]
        BY <3>1, IssuerAssumption DEF IInv, TableConsistent
      <3>4. made[e].notAfter \in Nat /\ made[e].notAfter <= CAEnd /\ now \in Nat
        BY <3>1, IssuerAssumption DEF IInv, TypeOK, MadeInv, Entries
      <3> HIDE DEF e
      <3> QED
        BY <3>2, <3>3, <3>4, IssuerAssumption DEF Fresh
    <2> QED
      BY <2>1, <2>3, <2>4
  <1> QED
    BY Invariance, <1>1, PTL DEF Spec, SharedIsFresh

-----------------------------------------------------------------------------
(***************************************************************************)
(* Nobody waits for nobody.                                                 *)
(***************************************************************************)
\* Generating takes no lock and waits for no one.
Generating(c) == pc[c] \in {"sign", "close"}

\* An entry of the table that is not ready is being generated.
EntryAtWork ==
    \A h \in Hosts :
        entries[h] # None /\ ~made[entries[h]].ready => Generating(entries[h])

\* A call that waits has an entry whose channel is closed or will be: also when the
\* entry has left the table meanwhile.
WaitersServed ==
    \A c \in Calls :
        pc[c] = "wait" =>
            entry[c] \in Calls /\ (Generating(entry[c]) \/ made[entry[c]].ready)

LEMMA WorkStep ==
    ASSUME IInv, EntryAtWork, WaitersServed, [Next]_vars
    PROVE  EntryAtWork' /\ WaitersServed'
  <1> USE DEF Generating
  <1>1. CASE UNCHANGED vars \/ Tick
    BY <1>1 DEF vars, Tick, EntryAtWork, WaitersServed
  <1>2. ASSUME NEW c \in Calls, Sign(c) \/ Close(c) PROVE EntryAtWork' /\ WaitersServed'
    <2>1. /\ UNCHANGED <<entries, entry>> /\ Generating(c)
          /\ \A e \in Calls : e # c => pc'[e] = pc[e] /\ made'[e] = made[e]
      BY <1>2 DEF Sign, Close, At, Goto, IInv, TypeOK
    <2>2. pc'[c] = "close" \/ (made'[c].ready = TRUE /\ pc'[c] \in {"failed", "done"})
      BY <1>2 DEF Sign, Close, Closed, At, Goto, IInv, TypeOK, Entries
    <2>3. entries \in [Hosts -> Calls \cup {None}]
      BY DEF IInv, TypeOK
    <2>4. \A e \in Calls : Generating(e) \/ made[e].ready => pc'[e] \in {"sign", "close"} \/ made'[e].ready
      BY <2>1, <2>2
    <2>5. \A h \in Hosts : entries[h] # None => pc'[entries[h]] \in {"sign", "close"} \/ made'[entries[h]].ready
      BY <2>3, <2>4 DEF EntryAtWork
    <2>6. \A d \in Calls : pc'[d] = "wait" => pc[d] = "wait"
      BY <2>1, <2>2
    <2> QED
      BY <2>1, <2>4, <2>5, <2>6 DEF EntryAtWork, WaitersServed
  <1>3. ASSUME NEW c \in Calls,
               Hit(c) \/ Join(c) \/ Begin(c) \/ Withdraw(c) \/ Wake(c) \/ \E h \in Hosts : Call(c, h)
        PROVE  EntryAtWork' /\ WaitersServed'
    <2> USE DEF Hit, Join, Begin, Withdraw, Wake, Recheck, Call, At, Goto
    <2>1. /\ made' = made /\ pc[c] \in {"idle", "lock", "wait", "failed"}
          /\ \A e \in Calls : e # c => pc'[e] = pc[e] /\ entry'[e] = entry[e]
      BY <1>3 DEF IInv, TypeOK
    <2>2. \A e \in Calls : Generating(e) => pc'[e] \in {"sign", "close"}
      BY <2>1
    <2>3. \A h \in Hosts :
             \/ entries'[h] \in {entries[h], None}
             \/ entries'[h] = c /\ pc'[c] = "sign"
      <3>1. CASE Begin(c)
        <4>1. /\ entries'[host[c]] = c
              /\ \A h \in Hosts \ {host[c]} : entries'[h] # entries[h] => entries'[h] = None
          BY <3>1, BeginTable
        <4>2. pc'[c] = "sign"
          BY <3>1 DEF IInv, TypeOK
        <4> QED
          BY <4>1, <4>2
      <3>2. CASE Withdraw(c)
        BY <3>2, WithdrawTable
      <3> QED
        BY <1>3, <3>1, <3>2
    <2>4. EntryAtWork'
      <3> SUFFICES ASSUME NEW h \in Hosts, entries'[h] # None, ~made[entries'[h]].ready
                   PROVE  pc'[entries'[h]] \in {"sign", "close"}
        BY <2>1 DEF EntryAtWork
      <3>1. CASE entries'[h] = entries[h]
        <4>1. entries[h] \in Calls /\ Generating(entries[h])
          BY <3>1 DEF IInv, TypeOK, EntryAtWork
        <4> QED
          BY <2>2, <3>1, <4>1
      <3> QED
        BY <2>3, <3>1
    <2>5. pc'[c] = "wait" => entry'[c] \in Calls /\ (pc'[entry'[c]] \in {"sign", "close"} \/ made[entry'[c]].ready)
      <3> SUFFICES ASSUME pc'[c] = "wait"
                   PROVE  entry'[c] \in Calls /\ (pc'[entry'[c]] \in {"sign", "close"} \/ made[entry'[c]].ready)
        OBVIOUS
      <3>1. Join(c)
        BY <1>3 DEF IInv, TypeOK
      <3>2. entry'[c] = entries[host[c]] /\ entries[host[c]] # None /\ host[c] \in Hosts
        BY <3>1 DEF InTable, IInv, TypeOK, HostInv
      <3>3. entries[host[c]] \in Calls
        BY <3>2 DEF IInv, TypeOK
      <3> QED
        BY <2>2, <3>2, <3>3 DEF EntryAtWork
    <2>6. \A d \in Calls : d # c /\ pc'[d] = "wait" =>
             entry'[d] \in Calls /\ (pc'[entry'[d]] \in {"sign", "close"} \/ made[entry'[d]].ready)
      BY <2>1, <2>2 DEF WaitersServed
    <2> QED
      BY <2>1, <2>4, <2>5, <2>6 DEF WaitersServed
  <1> QED
    BY <1>1, <1>2, <1>3 DEF Next, Step

\* What CallReturns rests on: whoever waits for an entry waits for a call that is
\* generating it, which waits for nobody, or for a channel that is closed; so the
\* calls can never all wait for one another.
THEOREM WaitersCorrect == Spec => []WaitersServed
  <1>1. Init => EntryAtWork /\ WaitersServed
    BY DEF Init, EntryAtWork, WaitersServed
  <1>2. IInv /\ EntryAtWork /\ WaitersServed /\ [Next]_vars => EntryAtWork' /\ WaitersServed'
    BY WorkStep
  <1> QED
    BY Invariance, <1>1, <1>2, PTL DEF Spec
==============================================================================
