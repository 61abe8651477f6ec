-------------------------- MODULE DnsFallback_proofs --------------------------
(***************************************************************************)
(* The safety properties of DnsFallback for any TTL, with and without a    *)
(* disk that fails: its types for any number of hosts, what it promises    *)
(* for a process with one.                                                 *)
(***************************************************************************)
EXTENDS DnsFallback, TLAPS

-----------------------------------------------------------------------------
(***************************************************************************)
(* The inductive invariant, in named parts.                                *)
(***************************************************************************)

\* What is known of host h if the entry m and the file's age f are all there is:
\* the file is behind memory, never ahead of it, an entry's time to live ends no
\* earlier than its address is old, and what memory has dropped after the file
\* was read is outdated in the file as well.
Behind(m, f, read) ==
    IF m = Absent THEN read => f = Absent \/ f > Ttl
    ELSE /\ m.age + m.left >= Ttl
         /\ f = Absent \/ f >= m.age

MemoryInv == \A h \in Host : Behind(memory[h], file.ages[h], loaded)

\* The file's one expiry is that of its newest address.
FileInv == \A h \in Host : file.ages[h] = Absent \/ file.ages[h] + file.left >= Ttl

\* Who is refused an address knows of none, and finds none in the file.
RefusedInv ==
    outcome.from = "raised" =>
        LET h == outcome.host
        IN  /\ h \in Host /\ memory[h] = Absent
            /\ file.ages[h] = Absent \/ file.ages[h] > Ttl

IInv ==
    /\ TypeOK
    /\ MemoryInv
    /\ FileInv
    /\ RefusedInv

-----------------------------------------------------------------------------
\* The marker for no entry is neither an entry nor an age.
LEMMA AbsentApart ==
    /\ \A e \in Entry : e # Absent
    /\ \A a \in Age : a # Absent
BY AbsentAssumption

\* No look has been asked for yet.
LEMMA NothingTyped == Nothing \in Outcome /\ Nothing.from = "none"
<1>1. 0 \in Age
  BY TtlAssumption DEF Age
<1> QED  BY <1>1 DEF Nothing, Outcome, Source

\* Nothing is known at first.
LEMMA InitIInv == Init => IInv
<1> SUFFICES ASSUME Init PROVE IInv
  OBVIOUS
<1>1. TypeOK
  <2>1. -1 \in -1..Ttl
    BY TtlAssumption
  <2> QED  BY <2>1, NothingTyped DEF Init, TypeOK
<1>2. MemoryInv /\ FileInv
  BY DEF Init, MemoryInv, FileInv, Behind
<1>3. RefusedInv
  BY DEF Init, RefusedInv, Nothing
<1> QED  BY <1>1, <1>2, <1>3 DEF IInv

\* Looking an address up keeps what is known of every host, with or without
\* reading the file.
LEMMA LookKeeps ==
    ASSUME IInv, NEW h \in Host
    PROVE  /\ Looked(h) \in [Host -> Entry \cup {Absent}]
           /\ \A x \in Host : Behind(Looked(h)[x], file.ages[x], loaded \/ MustLoad(h))
<1>1. /\ memory \in [Host -> Entry \cup {Absent}]
      /\ file.ages \in [Host -> Age \cup {Absent}] /\ file.left \in -1..Ttl
  BY DEF IInv, TypeOK
<1>2. CASE MustLoad(h)
  <2>1. Looked(h) = [x \in Host |-> IF file.ages[x] = Absent THEN memory[x]
                                    ELSE [left |-> file.left, age |-> file.ages[x]]]
    BY <1>2 DEF Looked, AfterLoad
  <2>2. Looked(h) \in [Host -> Entry \cup {Absent}]
    BY <1>1, <2>1 DEF Entry
  <2>3. ASSUME NEW x \in Host, file.ages[x] = Absent
        PROVE  Behind(Looked(h)[x], file.ages[x], TRUE)
    BY <2>1, <2>3 DEF Behind, IInv, MemoryInv
  <2>4. ASSUME NEW x \in Host, file.ages[x] # Absent
        PROVE  Behind(Looked(h)[x], file.ages[x], TRUE)
    <3>1. file.ages[x] \in Age /\ file.ages[x] + file.left >= Ttl
      BY <1>1, <2>4 DEF IInv, FileInv
    <3>2. /\ Looked(h)[x] = [left |-> file.left, age |-> file.ages[x]]
          /\ Looked(h)[x] \in Entry
      BY <1>1, <2>1, <2>4, <3>1 DEF Entry
    <3> QED  BY <3>1, <3>2, AbsentApart DEF Behind, Age
  <2> QED  BY <1>2, <2>2, <2>3, <2>4
<1>3. CASE ~MustLoad(h) /\ Hit(h)
  BY <1>1, <1>3 DEF Looked, IInv, MemoryInv, Behind
<1>4. CASE ~MustLoad(h) /\ ~Hit(h)
  <2>1. Looked(h) = [memory EXCEPT ![h] = Absent]
    BY <1>4 DEF Looked
  <2>2. loaded => file.ages[h] = Absent \/ file.ages[h] > Ttl
    <3>1. CASE memory[h] = Absent
      BY <3>1 DEF IInv, MemoryInv, Behind
    <3>2. CASE memory[h] # Absent
      <4>1. memory[h] \in Entry /\ ~(memory[h].left >= 0)
        BY <1>1, <1>4, <3>2 DEF Hit
      <4>2. memory[h].age \in Int /\ memory[h].left \in Int /\ memory[h].age > Ttl
        BY <3>2, <4>1, TtlAssumption DEF IInv, MemoryInv, Behind, Entry, Age
      <4>3. file.ages[h] = Absent \/ file.ages[h] >= memory[h].age
        BY <3>2 DEF IInv, MemoryInv, Behind
      <4>4. file.ages[h] = Absent \/ file.ages[h] \in Int
        BY <1>1 DEF Age
      <4> QED  BY <4>2, <4>3, <4>4, TtlAssumption
    <3> QED  BY <3>1, <3>2
  <2>3. Behind(Looked(h)[h], file.ages[h], loaded)
    BY <1>1, <2>1, <2>2 DEF Behind
  <2>4. \A x \in Host : x # h => Looked(h)[x] = memory[x]
    BY <1>1, <2>1
  <2>5. \A x \in Host : Behind(Looked(h)[x], file.ages[x], loaded)
    BY <2>3, <2>4 DEF IInv, MemoryInv
  <2>6. Looked(h) \in [Host -> Entry \cup {Absent}]
    BY <1>1, <2>1
  <2> QED  BY <1>4, <2>5, <2>6 DEF Behind
<1> QED  BY <1>2, <1>3, <1>4

\* Remembering an address keeps it too, whether the file takes it or not.
LEMMA RememberKeeps ==
    ASSUME IInv, NEW h \in Host, NEW m \in [Host -> Entry \cup {Absent}],
           loaded' \in BOOLEAN, \A x \in Host : Behind(m[x], file.ages[x], loaded'),
           Remember(h, m)
    PROVE  /\ memory' \in [Host -> Entry \cup {Absent}]
           /\ file' \in [left : -1..Ttl, ages : [Host -> Age \cup {Absent}]]
           /\ vouched' \in [Host -> Age \cup {Absent}]
           /\ MemoryInv' /\ FileInv'
<1> DEFINE new == [left |-> Ttl, age |-> 0]
<1>1. new \in Entry /\ new # Absent /\ 0 \in Age /\ 0 # Absent /\ Ttl \in Nat
  BY TtlAssumption, AbsentApart DEF Entry, Age
<1>2. /\ memory' = [m EXCEPT ![h] = new]
      /\ vouched' \in [Host -> Age \cup {Absent}]
  BY <1>1 DEF Remember, IInv, TypeOK
<1>3. memory'[h] = new /\ \A x \in Host : x # h => memory'[x] = m[x]
  BY <1>2
<1>4. CASE UNCHANGED file
  <2>1. Behind(memory'[h], file'.ages[h], loaded')
    <3>1. file.ages[h] = Absent \/ file.ages[h] \in Nat
      BY DEF IInv, TypeOK, Age
    <3> QED  BY <1>1, <1>3, <1>4, <3>1 DEF Behind
  <2>2. \A x \in Host : Behind(memory'[x], file'.ages[x], loaded')
    BY <1>3, <1>4, <2>1
  <2> QED  BY <1>1, <1>2, <1>4, <2>2 DEF IInv, TypeOK, MemoryInv, FileInv
<1>5. CASE file' = [left |-> Ttl,
                    ages |-> [x \in Host |-> IF x = h THEN 0
                                             ELSE IF m[x] = Absent THEN Absent
                                             ELSE m[x].age]]
  <2>1. \A x \in Host : m[x] = Absent \/ (m[x] \in Entry /\ m[x].age \in Age)
    BY DEF Entry
  <2>2. /\ file'.left = Ttl /\ file'.ages[h] = 0
        /\ \A x \in Host : x # h => file'.ages[x] = IF m[x] = Absent THEN Absent
                                                    ELSE m[x].age
    BY <1>5
  <2>3. file' \in [left : -1..Ttl, ages : [Host -> Age \cup {Absent}]]
    BY <1>1, <1>5, <2>1
  <2>4. ASSUME NEW x \in Host
        PROVE  /\ Behind(memory'[x], file'.ages[x], loaded')
               /\ file'.ages[x] = Absent \/ file'.ages[x] + file'.left >= Ttl
    <3>1. CASE x = h
      BY <1>1, <1>3, <2>2, <3>1 DEF Behind
    <3>2. CASE x # h /\ m[x] = Absent
      BY <1>3, <2>2, <3>2 DEF Behind
    <3>3. CASE x # h /\ m[x] # Absent
      <4>1. m[x].age \in Nat /\ m[x].age + m[x].left >= Ttl
        BY <2>1, <3>3 DEF Behind, Age
      <4> QED  BY <1>1, <1>3, <2>2, <3>3, <4>1 DEF Behind
    <3> QED  BY <3>1, <3>2, <3>3
  <2> QED  BY <1>1, <1>2, <2>3, <2>4 DEF MemoryInv, FileInv
<1> QED  BY <1>4, <1>5 DEF Remember

\* What a look reports is well typed.
LEMMA ReportTyped ==
    ASSUME NEW h \in Host, NEW source \in Source, NEW age \in Age, NEW b \in BOOLEAN,
           Report(h, source, age, b)
    PROVE  outcome' \in Outcome /\ outcome'.from = source /\ outcome'.host = h
BY DEF Report, Outcome

\* Every way a look may end keeps the invariant.
LEMMA ResolveKeeps ==
    ASSUME IInv, NEW h \in Host, Resolve(h)
    PROVE  IInv'
<1>0. 0 \in Age /\ loaded \in BOOLEAN
  BY TtlAssumption DEF Age, IInv, TypeOK
<1>1. CASE ResolveBySystem(h)
  <2>1. memory \in [Host -> Entry \cup {Absent}] /\ loaded' = loaded
    BY <1>1 DEF IInv, TypeOK, ResolveBySystem
  <2>2. \A x \in Host : Behind(memory[x], file.ages[x], loaded')
    BY <2>1 DEF IInv, MemoryInv
  <2>3. outcome' \in Outcome /\ outcome'.from = "system"
    BY <1>0, <1>1, ReportTyped DEF ResolveBySystem, Source
  <2>4. Remember(h, memory)
    BY <1>1 DEF ResolveBySystem
  <2>5. /\ memory' \in [Host -> Entry \cup {Absent}]
        /\ file' \in [left : -1..Ttl, ages : [Host -> Age \cup {Absent}]]
        /\ vouched' \in [Host -> Age \cup {Absent}]
        /\ MemoryInv' /\ FileInv'
    BY <1>0, <2>1, <2>2, <2>4, RememberKeeps
  <2> QED  BY <1>0, <2>1, <2>3, <2>5 DEF IInv, TypeOK, RefusedInv
<1>2. CASE ResolveFromCache(h)
  <2>1. /\ memory' = Looked(h) /\ file' = file /\ vouched' = vouched /\ Hit(h)
        /\ loaded' = (loaded \/ MustLoad(h))
    BY <1>2 DEF ResolveFromCache
  <2>2. /\ memory' \in [Host -> Entry \cup {Absent}]
        /\ \A x \in Host : Behind(memory'[x], file.ages[x], loaded')
    BY <2>1, LookKeeps
  <2>3. Looked(h)[h] \in Entry
    <3>1. CASE MustLoad(h)
      <4>1. file.ages[h] # Absent
        BY <2>1, <3>1 DEF Hit
      <4>2. Looked(h)[h] = [left |-> file.left, age |-> file.ages[h]]
        BY <3>1, <4>1 DEF Looked, AfterLoad
      <4> QED  BY <4>1, <4>2 DEF IInv, TypeOK, Entry
    <3>2. CASE ~MustLoad(h)
      BY <2>1, <3>2 DEF Looked, Hit, IInv, TypeOK
    <3> QED  BY <3>1, <3>2
  <2>4. outcome' \in Outcome /\ outcome'.from = "cache"
    <3>1. Looked(h)[h].age \in Age /\ MustLoad(h) \in BOOLEAN
      BY <2>3 DEF Entry, MustLoad
    <3> QED  BY <1>2, <3>1, ReportTyped DEF ResolveFromCache, Source
  <2>5. loaded' \in BOOLEAN
    BY <2>1
  <2>6. TypeOK'
    BY <2>1, <2>2, <2>4, <2>5 DEF IInv, TypeOK
  <2>7. MemoryInv' /\ FileInv' /\ RefusedInv'
    BY <2>1, <2>2, <2>4 DEF IInv, MemoryInv, FileInv, RefusedInv
  <2> QED  BY <2>6, <2>7 DEF IInv
<1>3. CASE ResolveByDoh(h)
  <2>1. loaded' = (loaded \/ MustLoad(h)) /\ Remember(h, Looked(h))
    BY <1>3 DEF ResolveByDoh
  <2>2. /\ Looked(h) \in [Host -> Entry \cup {Absent}]
        /\ \A x \in Host : Behind(Looked(h)[x], file.ages[x], loaded')
    BY <2>1, LookKeeps
  <2>3. outcome' \in Outcome /\ outcome'.from = "doh"
    BY <1>0, <1>3, ReportTyped DEF ResolveByDoh, Source
  <2>4. loaded' \in BOOLEAN
    BY <2>1
  <2>5. /\ memory' \in [Host -> Entry \cup {Absent}]
        /\ file' \in [left : -1..Ttl, ages : [Host -> Age \cup {Absent}]]
        /\ vouched' \in [Host -> Age \cup {Absent}]
        /\ MemoryInv' /\ FileInv'
    BY <2>1, <2>2, <2>4, RememberKeeps
  <2> QED  BY <2>3, <2>4, <2>5 DEF IInv, TypeOK, RefusedInv
<1>4. CASE ResolveFails(h)
  <2>1. /\ memory' = Looked(h) /\ file' = file /\ vouched' = vouched /\ ~Hit(h)
        /\ loaded' = (loaded \/ MustLoad(h))
    BY <1>4 DEF ResolveFails
  <2>2. /\ memory' \in [Host -> Entry \cup {Absent}]
        /\ \A x \in Host : Behind(memory'[x], file.ages[x], loaded')
    BY <2>1, LookKeeps
  <2>3. outcome' \in Outcome /\ outcome'.from = "raised" /\ outcome'.host = h
    BY <1>0, <1>4, ReportTyped DEF ResolveFails, Source
  <2>4. loaded' \in BOOLEAN
    BY <2>1
  <2>5. memory'[h] = Absent
    BY <2>1 DEF Hit, MustLoad, Looked, AfterLoad, IInv, TypeOK
  <2>6. file.ages[h] = Absent \/ file.ages[h] > Ttl
    <3>1. CASE MustLoad(h)
      BY <2>1, <3>1 DEF Hit
    <3>2. CASE memory[h] = Absent /\ loaded
      BY <3>2 DEF IInv, MemoryInv, Behind
    <3>3. CASE memory[h] # Absent
      <4>1. memory[h] \in Entry /\ ~(memory[h].left >= 0)
        BY <2>1, <3>3 DEF Hit, MustLoad, IInv, TypeOK
      <4>2. memory[h].age \in Int /\ memory[h].left \in Int /\ memory[h].age > Ttl
        BY <3>3, <4>1, TtlAssumption DEF IInv, MemoryInv, Behind, Entry, Age
      <4>3. file.ages[h] = Absent \/ file.ages[h] >= memory[h].age
        BY <3>3 DEF IInv, MemoryInv, Behind
      <4>4. file.ages[h] = Absent \/ file.ages[h] \in Int
        BY DEF IInv, TypeOK, Age
      <4> QED  BY <4>2, <4>3, <4>4, TtlAssumption
    <3> QED  BY <3>1, <3>2, <3>3 DEF MustLoad
  <2>7. TypeOK'
    BY <2>1, <2>2, <2>3, <2>4 DEF IInv, TypeOK
  <2>8. MemoryInv' /\ FileInv' /\ RefusedInv'
    BY <2>1, <2>2, <2>3, <2>5, <2>6 DEF IInv, MemoryInv, FileInv, RefusedInv
  <2> QED  BY <2>7, <2>8 DEF IInv
<1> QED  BY <1>1, <1>2, <1>3, <1>4 DEF Resolve

\* A new process knows what the file knows.
LEMMA RestartKeeps ==
    ASSUME IInv, Restart
    PROVE  IInv'
<1>1. TypeOK'
  BY NothingTyped DEF IInv, TypeOK, Restart
<1>2. MemoryInv' /\ FileInv'
  BY DEF IInv, MemoryInv, FileInv, Behind, Restart
<1>3. RefusedInv'
  BY DEF Restart, RefusedInv, Nothing
<1> QED  BY <1>1, <1>2, <1>3 DEF IInv

\* Memory and file grow old together.
LEMMA TickKeeps ==
    ASSUME IInv, Tick
    PROVE  IInv'
<1>1. /\ memory \in [Host -> Entry \cup {Absent}] /\ loaded' = loaded
      /\ file.ages \in [Host -> Age \cup {Absent}] /\ file.left \in -1..Ttl
  BY DEF IInv, TypeOK, Tick
<1>2. /\ \A a \in Age : /\ Older(a) \in Age
                        /\ a > Ttl => Older(a) > Ttl
                        /\ \A b \in Age : a >= b => Older(a) >= Older(b)
      /\ \A l \in -1..Ttl : /\ Sooner(l) \in -1..Ttl
                            /\ \A a \in Age : a + l >= Ttl => Older(a) + Sooner(l) >= Ttl
  BY TtlAssumption DEF Older, Sooner, Age
<1>3. /\ memory' = [h \in Host |-> IF memory[h] = Absent THEN Absent
                                   ELSE [left |-> Sooner(memory[h].left),
                                         age |-> Older(memory[h].age)]]
      /\ file' = [left |-> Sooner(file.left), ages |-> AllOlder(file.ages)]
      /\ vouched' = AllOlder(vouched)
      /\ outcome' = Nothing
  BY DEF Tick
<1>4. \A h \in Host :
          /\ memory[h] = Absent => memory'[h] = Absent
          /\ memory[h] # Absent =>
                /\ memory[h].left \in -1..Ttl /\ memory[h].age \in Age
                /\ memory'[h] \in Entry /\ memory'[h] # Absent
                /\ memory'[h].left = Sooner(memory[h].left)
                /\ memory'[h].age = Older(memory[h].age)
  BY <1>1, <1>2, <1>3, AbsentApart DEF Entry
<1>5. \A h \in Host :
          /\ file.ages[h] = Absent => file'.ages[h] = Absent
          /\ file.ages[h] # Absent => /\ file.ages[h] \in Age
                                      /\ file'.ages[h] = Older(file.ages[h])
  BY <1>1, <1>3 DEF AllOlder
<1>6. TypeOK'
  <2>1. memory' \in [Host -> Entry \cup {Absent}]
    BY <1>3, <1>4
  <2>2. file' \in [left : -1..Ttl, ages : [Host -> Age \cup {Absent}]]
    BY <1>1, <1>2, <1>3 DEF AllOlder
  <2>3. vouched' \in [Host -> Age \cup {Absent}]
    BY <1>2, <1>3 DEF AllOlder, IInv, TypeOK
  <2> QED  BY <1>1, <1>3, <2>1, <2>2, <2>3, NothingTyped DEF IInv, TypeOK
<1>7. FileInv'
  <2>1. file'.left = Sooner(file.left)
    BY <1>3
  <2> QED  BY <1>1, <1>2, <1>5, <2>1 DEF IInv, FileInv
<1>8. MemoryInv'
  <2> SUFFICES ASSUME NEW h \in Host
               PROVE  Behind(memory'[h], file'.ages[h], loaded')
    BY DEF MemoryInv
  <2>1. Behind(memory[h], file.ages[h], loaded)
    BY DEF IInv, MemoryInv
  <2>2. CASE memory[h] = Absent
    BY <1>1, <1>2, <1>4, <1>5, <2>1, <2>2 DEF Behind
  <2>3. CASE memory[h] # Absent
    BY <1>2, <1>4, <1>5, <2>1, <2>3 DEF Behind
  <2> QED  BY <2>2, <2>3
<1>9. RefusedInv'
  BY <1>3 DEF RefusedInv, Nothing
<1> QED  BY <1>6, <1>7, <1>8, <1>9 DEF IInv

\* The invariant holds in every state of every run.
LEMMA InvariantKept == Spec => []IInv
<1>1. IInv /\ UNCHANGED vars => IInv'
  BY DEF vars, IInv, TypeOK, MemoryInv, FileInv, RefusedInv
<1>2. IInv /\ [Next]_vars => IInv'
  BY <1>1, ResolveKeeps, RestartKeeps, TickKeeps DEF Next
<1> QED  BY <1>2, InitIInv, PTL DEF Spec

-----------------------------------------------------------------------------
(***************************************************************************)
(* The type theorem.                                                       *)
(***************************************************************************)

\* Every variable keeps its type: no entry outlives the TTL.
THEOREM TypeCorrect == Spec => []TypeOK
<1>1. IInv => TypeOK
  BY DEF IInv
<1> QED  BY <1>1, InvariantKept, PTL

-----------------------------------------------------------------------------
(***************************************************************************)
(* A process with one host: the file's expiry is that of its one address,  *)
(* and loading it takes the place of nothing.                              *)
(***************************************************************************)

\* What a resolver gave this process within the TTL is in memory, no older.
VouchedInv ==
    \A h \in Host : Recent(vouched[h]) => /\ memory[h] # Absent
                                          /\ memory[h].age <= vouched[h]

\* ... and has not expired.
LEMMA VouchedIsHit ==
    ASSUME IInv, VouchedInv, NEW h \in Host, Recent(vouched[h])
    PROVE  /\ memory[h] # Absent /\ memory[h].age <= vouched[h]
           /\ Hit(h) /\ Looked(h) = memory
<1>1. memory[h] # Absent /\ memory[h].age <= vouched[h]
  BY DEF VouchedInv
<1>2. memory[h] \in Entry /\ memory[h].age + memory[h].left >= Ttl
  BY <1>1 DEF IInv, TypeOK, MemoryInv, Behind
<1>3. vouched[h] \in Int /\ vouched[h] <= Ttl
  BY DEF Recent, IInv, TypeOK, Age
<1>4. memory[h].left >= 0
  BY <1>1, <1>2, <1>3, TtlAssumption DEF Entry, Age
<1> QED  BY <1>1, <1>4 DEF MustLoad, Hit, Looked

\* Every step of a process with one host keeps it there.
LEMMA VouchedKept ==
    ASSUME IInv, VouchedInv, NEW h, Host = {h}, [Next]_vars
    PROVE  VouchedInv'
<1>1. /\ h \in Host
      /\ memory \in [Host -> Entry \cup {Absent}]
      /\ vouched \in [Host -> Age \cup {Absent}]
  BY DEF IInv, TypeOK
<1>2. SUFFICES ASSUME Recent(vouched'[h])
               PROVE  memory'[h] # Absent /\ memory'[h].age <= vouched'[h]
  BY DEF VouchedInv
<1>3. ASSUME vouched'[h] = vouched[h], memory' = Looked(h) \/ memory' = memory
      PROVE  memory'[h] # Absent /\ memory'[h].age <= vouched'[h]
  BY <1>1, <1>2, <1>3, VouchedIsHit
<1>4. ASSUME NEW m \in [Host -> Entry \cup {Absent}], Remember(h, m)
      PROVE  memory'[h] # Absent /\ memory'[h].age <= vouched'[h]
  <2>1. memory'[h] = [left |-> Ttl, age |-> 0] /\ vouched'[h] = 0
    BY <1>1, <1>4 DEF Remember
  <2>2. [left |-> Ttl, age |-> 0] \in Entry
    BY TtlAssumption DEF Entry, Age
  <2> QED  BY <2>1, <2>2, AbsentApart
<1>5. CASE ResolveBySystem(h)
  BY <1>1, <1>4, <1>5 DEF ResolveBySystem
<1>6. CASE ResolveByDoh(h)
  <2>1. Looked(h) \in [Host -> Entry \cup {Absent}]
    BY <1>1, LookKeeps
  <2> QED  BY <1>4, <1>6, <2>1 DEF ResolveByDoh
<1>7. CASE ResolveFromCache(h) \/ ResolveFails(h)
  BY <1>3, <1>7 DEF ResolveFromCache, ResolveFails
<1>8. CASE Restart
  BY <1>1, <1>2, <1>8 DEF Restart, Recent
<1>9. CASE Tick
  <2>1. /\ vouched'[h] = IF vouched[h] = Absent THEN Absent ELSE Older(vouched[h])
        /\ memory'[h] = IF memory[h] = Absent THEN Absent
                        ELSE [left |-> Sooner(memory[h].left), age |-> Older(memory[h].age)]
    BY <1>1, <1>9 DEF Tick, AllOlder
  <2>2. /\ \A a \in Age : Older(a) \in Age /\ (Older(a) <= Ttl => a <= Ttl)
        /\ \A a, b \in Age : a <= b => Older(a) <= Older(b)
        /\ \A l \in -1..Ttl : Sooner(l) \in -1..Ttl
    BY TtlAssumption DEF Older, Sooner, Age
  <2>3. vouched[h] \in Age /\ Recent(vouched[h]) /\ vouched'[h] = Older(vouched[h])
    BY <1>1, <1>2, <2>1, <2>2 DEF Recent
  <2>4. memory[h] \in Entry /\ memory[h] # Absent /\ memory[h].age <= vouched[h]
    BY <1>1, <2>3 DEF VouchedInv
  <2>5. /\ memory'[h] = [left |-> Sooner(memory[h].left), age |-> Older(memory[h].age)]
        /\ memory'[h] \in Entry
    BY <2>1, <2>2, <2>4 DEF Entry
  <2>6. memory[h].age \in Age /\ memory'[h].age = Older(memory[h].age)
    BY <2>4, <2>5 DEF Entry
  <2> QED  BY <2>2, <2>3, <2>4, <2>5, <2>6, AbsentApart
<1>10. CASE UNCHANGED vars
  BY <1>3, <1>10 DEF vars
<1> QED  BY <1>1, <1>5, <1>6, <1>7, <1>8, <1>9, <1>10 DEF Next, Resolve

\* In a process with one host a connection is refused an address only if within the
\* TTL no resolver gave one to this process, nor to an earlier one that the file
\* knows of: OutageTolerated across restarts and failed writes, for any TTL.
THEOREM OutageIsTolerated ==
    ASSUME NEW h, Host = {h}
    PROVE  Spec => []OutageTolerated
<1>1. Init => VouchedInv
  BY DEF Init, VouchedInv, Recent
<1>2. IInv /\ VouchedInv /\ [Next]_vars => VouchedInv'
  BY VouchedKept
<1>3. IInv /\ VouchedInv => OutageTolerated
  <2> SUFFICES ASSUME IInv, VouchedInv, outcome.from = "raised"
               PROVE  ~Recent(vouched[outcome.host]) /\ ~Recent(file.ages[outcome.host])
    BY DEF OutageTolerated
  <2>1. /\ memory[outcome.host] = Absent
        /\ file.ages[outcome.host] = Absent \/ file.ages[outcome.host] > Ttl
    BY DEF IInv, RefusedInv
  <2>2. outcome.host \in Host
    BY DEF IInv, RefusedInv
  <2>3. ~Recent(vouched[outcome.host])
    BY <2>1, <2>2 DEF VouchedInv
  <2>4. ~Recent(file.ages[outcome.host])
    BY <2>1, <2>2, TtlAssumption DEF Recent, IInv, TypeOK, Age
  <2> QED  BY <2>3, <2>4
<1> QED  BY <1>1, <1>2, <1>3, InvariantKept, PTL DEF Spec

\* What has not expired is not older than its TTL.
Young(left, age) == left >= 0 => age + left <= Ttl

YoungInv ==
    \A h \in Host : /\ memory[h] # Absent => Young(memory[h].left, memory[h].age)
                    /\ file.ages[h] # Absent => Young(file.left, file.ages[h])

OneHostInv == YoungInv /\ StaleOnlyWhileLoading

\* Looking an address up leaves what has not expired young.
LEMMA LookStaysYoung ==
    ASSUME IInv, YoungInv, NEW h \in Host
    PROVE  \A x \in Host : Looked(h)[x] # Absent
                           => Young(Looked(h)[x].left, Looked(h)[x].age)
<1> SUFFICES ASSUME NEW x \in Host, Looked(h)[x] # Absent
             PROVE  Young(Looked(h)[x].left, Looked(h)[x].age)
  OBVIOUS
<1>1. memory \in [Host -> Entry \cup {Absent}]
  BY DEF IInv, TypeOK
<1>2. \/ Looked(h)[x] = memory[x]
      \/ Looked(h)[x] = Absent
      \/ /\ file.ages[x] # Absent
         /\ Looked(h)[x] = [left |-> file.left, age |-> file.ages[x]]
  BY <1>1 DEF Looked, AfterLoad
<1> QED  BY <1>2 DEF YoungInv

\* Remembering the one host's address keeps it young too.
LEMMA RememberStaysYoung ==
    ASSUME IInv, YoungInv, NEW h, Host = {h},
           NEW m \in [Host -> Entry \cup {Absent}], Remember(h, m)
    PROVE  YoungInv'
<1> DEFINE new == [left |-> Ttl, age |-> 0]
<1>1. Young(Ttl, 0)
  BY TtlAssumption DEF Young
<1>2. memory'[h] = new
  BY DEF Remember
<1>3. CASE UNCHANGED file
  BY <1>1, <1>2, <1>3 DEF YoungInv
<1>4. CASE file' = [left |-> Ttl,
                    ages |-> [x \in Host |-> IF x = h THEN 0
                                             ELSE IF m[x] = Absent THEN Absent
                                             ELSE m[x].age]]
  <2>1. file'.left = Ttl /\ file'.ages[h] = 0
    BY <1>4
  <2> QED  BY <1>1, <1>2, <2>1 DEF YoungInv
<1> QED  BY <1>3, <1>4 DEF Remember

\* Every step of a process with one host keeps it.
LEMMA OneHostKept ==
    ASSUME IInv, OneHostInv, NEW h, Host = {h}, [Next]_vars
    PROVE  OneHostInv'
<1>1. /\ memory \in [Host -> Entry \cup {Absent}]
      /\ file.ages \in [Host -> Age \cup {Absent}] /\ file.left \in -1..Ttl
  BY DEF IInv, TypeOK
<1>2. h \in Host
  OBVIOUS
<1>3. CASE ResolveBySystem(h)
  <2>1. Remember(h, memory) /\ outcome'.from = "system"
    BY <1>3 DEF ResolveBySystem, Report
  <2>2. YoungInv'
    BY <1>1, <2>1, RememberStaysYoung DEF OneHostInv
  <2> QED  BY <2>1, <2>2 DEF OneHostInv, StaleOnlyWhileLoading
<1>4. CASE ResolveFromCache(h)
  <2>1. /\ memory' = Looked(h) /\ file' = file /\ Hit(h)
        /\ outcome'.age = Looked(h)[h].age /\ outcome'.loading = MustLoad(h)
    BY <1>4 DEF ResolveFromCache, Report
  <2>2. YoungInv'
    BY <2>1, LookStaysYoung DEF OneHostInv, YoungInv
  <2>3. ~MustLoad(h) => outcome'.age <= Ttl
    <3>1. SUFFICES ASSUME ~MustLoad(h) PROVE outcome'.age <= Ttl
      OBVIOUS
    <3>2. Looked(h)[h] = memory[h] /\ memory[h] # Absent /\ memory[h].left >= 0
      BY <2>1, <3>1 DEF Looked, Hit
    <3>3. memory[h].age \in Int /\ memory[h].left \in Int
      BY <1>1, <1>2, <3>2 DEF Entry, Age
    <3>4. memory[h].age + memory[h].left <= Ttl
      BY <1>2, <3>2 DEF OneHostInv, YoungInv, Young
    <3> QED  BY <2>1, <3>2, <3>3, <3>4, TtlAssumption
  <2>4. outcome'.age \in Int
    <3>1. TypeOK'
      BY <1>2, <1>4, ResolveKeeps DEF Resolve, IInv
    <3> QED  BY <3>1 DEF TypeOK, Outcome, Age
  <2> QED  BY <2>1, <2>2, <2>3, <2>4, TtlAssumption DEF OneHostInv, StaleOnlyWhileLoading
<1>5. CASE ResolveByDoh(h)
  <2>1. Remember(h, Looked(h)) /\ outcome'.from = "doh"
    BY <1>5 DEF ResolveByDoh, Report
  <2>2. Looked(h) \in [Host -> Entry \cup {Absent}]
    BY <1>2, LookKeeps
  <2>3. YoungInv'
    BY <2>1, <2>2, RememberStaysYoung DEF OneHostInv
  <2> QED  BY <2>1, <2>3 DEF OneHostInv, StaleOnlyWhileLoading
<1>6. CASE ResolveFails(h)
  <2>1. memory' = Looked(h) /\ file' = file /\ outcome'.from = "raised"
    BY <1>6 DEF ResolveFails, Report
  <2>2. YoungInv'
    BY <2>1, LookStaysYoung DEF OneHostInv, YoungInv
  <2> QED  BY <2>1, <2>2 DEF OneHostInv, StaleOnlyWhileLoading
<1>7. CASE Restart
  BY <1>7 DEF Restart, OneHostInv, YoungInv, StaleOnlyWhileLoading, Nothing
<1>8. CASE Tick
  <2>1. /\ memory' = [x \in Host |-> IF memory[x] = Absent THEN Absent
                                     ELSE [left |-> Sooner(memory[x].left),
                                           age |-> Older(memory[x].age)]]
        /\ file' = [left |-> Sooner(file.left),
                    ages |-> [x \in Host |-> IF file.ages[x] = Absent THEN Absent
                                             ELSE Older(file.ages[x])]]
        /\ outcome'.from = "none"
    BY <1>8, NothingTyped DEF Tick, AllOlder
  <2>2. \A left \in -1..Ttl, age \in Age :
            Young(left, age) => Young(Sooner(left), Older(age))
    BY TtlAssumption DEF Young, Sooner, Older, Age
  <2>3. memory'[h] # Absent => Young(memory'[h].left, memory'[h].age)
    <3>1. CASE memory[h] = Absent
      BY <1>2, <2>1, <3>1
    <3>2. CASE memory[h] # Absent
      <4>1. memory[h].left \in -1..Ttl /\ memory[h].age \in Age
        BY <1>1, <1>2, <3>2 DEF Entry
      <4>2. Young(memory[h].left, memory[h].age)
        BY <1>2, <3>2 DEF OneHostInv, YoungInv
      <4>3. /\ memory'[h].left = Sooner(memory[h].left)
            /\ memory'[h].age = Older(memory[h].age)
        BY <1>2, <2>1, <3>2
      <4> QED  BY <2>2, <4>1, <4>2, <4>3
    <3> QED  BY <3>1, <3>2
  <2>4. file'.ages[h] # Absent => Young(file'.left, file'.ages[h])
    <3>1. CASE file.ages[h] = Absent
      BY <1>2, <2>1, <3>1
    <3>2. CASE file.ages[h] # Absent
      <4>1. file.ages[h] \in Age /\ Young(file.left, file.ages[h])
        BY <1>1, <1>2, <3>2 DEF OneHostInv, YoungInv
      <4>2. file'.left = Sooner(file.left) /\ file'.ages[h] = Older(file.ages[h])
        BY <1>2, <2>1, <3>2
      <4> QED  BY <1>1, <2>2, <4>1, <4>2
    <3> QED  BY <3>1, <3>2
  <2> QED  BY <2>1, <2>3, <2>4 DEF OneHostInv, YoungInv, StaleOnlyWhileLoading
<1>9. CASE UNCHANGED vars
  BY <1>9 DEF vars, OneHostInv, YoungInv, StaleOnlyWhileLoading
<1> QED  BY <1>3, <1>4, <1>5, <1>6, <1>7, <1>8, <1>9 DEF Next, Resolve

\* In a process with one host, an address older than the TTL is used only by the
\* look that loads the file: StaleOnlyWhileLoading for any TTL.
THEOREM StaleOncePerProcess ==
    ASSUME NEW h, Host = {h}
    PROVE  Spec => []StaleOnlyWhileLoading
<1>1. Init => OneHostInv
  BY DEF Init, OneHostInv, YoungInv, StaleOnlyWhileLoading, Nothing
<1>2. IInv /\ OneHostInv /\ [Next]_vars => OneHostInv'
  BY OneHostKept
<1>3. OneHostInv => StaleOnlyWhileLoading
  BY DEF OneHostInv
<1> QED  BY <1>1, <1>2, <1>3, InvariantKept, PTL DEF Spec

===============================================================================
