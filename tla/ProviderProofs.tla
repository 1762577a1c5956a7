---------------------------- MODULE ProviderProofs ----------------------------
(***************************************************************************)
(* Where the calls of the provider go, for any processes, goroutines,      *)
(* models, tags and kills.                                                 *)
(***************************************************************************)
EXTENDS Provider, FiniteSetTheorems, TLAPS

Places == {"idle", "lock", "find", "create", "converse", "backoff"}

AccountTyped ==
  /\ account \in Seq(Profile)
  /\ tag \in {s.tag : s \in Starts}

\* No two profiles have one name.
NamesDiffer ==
  \A i, j \in DOMAIN account : account[i].name = account[j].name => i = j

ThreadsTyped ==
  /\ pc \in [Threads -> Places]
  /\ DOMAIN model = Threads /\ DOMAIN sends = Threads
  /\ \A t \in Threads : pc[t] # "idle" => model[t] \in Models

\* A process's table leads to profiles that wrap their model and bear its tag, and
\* the process has warned of every model it settled to leave untagged.
TableIsRight ==
  /\ arns \in [Processes -> [Models -> Int]]
  /\ warned \in [Processes -> SUBSET Models]
  /\ \A p \in Processes, m \in Models :
       \/ arns[p][m] = Unset
       \/ arns[p][m] = Bare /\ m \in warned[p]
       \/ /\ arns[p][m] \in DOMAIN account
          /\ account[arns[p][m]].wraps = Identity(m)
          /\ account[arns[p][m]].name = ProfileName(tag[p], m)

\* Who looks a model up holds the lock of its process, which has no entry for it.
LookedUpAlone ==
  /\ DOMAIN holder = Processes
  /\ \A t \in Threads : pc[t] \in {"find", "create"} =>
       holder[P(t)] = t /\ arns[P(t)][model[t]] = Unset

\* What a process settled on for a model: the bare ID where it has no tag.
SettledOn(p, m, id) ==
  IF tag[p] = "" THEN id = Bare ELSE id = arns[p][m] /\ id # Unset

SendsSettled ==
  /\ \A t \in Threads : pc[t] = "idle" => sends[t] = Bare
  /\ \A t \in Threads : pc[t] \in {"converse", "backoff"} => SettledOn(P(t), model[t], sends[t])
  /\ \A t \in Threads : pc[t] \in {"lock", "find", "create"} => tag[P(t)] # ""

SentSettled ==
  \A s \in sent : /\ s.by \in Processes /\ s.model \in Models
                  /\ SettledOn(s.by, s.model, s.id)

IInv == /\ AccountTyped /\ NamesDiffer /\ ThreadsTyped /\ TableIsRight
        /\ LookedUpAlone /\ SendsSettled /\ SentSettled

-----------------------------------------------------------------------------
(* What the parts of a step do to the invariant.                            *)

\* The properties follow from the invariant.
LEMMA DistinctCount ==
  ASSUME NEW S, NEW s \in Seq(S),
         \A i, j \in DOMAIN s : s[i].name = s[j].name => i = j
  PROVE  Cardinality({r.name : r \in Range(s)}) = Len(s)
<1> DEFINE f == [i \in 1..Len(s) |-> s[i].name]
           T == {r.name : r \in Range(s)}
<1>1. DOMAIN s = 1..Len(s) /\ Len(s) \in Nat
  OBVIOUS
<1>2. f \in Bijection(1..Len(s), T)
  <2>1. T = {s[i].name : i \in 1..Len(s)}
    BY <1>1 DEF Range
  <2>2. f \in [1..Len(s) -> T]
    BY <2>1
  <2>3. \A i, j \in 1..Len(s) : f[i] = f[j] => i = j
    BY <1>1
  <2>4. \A x \in T : \E i \in 1..Len(s) : f[i] = x
    BY <2>1
  <2> HIDE DEF f, T
  <2> QED BY <2>2, <2>3, <2>4 DEF Bijection, Injection, Surjection, IsInjective
<1>3. IsFiniteSet(1..Len(s)) /\ Cardinality(1..Len(s)) = Len(s)
  <2>1. 1 \in Int /\ Len(s) \in Int
    BY <1>1
  <2>2. /\ IsFiniteSet(1..Len(s))
        /\ Cardinality(1..Len(s)) = IF 1 > Len(s) THEN 0 ELSE Len(s) - 1 + 1
    BY <2>1, FS_Interval, Zenon
  <2> QED BY <1>1, <2>2
<1> HIDE DEF f
<1> QED BY <1>2, <1>3, FS_Bijection DEF ExistsBijection

LEMMA InvariantSuffices ==
  ASSUME IInv
  PROVE  BilledToItsModel /\ OneProfilePerName /\ AttributionIsSettled
<1> USE DEF IInv
<1>1. BilledToItsModel
  BY DEF BilledToItsModel, SentSettled, SettledOn, TableIsRight, Unset, Bare
<1>2. OneProfilePerName
  BY DistinctCount DEF OneProfilePerName, NamesDiffer, AccountTyped
<1>3. AttributionIsSettled
  <2>1. ASSUME NEW s \in sent, NEW q \in sent, s.by = q.by, s.model = q.model
        PROVE  s.id = q.id
    BY <2>1 DEF SentSettled, SettledOn
  <2>2. ASSUME NEW s \in sent, s.id = Bare, tag[s.by] # ""
        PROVE  s.model \in warned[s.by]
    <3>1. Bare \notin DOMAIN account /\ Bare # Unset
      BY DEF AccountTyped, Bare, Unset
    <3>2. s.by \in Processes /\ s.model \in Models /\ arns[s.by][s.model] = Bare
      BY <2>2 DEF SentSettled, SettledOn
    <3> QED BY <3>1, <3>2 DEF TableIsRight
  <2> QED BY <2>1, <2>2 DEF AttributionIsSettled
<1> QED BY <1>1, <1>2, <1>3

LEMMA InitHolds ==
  ASSUME Init
  PROVE  IInv
<1> USE DEF Init
<1>1. PICK s \in Starts : account = s.account /\ tag = s.tag
  OBVIOUS
<1>2. AccountTyped /\ NamesDiffer
  BY <1>1, ProviderAssumption DEF AccountTyped, NamesDiffer
<1>3. ThreadsTyped
  BY DEF ThreadsTyped, Places
<1>4. TableIsRight
  BY DEF TableIsRight, Unset
<1>5. LookedUpAlone /\ SendsSettled /\ SentSettled
  BY DEF LookedUpAlone, SendsSettled, SentSettled
<1> QED BY <1>2, <1>3, <1>4, <1>5 DEF IInv

\* The account only grows, and a profile keeps its name and its model.
AccountGrows ==
  /\ account' \in Seq(Profile)
  /\ DOMAIN account \subseteq DOMAIN account'
  /\ \A n \in DOMAIN account : /\ account'[n].name = account[n].name
                               /\ account'[n].wraps = account[n].wraps
  /\ NamesDiffer'

\* A process settles on an ID for the model that one of its goroutines looked up: no
\* other goroutine of it had looked it up or sent for it.
LEMMA SettlingKeeps ==
  ASSUME IInv, NEW t \in Threads, pc[t] \in {"find", "create"}, NEW id \in Int,
         Resolved(t, id), arns' = [arns EXCEPT ![P(t)][model[t]] = id],
         AccountGrows,
         warned' \in [Processes -> SUBSET Models],
         \A p \in Processes : warned[p] \subseteq warned'[p],
         \/ id = Bare /\ model[t] \in warned'[P(t)]
         \/ /\ id \in DOMAIN account'
            /\ account'[id].wraps = Identity(model[t])
            /\ account'[id].name = ProfileName(tag[P(t)], model[t]),
         UNCHANGED <<tag, model, sent>>
  PROVE  IInv'
<1> USE DEF IInv, LockAfter
<1> DEFINE p == P(t)
           m == model[t]
<1>1. /\ p \in Processes /\ m \in Models /\ holder[p] = t /\ arns[p][m] = Unset
      /\ tag[p] # ""
  BY DEF Processes, ThreadsTyped, LookedUpAlone, SendsSettled
<1>2. Unset \notin DOMAIN account' /\ id # Unset
  BY DEF AccountGrows, Unset, Bare
<1>3. /\ arns' \in [Processes -> [Models -> Int]]
      /\ arns'[p][m] = id
      /\ \A q \in Processes, n \in Models : q # p \/ n # m => arns'[q][n] = arns[q][n]
  BY <1>1 DEF TableIsRight
<1>4. /\ pc' \in [Threads -> Places] /\ pc'[t] = "converse"
      /\ \A u \in Threads \ {t} : pc'[u] = pc[u]
      /\ sends'[t] = id /\ DOMAIN sends' = Threads
      /\ \A u \in Threads \ {t} : sends'[u] = sends[u]
  BY DEF Resolved, ThreadsTyped, Places
<1>5. /\ DOMAIN holder' = Processes
      /\ \A q \in Processes \ {p} : holder'[q] = holder[q]
  BY DEF Resolved, LookedUpAlone
<1> HIDE DEF p, m
<1>6. AccountTyped' /\ NamesDiffer' /\ ThreadsTyped'
  BY <1>4 DEF AccountTyped, AccountGrows, ThreadsTyped
<1>7. TableIsRight'
  <2> SUFFICES ASSUME NEW q \in Processes, NEW n \in Models
               PROVE  \/ arns'[q][n] = Unset
                      \/ arns'[q][n] = Bare /\ n \in warned'[q]
                      \/ /\ arns'[q][n] \in DOMAIN account'
                         /\ account'[arns'[q][n]].wraps = Identity(n)
                         /\ account'[arns'[q][n]].name = ProfileName(tag[q], n)
    BY <1>3 DEF TableIsRight
  <2>1. CASE q = p /\ n = m
    BY <1>3, <2>1 DEF p, m
  <2>2. CASE ~(q = p /\ n = m)
    <3>1. arns'[q][n] = arns[q][n]
      BY <1>3, <2>2
    <3>2. CASE arns[q][n] \in DOMAIN account
      BY <3>1, <3>2 DEF TableIsRight, AccountGrows
    <3>3. CASE arns[q][n] \notin DOMAIN account
      BY <3>1, <3>3 DEF TableIsRight
    <3> QED BY <3>2, <3>3
  <2> QED BY <2>1, <2>2
<1>8. ASSUME NEW u \in Threads, u # t, pc[u] \in {"find", "create"}
      PROVE  P(u) # p
  <2>1. LookedUpAlone
    OBVIOUS
  <2>2. holder[P(u)] = u
    BY <1>8, <2>1 DEF LookedUpAlone
  <2> QED BY <1>1, <1>8, <2>2
<1>9. LookedUpAlone'
  <2> SUFFICES ASSUME NEW u \in Threads, pc'[u] \in {"find", "create"}
               PROVE  holder'[P(u)] = u /\ arns'[P(u)][model[u]] = Unset
    BY <1>5 DEF LookedUpAlone
  <2>1. u # t /\ pc'[u] = pc[u] /\ P(u) # p /\ P(u) \in Processes /\ model[u] \in Models
    BY <1>4, <1>8 DEF ThreadsTyped, Processes
  <2> QED BY <2>1, <1>3, <1>5 DEF LookedUpAlone
<1>10. ASSUME NEW q \in Processes, NEW n \in Models, NEW i, SettledOn(q, n, i)
       PROVE  SettledOn(q, n, i)'
  BY <1>1, <1>3, <1>10 DEF SettledOn
<1>11. SendsSettled'
  <2>1. ASSUME NEW u \in Threads, pc'[u] \in {"converse", "backoff"}
        PROVE  SettledOn(P(u), model[u], sends[u])'
    <3>1. CASE u = t
      BY <1>1, <1>2, <1>3, <1>4, <3>1 DEF SettledOn, p, m
    <3>2. CASE u # t
      <4>1. SettledOn(P(u), model[u], sends[u]) /\ P(u) \in Processes /\ model[u] \in Models
        BY <1>4, <2>1, <3>2 DEF SendsSettled, ThreadsTyped, Processes
      <4>2. sends'[u] = sends[u] /\ model'[u] = model[u]
        BY <1>4, <3>2
      <4> QED BY <1>1, <1>3, <4>1, <4>2 DEF SettledOn
    <3> QED BY <3>1, <3>2
  <2>2. \A u \in Threads : pc'[u] = "idle" => sends'[u] = Bare
    BY <1>4 DEF SendsSettled
  <2>3. \A u \in Threads : pc'[u] \in {"lock", "find", "create"} => tag'[P(u)] # ""
    BY <1>4 DEF SendsSettled
  <2> QED BY <2>1, <2>2, <2>3 DEF SendsSettled
<1>12. SentSettled'
  BY <1>10 DEF SentSettled
<1> QED BY <1>6, <1>7, <1>9, <1>11, <1>12

LEMMA FallbackKeeps ==
  ASSUME IInv, NEW t \in Threads, pc[t] \in {"find", "create"}, Fallback(t), AccountGrows,
         UNCHANGED <<tag, model, sent>>
  PROVE  IInv'
<1>1. model[t] \in Models /\ P(t) \in Processes
  BY DEF IInv, ThreadsTyped, Processes
<1>2. /\ warned' \in [Processes -> SUBSET Models]
      /\ \A p \in Processes : warned[p] \subseteq warned'[p]
      /\ model[t] \in warned'[P(t)]
  BY <1>1 DEF Fallback, Warn, IInv, TableIsRight
<1>3. Resolved(t, Bare) /\ arns' = [arns EXCEPT ![P(t)][model[t]] = Bare] /\ Bare \in Int
  BY DEF Fallback, FallbackKept, Bare
<1> QED BY <1>2, <1>3, SettlingKeeps

LEMMA TaggedKeeps ==
  ASSUME IInv, NEW t \in Threads, pc[t] \in {"find", "create"}, NEW n \in DOMAIN account',
         Tagged(t, n), AccountGrows,
         account'[n].wraps = Identity(model[t]),
         account'[n].name = ProfileName(tag[P(t)], model[t]),
         UNCHANGED <<tag, model, sent>>
  PROVE  IInv'
<1>1. /\ warned' \in [Processes -> SUBSET Models]
      /\ \A p \in Processes : warned[p] \subseteq warned'[p]
  BY DEF Tagged, IInv, TableIsRight
<1>2. n \in Int
  BY DEF AccountGrows
<1> QED BY <1>1, <1>2, SettlingKeeps DEF Tagged

LEMMA AccountStays ==
  ASSUME IInv, account' = account
  PROVE  AccountGrows
BY DEF IInv, AccountTyped, AccountGrows, NamesDiffer

\* A step that settles nothing: the account and the table stay.
LEMMA MoveKeeps ==
  ASSUME IInv, UNCHANGED <<account, tag, arns, warned>>,
         ThreadsTyped', LookedUpAlone', SendsSettled', SentSettled'
  PROVE  IInv'
BY DEF IInv, AccountTyped, NamesDiffer, TableIsRight

-----------------------------------------------------------------------------
(* Every step keeps the invariant.                                         *)

LEMMA BeginKeeps ==
  ASSUME IInv, NEW t \in Threads, Begin(t)
  PROVE  IInv'
<1> USE DEF IInv, Begin, resolver, wire
<1>1. PICK m \in Models : model' = [model EXCEPT ![t] = m]
  OBVIOUS
<1>2. /\ pc' \in [Threads -> Places] /\ pc'[t] = IF tag[P(t)] = "" THEN "converse" ELSE "lock"
      /\ \A u \in Threads \ {t} : pc'[u] = pc[u] /\ model'[u] = model[u]
      /\ model'[t] \in Models
  BY <1>1 DEF ThreadsTyped, Places
<1>3. ThreadsTyped'
  BY <1>1, <1>2 DEF ThreadsTyped
<1>4. LookedUpAlone'
  BY <1>2 DEF LookedUpAlone
<1>5. SendsSettled'
  BY <1>2 DEF SendsSettled, SettledOn
<1>6. SentSettled'
  BY DEF SentSettled, SettledOn
<1> QED BY <1>3, <1>4, <1>5, <1>6, MoveKeeps

LEMMA LockKeeps ==
  ASSUME IInv, NEW t \in Threads, Lock(t)
  PROVE  IInv'
<1> USE DEF IInv, Lock, Resolved, LockAfter
<1>1. P(t) \in Processes /\ model[t] \in Models /\ tag[P(t)] # ""
  BY DEF Processes, ThreadsTyped, SendsSettled
<1>2. \A u \in Threads : P(u) = P(t) => pc[u] \notin {"find", "create"}
  BY ProviderAssumption DEF LookedUpAlone
<1>3. CASE arns[P(t)][model[t]] # Unset
  <2>1. /\ pc' \in [Threads -> Places] /\ pc'[t] = "converse"
        /\ sends'[t] = arns[P(t)][model[t]] /\ DOMAIN sends' = Threads
        /\ \A u \in Threads \ {t} : pc'[u] = pc[u] /\ sends'[u] = sends[u]
    BY <1>3 DEF ThreadsTyped, Places
  <2>2. ThreadsTyped'
    BY <2>1 DEF ThreadsTyped
  <2>3. LookedUpAlone'
    <3>1. DOMAIN holder' = Processes /\ \A p \in Processes \ {P(t)} : holder'[p] = holder[p]
      BY <1>3 DEF LookedUpAlone
    <3>2. ASSUME NEW u \in Threads, pc'[u] \in {"find", "create"}
          PROVE  pc[u] = pc'[u] /\ P(u) \in Processes \ {P(t)}
      BY <1>2, <2>1, <3>2 DEF Processes
    <3> QED BY <3>1, <3>2 DEF LookedUpAlone
  <2>4. SendsSettled'
    BY <1>1, <1>3, <2>1 DEF SendsSettled, SettledOn
  <2>5. SentSettled'
    BY DEF SentSettled, SettledOn
  <2> QED BY <2>2, <2>3, <2>4, <2>5, MoveKeeps
<1>4. CASE arns[P(t)][model[t]] = Unset
  <2>1. /\ pc' \in [Threads -> Places] /\ pc'[t] = "find"
        /\ \A u \in Threads \ {t} : pc'[u] = pc[u]
        /\ sends' = sends
    BY <1>4 DEF ThreadsTyped, Places
  <2>2. ThreadsTyped'
    BY <2>1 DEF ThreadsTyped
  <2>3. LookedUpAlone'
    <3>1. /\ DOMAIN holder' = Processes /\ holder'[P(t)] = t
          /\ \A p \in Processes \ {P(t)} : holder'[p] = holder[p]
      BY <1>1, <1>4 DEF LookedUpAlone
    <3>2. ASSUME NEW u \in Threads \ {t}, pc'[u] \in {"find", "create"}
          PROVE  pc[u] = pc'[u] /\ P(u) \in Processes \ {P(t)}
      BY <1>2, <2>1, <3>2 DEF Processes
    <3> QED BY <1>4, <2>1, <3>1, <3>2 DEF LookedUpAlone
  <2>4. SendsSettled'
    BY <1>1, <2>1 DEF SendsSettled, SettledOn
  <2>5. SentSettled'
    BY DEF SentSettled, SettledOn
  <2> QED BY <2>2, <2>3, <2>4, <2>5, MoveKeeps
<1> QED BY <1>3, <1>4

LEMMA RefusedKeeps ==
  ASSUME IInv, NEW t \in Threads, Refused(t)
  PROVE  IInv'
BY AccountStays, FallbackKeeps DEF Refused

\* A profile of the name of a model, taken for it when it wraps it.
LEMMA TakenKeeps ==
  ASSUME IInv, NEW t \in Threads, pc[t] \in {"find", "create"}, NEW n \in Named(t),
         IF WrapsModel(t, n) /\ account[n].active THEN Tagged(t, n) ELSE Fallback(t),
         UNCHANGED <<account, tag, model, sent>>
  PROVE  IInv'
<1>1. n \in DOMAIN account' /\ AccountGrows
  BY AccountStays DEF Named
<1>2. CASE WrapsModel(t, n) /\ account[n].active
  BY <1>1, <1>2, TaggedKeeps DEF WrapsModel, Named
<1>3. CASE ~(WrapsModel(t, n) /\ account[n].active)
  BY <1>1, <1>3, FallbackKeeps
<1> QED BY <1>2, <1>3

LEMMA FindKeeps ==
  ASSUME IInv, NEW t \in Threads, Find(t)
  PROVE  IInv'
<1> USE DEF Find
<1>1. CASE Named(t) = {}
  <2>1. pc' = [pc EXCEPT ![t] = "create"] /\ UNCHANGED <<resolver, sends>>
    BY <1>1
  <2>2. /\ pc' \in [Threads -> Places] /\ pc'[t] = "create"
        /\ \A u \in Threads \ {t} : pc'[u] = pc[u]
    BY <2>1 DEF IInv, ThreadsTyped, Places
  <2>3. ThreadsTyped'
    BY <2>2, <2>1 DEF IInv, ThreadsTyped
  <2>4. LookedUpAlone' /\ SendsSettled' /\ SentSettled'
    BY <2>1, <2>2 DEF IInv, LookedUpAlone, SendsSettled, SentSettled, SettledOn, resolver
  <2> QED BY <2>1, <2>3, <2>4, MoveKeeps DEF resolver
<1>2. CASE Named(t) # {}
  <2>1. PICK n \in Named(t) :
          IF WrapsModel(t, n) /\ account[n].active THEN Tagged(t, n) ELSE Fallback(t)
    BY <1>2
  <2> QED BY <2>1, TakenKeeps
<1> QED BY <1>1, <1>2

\* A creation under a name the account does not have.
LEMMA CreationGrows ==
  ASSUME IInv, NEW t \in Threads, pc[t] # "idle", Token(t) = {}, NEW ready \in BOOLEAN,
         account' = Append(account,
           [name |-> ProfileName(tag[P(t)], model[t]), wraps |-> Identity(model[t]),
            active |-> ready])
  PROVE  /\ AccountGrows
         /\ Len(account) + 1 \in DOMAIN account'
         /\ account'[Len(account) + 1].name = ProfileName(tag[P(t)], model[t])
         /\ account'[Len(account) + 1].wraps = Identity(model[t])
<1> DEFINE new == [name |-> ProfileName(tag[P(t)], model[t]), wraps |-> Identity(model[t]),
                   active |-> ready]
<1>1. model[t] \in Models /\ P(t) \in Processes
  BY DEF IInv, ThreadsTyped, Processes
<1>2. new \in Profile
  BY <1>1 DEF IInv, AccountTyped, Profile, Names, Wrapped
<1>3. new.name = ProfileName(tag[P(t)], model[t]) /\ new.wraps = Identity(model[t])
  OBVIOUS
<1> HIDE DEF new
<1>4. account \in Seq(Profile) /\ account' = Append(account, new)
  BY DEF IInv, AccountTyped, new
<1>5. /\ account' \in Seq(Profile) /\ Len(account) \in Nat
      /\ DOMAIN account = 1..Len(account) /\ DOMAIN account' = 1..(Len(account) + 1)
      /\ \A n \in DOMAIN account : account'[n] = account[n]
      /\ account'[Len(account) + 1] = new
  BY <1>2, <1>4
<1>6. \A n \in DOMAIN account : account[n].name # new.name
  BY <1>3 DEF Token, Named
<1>7. NamesDiffer'
  <2> SUFFICES ASSUME NEW i \in DOMAIN account', NEW j \in DOMAIN account',
                      account'[i].name = account'[j].name
               PROVE  i = j
    BY DEF NamesDiffer
  <2>1. CASE i \in DOMAIN account /\ j \in DOMAIN account
    BY <1>5, <2>1 DEF IInv, NamesDiffer
  <2>2. CASE i \notin DOMAIN account /\ j \notin DOMAIN account
    BY <1>5, <2>2
  <2>3. CASE i \in DOMAIN account /\ j \notin DOMAIN account
    BY <1>5, <1>6, <2>3
  <2>4. CASE i \notin DOMAIN account /\ j \in DOMAIN account
    BY <1>5, <1>6, <2>4
  <2> QED BY <2>1, <2>2, <2>3, <2>4
<1> QED BY <1>3, <1>5, <1>7 DEF AccountGrows

LEMMA CreateKeeps ==
  ASSUME IInv, NEW t \in Threads, Create(t)
  PROVE  IInv'
<1> USE DEF Create
<1>1. CASE Token(t) = {}
  <2>1. PICK ready \in BOOLEAN :
          /\ account' = Append(account,
               [name |-> ProfileName(tag[P(t)], model[t]), wraps |-> Identity(model[t]),
                active |-> ready])
          /\ (ready /\ Tagged(t, Len(account) + 1)) \/ Fallback(t)
    BY <1>1
  <2>2. /\ AccountGrows
        /\ Len(account) + 1 \in DOMAIN account'
        /\ account'[Len(account) + 1].name = ProfileName(tag[P(t)], model[t])
        /\ account'[Len(account) + 1].wraps = Identity(model[t])
    BY <1>1, <2>1, CreationGrows
  <2> QED BY <2>1, <2>2, TaggedKeeps, FallbackKeeps
<1>2. CASE Token(t) # {}
  BY <1>2, TakenKeeps DEF Token
<1> QED BY <1>1, <1>2

LEMMA ClearedThreads ==
  ASSUME ThreadsTyped, NEW ts, Clear(ts)
  PROVE  /\ ThreadsTyped'
         /\ \A t \in Threads : IF t \in ts THEN pc'[t] = "idle" /\ sends'[t] = Bare
              ELSE pc'[t] = pc[t] /\ model'[t] = model[t] /\ sends'[t] = sends[t]
BY DEF ThreadsTyped, Clear, Places

\* A goroutine ends its call, goes on to another attempt, or is left alone.
Goes(u) ==
  \/ pc'[u] = "idle" /\ sends'[u] = Bare
  \/ /\ pc[u] \in {"converse", "backoff"} /\ pc'[u] \in {"converse", "backoff"}
     /\ model'[u] = model[u] /\ sends'[u] = sends[u]
  \/ pc'[u] = pc[u] /\ model'[u] = model[u] /\ sends'[u] = sends[u]

\* What a goroutine sends stays settled between its attempts.
LEMMA SettledStays ==
  ASSUME SendsSettled, UNCHANGED <<tag, arns>>, \A u \in Threads : Goes(u)
  PROVE  SendsSettled'
<1> USE DEF Goes
<1>1. \A u \in Threads : pc'[u] = "idle" => sends'[u] = Bare
  BY DEF SendsSettled
<1>2. ASSUME NEW u \in Threads, pc'[u] \in {"converse", "backoff"}
      PROVE  SettledOn(P(u), model[u], sends[u])'
  <2>1. /\ pc[u] \in {"converse", "backoff"}
        /\ model'[u] = model[u] /\ sends'[u] = sends[u]
    BY <1>2
  <2>2. SettledOn(P(u), model[u], sends[u])
    BY <2>1 DEF SendsSettled
  <2> QED BY <2>1, <2>2 DEF SettledOn
<1>3. \A u \in Threads : pc'[u] \in {"lock", "find", "create"} => tag'[P(u)] # ""
  BY DEF SendsSettled
<1> QED BY <1>1, <1>2, <1>3 DEF SendsSettled

LEMMA ConverseKeeps ==
  ASSUME IInv, NEW t \in Threads, Converse(t)
  PROVE  IInv'
<1> USE DEF IInv, Converse, resolver
<1>1. P(t) \in Processes /\ model[t] \in Models /\ SettledOn(P(t), model[t], sends[t])
  BY DEF Processes, ThreadsTyped, SendsSettled
<1>2. SentSettled'
  <2> SUFFICES ASSUME NEW s \in sent'
               PROVE  s.by \in Processes /\ s.model \in Models /\ SettledOn(s.by, s.model, s.id)'
    BY DEF SentSettled
  <2>1. CASE s \in sent
    BY <2>1 DEF SentSettled, SettledOn
  <2>2. CASE s = [by |-> P(t), model |-> model[t], id |-> sends[t]]
    BY <1>1, <2>2 DEF SettledOn
  <2> QED BY <2>1, <2>2
<1>3. /\ ThreadsTyped'
      /\ \A u \in Threads : \/ pc'[u] = "idle" /\ sends'[u] = Bare
                            \/ pc[u] = "converse" /\ pc'[u] = "backoff" /\ model'[u] = model[u]
                                 /\ sends'[u] = sends[u]
                            \/ pc'[u] = pc[u] /\ model'[u] = model[u] /\ sends'[u] = sends[u]
  <2>1. CASE Clear({t})
    BY <2>1, ClearedThreads
  <2>2. CASE pc' = [pc EXCEPT ![t] = "backoff"] /\ UNCHANGED <<model, sends>>
    BY <2>2 DEF ThreadsTyped, Places
  <2> QED BY <2>1, <2>2
<1>4. LookedUpAlone'
  BY <1>3 DEF LookedUpAlone
<1>5. SendsSettled'
  <2> HIDE DEF Converse, IInv
  <2>1. SendsSettled /\ UNCHANGED <<tag, arns>>
    BY DEF IInv, Converse
  <2>2. \A u \in Threads : Goes(u)
    BY <1>3 DEF Goes
  <2> QED BY <2>1, <2>2, SettledStays
<1> QED BY <1>2, <1>3, <1>4, <1>5, MoveKeeps

LEMMA BackoffKeeps ==
  ASSUME IInv, NEW t \in Threads, Backoff(t)
  PROVE  IInv'
<1> USE DEF IInv, Backoff, resolver
<1>1. SentSettled'
  BY DEF SentSettled, SettledOn
<1>2. /\ ThreadsTyped'
      /\ \A u \in Threads : \/ pc'[u] = "idle" /\ sends'[u] = Bare
                            \/ pc[u] = "backoff" /\ pc'[u] = "converse" /\ model'[u] = model[u]
                                 /\ sends'[u] = sends[u]
                            \/ pc'[u] = pc[u] /\ model'[u] = model[u] /\ sends'[u] = sends[u]
  <2>1. CASE Clear({t})
    BY <2>1, ClearedThreads
  <2>2. CASE pc' = [pc EXCEPT ![t] = "converse"] /\ UNCHANGED <<model, sends>>
    BY <2>2 DEF ThreadsTyped, Places
  <2> QED BY <2>1, <2>2
<1>3. LookedUpAlone'
  BY <1>2 DEF LookedUpAlone
<1>4. SendsSettled'
  <2>1. ASSUME NEW u \in Threads, pc'[u] \in {"converse", "backoff"}
        PROVE  SettledOn(P(u), model[u], sends[u])'
    <3>1. /\ pc[u] \in {"converse", "backoff"}
          /\ model'[u] = model[u] /\ sends'[u] = sends[u]
      BY <1>2, <2>1
    <3> QED BY <3>1 DEF SendsSettled, SettledOn
  <2>2. \A u \in Threads : pc'[u] = "idle" => sends'[u] = Bare
    BY <1>2 DEF SendsSettled
  <2>3. \A u \in Threads : pc'[u] \in {"lock", "find", "create"} => tag'[P(u)] # ""
    BY <1>2 DEF SendsSettled
  <2> QED BY <2>1, <2>2, <2>3 DEF SendsSettled
<1> QED BY <1>1, <1>2, <1>3, <1>4, MoveKeeps

\* A step that no part of the invariant speaks of.
LEMMA QuietKeeps ==
  ASSUME IInv, UNCHANGED <<account, tag, resolver, pc, model, sends, sent>>
  PROVE  IInv'
<1> USE DEF IInv, resolver
<1>1. ThreadsTyped' /\ LookedUpAlone' /\ SentSettled'
  BY DEF ThreadsTyped, LookedUpAlone, SentSettled, SettledOn
<1>2. SendsSettled'
  BY DEF SendsSettled, SettledOn
<1> QED BY <1>1, <1>2, MoveKeeps

LEMMA ActivateKeeps ==
  ASSUME IInv, Activate
  PROVE  IInv'
<1> USE DEF IInv, Activate, resolver, wire
<1>1. PICK n \in DOMAIN account : account' = [account EXCEPT ![n].active = TRUE]
  OBVIOUS
<1>2. /\ account' \in Seq(Profile) /\ DOMAIN account' = DOMAIN account
      /\ \A i \in DOMAIN account : /\ account'[i].name = account[i].name
                                   /\ account'[i].wraps = account[i].wraps
  <2> DEFINE ready == [account[n] EXCEPT !.active = TRUE]
  <2>1. account \in Seq(Profile) /\ account[n] \in Profile
    BY DEF AccountTyped
  <2>2. ready \in Profile /\ ready.name = account[n].name /\ ready.wraps = account[n].wraps
    BY <2>1 DEF Profile
  <2>3. account' = [account EXCEPT ![n] = ready]
    BY <1>1
  <2> HIDE DEF IInv, Activate, ready
  <2>4. account \in [1..Len(account) -> Profile] /\ Len(account) \in Nat
    BY <2>1
  <2>5. account' \in [1..Len(account) -> Profile]
    BY <2>2, <2>3, <2>4
  <2>6. account'[n] = ready /\ \A i \in DOMAIN account \ {n} : account'[i] = account[i]
    BY <2>3, <2>4
  <2>7. account' \in Seq(Profile) /\ DOMAIN account' = DOMAIN account
    BY <2>4, <2>5
  <2> QED BY <2>2, <2>6, <2>7
<1>3. AccountTyped' /\ NamesDiffer' /\ ThreadsTyped'
  BY <1>2 DEF AccountTyped, NamesDiffer, ThreadsTyped
<1>4. TableIsRight'
  BY <1>2 DEF TableIsRight
<1>5. LookedUpAlone' /\ SendsSettled' /\ SentSettled'
  BY DEF LookedUpAlone, SendsSettled, SentSettled, SettledOn
<1> QED BY <1>3, <1>4, <1>5

LEMMA KillKeeps ==
  ASSUME IInv, NEW p \in Processes, Kill(p)
  PROVE  IInv'
<1> USE DEF IInv, Kill
<1>1. AccountTyped' /\ NamesDiffer'
  BY DEF AccountTyped, NamesDiffer
<1>2. /\ ThreadsTyped'
      /\ \A t \in Threads : IF P(t) = p THEN pc'[t] = "idle" /\ sends'[t] = Bare
           ELSE pc'[t] = pc[t] /\ model'[t] = model[t] /\ sends'[t] = sends[t]
  BY ClearedThreads
<1>3. /\ arns' \in [Processes -> [Models -> Int]] /\ warned' \in [Processes -> SUBSET Models]
      /\ DOMAIN holder' = Processes
      /\ arns'[p] = [m \in Models |-> Unset]
      /\ \A q \in Processes \ {p} : /\ arns'[q] = arns[q] /\ warned'[q] = warned[q]
                                    /\ holder'[q] = holder[q]
  BY DEF TableIsRight, LookedUpAlone, Unset
<1>4. TableIsRight'
  BY <1>3 DEF TableIsRight
<1>5. LookedUpAlone'
  <2>1. \A t \in Threads : P(t) \in Processes
    BY DEF Processes
  <2> QED BY <1>2, <1>3, <2>1 DEF LookedUpAlone
<1>6. SendsSettled'
  <2>1. \A t \in Threads : P(t) \in Processes
    BY DEF Processes
  <2>2. ASSUME NEW t \in Threads, pc'[t] \in {"converse", "backoff"}
        PROVE  SettledOn(P(t), model[t], sends[t])'
    <3>1. /\ pc[t] \in {"converse", "backoff"} /\ P(t) \in Processes \ {p}
          /\ model'[t] = model[t] /\ sends'[t] = sends[t] /\ arns'[P(t)] = arns[P(t)]
      BY <1>2, <1>3, <2>1, <2>2
    <3> QED BY <3>1 DEF SendsSettled, SettledOn
  <2>3. \A t \in Threads : pc'[t] = "idle" => sends'[t] = Bare
    BY <1>2 DEF SendsSettled
  <2>4. \A t \in Threads : pc'[t] \in {"lock", "find", "create"} => tag'[P(t)] # ""
    BY <1>2 DEF SendsSettled
  <2> QED BY <2>2, <2>3, <2>4 DEF SendsSettled
<1>7. SentSettled'
  BY <1>3 DEF SentSettled, SettledOn
<1> QED BY <1>1, <1>2, <1>4, <1>5, <1>6, <1>7

LEMMA NextKeeps ==
  ASSUME IInv, [Next]_vars
  PROVE  IInv'
<1>1. ASSUME NEW t \in Threads, Begin(t) \/ Step(t) \/ End(t)
      PROVE  IInv'
  <2>1. CASE End(t)
    BY <2>1, QuietKeeps DEF End, wire
  <2> QED BY <1>1, <2>1, BeginKeeps, LockKeeps, RefusedKeeps, FindKeeps, CreateKeeps,
             ConverseKeeps, BackoffKeeps DEF Step
<1>2. CASE UNCHANGED vars
  BY <1>2, QuietKeeps DEF vars, resolver
<1> QED BY <1>1, <1>2, ActivateKeeps, KillKeeps DEF Next

-----------------------------------------------------------------------------
\* The table of every process leads to profiles of its own tag and of the model asked,
\* and what it sent agrees with it (costtag.go:89-182).
THEOREM ResolverInvariance == Spec => []IInv
<1>1. Init => IInv
  BY InitHolds
<1>2. IInv /\ [Next]_vars => IInv'
  BY NextKeeps
<1> QED BY <1>1, <1>2, PTL DEF Spec

\* Whatever races, fails or is killed, what is sent for a model is that model or a
\* profile with this process's tag that wraps it (costtag.go:175-182).
THEOREM BillingIsRight == Spec => []BilledToItsModel
<1>1. IInv => BilledToItsModel
  BY InvariantSuffices
<1> QED BY <1>1, ResolverInvariance, PTL

\* However many processes race to create profiles, and whatever they are named, no
\* name has two (costtag.go:154-158).
THEOREM NoSplitRows == Spec => []OneProfilePerName
<1>1. IInv => OneProfilePerName
  BY InvariantSuffices
<1> QED BY <1>1, ResolverInvariance, PTL

\* A process sends one ID for a model until it ends, and has warned of every model
\* it leaves untagged (costtag.go:91-96, 119-121).
THEOREM AttributionSettles == Spec => []AttributionIsSettled
<1>1. IInv => AttributionIsSettled
  BY InvariantSuffices
<1> QED BY <1>1, ResolverInvariance, PTL
=============================================================================
