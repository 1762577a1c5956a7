------------------------------ MODULE Provider ------------------------------
(***************************************************************************)
(* The Bedrock provider (internal/model/bedrock.go, costtag.go): calls     *)
(* that resolve a model to a tagged application profile, once per process  *)
(* and model, and then converse, retrying what is worth it.                *)
(*                                                                         *)
(* A model ID is [route, vendor, base]: a cross-region prefix or none, and *)
(* a name in two parts written with '.', ':' or '-' between them, which is *)
(* what a profile name folds.  The account's application profiles are      *)
(* shared by the processes and outlive them; a profile's ARN is its        *)
(* position, and Bare stands for the model ID itself.  The control plane   *)
(* and the runtime are external: any call of theirs may fail, and fails    *)
(* once the context of its query has ended.                                *)
(***************************************************************************)
EXTENDS Integers, Sequences, FiniteSets, Functions

CONSTANTS
  Threads,             \* goroutines, each a pair that starts with its process
  Models,              \* model IDs, of models the account has
  Starts,              \* [tag, account]: the processes' tags, "" being none, and
                       \* the profiles that are there
  Retries,             \* attempts to converse
  MaxCalls, MaxKills   \* bounds on the calls of a worker, and on kills

VARIABLES
  account,       \* application profiles: [name, wraps, active]
  tag,           \* each process's tag
  arns, warned,  \* the resolver of each process, by model
  holder,        \* the worker that holds its lock, or None
  pc, model,     \* each worker's place, and the model it asks
  sends,         \* what it sends as ModelId
  attempt, ended,  \* attempts made; its query's context has ended
  calls, kills,
  sent           \* history: what each process sent since it started

vars == <<account, tag, arns, warned, holder, pc, model, sends, attempt, ended,
          calls, kills, sent>>

P(t) == t[1]
Processes == {P(t) : t \in Threads}

Unset == -1
Bare == 0
None == <<>>

\* What a profile lists of a model: its ID without the routing prefix.
Identity(m) == <<m.vendor, m.sep, m.base>>

\* Separators fold to '-': two models that differ only there share a name.
ProfileName(g, m) == <<g, m.route, m.vendor, m.base>>

\* What a profile may be: of a start, or created by a process.
Names == {ProfileName(s.tag[p], m) : s \in Starts, p \in Processes, m \in Models}
           \cup UNION {{r.name : r \in Range(s.account)} : s \in Starts}
Wrapped == {Identity(m) : m \in Models}
             \cup UNION {{r.wraps : r \in Range(s.account)} : s \in Starts}
Profile == [name : Names, wraps : Wrapped, active : BOOLEAN]

\* The account starts with no two profiles of one name, which Bedrock refuses.
ASSUME ProviderAssumption ==
  /\ None \notin Threads
  /\ \A s \in Starts :
       /\ s.account \in Seq(Profile)
       /\ \A i, j \in DOMAIN s.account : s.account[i].name = s.account[j].name => i = j

Init ==
  /\ \E s \in Starts : account = s.account /\ tag = s.tag
  /\ arns = [p \in Processes |-> [m \in Models |-> Unset]]
  /\ warned = [p \in Processes |-> {}]
  /\ holder = [p \in Processes |-> None]
  /\ pc = [t \in Threads |-> "idle"]
  /\ model = [t \in Threads |-> None]
  /\ sends = [t \in Threads |-> Bare]
  /\ attempt = [t \in Threads |-> 0]
  /\ ended = [t \in Threads |-> FALSE]
  /\ calls = [t \in Threads |-> 0]
  /\ kills = 0
  /\ sent = {}

resolver == <<arns, warned, holder>>
wire == <<sends, attempt, sent>>

\* Generate: without a tag there is no resolver, and the bare ID is sent.
Begin(t) ==
  /\ pc[t] = "idle" /\ calls[t] < MaxCalls
  /\ calls' = [calls EXCEPT ![t] = @ + 1]
  /\ \E m \in Models : model' = [model EXCEPT ![t] = m]
  /\ pc' = [pc EXCEPT ![t] = IF tag[P(t)] = "" THEN "converse" ELSE "lock"]
  /\ UNCHANGED <<account, tag, resolver, wire, ended, kills>>

Clear(ts) ==
  /\ pc' = [t \in Threads |-> IF t \in ts THEN "idle" ELSE pc[t]]
  /\ model' = [t \in Threads |-> IF t \in ts THEN None ELSE model[t]]
  /\ sends' = [t \in Threads |-> IF t \in ts THEN Bare ELSE sends[t]]
  /\ attempt' = [t \in Threads |-> IF t \in ts THEN 0 ELSE attempt[t]]
  /\ ended' = [t \in Threads |-> ended[t] /\ t \notin ts]

-----------------------------------------------------------------------------
(* resolve, whose lock is held until it returns.                           *)

\* Bug: the path of the fallback returns with the lock held.
KeepsLock(t, id) == IF id = Bare THEN t ELSE None

\* Who has the lock after resolve returned id.
LockAfter(t, id) == None

Resolved(t, id) ==
  /\ sends' = [sends EXCEPT ![t] = id]
  /\ holder' = [holder EXCEPT ![P(t)] = LockAfter(t, id)]
  /\ pc' = [pc EXCEPT ![t] = "converse"]

Lock(t) ==
  /\ pc[t] = "lock" /\ holder[P(t)] = None
  /\ IF arns[P(t)][model[t]] # Unset
       THEN Resolved(t, arns[P(t)][model[t]])
       ELSE /\ holder' = [holder EXCEPT ![P(t)] = t]
            /\ pc' = [pc EXCEPT ![t] = "find"]
            /\ UNCHANGED sends
  /\ UNCHANGED <<account, tag, arns, warned, model, attempt, ended, calls, kills, sent>>

\* Bug: the fallback is not remembered.
Forgets(t) == arns

FallbackKept(t) == [arns EXCEPT ![P(t)][model[t]] = Bare]
Warn(t) == [warned EXCEPT ![P(t)] = @ \cup {model[t]}]

Fallback(t) ==
  /\ warned' = Warn(t)
  /\ arns' = FallbackKept(t)
  /\ Resolved(t, Bare)

Tagged(t, n) ==
  /\ arns' = [arns EXCEPT ![P(t)][model[t]] = n]
  /\ Resolved(t, n)
  /\ UNCHANGED warned

\* A listing or the creation fails, or the model is not the account's.
Refused(t) ==
  /\ pc[t] \in {"find", "create"}
  /\ Fallback(t)
  /\ UNCHANGED <<account, tag, model, attempt, ended, calls, kills, sent>>

Named(t) == {n \in DOMAIN account : account[n].name = ProfileName(tag[P(t)], model[t])}

\* Bug: a profile of that name is taken for the model's.
NamedIsEnough(t, n) == TRUE

WrapsModel(t, n) == account[n].wraps = Identity(model[t])

\* sourceARN, which reads what no one changes, and findProfile, which goes by the
\* first profile of that name.
Find(t) ==
  /\ pc[t] = "find" /\ ~ended[t]
  /\ \/ /\ Named(t) = {}
        /\ pc' = [pc EXCEPT ![t] = "create"]
        /\ UNCHANGED <<resolver, sends>>
     \/ \E n \in Named(t) :
          /\ \A k \in Named(t) : n <= k
          /\ IF WrapsModel(t, n) /\ account[n].active THEN Tagged(t, n) ELSE Fallback(t)
  /\ UNCHANGED <<account, tag, model, attempt, ended, calls, kills, sent>>

\* Bug: a random token, which no earlier creation has used.
RandomToken(t) == {}

\* The profiles created under the token of this creation, which is the name.
Token(t) == Named(t)

\* Creation is idempotent in its token: the answer is the profile there is, or an
\* error when that is of another model.  The answer may be lost, and a profile may
\* not be ready at once.
Create(t) ==
  /\ pc[t] = "create" /\ ~ended[t]
  /\ \/ /\ Token(t) = {}
        /\ \E ready \in BOOLEAN :
             /\ account' = Append(account,
                  [name |-> ProfileName(tag[P(t)], model[t]),
                   wraps |-> Identity(model[t]), active |-> ready])
             /\ \/ ready /\ Tagged(t, Len(account) + 1)
                \/ Fallback(t)
     \/ \E n \in Token(t) :
          /\ IF WrapsModel(t, n) /\ account[n].active THEN Tagged(t, n) ELSE Fallback(t)
          /\ UNCHANGED account
  /\ UNCHANGED <<tag, model, attempt, ended, calls, kills, sent>>

-----------------------------------------------------------------------------
(* The converse call, and its retries.                                     *)

Exhausted(t) == attempt[t] + 1 >= Retries

\* An answer or a fatal error ends the call, as does the last throttled attempt.
Converse(t) ==
  /\ pc[t] = "converse"
  /\ sent' = sent \cup {[by |-> P(t), model |-> model[t], id |-> sends[t]]}
  /\ \/ Clear({t})
     \/ /\ ~ended[t] /\ ~Exhausted(t)
        /\ attempt' = [attempt EXCEPT ![t] = IF @ + 1 < Retries THEN @ + 1 ELSE @]
        /\ pc' = [pc EXCEPT ![t] = "backoff"]
        /\ UNCHANGED <<model, sends, ended>>
  /\ UNCHANGED <<account, tag, resolver, calls, kills>>

\* Once the context has ended either case of the select may be taken.
Backoff(t) ==
  /\ pc[t] = "backoff"
  /\ \/ /\ pc' = [pc EXCEPT ![t] = "converse"]
        /\ UNCHANGED <<model, sends, attempt, ended>>
     \/ ended[t] /\ Clear({t})
  /\ UNCHANGED <<account, tag, resolver, sent, calls, kills>>

-----------------------------------------------------------------------------
(* The rest of the world.                                                  *)

\* The deadline of a worker's query passes, or its fan-out is cancelled.  A converse
\* call under way then fails, as it may anyway.
End(t) ==
  /\ pc[t] \in {"find", "create", "backoff"} /\ ~ended[t]
  /\ ended' = [ended EXCEPT ![t] = TRUE]
  /\ UNCHANGED <<account, tag, resolver, pc, model, wire, calls, kills>>

\* A profile that was being made becomes usable.
Activate ==
  /\ \E n \in DOMAIN account :
       ~account[n].active /\ account' = [account EXCEPT ![n].active = TRUE]
  /\ UNCHANGED <<tag, resolver, pc, model, wire, ended, calls, kills>>

\* A process is killed and started again.
Kill(p) ==
  /\ kills < MaxKills
  /\ kills' = kills + 1
  /\ arns' = [arns EXCEPT ![p] = [m \in Models |-> Unset]]
  /\ warned' = [warned EXCEPT ![p] = {}]
  /\ holder' = [holder EXCEPT ![p] = None]
  /\ Clear({t \in Threads : P(t) = p})
  /\ sent' = {s \in sent : s.by # p}
  /\ UNCHANGED <<account, tag, calls>>

Step(t) ==
  Lock(t) \/ Refused(t) \/ Find(t) \/ Create(t) \/ Converse(t) \/ Backoff(t)

Next ==
  \/ \E t \in Threads : Begin(t) \/ Step(t) \/ End(t)
  \/ Activate
  \/ \E p \in Processes : Kill(p)

Spec == Init /\ [][Next]_vars

\* Go schedules every runnable goroutine, and every call of the SDK returns.  A waiter
\* needs no more to get the lock, which the others take finitely often.
FairSpec == Spec /\ \A t \in Threads : WF_vars(Step(t))

-----------------------------------------------------------------------------

\* A call's spend is billed to the model it went to (costtag.go:175-182): whatever is
\* sent for a model is that model, or a profile with this process's tag that wraps it.
BilledToItsModel ==
  \A s \in sent : s.id # Bare =>
    /\ account[s.id].wraps = Identity(s.model)
    /\ account[s.id].name = ProfileName(tag[s.by], s.model)

\* Processes that race to create a model's profile end up with one, so that its spend
\* is not split across two rows (costtag.go:154-158, 306-308).
OneProfilePerName ==
  Cardinality({r.name : r \in Range(account)}) = Len(account)

\* A process settles on one ID for a model, tagged or bare, and under a tag has
\* warned of every model whose spend goes untagged (costtag.go:91-96, 119-121).
AttributionIsSettled ==
  \A s \in sent :
    /\ \A q \in sent : s.by = q.by /\ s.model = q.model => s.id = q.id
    /\ s.id = Bare /\ tag[s.by] # "" => s.model \in warned[s.by]

\* Every call ends, through throttling, a failing control plane, an ended query and
\* waiters on the resolver's lock.
EveryCallEnds == \A t \in Threads : pc[t] # "idle" ~> pc[t] = "idle"
=============================================================================
