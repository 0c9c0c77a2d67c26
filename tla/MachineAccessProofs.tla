------------------------ MODULE MachineAccessProofs ------------------------
(***************************************************************************)
(* What machine credentials promise, for any number of keys, calls and      *)
(* writes.                                                                  *)
(*                                                                          *)
(* MachineInv: a call in flight has seen every condition that holds, so     *)
(* whatever a statement finds is among what it has seen; a call that holds  *)
(* the locks has a usable key and Principal, because every write to them    *)
(* waits (MayStore); and nothing happens to a machine before it is made.    *)
(***************************************************************************)
EXTENDS MachineAccess, TLAPS

-----------------------------------------------------------------------------
(* The invariant *)

Conditions == {"row", "fresh", "client", "secret", "context", "introspection"}
Steps == {"none", "row", "client", "context", "verify", "read", "write", "live", "introspect", "accepted", "refused"}
KeyRow == [revoked : BOOLEAN, expires : Nat \cup {None}]
StoreRow ==
    [kind : {"device", "service", None}, tenant : BOOLEAN, principal : BOOLEAN, client : BOOLEAN, introspect : BOOLEAN,
     caps : SUBSET Capabilities, secret : Nat, org : BOOLEAN, member : BOOLEAN, keys : [ApiKeys -> KeyRow \cup {None}]]
CallRow ==
    [step : Steps, kind : {"key", "token", "bearer", "update", None}, key : ApiKeys \cup {None}, secret : Nat,
     caps : SUBSET Capabilities, route : {"authorization", "introspect", "integration", "introspected", None},
     copied : BOOLEAN, seen : SUBSET Conditions]

MachineTypes ==
    /\ now \in Nat /\ store \in StoreRow /\ called \in Nat
    /\ calls \in [Call -> CallRow]

\* A call in flight has seen every condition that holds, and its key exists.
Sees(c) ==
    /\ Fulfilled(c, store, now) \subseteq c.seen
    /\ c.kind = "key" => c.key \in ApiKeys /\ store.keys[c.key] \in KeyRow

\* The calls that hold the locks of verify_machine_credential.
Holds(c) == c.kind = "key" /\ c.step \in {"client", "context"}

KeyIsUsable(k) == store.principal /\ ~store.keys[k].revoked

\* What call c has established when it comes to `step`.
Promise(c, step) ==
    /\ c.kind = "key" /\ step \in {"client", "context"} => KeyIsUsable(c.key) /\ "fresh" \in c.seen
    /\ c.kind = "key" /\ step = "context" => "client" \in c.seen
    /\ c.kind = "token" /\ step \in {"read", "write", "live"} => "secret" \in c.seen
    /\ step = "introspect" => c.kind = "bearer" /\ "context" \in c.seen
    /\ step = "accepted" =>
          /\ c.kind = "key" => {"row", "fresh", "client"} \subseteq c.seen
          /\ c.kind = "token" => {"secret", "context"} \subseteq c.seen
          /\ c.kind = "bearer" =>
                /\ "context" \in c.seen
                /\ c.route \in {"introspect", "integration"} => "introspection" \in c.seen /\ ~store.tenant

GoodCall(c) == (InFlight(c) /\ c.kind # "update" => Sees(c)) /\ Promise(c, c.step)

\* Nothing happens to a machine that does not exist.
NothingYet ==
    store.kind = None =>
        /\ serviceJwts = {}
        /\ \A k \in ApiKeys : store.keys[k] = None
        /\ \A i \in Call : calls[i].step = "none"

MachineInv ==
    /\ MachineTypes /\ NothingYet
    /\ \A i \in Call : GoodCall(calls[i])

-----------------------------------------------------------------------------
(* Conditions *)

\* What Fulfilled says, condition by condition.
LEMMA FulfilledFacts ==
    ASSUME NEW c, NEW s, NEW t
    PROVE  /\ Fulfilled(c, s, t) \subseteq Conditions
           /\ "row" \in Fulfilled(c, s, t) <=> c.kind = "key" /\ ~s.keys[c.key].revoked /\ s.principal /\ ContextIsActive(s)
           /\ "fresh" \in Fulfilled(c, s, t) <=> c.kind = "key" /\ Unexpired(s.keys[c.key], t)
           /\ "client" \in Fulfilled(c, s, t) <=> (s.kind = "service" => s.client)
           /\ "secret" \in Fulfilled(c, s, t) <=> s.client /\ c.secret = s.secret /\ c.caps \subseteq s.caps
           /\ "context" \in Fulfilled(c, s, t) <=> TokenContextIsActive(s)
           /\ "introspection" \in Fulfilled(c, s, t) <=> IntrospectionAllowed(s)
BY DEF Fulfilled, Conditions

SameCall(c, d) == c.kind = d.kind /\ c.key = d.key /\ c.secret = d.secret /\ c.caps = d.caps /\ c.route = d.route

\* The conditions on a call do not depend on how far it has come.
LEMMA SameConditions ==
    ASSUME NEW c, NEW d, SameCall(c, d), NEW s, NEW t
    PROVE  Fulfilled(c, s, t) = Fulfilled(d, s, t)
BY DEF SameCall, Fulfilled

\* As time passes no condition is fulfilled that was not before.
LEMMA ConditionsExpire ==
    ASSUME NEW c, NEW s, NEW t \in Nat, c.kind = "key" => s.keys[c.key] \in KeyRow
    PROVE  Fulfilled(c, s, t + 1) \subseteq Fulfilled(c, s, t)
<1>1. c.kind = "key" /\ Unexpired(s.keys[c.key], t + 1) => Unexpired(s.keys[c.key], t)
  BY DEF Unexpired, KeyRow
<1>2. "fresh" \in Fulfilled(c, s, t + 1) => "fresh" \in Fulfilled(c, s, t)
  BY <1>1, FulfilledFacts
<1>3. \A h \in Conditions \ {"fresh"} : h \in Fulfilled(c, s, t + 1) => h \in Fulfilled(c, s, t)
  <2>1. "row" \in Fulfilled(c, s, t + 1) => "row" \in Fulfilled(c, s, t)
    BY FulfilledFacts
  <2>2. "client" \in Fulfilled(c, s, t + 1) => "client" \in Fulfilled(c, s, t)
    BY FulfilledFacts
  <2>3. "secret" \in Fulfilled(c, s, t + 1) => "secret" \in Fulfilled(c, s, t)
    BY FulfilledFacts
  <2>4. "context" \in Fulfilled(c, s, t + 1) => "context" \in Fulfilled(c, s, t)
    BY FulfilledFacts
  <2>5. "introspection" \in Fulfilled(c, s, t + 1) => "introspection" \in Fulfilled(c, s, t)
    BY FulfilledFacts
  <2> QED BY <2>1, <2>2, <2>3, <2>4, <2>5 DEF Conditions
<1>4. Fulfilled(c, s, t + 1) \subseteq Conditions
  BY FulfilledFacts
<1> QED BY <1>2, <1>3, <1>4

-----------------------------------------------------------------------------
(* A call goes on *)

\* A call that goes on without a new condition has established what the next
\* step needs.
LEMMA PromiseFrame ==
    ASSUME NEW c, NEW d, SameCall(c, d), c.seen \subseteq d.seen, NEW step, Promise(c, step)
    PROVE  Promise(d, step)
BY DEF Promise, SameCall

\* An empty call promises nothing.
LEMMA NoCallIsGood ==
    ASSUME NEW step \in {"none", "accepted", "refused"}, NEW c, c.kind = None, c.step = step
    PROVE  GoodCall(c)
BY MachineAssumption DEF GoodCall, InFlight, Promise

\* Only calls[i] changes, and no row.
LEMMA OneCallKeeps ==
    ASSUME MachineInv, NEW i \in Call, NEW d \in CallRow, calls' = [calls EXCEPT ![i] = d], GoodCall(d),
           UNCHANGED <<now, store>>, called' \in Nat, store.kind # None
    PROVE  MachineInv'
<1>1. calls' \in [Call -> CallRow] /\ calls'[i] = d /\ \A j \in Call \ {i} : calls'[j] = calls[j]
  BY DEF MachineInv, MachineTypes
<1>2. \A j \in Call : GoodCall(calls'[j])
  BY <1>1 DEF MachineInv
<1>3. \A j \in Call : GoodCall(calls[j])'
  BY <1>2 DEF GoodCall, Sees, Promise, KeyIsUsable, InFlight
<1>4. MachineTypes' /\ NothingYet'
  BY <1>1 DEF MachineInv, MachineTypes, NothingYet
<1> QED BY <1>3, <1>4 DEF MachineInv

\* A call has its columns, and there is a machine to call.
LEMMA CallFacts ==
    ASSUME MachineInv, NEW i \in Call
    PROVE  calls[i] \in CallRow /\ GoodCall(calls[i]) /\ (calls[i].step # "none" => store.kind # None)
BY DEF MachineInv, MachineTypes, NothingYet

\* A call goes on to a step whose promise it has established, or is refused.
LEMMA GoesKeeps ==
    ASSUME MachineInv, NEW i \in Call, NEW step \in Steps, Goes(i, step), InFlight(calls[i]),
           step = "refused" \/ Promise(calls[i], step), UNCHANGED <<now, store, called>>
    PROVE  MachineInv'
<1>1. calls[i] \in CallRow /\ GoodCall(calls[i]) /\ store.kind # None
  BY CallFacts DEF InFlight
<1>2. called' \in Nat
  BY DEF MachineInv, MachineTypes
<1>3. CASE step = "refused"
  <2>1. PICK d : d = [NoCall EXCEPT !.step = "refused"]
    OBVIOUS
  <2>2. d \in CallRow /\ d.kind = None /\ d.step = "refused"
    BY <2>1 DEF NoCall, CallRow, Steps, Conditions
  <2>3. calls' = [calls EXCEPT ![i] = d]
    BY <1>3, <2>1 DEF Goes
  <2>4. GoodCall(d)
    BY <2>2, NoCallIsGood
  <2> QED BY <1>1, <1>2, <2>2, <2>3, <2>4, OneCallKeeps
<1>4. CASE step # "refused"
  <2>1. PICK d : d = [calls[i] EXCEPT !.step = step]
    OBVIOUS
  <2>2. d \in CallRow /\ SameCall(calls[i], d) /\ d.seen = calls[i].seen /\ d.step = step
    BY <1>1, <2>1 DEF CallRow, SameCall
  <2>3. calls' = [calls EXCEPT ![i] = d]
    BY <1>4, <2>1 DEF Goes
  <2>4. Promise(d, d.step)
    BY <1>4, <2>2, PromiseFrame
  <2>5. d.kind # "update" => Sees(d)
    <3>1. d.kind # "update" => Sees(calls[i])
      BY <1>1, <2>2 DEF GoodCall, SameCall
    <3>2. Fulfilled(calls[i], store, now) = Fulfilled(d, store, now)
      BY <2>2, SameConditions
    <3> QED BY <2>2, <3>1, <3>2 DEF Sees, SameCall
  <2> QED BY <1>1, <1>2, <2>2, <2>3, <2>4, <2>5, OneCallKeeps DEF GoodCall
<1> QED BY <1>3, <1>4

\* The same, with what a call in flight knows.
LEMMA InFlightFacts ==
    ASSUME MachineInv, NEW i \in Call, InFlight(calls[i])
    PROVE  /\ calls[i].kind # "update" => Fulfilled(calls[i], store, now) \subseteq calls[i].seen
           /\ Promise(calls[i], calls[i].step)
           /\ store.kind # None /\ store \in StoreRow /\ calls[i] \in CallRow
           /\ calls[i].kind = "key" => calls[i].key \in ApiKeys /\ store.keys[calls[i].key] \in KeyRow
BY CallFacts DEF GoodCall, Sees, MachineInv, MachineTypes, InFlight

\* The locks are taken; the key is usable and fresh.
LEMMA ReadKeyRowKeeps ==
    ASSUME MachineInv, NEW i \in Call, ReadKeyRow(i)
    PROVE  MachineInv'
<1> DEFINE k == store.keys[calls[i].key]
           usable == ~k.revoked /\ Unexpired(k, now) /\ store.principal
           step == IF usable THEN "client" ELSE "refused"
<1>1. Goes(i, step) /\ InFlight(calls[i]) /\ UNCHANGED <<now, store, called>>
  BY DEF ReadKeyRow, Only, InFlight, CallAt
<1>2. ASSUME usable
      PROVE  Promise(calls[i], "client")
  <2>1. calls[i].kind = "key" => "fresh" \in calls[i].seen
    BY <1>1, <1>2, InFlightFacts, FulfilledFacts
  <2>2. KeyIsUsable(calls[i].key)
    BY <1>2 DEF KeyIsUsable
  <2> QED BY <2>1, <2>2 DEF Promise
<1>3. step \in Steps /\ (step = "refused" \/ Promise(calls[i], step))
  BY <1>2 DEF Steps
<1> QED BY <1>1, <1>3, GoesKeeps

\* The client and the scope are read.
LEMMA ReadMachineKeeps ==
    ASSUME MachineInv, NEW i \in Call, ReadMachine(i)
    PROVE  MachineInv'
<1> DEFINE off == store.kind = "service" /\ ~store.client
           step == IF off THEN "refused" ELSE IF store.tenant THEN "context" ELSE "accepted"
<1>1. /\ Goes(i, step) /\ InFlight(calls[i]) /\ UNCHANGED <<now, store, called>>
      /\ calls[i].kind = "key" /\ calls[i].step = "client"
  BY DEF ReadMachine, Only, InFlight, CallAt
<1>2. KeyIsUsable(calls[i].key) /\ "fresh" \in calls[i].seen
  BY <1>1, InFlightFacts DEF Promise
<1>3. ASSUME ~off
      PROVE  "client" \in calls[i].seen
  BY <1>1, <1>3, InFlightFacts, FulfilledFacts
<1>4. ASSUME ~store.tenant
      PROVE  "row" \in calls[i].seen
  BY <1>1, <1>2, <1>4, InFlightFacts, FulfilledFacts DEF KeyIsUsable, ContextIsActive
<1>5. step \in Steps /\ (step = "refused" \/ Promise(calls[i], step))
  <2>1. CASE off
    BY <2>1 DEF Steps
  <2>2. CASE ~off /\ store.tenant
    BY <1>1, <1>2, <1>3, <2>2 DEF Steps, Promise
  <2>3. CASE ~off /\ ~store.tenant
    BY <1>1, <1>2, <1>3, <1>4, <2>3 DEF Steps, Promise
  <2> QED BY <2>1, <2>2, <2>3
<1> QED BY <1>1, <1>5, GoesKeeps

\* The organization and the membership are active while key and Principal are
\* still held: that is the one moment.
LEMMA ReadContextKeeps ==
    ASSUME MachineInv, NEW i \in Call, ReadContext(i)
    PROVE  MachineInv'
<1> DEFINE step == IF store.org /\ store.member THEN "accepted" ELSE "refused"
<1>1. /\ Goes(i, step) /\ InFlight(calls[i]) /\ UNCHANGED <<now, store, called>>
      /\ calls[i].kind = "key" /\ calls[i].step = "context"
  BY DEF ReadContext, Only, InFlight, CallAt
<1>2. KeyIsUsable(calls[i].key) /\ "fresh" \in calls[i].seen /\ "client" \in calls[i].seen
  BY <1>1, InFlightFacts DEF Promise
<1>3. ASSUME store.org /\ store.member
      PROVE  "row" \in calls[i].seen
  BY <1>1, <1>2, <1>3, InFlightFacts, FulfilledFacts DEF KeyIsUsable, ContextIsActive
<1>4. step \in Steps /\ (step = "refused" \/ Promise(calls[i], step))
  <2>1. CASE store.org /\ store.member
    BY <1>1, <1>2, <1>3, <2>1 DEF Steps, Promise
  <2>2. CASE ~(store.org /\ store.member)
    BY <2>2 DEF Steps
  <2> QED BY <2>1, <2>2
<1> QED BY <1>1, <1>4, GoesKeeps

\* The secret is current and the capabilities are the client's.
LEMMA VerifySecretKeeps ==
    ASSUME MachineInv, NEW i \in Call, VerifySecret(i)
    PROVE  MachineInv'
<1> DEFINE right == "secret" \in Fulfilled(calls[i], store, now)
           step == IF right THEN "read" ELSE "refused"
<1>1. Goes(i, step) /\ InFlight(calls[i]) /\ UNCHANGED <<now, store, called>>
  BY DEF VerifySecret, Only, InFlight, CallAt
<1>2. right /\ calls[i].kind = "token" => "secret" \in calls[i].seen
  BY <1>1, InFlightFacts
<1>3. step \in Steps /\ (step = "refused" \/ Promise(calls[i], step))
  BY <1>2 DEF Steps, Promise
<1> QED BY <1>1, <1>3, GoesKeeps

\* The machine is whole, in one statement, and the secret was right.
LEMMA MintServiceTokenKeeps ==
    ASSUME MachineInv, NEW i \in Call, MintServiceToken(i)
    PROVE  MachineInv'
<1> DEFINE live == TokenContextIsActive(store)
           step == IF live THEN "accepted" ELSE "refused"
<1>1. Goes(i, step) /\ InFlight(calls[i]) /\ UNCHANGED <<now, store, called>> /\ calls[i].kind = "token" /\ calls[i].step = "live"
  BY DEF MintServiceToken, InFlight, CallAt
<1>2. live => "context" \in calls[i].seen
  BY <1>1, InFlightFacts, FulfilledFacts
<1>3. "secret" \in calls[i].seen
  BY <1>1, InFlightFacts DEF Promise
<1> HIDE DEF live
<1>4. step \in Steps /\ (step = "refused" \/ Promise(calls[i], step))
  BY <1>1, <1>2, <1>3 DEF Steps, Promise
<1> QED BY <1>1, <1>4, GoesKeeps

\* The machine is whole, in one statement.
LEMMA EnsureLiveKeeps ==
    ASSUME MachineInv, NEW i \in Call, EnsureLive(i)
    PROVE  MachineInv'
<1> DEFINE live == TokenContextIsActive(store)
           further == calls[i].route \in {"introspect", "integration"}
           step == IF ~live THEN "refused" ELSE IF further THEN "introspect" ELSE "accepted"
<1>1. Goes(i, step) /\ InFlight(calls[i]) /\ UNCHANGED <<now, store, called>> /\ calls[i].kind = "bearer"
  BY DEF EnsureLive, Only, InFlight, CallAt
<1>2. live => "context" \in calls[i].seen
  BY <1>1, InFlightFacts, FulfilledFacts
<1> HIDE DEF live
<1>3. step \in Steps /\ (step = "refused" \/ Promise(calls[i], step))
  BY <1>1, <1>2 DEF Steps, Promise
<1> QED BY <1>1, <1>3, GoesKeeps

\* Introspection is for clients of the platform.
LEMMA CheckIntrospectionKeeps ==
    ASSUME MachineInv, NEW i \in Call, NEW route, CheckIntrospection(i, route)
    PROVE  MachineInv'
<1> DEFINE allowed == IntrospectionAllowed(store)
           step == IF allowed THEN "accepted" ELSE "refused"
<1>1. Goes(i, step) /\ InFlight(calls[i]) /\ UNCHANGED <<now, store, called>> /\ calls[i].step = "introspect"
  BY DEF CheckIntrospection, Only, InFlight, CallAt
<1>2. calls[i].kind = "bearer" /\ "context" \in calls[i].seen
  BY <1>1, InFlightFacts DEF Promise
<1>3. allowed => "introspection" \in calls[i].seen /\ ~store.tenant
  BY <1>1, <1>2, InFlightFacts, FulfilledFacts DEF IntrospectionAllowed
<1> HIDE DEF allowed
<1>4. step \in Steps /\ (step = "refused" \/ Promise(calls[i], step))
  BY <1>2, <1>3 DEF Steps, Promise
<1> QED BY <1>1, <1>4, GoesKeeps

\* A lost call is refused.
LEMMA LoseCallKeeps ==
    ASSUME MachineInv, NEW i \in Call, LoseCall(i)
    PROVE  MachineInv'
BY GoesKeeps DEF LoseCall, Only, Steps

\* The flag that will be copied is read.
LEMMA CopyReadKeeps ==
    ASSUME MachineInv, NEW i \in Call, CopyRead(i)
    PROVE  MachineInv'
<1>1. /\ calls[i].step = "read" /\ InFlight(calls[i]) /\ UNCHANGED <<now, store, called>>
      /\ calls' = [calls EXCEPT ![i].step = "write", ![i].copied = store.client]
  BY DEF CopyRead, InFlight, CallAt
<1>2. PICK d : d = [calls[i] EXCEPT !.step = "write", !.copied = store.client]
  OBVIOUS
<1>3. calls[i] \in CallRow /\ store \in StoreRow /\ calls \in [Call -> CallRow]
  BY CallFacts DEF MachineInv, MachineTypes
<1>4. d \in CallRow /\ SameCall(calls[i], d) /\ d.seen = calls[i].seen /\ d.step = "write"
  BY <1>2, <1>3 DEF CallRow, StoreRow, SameCall, Steps
<1>5. calls' = [calls EXCEPT ![i] = d]
  BY <1>1, <1>2, <1>3
<1>6. Promise(calls[i], "write")
  BY <1>1, InFlightFacts DEF Promise
<1>7. Promise(d, d.step)
  BY <1>4, <1>6, PromiseFrame
<1>8. d.kind # "update" => Sees(d)
  BY <1>1, <1>4, InFlightFacts, SameConditions DEF Sees, SameCall
<1>9. called' \in Nat /\ store.kind # None
  BY <1>1, InFlightFacts DEF MachineInv, MachineTypes
<1> QED BY <1>1, <1>4, <1>5, <1>7, <1>8, <1>9, OneCallKeeps DEF GoodCall

-----------------------------------------------------------------------------
(* A call begins *)

\* A call begins with what holds.
LEMMA StartCallKeeps ==
    ASSUME MachineInv, NEW c \in CallRow, StartCall(c), UNCHANGED <<now, store>>, store.kind # None,
           c.step \in {"row", "verify"} \/ (c.step = "live" /\ c.kind = "bearer"),
           c.kind = "key" => c.key \in ApiKeys /\ store.keys[c.key] \in KeyRow
    PROVE  MachineInv'
<1>1. called + 1 \in Call /\ called' \in Nat
  BY MachineAssumption DEF StartCall, Call, MachineInv, MachineTypes
<1>2. PICK d : d = [c EXCEPT !.seen = Fulfilled(c, store, now)]
  OBVIOUS
<1>3. Fulfilled(c, store, now) \subseteq Conditions
  BY FulfilledFacts
<1>4. d \in CallRow /\ SameCall(c, d) /\ d.seen = Fulfilled(c, store, now) /\ d.step = c.step
  BY <1>2, <1>3 DEF CallRow, SameCall
<1>5. Sees(d)
  BY <1>4, SameConditions DEF Sees, SameCall
<1>6. Promise(d, d.step)
  BY <1>4 DEF Promise, SameCall
<1> QED BY <1>1, <1>2, <1>4, <1>5, <1>6, OneCallKeeps DEF StartCall, GoodCall

\* A call with an API key.
LEMMA StartKeyCallKeeps ==
    ASSUME MachineInv, NEW k \in ApiKeys, StartKeyCall(k)
    PROVE  MachineInv'
<1>1. PICK c : c = [NoCall EXCEPT !.step = "row", !.kind = "key", !.key = k]
  OBVIOUS
<1>2. c \in CallRow /\ c.step = "row" /\ c.key = k
  BY <1>1 DEF NoCall, CallRow, Steps, Conditions
<1>3. store.keys[k] \in KeyRow /\ store.kind # None
  BY DEF StartKeyCall, MachineInv, MachineTypes, StoreRow, NothingYet
<1> QED BY <1>1, <1>2, <1>3, StartCallKeeps DEF StartKeyCall

\* A call with the service secret.
LEMMA StartTokenCallKeeps ==
    ASSUME MachineInv, NEW secret \in 1 .. store.secret, NEW policy \in Policies, StartTokenCall(secret, policy.caps)
    PROVE  MachineInv'
<1>1. PICK c : c = [NoCall EXCEPT !.step = "verify", !.kind = "token", !.secret = secret, !.caps = policy.caps]
  OBVIOUS
<1>2. secret \in Nat /\ policy.caps \in SUBSET Capabilities
  BY MachineAssumption DEF MachineInv, MachineTypes, StoreRow
<1>3. c \in CallRow /\ c.step = "verify" /\ c.kind = "token"
  BY <1>1, <1>2 DEF NoCall, CallRow, Steps, Conditions
<1>4. store.kind # None
  BY MachineAssumption DEF StartTokenCall
<1> QED BY <1>1, <1>3, <1>4, StartCallKeeps DEF StartTokenCall

\* A call with a service token.
LEMMA StartBearerCallKeeps ==
    ASSUME MachineInv, NEW jwt \in serviceJwts, NEW route \in {"authorization", "introspect", "integration", "introspected"},
           StartBearerCall(jwt, route)
    PROVE  MachineInv'
<1>1. PICK c : c = [NoCall EXCEPT !.step = "live", !.kind = "bearer", !.route = route]
  OBVIOUS
<1>2. c \in CallRow /\ c.step = "live" /\ c.kind = "bearer"
  BY <1>1 DEF NoCall, CallRow, Steps, Conditions
<1>3. store.kind # None
  BY DEF MachineInv, NothingYet
<1> QED BY <1>1, <1>2, <1>3, StartCallKeeps DEF StartBearerCall

-----------------------------------------------------------------------------
(* The rows change *)

\* Rows s may be stored: the machine stays what it is, keys are not lost, and
\* nothing that a lock holds is taken away.
MayStore(s) ==
    /\ s \in StoreRow /\ s.kind = store.kind /\ s.tenant = store.tenant /\ store.kind # None
    /\ \A k \in ApiKeys : store.keys[k] \in KeyRow => s.keys[k] \in KeyRow
    /\ \A i \in Call : Holds(calls[i]) => s.principal /\ ~s.keys[calls[i].key].revoked

\* A call d that has seen the new rows is as good as it was.
LEMMA SeesNewRows ==
    ASSUME MachineInv, NEW s, MayStore(s), store' = s, UNCHANGED now, NEW i \in Call, InFlight(calls[i]),
           NEW d, SameCall(calls[i], d), d.seen = calls[i].seen \cup Fulfilled(calls[i], s, now),
           d.step = calls[i].step \/ (calls[i].step = "write" /\ d.step = "live")
    PROVE  GoodCall(d)'
<1>1. PICK c : /\ c = calls[i] /\ SameCall(c, d) /\ d.seen = c.seen \cup Fulfilled(c, s, now) /\ InFlight(c)
               /\ d.step = c.step \/ (c.step = "write" /\ d.step = "live")
  OBVIOUS
<1>2. Promise(c, c.step) /\ (c.kind = "key" => c.key \in ApiKeys /\ store.keys[c.key] \in KeyRow)
  BY <1>1, InFlightFacts
<1>3. Holds(c) => s.principal /\ ~s.keys[c.key].revoked
  BY <1>1 DEF MayStore
<1>4. Fulfilled(d, s, now) = Fulfilled(c, s, now)
  BY <1>1, SameConditions
<1>5. Sees(d)'
  <2>1. d.kind = "key" => d.key \in ApiKeys /\ s.keys[d.key] \in KeyRow
    BY <1>1, <1>2 DEF SameCall, MayStore
  <2>2. Fulfilled(d, s, now) \subseteq d.seen
    BY <1>1, <1>4
  <2> QED BY <2>1, <2>2 DEF Sees
<1>6. Promise(d, d.step)'
  <2>1. Holds(c) => KeyIsUsable(c.key)'
    BY <1>3 DEF KeyIsUsable
  <2>2. d.step # "accepted"
    BY <1>1 DEF InFlight
  <2> QED BY <1>1, <1>2, <2>1, <2>2 DEF Promise, SameCall, Holds
<1> QED BY <1>5, <1>6 DEF GoodCall

\* A call that has ended stays as good as it was.
LEMMA EndedStays ==
    ASSUME MachineInv, NEW s, MayStore(s), store' = s, NEW i \in Call, ~InFlight(calls[i])
    PROVE  \A c : c = calls[i] => GoodCall(c)'
<1>1. PICK c : c = calls[i] /\ GoodCall(c) /\ ~InFlight(c)
  BY DEF MachineInv
<1>2. s.tenant = store.tenant
  BY DEF MayStore
<1> QED BY <1>1, <1>2 DEF GoodCall, Promise, InFlight

\* Every running call sees the new rows.
LEMMA StoresKeeps ==
    ASSUME MachineInv, NEW s, MayStore(s), Stores(s)
    PROVE  MachineInv'
<1>1. store' = s /\ UNCHANGED <<now, called, serviceJwts>>
  BY DEF Stores
<1>2. ASSUME NEW i \in Call
      PROVE  calls'[i] \in CallRow /\ GoodCall(calls[i])'
  <2>1. calls[i] \in CallRow
    BY CallFacts
  <2>2. CASE InFlight(calls[i])
    <3>1. PICK d : d = [calls[i] EXCEPT !.seen = @ \cup Fulfilled(calls[i], s, now)]
      OBVIOUS
    <3>2. Fulfilled(calls[i], s, now) \subseteq Conditions
      BY FulfilledFacts
    <3>3. d \in CallRow /\ SameCall(calls[i], d) /\ d.step = calls[i].step /\ d.seen = calls[i].seen \cup Fulfilled(calls[i], s, now)
      BY <2>1, <3>1, <3>2 DEF CallRow, SameCall
    <3>4. GoodCall(d)'
      BY <1>1, <2>2, <3>3, SeesNewRows
    <3>5. calls'[i] = d
      BY <2>2, <3>1 DEF Stores
    <3> QED BY <3>3, <3>4, <3>5
  <2>3. CASE ~InFlight(calls[i])
    <3>1. PICK c : c = calls[i]
      OBVIOUS
    <3>2. GoodCall(c)'
      BY <1>1, <2>3, <3>1, EndedStays
    <3>3. calls'[i] = c
      BY <2>3, <3>1 DEF Stores
    <3> QED BY <2>1, <3>1, <3>2, <3>3
  <2> QED BY <2>2, <2>3
<1>3. calls' \in [Call -> CallRow]
  BY <1>2 DEF Stores
<1>4. MachineTypes' /\ NothingYet'
  BY <1>1, <1>3 DEF MachineInv, MachineTypes, NothingYet, MayStore
<1> QED BY <1>2, <1>4 DEF MachineInv

\* The rows are rows.
LEMMA StoreFacts ==
    ASSUME MachineInv
    PROVE  /\ store \in StoreRow /\ store.keys \in [ApiKeys -> KeyRow \cup {None}]
           /\ \A i \in Call : Holds(calls[i]) => store.principal /\ ~store.keys[calls[i].key].revoked /\ calls[i].key \in ApiKeys
<1>1. store \in StoreRow /\ store.keys \in [ApiKeys -> KeyRow \cup {None}]
  BY DEF MachineInv, MachineTypes, StoreRow
<1>2. ASSUME NEW i \in Call, Holds(calls[i])
      PROVE  store.principal /\ ~store.keys[calls[i].key].revoked /\ calls[i].key \in ApiKeys
  <2>1. InFlight(calls[i])
    BY <1>2 DEF Holds, InFlight
  <2> QED BY <1>2, <2>1, InFlightFacts DEF Promise, KeyIsUsable, Holds
<1> QED BY <1>1, <1>2

\* A write that leaves Principal and keys alone.
LEMMA PlainWrite ==
    ASSUME MachineInv, NEW s \in StoreRow, s.kind = store.kind, s.tenant = store.tenant, store.kind # None,
           s.principal = store.principal, s.keys = store.keys
    PROVE  MayStore(s)
BY StoreFacts DEF MayStore

\* Without a lock no call is between its first statement and its commit.
LEMMA Unlocked ==
    ASSUME ~Locked(None)
    PROVE  \A i \in Call : ~Holds(calls[i])
BY DEF Locked, Holds

\* A write to the Principal waits for the lock.
LEMMA PrincipalWrite ==
    ASSUME MachineInv, ~Locked(None), NEW s \in StoreRow, s.kind = store.kind, s.tenant = store.tenant, store.kind # None,
           s.keys = store.keys
    PROVE  MayStore(s)
BY StoreFacts, Unlocked DEF MayStore

\* A device is disabled or enabled under the lock of its Principal.
LEMMA SetDeviceKeeps ==
    ASSUME MachineInv, NEW active \in BOOLEAN, SetDevice(active)
    PROVE  MachineInv'
<1>1. PICK s : s = [store EXCEPT !.principal = active]
  OBVIOUS
<1>2. s \in StoreRow /\ s.kind = store.kind /\ s.tenant = store.tenant /\ s.keys = store.keys
  BY <1>1, StoreFacts DEF StoreRow
<1>3. MayStore(s)
  BY <1>2, PrincipalWrite, MachineAssumption DEF SetDevice
<1> QED BY <1>1, <1>3, StoresKeeps DEF SetDevice, Write

\* A new key is usable.
LEMMA InsertKeyKeeps ==
    ASSUME MachineInv, NEW k \in ApiKeys, NEW expires \in Nat \cup {None}, InsertKey(k, expires)
    PROVE  MachineInv'
<1>1. PICK row : row = [revoked |-> FALSE, expires |-> expires]
  OBVIOUS
<1>2. row \in KeyRow
  BY <1>1 DEF KeyRow
<1>3. PICK s : s = [store EXCEPT !.keys[k] = row]
  OBVIOUS
<1>4. /\ s \in StoreRow /\ s.kind = store.kind /\ s.tenant = store.tenant
      /\ s.keys = [store.keys EXCEPT ![k] = row]
  BY <1>2, <1>3, StoreFacts DEF StoreRow
<1>5. \A j \in ApiKeys : store.keys[j] \in KeyRow => s.keys[j] \in KeyRow
  BY <1>2, <1>4, StoreFacts
<1>6. ~Locked(None) /\ store.kind # None
  BY DEF InsertKey, MayHoldKeys
<1>7. MayStore(s)
  BY <1>4, <1>5, <1>6, Unlocked DEF MayStore
<1>8. Stores(s)
  BY <1>1, <1>3 DEF InsertKey
<1> QED BY <1>7, <1>8, StoresKeeps

\* A rotation adds a key.
LEMMA RotateKeeps ==
    ASSUME MachineInv, NEW k \in ApiKeys, NEW new \in ApiKeys, NEW expires \in Nat \cup {None}, Rotate(k, new, expires)
    PROVE  MachineInv'
<1>1. store.keys[k] \in KeyRow
  BY StoreFacts DEF Rotate
<1>2. PICK e : e = IF expires = None THEN store.keys[k].expires ELSE expires
  OBVIOUS
<1>3. e \in Nat \cup {None}
  BY <1>1, <1>2 DEF KeyRow
<1>4. InsertKey(new, e)
  BY <1>2 DEF Rotate
<1> QED BY <1>3, <1>4, InsertKeyKeeps

\* A key that a call holds is not revoked.
LEMMA RevokeKeeps ==
    ASSUME MachineInv, NEW k \in ApiKeys, Revoke(k)
    PROVE  MachineInv'
<1>1. store.keys[k] \in KeyRow /\ store.kind # None
  BY StoreFacts DEF Revoke, MachineInv, NothingYet
<1>2. PICK row : row = [store.keys[k] EXCEPT !.revoked = TRUE]
  OBVIOUS
<1>3. row \in KeyRow
  BY <1>1, <1>2 DEF KeyRow
<1>4. PICK s : s = [store EXCEPT !.keys[k].revoked = TRUE]
  OBVIOUS
<1>5. /\ s \in StoreRow /\ s.kind = store.kind /\ s.tenant = store.tenant /\ s.principal = store.principal
      /\ s.keys = [store.keys EXCEPT ![k] = row]
  BY <1>2, <1>3, <1>4, StoreFacts DEF StoreRow
<1>6. \A j \in ApiKeys : store.keys[j] \in KeyRow => s.keys[j] \in KeyRow
  BY <1>3, <1>5, StoreFacts
<1>7. ASSUME NEW i \in Call, Holds(calls[i])
      PROVE  s.principal /\ ~s.keys[calls[i].key].revoked
  <2>1. calls[i].key # k
    BY <1>7 DEF Revoke, Locked, Holds
  <2>2. s.keys[calls[i].key] = store.keys[calls[i].key]
    BY <1>5, <1>7, <2>1, StoreFacts
  <2> QED BY <1>5, <1>7, <2>2, StoreFacts
<1>8. MayStore(s)
  BY <1>1, <1>5, <1>6, <1>7 DEF MayStore
<1> QED BY <1>4, <1>8, StoresKeeps DEF Revoke, Write

\* A manager writes the row of the client.
LEMMA DelegatedWritesKeep ==
    ASSUME MachineInv, RotateDelegatedSecret \/ (\E policy \in Policies : UpdateDelegatedService(policy))
    PROVE  MachineInv'
<1>1. ASSUME NEW policy \in Policies, UpdateDelegatedService(policy)
      PROVE  MachineInv'
  <2>1. PICK s : s = [store EXCEPT !.client = policy.active, !.caps = policy.caps, !.introspect = FALSE]
    OBVIOUS
  <2>2. policy.active \in BOOLEAN /\ policy.caps \in SUBSET Capabilities
    BY MachineAssumption
  <2>3. /\ s \in StoreRow /\ s.kind = store.kind /\ s.tenant = store.tenant
        /\ s.principal = store.principal /\ s.keys = store.keys
    BY <2>1, <2>2, StoreFacts DEF StoreRow
  <2>4. MayStore(s)
    BY <1>1, <2>3, PlainWrite, MachineAssumption DEF UpdateDelegatedService
  <2> QED BY <1>1, <2>1, <2>4, StoresKeeps DEF UpdateDelegatedService, Write
<1>2. ASSUME RotateDelegatedSecret
      PROVE  MachineInv'
  <2>1. PICK s : s = [store EXCEPT !.secret = @ + 1]
    OBVIOUS
  <2>2. store.secret + 1 \in Nat
    BY StoreFacts DEF StoreRow
  <2>3. /\ s \in StoreRow /\ s.kind = store.kind /\ s.tenant = store.tenant
        /\ s.principal = store.principal /\ s.keys = store.keys
    BY <2>1, <2>2, StoreFacts DEF StoreRow
  <2>4. MayStore(s)
    BY <1>2, <2>3, PlainWrite, MachineAssumption DEF RotateDelegatedSecret
  <2> QED BY <1>2, <2>1, <2>4, StoresKeeps DEF RotateDelegatedSecret, Write
<1> QED BY <1>1, <1>2

\* No machine yet, and no call: the organization changes or the machine is made.
LEMMA NewMachineKeeps ==
    ASSUME MachineInv, store.kind = None, store' \in StoreRow, store'.keys = store.keys, UNCHANGED <<now, calls, called, serviceJwts>>
    PROVE  MachineInv'
<1>1. \A i \in Call : calls[i].step = "none"
  BY DEF MachineInv, NothingYet
<1>2. \A i \in Call : GoodCall(calls[i])'
  BY <1>1 DEF GoodCall, InFlight, Promise
<1> QED BY <1>1, <1>2 DEF MachineInv, MachineTypes, NothingYet

\* What Machine makes.
LEMMA MadeMachine ==
    ASSUME MachineInv, NEW kind \in {"device", "service"}, NEW tenant \in BOOLEAN
    PROVE  Machine(kind, tenant) \in StoreRow /\ Machine(kind, tenant).keys = store.keys
<1>1. store \in StoreRow
  BY StoreFacts
<1> QED BY <1>1 DEF Machine, StoreRow

\* A device is made.
LEMMA InsertDeviceKeeps ==
    ASSUME MachineInv, NEW tenant \in BOOLEAN, InsertDevice(tenant)
    PROVE  MachineInv'
BY MadeMachine, NewMachineKeeps DEF InsertDevice, MayOwn

\* A service client is made.
LEMMA InsertServiceClientKeeps ==
    ASSUME MachineInv, NEW tenant \in BOOLEAN, NEW caps \in SUBSET Capabilities, NEW introspect \in BOOLEAN,
           InsertServiceClient(tenant, caps, introspect)
    PROVE  MachineInv'
<1>1. PICK m : m = Machine("service", tenant)
  OBVIOUS
<1>2. m \in StoreRow /\ m.keys = store.keys
  BY <1>1, MadeMachine
<1>3. PICK s : s = [m EXCEPT !.client = TRUE, !.secret = 1, !.caps = caps, !.introspect = introspect]
  OBVIOUS
<1>4. s \in StoreRow /\ s.keys = store.keys
  BY <1>2, <1>3 DEF StoreRow
<1>5. store' = s
  BY <1>1, <1>3 DEF InsertServiceClient
<1> QED BY <1>4, <1>5, NewMachineKeeps DEF InsertServiceClient, MayOwn

\* The organization or the membership is written, whether or not there is a machine.
LEMMA TenantWriteKeeps ==
    ASSUME MachineInv, SetOrganization \/ SetMembership
    PROVE  MachineInv'
<1>1. PICK s : /\ s = [store EXCEPT !.org = ~@] \/ s = [store EXCEPT !.member = ~@]
               /\ Stores(s)
  BY DEF SetOrganization, SetMembership, Write
<1>2. store.org \in BOOLEAN /\ store.member \in BOOLEAN
  BY StoreFacts DEF StoreRow
<1>3. (~store.org) \in BOOLEAN /\ (~store.member) \in BOOLEAN
  OBVIOUS
<1>4. /\ s \in StoreRow /\ s.kind = store.kind /\ s.tenant = store.tenant
      /\ s.principal = store.principal /\ s.keys = store.keys
  BY <1>1, <1>3, StoreFacts DEF StoreRow
<1>5. CASE store.kind = None
  <2>1. \A i \in Call : ~InFlight(calls[i])
    BY <1>5 DEF MachineInv, NothingYet, InFlight
  <2>2. UNCHANGED calls
    BY <1>1, <2>1 DEF Stores, MachineInv, MachineTypes
  <2> QED BY <1>1, <1>4, <1>5, <2>2, NewMachineKeeps DEF Stores
<1>6. CASE store.kind # None
  BY <1>1, <1>4, <1>6, PlainWrite, StoresKeeps
<1> QED BY <1>5, <1>6

-----------------------------------------------------------------------------
(* ensure_service_principal *)

\* A platform update stores its row and will copy the flag later.
LEMMA StartServiceUpdateKeeps ==
    ASSUME MachineInv, NEW s, MayStore(s), StartServiceUpdate(s)
    PROVE  MachineInv'
<1>1. store' = s /\ UNCHANGED <<now, serviceJwts>> /\ called' \in Nat
  BY DEF StartServiceUpdate, MachineInv, MachineTypes
<1>2. ASSUME NEW i \in Call
      PROVE  calls'[i] \in CallRow /\ GoodCall(calls[i])'
  <2>1. calls[i] \in CallRow
    BY CallFacts
  <2>2. CASE i = called + 1
    <3>1. PICK d : d = [NoCall EXCEPT !.step = "read", !.kind = "update"]
      OBVIOUS
    <3>2. d \in CallRow /\ d.kind = "update" /\ d.step = "read"
      BY <3>1 DEF NoCall, CallRow, Steps, Conditions
    <3>3. GoodCall(d)'
      BY <3>2 DEF GoodCall, Promise
    <3>4. calls'[i] = d
      BY <2>2, <3>1 DEF StartServiceUpdate
    <3> QED BY <3>2, <3>3, <3>4
  <2>3. CASE i # called + 1 /\ InFlight(calls[i])
    <3>1. PICK d : d = [calls[i] EXCEPT !.seen = @ \cup Fulfilled(calls[i], s, now)]
      OBVIOUS
    <3>2. Fulfilled(calls[i], s, now) \subseteq Conditions
      BY FulfilledFacts
    <3>3. d \in CallRow /\ SameCall(calls[i], d) /\ d.step = calls[i].step /\ d.seen = calls[i].seen \cup Fulfilled(calls[i], s, now)
      BY <2>1, <3>1, <3>2 DEF CallRow, SameCall
    <3>4. GoodCall(d)'
      BY <1>1, <2>3, <3>3, SeesNewRows
    <3>5. calls'[i] = d
      BY <2>3, <3>1 DEF StartServiceUpdate
    <3> QED BY <3>3, <3>4, <3>5
  <2>4. CASE i # called + 1 /\ ~InFlight(calls[i])
    <3>1. PICK c : c = calls[i]
      OBVIOUS
    <3>2. GoodCall(c)'
      BY <1>1, <2>4, <3>1, EndedStays
    <3>3. calls'[i] = c
      BY <2>4, <3>1 DEF StartServiceUpdate
    <3> QED BY <2>1, <3>1, <3>2, <3>3
  <2> QED BY <2>2, <2>3, <2>4
<1>3. calls' \in [Call -> CallRow]
  BY <1>2 DEF StartServiceUpdate
<1>4. MachineTypes' /\ NothingYet'
  BY <1>1, <1>3 DEF MachineInv, MachineTypes, NothingYet, MayStore
<1> QED BY <1>2, <1>4 DEF MachineInv

\* The platform writes the row of the client.
LEMMA UpdateServiceKeeps ==
    ASSUME MachineInv, NEW policy \in Policies, UpdateService(policy)
    PROVE  MachineInv'
<1>1. PICK s : s = [store EXCEPT !.client = policy.active, !.caps = policy.caps, !.introspect = policy.introspect]
  OBVIOUS
<1>2. policy.active \in BOOLEAN /\ policy.caps \in SUBSET Capabilities /\ policy.introspect \in BOOLEAN
  BY MachineAssumption
<1>3. /\ s \in StoreRow /\ s.kind = store.kind /\ s.tenant = store.tenant
      /\ s.principal = store.principal /\ s.keys = store.keys
  BY <1>1, <1>2, StoreFacts DEF StoreRow
<1>4. StartServiceUpdate(s)
  BY <1>1 DEF UpdateService
<1>5. MayStore(s)
  BY <1>3, <1>4, PlainWrite, MachineAssumption DEF StartServiceUpdate
<1> QED BY <1>4, <1>5, StartServiceUpdateKeeps

\* The platform replaces the secret.
LEMMA RotateServiceSecretKeeps ==
    ASSUME MachineInv, RotateServiceSecret
    PROVE  MachineInv'
<1>1. PICK s : s = [store EXCEPT !.secret = @ + 1]
  OBVIOUS
<1>2. store.secret + 1 \in Nat
  BY StoreFacts DEF StoreRow
<1>3. /\ s \in StoreRow /\ s.kind = store.kind /\ s.tenant = store.tenant
      /\ s.principal = store.principal /\ s.keys = store.keys
  BY <1>1, <1>2, StoreFacts DEF StoreRow
<1>4. StartServiceUpdate(s)
  BY <1>1 DEF RotateServiceSecret
<1>5. MayStore(s)
  BY <1>3, <1>4, PlainWrite, MachineAssumption DEF StartServiceUpdate
<1> QED BY <1>4, <1>5, StartServiceUpdateKeeps

\* The flag that was read is written to the Principal, which no call holds.
LEMMA CopyWriteKeeps ==
    ASSUME MachineInv, NEW i \in Call, CopyWrite(i)
    PROVE  MachineInv'
<1>1. PICK s : s = [store EXCEPT !.principal = calls[i].copied]
  OBVIOUS
<1>2. /\ calls[i].step = "write" /\ InFlight(calls[i]) /\ ~Locked(None) /\ store' = s /\ UNCHANGED <<now, called, serviceJwts>>
      /\ calls' = [j \in Call |->
              IF j = i /\ calls[i].kind = "update" THEN [NoCall EXCEPT !.step = "accepted"]
              ELSE IF ~InFlight(calls[j]) THEN calls[j]
              ELSE [calls[j] EXCEPT !.seen = @ \cup Fulfilled(calls[j], s, now), !.step = IF j = i THEN "live" ELSE @]]
  BY <1>1 DEF CopyWrite, CallAt, InFlight
<1>3. calls[i].copied \in BOOLEAN /\ store.kind # None
  BY <1>2, InFlightFacts DEF CallRow
<1>4. s \in StoreRow /\ s.kind = store.kind /\ s.tenant = store.tenant /\ s.keys = store.keys
  BY <1>1, <1>3, StoreFacts DEF StoreRow
<1>5. MayStore(s)
  BY <1>2, <1>3, <1>4, PrincipalWrite
<1>6. ASSUME NEW j \in Call
      PROVE  calls'[j] \in CallRow /\ GoodCall(calls[j])'
  <2>1. calls[j] \in CallRow
    BY CallFacts
  <2>2. CASE j = i /\ calls[i].kind = "update"
    <3>1. PICK d : d = [NoCall EXCEPT !.step = "accepted"]
      OBVIOUS
    <3>2. d \in CallRow /\ d.kind = None /\ d.step = "accepted"
      BY <3>1 DEF NoCall, CallRow, Steps, Conditions
    <3>3. GoodCall(d)'
      BY <3>2, MachineAssumption DEF GoodCall, InFlight, Promise
    <3>4. calls'[j] = d
      BY <1>2, <2>2, <3>1
    <3> QED BY <3>2, <3>3, <3>4
  <2>3. CASE ~(j = i /\ calls[i].kind = "update") /\ InFlight(calls[j])
    <3>1. PICK d : d = [calls[j] EXCEPT !.seen = @ \cup Fulfilled(calls[j], s, now), !.step = IF j = i THEN "live" ELSE @]
      OBVIOUS
    <3>2. Fulfilled(calls[j], s, now) \subseteq Conditions
      BY FulfilledFacts
    <3>3. /\ d \in CallRow /\ SameCall(calls[j], d) /\ d.seen = calls[j].seen \cup Fulfilled(calls[j], s, now)
          /\ d.step = IF j = i THEN "live" ELSE calls[j].step
      BY <2>1, <3>1, <3>2 DEF CallRow, SameCall, Steps
    <3>4. GoodCall(d)'
      BY <1>2, <1>5, <2>3, <3>3, SeesNewRows
    <3>5. calls'[j] = d
      BY <1>2, <2>3, <3>1
    <3> QED BY <3>3, <3>4, <3>5
  <2>4. CASE ~InFlight(calls[j])
    <3>1. PICK c : c = calls[j]
      OBVIOUS
    <3>2. GoodCall(c)'
      BY <1>2, <1>5, <2>4, <3>1, EndedStays
    <3>3. calls'[j] = c
      BY <1>2, <2>4, <3>1
    <3> QED BY <2>1, <3>1, <3>2, <3>3
  <2> QED BY <1>2, <2>2, <2>3, <2>4
<1>7. calls' \in [Call -> CallRow]
  BY <1>2, <1>6
<1>8. MachineTypes' /\ NothingYet'
  BY <1>2, <1>4, <1>3, <1>7 DEF MachineInv, MachineTypes, NothingYet
<1> QED BY <1>6, <1>8 DEF MachineInv

-----------------------------------------------------------------------------
(* The invariant holds *)

\* Time passes.
LEMMA MachineTickKeeps ==
    ASSUME MachineInv, MachineTick
    PROVE  MachineInv'
<1>1. now' = now + 1 /\ now \in Nat /\ UNCHANGED <<store, calls, called, serviceJwts>>
  BY DEF MachineTick, Advance, machineVars, MachineInv, MachineTypes
<1>2. ASSUME NEW i \in Call
      PROVE  GoodCall(calls[i])'
  <2>1. PICK c : c = calls[i] /\ c = calls'[i] /\ GoodCall(c)
    BY <1>1 DEF MachineInv
  <2>2. InFlight(c) /\ c.kind # "update" => Sees(c)'
    <3>1. InFlight(c) /\ c.kind # "update" => Fulfilled(c, store, now + 1) \subseteq Fulfilled(c, store, now)
      BY <1>1, <2>1, ConditionsExpire DEF GoodCall, Sees
    <3>2. InFlight(c) /\ c.kind # "update" => Fulfilled(c, store, now + 1) \subseteq c.seen
      BY <2>1, <3>1 DEF GoodCall, Sees
    <3> QED BY <1>1, <2>1, <3>2 DEF Sees, GoodCall
  <2>3. Promise(c, c.step)'
    BY <1>1, <2>1 DEF GoodCall, Promise, KeyIsUsable
  <2> QED BY <2>1, <2>2, <2>3 DEF GoodCall
<1> QED BY <1>1, <1>2 DEF MachineInv, MachineTypes, NothingYet

\* Every step keeps the invariant.
LEMMA MachineStep ==
    ASSUME MachineInv, [MachineNext]_<<now, machineVars>>
    PROVE  MachineInv'
<1>1. ASSUME NEW policy \in Policies,
             \/ \E tenant \in BOOLEAN : RegisterService(tenant, policy)
             \/ RegisterDelegatedService(policy)
             \/ UpdateService(policy) \/ UpdateDelegatedService(policy)
             \/ \E secret \in 1 .. store.secret : StartTokenCall(secret, policy.caps)
      PROVE  MachineInv'
  <2>1. policy.caps \in SUBSET Capabilities /\ policy.introspect \in BOOLEAN
    BY MachineAssumption
  <2> QED BY <1>1, <2>1, InsertServiceClientKeeps, UpdateServiceKeeps, DelegatedWritesKeep, StartTokenCallKeeps
          DEF RegisterService, RegisterDelegatedService
<1>2. ASSUME RotateServiceSecret \/ RotateDelegatedSecret
      PROVE  MachineInv'
  BY <1>2, RotateServiceSecretKeeps, DelegatedWritesKeep
<1>3. ASSUME (\E tenant \in BOOLEAN : CreatePlatformDevice(tenant)) \/ CreateOrganizationDevice
      PROVE  MachineInv'
  BY <1>3, InsertDeviceKeeps DEF CreatePlatformDevice, CreateOrganizationDevice
<1>4. ASSUME NEW active \in BOOLEAN, UpdatePlatformDevice(active) \/ UpdateOrganizationDevice(active)
      PROVE  MachineInv'
  BY <1>4, SetDeviceKeeps DEF UpdatePlatformDevice, UpdateOrganizationDevice
<1>5. ASSUME NEW k \in ApiKeys, NEW expires \in KeyExpiries \cup {None},
             \/ CreatePlatformKey(k, expires) \/ CreateOrganizationKey(k, expires)
             \/ \E new \in ApiKeys : RotatePlatformKey(k, new, expires) \/ RotateOrganizationKey(k, new, expires)
      PROVE  MachineInv'
  <2>1. expires \in Nat \cup {None}
    BY MachineAssumption
  <2> QED BY <1>5, <2>1, InsertKeyKeeps, RotateKeeps
          DEF CreatePlatformKey, CreateOrganizationKey, RotatePlatformKey, RotateOrganizationKey
<1>6. ASSUME NEW k \in ApiKeys, RevokePlatformKey(k) \/ RevokeOrganizationKey(k) \/ StartKeyCall(k)
      PROVE  MachineInv'
  BY <1>6, RevokeKeeps, StartKeyCallKeeps DEF RevokePlatformKey, RevokeOrganizationKey
<1>7. ASSUME SetOrganization \/ SetMembership
      PROVE  MachineInv'
  BY <1>7, TenantWriteKeeps
<1>8. ASSUME NEW jwt \in serviceJwts,
             \/ StartAuthorizationCall(jwt) \/ StartIntrospectCall(jwt)
             \/ StartIntegrationCall(jwt) \/ StartIntrospection(jwt)
      PROVE  MachineInv'
  BY <1>8, StartBearerCallKeeps DEF StartAuthorizationCall, StartIntrospectCall, StartIntegrationCall, StartIntrospection
<1>9. ASSUME NEW i \in Call,
             \/ ReadKeyRow(i) \/ ReadMachine(i) \/ ReadContext(i)
             \/ VerifySecret(i) \/ CopyRead(i) \/ CopyWrite(i) \/ MintServiceToken(i)
             \/ EnsureLive(i) \/ AuthorizeRead(i) \/ AuthorizeIntegration(i) \/ LoseCall(i)
      PROVE  MachineInv'
  BY <1>9, ReadKeyRowKeeps, ReadMachineKeeps, ReadContextKeeps, VerifySecretKeeps, CopyReadKeeps, CopyWriteKeeps,
     MintServiceTokenKeeps, EnsureLiveKeeps, CheckIntrospectionKeeps, LoseCallKeeps DEF AuthorizeRead, AuthorizeIntegration
<1>10. ASSUME UNCHANGED <<now, machineVars>>
       PROVE  MachineInv'
  <2>1. UNCHANGED <<now, store, calls, called, serviceJwts>>
    BY <1>10 DEF machineVars
  <2>2. \A i \in Call : GoodCall(calls[i])'
    BY <2>1 DEF MachineInv, GoodCall, Sees, Promise, KeyIsUsable
  <2> QED BY <2>1, <2>2 DEF MachineInv, MachineTypes, NothingYet
<1> QED BY <1>1, <1>2, <1>3, <1>4, <1>5, <1>6, <1>7, <1>8, <1>9, <1>10, MachineTickKeeps, Zenon DEF MachineNext

\* The invariant holds before there is a machine.
LEMMA MachineStart ==
    ASSUME now = 0, MachineInit
    PROVE  MachineInv
<1>1. store \in StoreRow
  BY DEF MachineInit, StoreRow
<1>2. \A i \in Call : calls[i] = NoCall
  BY DEF MachineInit
<1>3. NoCall \in CallRow /\ NoCall.step = "none" /\ NoCall.kind = None
  BY DEF NoCall, CallRow, Steps, Conditions
<1>4. \A i \in Call : GoodCall(calls[i])
  BY <1>2, <1>3, NoCallIsGood
<1>5. MachineTypes /\ NothingYet
  BY <1>1, <1>2, <1>3 DEF MachineInit, MachineTypes, NothingYet
<1> QED BY <1>4, <1>5 DEF MachineInv

\* Hence it holds always.
LEMMA MachineInvariant == MachineSpec => []MachineInv
<1>1. now = 0 /\ MachineInit => MachineInv
  BY MachineStart
<1>2. MachineInv /\ [MachineNext]_<<now, machineVars>> => MachineInv'
  BY MachineStep
<1> QED BY <1>1, <1>2, PTL DEF MachineSpec

\* No revoked, expired or disabled machine credential is accepted, whatever
\* administrators write between the statements of a call: verify_machine_credential
\* holds key and Principal while it reads client, organization and membership, and
\* a token is tested in one statement.
THEOREM MachinesAreSafe == MachineSpec => []MachineCallsAreAuthorized
<1>1. MachineInv => MachineCallsAreAuthorized
  BY DEF MachineInv, GoodCall, Promise, MachineCallsAreAuthorized, CallAt
<1> QED BY <1>1, MachineInvariant, PTL
=============================================================================
