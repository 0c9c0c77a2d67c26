---------------------------- MODULE JwtKeysProofs ----------------------------
(***************************************************************************)
(* For any number of kids and pairs and any number of management requests  *)
(* at once, with failed writes, crashes and restarts: kids are unique, and *)
(* the pair that was replaced last keeps verifying for its overlap while   *)
(* the server stays up.                                                    *)
(*                                                                         *)
(* The invariant speaks of the memory only, also while the server is down: *)
(* whatever the files hold, Boot loads a passive pair with another kid.    *)
(*                                                                         *)
(* When management requests run one at a time, files and memory agree      *)
(* between them, until one is cut short.                                   *)
(***************************************************************************)
EXTENDS JwtKeys, SequenceTheorems, TLAPS

KidsDiffer == \A q \in passive : q.id # active.id

\* Until the next start, the pair replaced last is the passive one.
PassiveWasReplaced ==
    \A q \in replaced : q.boot =>
        \E p \in passive : p.id = q.id /\ p.pub = q.key /\ p.expires = q.until

KeyInv == KidsDiffer /\ PassiveWasReplaced

-----------------------------------------------------------------------------
\* The pair that leaves service is the passive one and the one recorded, and its
\* kid is not the kid of the pair that takes its place.
LEMMA ReplacementKeeps ==
    ASSUME NEW o, Replace(o), passive' = {Outgoing(o)}, active'.id # active.id
    PROVE  KeyInv'
<1>1. KidsDiffer'
  BY DEF KidsDiffer, Outgoing
<1>2. PassiveWasReplaced'
  BY DEF PassiveWasReplaced, Outgoing, Replace
<1> QED BY <1>1, <1>2 DEF KeyInv

\* Activating a new pair, or one that was passive, keeps the invariant.
LEMMA ActivateKeeps ==
    ASSUME KeyInv, NEW j \in Slots, Activate(j)
    PROVE  KeyInv'
<1>1. ASSUME NEW k, NEW p, NEW o, Rotate(k, p, o), Replace(o)
      PROVE  KeyInv'
  <2>1. active'.id # active.id /\ passive' = {Outgoing(o)}
    BY <1>1 DEF Rotate
  <2> QED BY <1>1, <2>1, ReplacementKeeps
<1>2. ASSUME NEW k, Rollback(k), Replace(DefaultOverlap)
      PROVE  KeyInv'
  <2>1. PICK q \in Restorable(k) : active' = [id |-> k, priv |-> q.priv, pub |-> q.pub]
    BY <1>2 DEF Rollback
  <2>2. q \in passive /\ q.id = k
    BY <2>1 DEF Restorable, LivePassive
  <2>3. active'.id # active.id
    BY <2>1, <2>2 DEF KeyInv, KidsDiffer
  <2>4. passive' = {Outgoing(DefaultOverlap)}
    BY <1>2 DEF Rollback
  <2> QED BY <1>2, <2>3, <2>4, ReplacementKeeps
<1> QED BY <1>1, <1>2, Zenon DEF Activate

\* Retiring a kid removes the passive pair and the record of it together.
LEMMA RetireKeeps ==
    ASSUME KeyInv, NEW j \in Slots, StartRetire(j)
    PROVE  KeyInv'
<1>1. PICK k : passive' = {q \in passive : q.id # k} /\ replaced' = {q \in replaced : q.id # k}
  BY DEF StartRetire
<1>2. active' = active
  BY DEF StartRetire
<1>3. KidsDiffer'
  BY <1>1, <1>2 DEF KeyInv, KidsDiffer
<1>4. PassiveWasReplaced'
  BY <1>1 DEF KeyInv, PassiveWasReplaced
<1> QED BY <1>3, <1>4 DEF KeyInv

\* validate_common compares the kids of whatever the files hold.
LEMMA BootKeeps ==
    ASSUME Boot
    PROVE  KeyInv'
<1>1. \A q \in passive' : q.id = files["passiveId"]
  BY DEF Boot
<1>2. active'.id = LoadedId /\ files["passiveId"] # LoadedId
  BY DEF Boot, ConfigIsValid
<1>3. \A q \in replaced' : ~q.boot
  BY DEF Boot
<1> QED BY <1>1, <1>2, <1>3 DEF KeyInv, KidsDiffer, PassiveWasReplaced

\* Every other step leaves the keys in memory, and the record, as they are.
LEMMA OtherStepsKeep ==
    ASSUME KeyInv, UNCHANGED <<active, passive, replaced>>
    PROVE  KeyInv'
BY DEF KeyInv, KidsDiffer, PassiveWasReplaced

LEMMA KeyInvIsInductive ==
    ASSUME KeyInv, [KeyNext]_<<now, keyVars>>
    PROVE  KeyInv'
<1> DEFINE Quiet(j) ==
       \/ StartRotate(j) \/ StartRollback(j) \/ WriteFile(j) \/ WriteFails(j)
       \/ ActivateFails(j) \/ FinishRetire(j)
<1>1. ASSUME NEW j \in Slots, Quiet(j)
      PROVE  UNCHANGED <<active, passive, replaced>>
  BY <1>1, Zenon DEF StartRotate, StartRollback, WriteFile, WriteFails, ActivateFails, FinishRetire
<1>2. ASSUME Stop \/ Crash \/ KeyTick \/ UNCHANGED <<now, keyVars>>
      PROVE  UNCHANGED <<active, passive, replaced>>
  BY <1>2, Zenon DEF Stop, Crash, KeyTick, keyVars
<1>3. CASE \E j \in Slots : Activate(j)
  BY <1>3, ActivateKeeps
<1>4. CASE \E j \in Slots : StartRetire(j)
  BY <1>4, RetireKeeps
<1>5. CASE Boot
  BY <1>5, BootKeeps
<1>6. CASE UNCHANGED <<active, passive, replaced>>
  BY <1>6, OtherStepsKeep
<1> QED BY <1>1, <1>2, <1>3, <1>4, <1>5, <1>6, Zenon DEF KeyNext

\* A new server has no passive pair.
LEMMA KeyInitEstablishes == KeyInit => KeyInv
BY DEF KeyInit, KeyInv, KidsDiffer, PassiveWasReplaced

\* Keys.rotate, Keys.rollback, retire_passive and from_config keep the invariant.
LEMMA KeysStayDistinct == KeySpec => []KeyInv
BY KeyInitEstablishes, KeyInvIsInductive, PTL DEF KeySpec

\* jwks() never lists two keys under one kid: rotate refuses the active kid,
\* rollback takes the kid it restores out of the passive ones, and
\* validate_common refuses files in which the kids coincide.
THEOREM KidsStayUnique == KeySpec => []KidsAreUnique
<1>1. KeyInv => KidsAreUnique
  BY DEF KeyInv, KidsDiffer, KidsAreUnique
<1> QED BY <1>1, KeysStayDistinct, PTL

\* decode_with_key accepts tokens of the pair that rotate or rollback replaced
\* last until its overlap ends, unless it is retired or the server restarts.
THEOREM PreviousSignerKeepsVerifying == KeySpec => []PreviousSignerVerifies
<1>1. KeyInv => PreviousSignerVerifies
  <2> SUFFICES ASSUME KeyInv, NEW q \in replaced, up, q.boot, now < q.until
               PROVE  Accepts(q.id, q.key)
    BY DEF PreviousSignerVerifies
  <2>1. PICK p \in passive : p.id = q.id /\ p.pub = q.key /\ p.expires = q.until
    BY DEF KeyInv, PassiveWasReplaced
  <2>2. p \in LivePassive(q.id) /\ p.pub = q.key
    BY <2>1 DEF LivePassive
  <2>3. q.id # active.id
    BY <2>1 DEF KeyInv, KidsDiffer
  <2> QED BY <2>2, <2>3 DEF Accepts
<1> QED BY <1>1, KeysStayDistinct, PTL


-----------------------------------------------------------------------------
(* One management request at a time *)

\* one slot: management requests run one after the other
OneManager == \E j : Slots = {j}

Contents == Pairs \cup KeyIds \cup {None}

Job == [op : {"none", "rotate", "rollback", "retire"}, todo : Seq(Files \X Contents),
        id : KeyIds \cup {None}, pair : Contents, overlap : Nat]

\* Keys and files hold kids and pairs, whatever a fault did to them.
KeyShape ==
    /\ files \in [Files -> Contents]
    /\ active.id \in Contents /\ active.priv \in Contents /\ active.pub \in Contents
    /\ \A q \in passive : q.id \in Contents /\ q.priv \in Contents /\ q.pub \in Contents
    /\ jobs \in [Slots -> Job]
    /\ generated \in Pairs

\* w without its first n writes
Rest(w, n) == SubSeq(w, n + 1, Len(w))

\* All writes of w but those in todo have been made.
Progress(w, todo) ==
    \E n \in 0 .. Len(w) : todo = Rest(w, n) /\ \A i \in 1 .. n : files[w[i][1]] = w[i][2]

\* a list of writes to different files
IsPlan(w) ==
    /\ w \in Seq(Files \X Contents)
    /\ \A i, k \in 1 .. Len(w) : w[i][1] = w[k][1] => i = k

Removals == << <<"passivePrivate", None>>, <<"passivePublic", None>>, <<"passiveId", None>> >>

\* A plan that has just begun.
LEMMA RestBegins ==
    ASSUME NEW w, IsPlan(w)
    PROVE  Progress(w, w)
<1>1. w = Rest(w, 0)
  BY SubSeqFull DEF IsPlan, Rest
<1>2. 0 \in 0 .. Len(w)
  BY LenProperties DEF IsPlan
<1> QED BY <1>1, <1>2 DEF Progress

\* A plan that is done.
LEMMA RestEnds ==
    ASSUME NEW w, IsPlan(w), Progress(w, <<>>)
    PROVE  \A i \in 1 .. Len(w) : files[w[i][1]] = w[i][2]
<1>1. PICK n \in 0 .. Len(w) : <<>> = Rest(w, n) /\ \A i \in 1 .. n : files[w[i][1]] = w[i][2]
  BY DEF Progress
<1>2. Len(w) \in Nat /\ \A i \in 1 .. Len(w) : w[i] \in Files \X Contents
  BY LenProperties DEF IsPlan
<1>3. ASSUME n < Len(w)
      PROVE  FALSE
  <2>1. n + 1 \in Int /\ Len(w) \in Int /\ \A i \in n + 1 .. Len(w) : w[i] \in Files \X Contents
    BY <1>2
  <2>2. Len(Rest(w, n)) = Len(w) - (n + 1) + 1
    BY <1>2, <1>3, <2>1, SubSeqProperties DEF Rest
  <2> QED BY <1>1, <1>2, <1>3, <2>2, EmptySeq
<1> QED BY <1>1, <1>2, <1>3

\* The next file of the plan is written.
LEMMA RestAdvances ==
    ASSUME KeyShape, NEW w, IsPlan(w), NEW todo, Progress(w, todo), todo # <<>>,
           files' = [files EXCEPT ![Head(todo)[1]] = Head(todo)[2]]
    PROVE  \E n \in 1 .. Len(w) : /\ Tail(todo) = Rest(w, n) /\ Head(todo) = w[n]
                                  /\ \A i \in 1 .. n : files'[w[i][1]] = w[i][2]
<1>1. PICK n \in 0 .. Len(w) : todo = Rest(w, n) /\ \A i \in 1 .. n : files[w[i][1]] = w[i][2]
  BY DEF Progress
<1>2. Len(w) \in Nat /\ w \in Seq(Files \X Contents)
  BY LenProperties DEF IsPlan
<1>3. n < Len(w)
  BY <1>1, <1>2, SubSeqEmpty DEF Rest
<1>4. n + 1 \in 1 .. Len(w) /\ Len(w) \in n + 1 .. Len(w)
  BY <1>2, <1>3
<1>5. Head(todo) = w[n + 1] /\ Tail(todo) = Rest(w, n + 1)
  BY <1>1, <1>2, <1>4, HeadTailOfSubSeq DEF Rest
<1>6. \A i \in 1 .. n + 1 : files'[w[i][1]] = w[i][2]
  <2>1. \A i \in 1 .. Len(w) : w[i][1] \in Files
    BY <1>2
  <2>2. \A i \in 1 .. n : w[i][1] # w[n + 1][1]
    BY <1>2, <1>4 DEF IsPlan
  <2>3. files \in [Files -> Contents] /\ files' = [files EXCEPT ![w[n + 1][1]] = w[n + 1][2]]
    BY <1>5 DEF KeyShape
  <2>4. files'[w[n + 1][1]] = w[n + 1][2]
    BY <1>4, <2>1, <2>3
  <2>5. ASSUME NEW i \in 1 .. n
        PROVE  files'[w[i][1]] = w[i][2]
    <3>1. i \in 1 .. Len(w)
      BY <1>2, <1>3
    <3> QED BY <1>1, <2>1, <2>2, <2>3, <3>1
  <2> QED BY <2>4, <2>5
<1> QED BY <1>4, <1>5, <1>6

-----------------------------------------------------------------------------
(* The invariant of the serial manager *)

\* Between requests the files hold the keys in memory.
Matches ==
    /\ active = [id |-> LoadedId, priv |-> files["private"], pub |-> files["public"]]
    /\ passive = {} => \A f \in PassiveFiles : files[f] = None
    /\ \A q \in passive : q.id = files["passiveId"] /\ q.priv = files["passivePrivate"] /\ q.pub = files["passivePublic"]

\* A private and a public key belong together.
WholePairs == active.priv = active.pub /\ \A q \in passive : q.priv = q.pub

Idles(job) == job.op = "none" /\ job.todo = <<>> /\ Matches

\* The files written so far hold the pair in memory and the one to be activated.
Rotates(job) ==
    job.op = "rotate" /\ job.id # None /\ Progress(Writes(job.pair, job.pair, job.id), job.todo)

\* The pair to return to is the passive one.
RollsBack(job) ==
    /\ job.op = "rollback" /\ job.id # None
    /\ \E p \in Contents : /\ Progress(Writes(p, p, job.id), job.todo)
                           /\ \A q \in passive : q.id = job.id => q.priv = p

\* The passive pair is gone from memory; its files follow.
Retires(job) ==
    /\ job.op = "retire" /\ passive = {} /\ Progress(Removals, job.todo)
    /\ active = [id |-> LoadedId, priv |-> files["private"], pub |-> files["public"]]

JobInv(job) == Idles(job) \/ Rotates(job) \/ RollsBack(job) \/ Retires(job)

ManagerInv ==
    /\ KeyShape /\ KeyInv
    /\ ~up => \A j \in Slots : jobs[j].op = "none"
    /\ ~torn => WholePairs /\ \A j \in Slots : JobInv(jobs[j])

\* Both handlers write six different files, a retirement three.
LEMMA PlansArePlans ==
    ASSUME KeyShape, NEW a \in Contents, NEW b \in Contents, NEW k \in Contents
    PROVE  IsPlan(Writes(a, b, k)) /\ IsPlan(Removals)
<1>1. Writes(a, b, k) \in Seq(Files \X Contents) /\ Len(Writes(a, b, k)) = 6
  BY DEF Writes, KeyShape, Files, ActiveFiles, PassiveFiles
<1>2. Removals \in Seq(Files \X Contents) /\ Len(Removals) = 3
  BY DEF Removals, Files, ActiveFiles, PassiveFiles, Contents
<1>3. \A i, n \in 1 .. 6 : Writes(a, b, k)[i][1] = Writes(a, b, k)[n][1] => i = n
  BY DEF Writes
<1>4. \A i, n \in 1 .. 3 : Removals[i][1] = Removals[n][1] => i = n
  BY DEF Removals
<1> QED BY <1>1, <1>2, <1>3, <1>4 DEF IsPlan

-----------------------------------------------------------------------------
(* Types *)

\* A slot that runs nothing.
LEMMA NoJobIsJob == NoJob \in Job
BY EmptySeq DEF NoJob, Job, Contents

\* Jobs that begin.
LEMMA StartsKeepShape ==
    ASSUME KeyShape, NEW j \in Slots, StartRotate(j) \/ StartRollback(j) \/ StartRetire(j)
    PROVE  KeyShape'
<1>1. PICK new \in Job : jobs' = [jobs EXCEPT ![j] = new]
  <2>1. CASE StartRotate(j)
    <3>1. PICK k \in KeyIds, overlap \in Overlaps :
             jobs' = [jobs EXCEPT ![j] =
                [op |-> "rotate", todo |-> Writes(generated', generated', k),
                 id |-> k, pair |-> generated', overlap |-> overlap]]
      BY <2>1, Zenon DEF StartRotate
    <3>2. generated' \in Contents
      BY <2>1, KeyAssumption DEF StartRotate, KeyShape, Pairs, Contents
    <3>3. Writes(generated', generated', k) \in Seq(Files \X Contents)
      BY <3>2, PlansArePlans DEF IsPlan, Contents
    <3>4. overlap \in Nat
      BY KeyAssumption
    <3> QED BY <3>1, <3>2, <3>3, <3>4 DEF Job
  <2>2. CASE StartRollback(j)
    <3>1. PICK k \in KeyIds : \E q \in Restorable(k) :
             jobs' = [jobs EXCEPT ![j] =
                [op |-> "rollback", todo |-> Writes(q.priv, q.pub, k), id |-> k, pair |-> None, overlap |-> 0]]
      BY <2>2, Zenon DEF StartRollback
    <3>2. PICK q \in Restorable(k) :
             jobs' = [jobs EXCEPT ![j] =
                [op |-> "rollback", todo |-> Writes(q.priv, q.pub, k), id |-> k, pair |-> None, overlap |-> 0]]
      BY <3>1
    <3>3. q.priv \in Contents /\ q.pub \in Contents
      BY DEF Restorable, LivePassive, KeyShape
    <3>4. Writes(q.priv, q.pub, k) \in Seq(Files \X Contents)
      BY <3>3, PlansArePlans DEF IsPlan, Contents
    <3> QED BY <3>2, <3>4 DEF Job, Contents
  <2>3. CASE StartRetire(j)
    <3>1. PICK new : new = [NoJob EXCEPT !.op = "retire", !.todo = Removals]
      OBVIOUS
    <3>2. jobs' = [jobs EXCEPT ![j] = new]
      BY <2>3, <3>1 DEF StartRetire, Removals
    <3>3. Removals \in Seq(Files \X Contents)
      BY PlansArePlans DEF IsPlan, Contents
    <3>4. new \in Job
      BY <3>1, <3>3, NoJobIsJob DEF Job
    <3> QED BY <3>2, <3>4
  <2> QED BY <2>1, <2>2, <2>3
<1>2. jobs' \in [Slots -> Job]
  BY <1>1 DEF KeyShape
<1>3. generated' \in Pairs
  BY KeyAssumption DEF StartRotate, StartRollback, StartRetire, KeyShape, Pairs
<1>4. UNCHANGED <<files, active>> /\ passive' \subseteq passive
  BY DEF StartRotate, StartRollback, StartRetire
<1> QED BY <1>2, <1>3, <1>4 DEF KeyShape

\* One file is written.
LEMMA WriteKeepsShape ==
    ASSUME KeyShape, NEW j \in Slots, WriteFile(j)
    PROVE  KeyShape'
<1>1. /\ jobs[j].todo # <<>> /\ files' = [files EXCEPT ![Head(jobs[j].todo)[1]] = Head(jobs[j].todo)[2]]
      /\ jobs' = [jobs EXCEPT ![j].todo = Tail(@)]
      /\ UNCHANGED <<active, passive, generated>>
  BY DEF WriteFile
<1>2. jobs[j] \in Job /\ jobs[j].todo \in Seq(Files \X Contents)
  BY DEF KeyShape, Job
<1>3. Head(jobs[j].todo) \in Files \X Contents /\ Tail(jobs[j].todo) \in Seq(Files \X Contents)
  BY <1>1, <1>2, HeadTailProperties
<1>4. files' \in [Files -> Contents]
  BY <1>1, <1>3 DEF KeyShape
<1>5. PICK new : new = [jobs[j] EXCEPT !.todo = Tail(jobs[j].todo)]
  OBVIOUS
<1>6. new \in Job
  BY <1>2, <1>3, <1>5 DEF Job
<1>7. jobs' = [jobs EXCEPT ![j] = new]
  BY <1>1, <1>5 DEF KeyShape
<1>8. jobs' \in [Slots -> Job]
  BY <1>6, <1>7 DEF KeyShape
<1> QED BY <1>1, <1>4, <1>8 DEF KeyShape

\* Jobs that end, and files that are lost.
LEMMA EndsKeepShape ==
    ASSUME KeyShape, NEW j \in Slots, Activate(j) \/ ActivateFails(j) \/ FinishRetire(j) \/ WriteFails(j)
    PROVE  KeyShape'
<1>1. jobs' = [jobs EXCEPT ![j] = NoJob] /\ generated' = generated
  BY Zenon DEF Activate, ActivateFails, FinishRetire, WriteFails
<1>2. jobs' \in [Slots -> Job]
  BY <1>1, NoJobIsJob DEF KeyShape
<1>3. files' \in [Files -> Contents]
  BY DEF Activate, ActivateFails, FinishRetire, WriteFails, KeyShape, Contents
<1> DEFINE KeysHold == /\ active'.id \in Contents /\ active'.priv \in Contents /\ active'.pub \in Contents
                       /\ \A q \in passive' : q.id \in Contents /\ q.priv \in Contents /\ q.pub \in Contents
<1>4. KeysHold
  <2>1. CASE Activate(j)
    <3>1. jobs[j].id \in Contents /\ jobs[j].pair \in Contents
      BY DEF KeyShape, Job, Contents
    <3>2. \A o : Outgoing(o).id = active.id /\ Outgoing(o).priv = active.priv /\ Outgoing(o).pub = active.pub
      BY DEF Outgoing
    <3>3. ASSUME NEW o, Rotate(jobs[j].id, jobs[j].pair, o)
          PROVE  KeysHold
      BY <3>1, <3>2, <3>3 DEF Rotate, KeyShape
    <3>4. ASSUME Rollback(jobs[j].id)
          PROVE  KeysHold
      BY <3>1, <3>2, <3>4 DEF Rollback, Restorable, LivePassive, KeyShape
    <3> HIDE DEF KeysHold
    <3> QED BY <2>1, <3>3, <3>4, Zenon DEF Activate
  <2>2. CASE UNCHANGED <<active, passive>>
    BY <2>2 DEF KeyShape
  <2> HIDE DEF KeysHold
  <2> QED BY <2>1, <2>2, Zenon DEF ActivateFails, FinishRetire, WriteFails
<1> QED BY <1>1, <1>2, <1>3, <1>4 DEF KeyShape

\* Stopping, starting and waiting.
LEMMA ServerKeepsShape ==
    ASSUME KeyShape, Stop \/ Crash \/ Boot \/ KeyTick \/ UNCHANGED <<now, keyVars>>
    PROVE  KeyShape'
<1>1. CASE Stop \/ KeyTick \/ UNCHANGED <<now, keyVars>>
  <2>1. UNCHANGED <<active, passive, files, jobs, generated>>
    BY <1>1, Zenon DEF Stop, KeyTick, keyVars
  <2> QED BY <2>1 DEF KeyShape
<1>2. CASE Crash
  <2>1. jobs' \in [Slots -> Job]
    BY <1>2, NoJobIsJob DEF Crash
  <2>2. files' \in [Files -> Contents]
    BY <1>2 DEF Crash, KeyShape, Contents
  <2>3. UNCHANGED <<active, passive, generated>>
    BY <1>2 DEF Crash
  <2> QED BY <2>1, <2>2, <2>3 DEF KeyShape
<1>3. CASE Boot
  <2>1. \A f \in Files : files[f] \in Contents
    BY DEF KeyShape
  <2>2. LoadedId \in Contents
    BY <2>1, KeyAssumption DEF LoadedId, Contents, Files, ActiveFiles
  <2>3. active'.id \in Contents /\ active'.priv \in Contents /\ active'.pub \in Contents
    BY <1>3, <2>1, <2>2 DEF Boot, Files, ActiveFiles
  <2>4. \A q \in passive' : q.id \in Contents /\ q.priv \in Contents /\ q.pub \in Contents
    BY <1>3, <2>1 DEF Boot, Files, PassiveFiles
  <2>5. UNCHANGED <<files, jobs, generated>>
    BY <1>3 DEF Boot
  <2> QED BY <2>3, <2>4, <2>5 DEF KeyShape
<1> QED BY <1>1, <1>2, <1>3, Zenon

-----------------------------------------------------------------------------
(* The actions of the serial manager *)

\* The next file of a plan is written, and no file of another name.
LEMMA PlanAdvances ==
    ASSUME KeyShape, NEW j \in Slots, WriteFile(j), NEW w, IsPlan(w), Progress(w, jobs[j].todo)
    PROVE  \E row : /\ row = jobs'[j] /\ Progress(w, row.todo)'
                    /\ row.op = jobs[j].op /\ row.id = jobs[j].id /\ row.pair = jobs[j].pair
                    /\ \A f \in Files : (\A i \in 1 .. Len(w) : w[i][1] # f) => files'[f] = files[f]
<1>1. /\ jobs[j].todo # <<>> /\ files' = [files EXCEPT ![Head(jobs[j].todo)[1]] = Head(jobs[j].todo)[2]]
      /\ jobs' = [jobs EXCEPT ![j].todo = Tail(@)]
  BY DEF WriteFile
<1>2. PICK todo : todo = jobs[j].todo
  OBVIOUS
<1>3. PICK n \in 1 .. Len(w) : /\ Tail(todo) = Rest(w, n) /\ Head(todo) = w[n]
                               /\ \A i \in 1 .. n : files'[w[i][1]] = w[i][2]
  BY <1>1, <1>2, RestAdvances
<1>4. PICK row : row = [jobs[j] EXCEPT !.todo = Tail(todo)]
  OBVIOUS
<1>5. jobs[j] \in Job /\ jobs'[j] = row
  BY <1>1, <1>2, <1>4 DEF KeyShape
<1>6. row.todo = Tail(todo) /\ row.op = jobs[j].op /\ row.id = jobs[j].id /\ row.pair = jobs[j].pair
  BY <1>4, <1>5 DEF Job
<1>7. Len(w) \in Nat
  BY LenProperties DEF IsPlan
<1>8. Progress(w, row.todo)'
  BY <1>3, <1>6, <1>7 DEF Progress
<1>9. \A f \in Files : (\A i \in 1 .. Len(w) : w[i][1] # f) => files'[f] = files[f]
  BY <1>1, <1>2, <1>3 DEF KeyShape
<1> QED BY <1>5, <1>6, <1>8, <1>9

\* A request that has written another file.
LEMMA WriteKeepsJob ==
    ASSUME KeyShape, NEW j \in Slots, JobInv(jobs[j]), WriteFile(j)
    PROVE  \E row : row = jobs'[j] /\ JobInv(row)'
<1>1. UNCHANGED <<active, passive>> /\ jobs[j].todo # <<>> /\ jobs[j] \in Job
  BY DEF WriteFile, KeyShape
<1>2. jobs[j].id \in Contents /\ jobs[j].pair \in Contents
  BY <1>1 DEF Job, Contents
<1>3. CASE Idles(jobs[j])
  BY <1>1, <1>3 DEF Idles
<1>4. CASE Rotates(jobs[j])
  <2>1. PICK w : w = Writes(jobs[j].pair, jobs[j].pair, jobs[j].id)
    OBVIOUS
  <2>2. IsPlan(w) /\ Progress(w, jobs[j].todo)
    BY <1>2, <1>4, <2>1, PlansArePlans DEF Rotates
  <2>3. PICK row : /\ row = jobs'[j] /\ Progress(w, row.todo)'
                   /\ row.op = jobs[j].op /\ row.id = jobs[j].id /\ row.pair = jobs[j].pair
    BY <2>2, PlanAdvances
  <2>4. Writes(row.pair, row.pair, row.id)' = w
    BY <1>1, <2>1, <2>3 DEF Writes
  <2>5. Rotates(row)'
    BY <1>4, <2>3, <2>4 DEF Rotates
  <2> QED BY <2>3, <2>5 DEF JobInv
<1>5. CASE RollsBack(jobs[j])
  <2>1. PICK p \in Contents : /\ Progress(Writes(p, p, jobs[j].id), jobs[j].todo)
                              /\ \A q \in passive : q.id = jobs[j].id => q.priv = p
    BY <1>5 DEF RollsBack
  <2>2. PICK w : w = Writes(p, p, jobs[j].id)
    OBVIOUS
  <2>3. IsPlan(w) /\ Progress(w, jobs[j].todo)
    BY <1>2, <2>1, <2>2, PlansArePlans
  <2>4. PICK row : row = jobs'[j] /\ Progress(w, row.todo)' /\ row.op = jobs[j].op /\ row.id = jobs[j].id
    BY <2>3, PlanAdvances
  <2>5. Writes(p, p, row.id)' = w
    BY <1>1, <2>2, <2>4 DEF Writes
  <2>6. RollsBack(row)'
    BY <1>1, <1>5, <2>1, <2>4, <2>5 DEF RollsBack
  <2> QED BY <2>4, <2>6 DEF JobInv
<1>6. CASE Retires(jobs[j])
  <2>1. PICK w : w = Removals
    OBVIOUS
  <2>2. IsPlan(w) /\ Progress(w, jobs[j].todo)
    BY <1>2, <1>6, <2>1, PlansArePlans DEF Retires
  <2>3. PICK row : /\ row = jobs'[j] /\ Progress(w, row.todo)' /\ row.op = jobs[j].op
                   /\ \A f \in Files : (\A i \in 1 .. Len(w) : w[i][1] # f) => files'[f] = files[f]
    BY <2>2, PlanAdvances
  <2>4. Len(w) = 3 /\ \A i \in 1 .. 3 : w[i][1] \in PassiveFiles
    BY <2>1 DEF Removals, PassiveFiles
  <2>5. files'["private"] = files["private"] /\ files'["public"] = files["public"] /\ files'["id"] = files["id"]
    BY <2>3, <2>4 DEF Files, ActiveFiles, PassiveFiles
  <2>6. Retires(row)'
    BY <1>1, <1>6, <2>1, <2>3, <2>5 DEF Retires, LoadedId
  <2> QED BY <2>3, <2>6 DEF JobInv
<1> QED BY <1>3, <1>4, <1>5, <1>6 DEF JobInv

\* What the files hold once both handlers have written them.
LEMMA PlanIsDone ==
    ASSUME KeyShape, NEW a \in Contents, NEW k \in Contents, k # None, Progress(Writes(a, a, k), <<>>)
    PROVE  /\ files["passivePrivate"] = active.priv /\ files["passivePublic"] = active.pub
           /\ files["passiveId"] = active.id
           /\ files["private"] = a /\ files["public"] = a /\ LoadedId = k
<1>1. PICK w : w = Writes(a, a, k)
  OBVIOUS
<1>2. \A i \in 1 .. Len(w) : files[w[i][1]] = w[i][2]
  BY <1>1, PlansArePlans, RestEnds
<1>3. /\ Len(w) = 6 /\ w[1] = <<"passivePrivate", active.priv>> /\ w[2] = <<"passivePublic", active.pub>>
      /\ w[3] = <<"passiveId", active.id>> /\ w[4] = <<"private", a>> /\ w[5] = <<"public", a>> /\ w[6] = <<"id", k>>
  BY <1>1 DEF Writes
<1>4. 1 \in 1 .. 6 /\ 2 \in 1 .. 6 /\ 3 \in 1 .. 6 /\ 4 \in 1 .. 6 /\ 5 \in 1 .. 6 /\ 6 \in 1 .. 6
  OBVIOUS
<1>5. files["id"] = k
  BY <1>2, <1>3, <1>4
<1> QED BY <1>2, <1>3, <1>4, <1>5 DEF LoadedId

\* Once the memory follows, the files hold the keys in memory.
LEMMA ActivateMatches ==
    ASSUME ManagerInv, ~torn, NEW j \in Slots, Activate(j)
    PROVE  WholePairs' /\ Matches'
<1>1. /\ KeyShape /\ WholePairs /\ JobInv(jobs[j]) /\ jobs[j] \in Job /\ files' = files /\ jobs[j].todo = <<>>
  BY DEF ManagerInv, KeyShape, Activate
<1>2. jobs[j].id \in Contents /\ jobs[j].pair \in Contents
  BY <1>1 DEF Job, Contents
<1>3. ASSUME NEW a \in Contents, NEW o, jobs[j].id # None, Progress(Writes(a, a, jobs[j].id), <<>>),
             active' = [id |-> jobs[j].id, priv |-> a, pub |-> a], passive' = {Outgoing(o)}
      PROVE  WholePairs' /\ Matches'
  <2>1. /\ files["passivePrivate"] = active.priv /\ files["passivePublic"] = active.pub
        /\ files["passiveId"] = active.id
        /\ files["private"] = a /\ files["public"] = a /\ LoadedId = jobs[j].id
    BY <1>1, <1>2, <1>3, PlanIsDone
  <2>2. LoadedId' = LoadedId
    BY <1>1 DEF LoadedId
  <2>3. active' = [id |-> LoadedId', priv |-> files'["private"], pub |-> files'["public"]]
    BY <1>1, <1>3, <2>1, <2>2
  <2>4. passive' # {} /\ \A q \in passive' : q.id = active.id /\ q.priv = active.priv /\ q.pub = active.pub
    BY <1>3 DEF Outgoing
  <2>5. Matches'
    BY <1>1, <2>1, <2>3, <2>4 DEF Matches
  <2>6. WholePairs'
    BY <1>1, <1>3, <2>4 DEF WholePairs
  <2> QED BY <2>5, <2>6
<1>4. ASSUME jobs[j].op = "rotate", Rotate(jobs[j].id, jobs[j].pair, jobs[j].overlap)
      PROVE  WholePairs' /\ Matches'
  <2>1. jobs[j].id # None /\ Progress(Writes(jobs[j].pair, jobs[j].pair, jobs[j].id), <<>>)
    BY <1>1, <1>4 DEF JobInv, Idles, Rotates, RollsBack, Retires
  <2> QED BY <1>2, <1>3, <1>4, <2>1 DEF Rotate
<1>5. ASSUME jobs[j].op = "rollback", Rollback(jobs[j].id)
      PROVE  WholePairs' /\ Matches'
  <2>1. PICK q \in Restorable(jobs[j].id) : active' = [id |-> jobs[j].id, priv |-> q.priv, pub |-> q.pub]
    BY <1>5 DEF Rollback
  <2>2. q \in passive /\ q.id = jobs[j].id /\ q.priv = q.pub /\ q.priv \in Contents
    BY <1>1, <2>1 DEF Restorable, LivePassive, WholePairs, KeyShape
  <2>3. jobs[j].id # None /\ Progress(Writes(q.priv, q.priv, jobs[j].id), <<>>)
    BY <1>1, <1>5, <2>2 DEF JobInv, Idles, Rotates, RollsBack, Retires
  <2>4. passive' = {Outgoing(DefaultOverlap)}
    BY <1>5 DEF Rollback
  <2> QED BY <1>3, <2>1, <2>2, <2>3, <2>4
<1> QED BY <1>4, <1>5, Zenon DEF Activate

\* The keys are whole, and the request in slot j as it should be.
SlotIsGood(j) == WholePairs' /\ \E row : row = jobs'[j] /\ JobInv(row)'

\* A slot that ends its request with files that match.
LEMMA EndsGood ==
    ASSUME KeyShape, NEW j \in Slots, jobs' = [jobs EXCEPT ![j] = NoJob], WholePairs', Matches'
    PROVE  SlotIsGood(j)
<1>1. jobs'[j] = NoJob
  BY DEF KeyShape
<1>2. Idles(NoJob)'
  BY DEF Idles, NoJob
<1> QED BY <1>1, <1>2 DEF SlotIsGood, JobInv

\* A rotation plans to write the pair in memory and a new one.
LEMMA StartRotateGood ==
    ASSUME ManagerInv, ~torn, NEW j \in Slots, StartRotate(j)
    PROVE  SlotIsGood(j)
<1>1. PICK k \in KeyIds, overlap \in Overlaps :
         jobs' = [jobs EXCEPT ![j] = [op |-> "rotate", todo |-> Writes(generated', generated', k),
                                      id |-> k, pair |-> generated', overlap |-> overlap]]
  BY Zenon DEF StartRotate
<1>2. UNCHANGED <<active, passive, files>> /\ KeyShape /\ WholePairs
  BY DEF StartRotate, ManagerInv
<1>3. PICK g : g = generated'
  OBVIOUS
<1>4. g \in Contents
  BY <1>2, <1>3, KeyAssumption DEF StartRotate, KeyShape, Pairs, Contents
<1>5. PICK w : w = Writes(g, g, k)
  OBVIOUS
<1>6. IsPlan(w)
  BY <1>2, <1>4, <1>5, PlansArePlans DEF Contents
<1>7. PICK row : row = jobs'[j]
  OBVIOUS
<1>8. row.op = "rotate" /\ row.todo = w /\ row.id = k /\ row.pair = g
  BY <1>1, <1>2, <1>3, <1>5, <1>7 DEF KeyShape
<1>9. Progress(w, w)'
  BY <1>2, <1>6, RestBegins DEF Progress
<1>10. Writes(row.pair, row.pair, row.id)' = w
  BY <1>2, <1>5, <1>8 DEF Writes
<1>11. Rotates(row)'
  BY <1>8, <1>9, <1>10, KeyAssumption DEF Rotates
<1>12. WholePairs'
  BY <1>2 DEF WholePairs
<1> QED BY <1>7, <1>11, <1>12 DEF SlotIsGood, JobInv

\* A rollback plans to write the pair in memory and the passive one.
LEMMA StartRollbackGood ==
    ASSUME ManagerInv, ~torn, NEW j \in Slots, StartRollback(j)
    PROVE  SlotIsGood(j)
<1>1. PICK k \in KeyIds : \E q \in Restorable(k) :
         jobs' = [jobs EXCEPT ![j] = [op |-> "rollback", todo |-> Writes(q.priv, q.pub, k),
                                      id |-> k, pair |-> None, overlap |-> 0]]
  BY Zenon DEF StartRollback
<1>2. PICK q \in Restorable(k) :
         jobs' = [jobs EXCEPT ![j] = [op |-> "rollback", todo |-> Writes(q.priv, q.pub, k),
                                      id |-> k, pair |-> None, overlap |-> 0]]
  BY <1>1
<1>3. UNCHANGED <<active, passive, files>> /\ KeyShape /\ WholePairs
  BY DEF StartRollback, ManagerInv
<1>4. JobInv(jobs[j]) /\ jobs[j].op = "none"
  BY DEF ManagerInv, StartRollback, Free
<1>5. Matches
  BY <1>4 DEF JobInv, Idles, Rotates, RollsBack, Retires
<1>6. q \in passive /\ q.pub = q.priv /\ q.priv \in Contents /\ \A p \in passive : p.priv = q.priv
  BY <1>3, <1>5 DEF Restorable, LivePassive, WholePairs, KeyShape, Matches
<1>7. PICK a : a = q.priv
  OBVIOUS
<1>8. PICK w : w = Writes(a, a, k)
  OBVIOUS
<1>9. IsPlan(w)
  BY <1>3, <1>6, <1>7, <1>8, PlansArePlans DEF Contents
<1>10. PICK row : row = jobs'[j]
  OBVIOUS
<1>11. row.op = "rollback" /\ row.todo = w /\ row.id = k
  BY <1>2, <1>3, <1>6, <1>7, <1>8, <1>10 DEF KeyShape
<1>12. Progress(w, w)'
  BY <1>3, <1>9, RestBegins DEF Progress
<1>13. Writes(a, a, row.id)' = w
  BY <1>3, <1>8, <1>11 DEF Writes
<1>14. RollsBack(row)'
  BY <1>3, <1>6, <1>7, <1>11, <1>12, <1>13, KeyAssumption DEF RollsBack
<1>15. WholePairs'
  BY <1>3 DEF WholePairs
<1> QED BY <1>10, <1>14, <1>15 DEF SlotIsGood, JobInv

\* The one passive pair leaves the memory.
LEMMA StartRetireGood ==
    ASSUME ManagerInv, ~torn, NEW j \in Slots, StartRetire(j)
    PROVE  SlotIsGood(j)
<1>1. PICK k \in {q.id : q \in passive} : passive' = {q \in passive : q.id # k}
  BY DEF StartRetire
<1>2. /\ jobs' = [jobs EXCEPT ![j] = [NoJob EXCEPT !.op = "retire", !.todo = Removals]]
      /\ UNCHANGED <<active, files>> /\ KeyShape /\ WholePairs
  BY DEF StartRetire, Removals, ManagerInv
<1>3. JobInv(jobs[j]) /\ jobs[j].op = "none"
  BY DEF ManagerInv, StartRetire, Free
<1>4. Matches
  BY <1>3 DEF JobInv, Idles, Rotates, RollsBack, Retires
<1>5. passive' = {}
  BY <1>1, <1>4 DEF Matches
<1>6. PICK row : row = jobs'[j]
  OBVIOUS
<1>7. row.op = "retire" /\ row.todo = Removals
  BY <1>2, <1>6 DEF KeyShape, NoJob
<1>8. IsPlan(Removals)
  BY <1>2, PlansArePlans DEF Contents
<1>9. Progress(Removals, row.todo)'
  BY <1>2, <1>7, <1>8, RestBegins DEF Progress
<1>10. Retires(row)'
  BY <1>2, <1>4, <1>5, <1>7, <1>9 DEF Retires, Matches, LoadedId
<1>11. WholePairs'
  BY <1>2, <1>5 DEF WholePairs
<1> QED BY <1>6, <1>10, <1>11 DEF SlotIsGood, JobInv

\* The passive files are gone, like the passive pair.
LEMMA FinishRetireGood ==
    ASSUME ManagerInv, ~torn, NEW j \in Slots, FinishRetire(j)
    PROVE  SlotIsGood(j)
<1>1. /\ jobs[j].todo = <<>> /\ jobs[j].op = "retire" /\ jobs' = [jobs EXCEPT ![j] = NoJob]
      /\ UNCHANGED <<active, passive, files>> /\ KeyShape /\ WholePairs
  BY DEF FinishRetire, ManagerInv
<1>2. Retires(jobs[j])
  BY <1>1 DEF ManagerInv, JobInv, Idles, Rotates, RollsBack
<1>3. PICK w : w = Removals
  OBVIOUS
<1>4. \A i \in 1 .. Len(w) : files[w[i][1]] = w[i][2]
  BY <1>1, <1>2, <1>3, PlansArePlans, RestEnds DEF Retires, Contents
<1>5. /\ Len(w) = 3 /\ w[1] = <<"passivePrivate", None>> /\ w[2] = <<"passivePublic", None>>
      /\ w[3] = <<"passiveId", None>> /\ 1 \in 1 .. 3 /\ 2 \in 1 .. 3 /\ 3 \in 1 .. 3
  BY <1>3 DEF Removals
<1>6. \A f \in PassiveFiles : files[f] = None
  BY <1>4, <1>5 DEF PassiveFiles
<1>7. Matches' /\ WholePairs'
  BY <1>1, <1>2, <1>6 DEF Matches, Retires, WholePairs, LoadedId
<1> QED BY <1>1, <1>7, EndsGood

\* A restart loads what the memory held.
LEMMA BootGood ==
    ASSUME ManagerInv, ~torn, NEW j \in Slots, Boot
    PROVE  SlotIsGood(j)
<1>1. /\ ConfigIsValid /\ UNCHANGED <<files, jobs>> /\ WholePairs
      /\ JobInv(jobs[j]) /\ jobs[j].op = "none"
  BY DEF Boot, ManagerInv
<1>2. jobs[j].todo = <<>> /\ Matches
  BY <1>1 DEF JobInv, Idles, Rotates, RollsBack, Retires
<1>3. LoadedId' = LoadedId /\ active' = [id |-> LoadedId, priv |-> files["private"], pub |-> files["public"]]
  BY <1>1 DEF Boot, LoadedId
<1>4. \A q \in passive' : q.id = files["passiveId"] /\ q.priv = files["passivePrivate"] /\ q.pub = files["passivePublic"]
  BY DEF Boot
<1>5. passive' = {} <=> files["passiveId"] = None
  BY DEF Boot
<1>6. passive' = {} => \A f \in PassiveFiles : files[f] = None
  BY <1>1, <1>5 DEF ConfigIsValid, PassiveFiles
<1>7. Matches'
  BY <1>1, <1>3, <1>4, <1>6 DEF Matches
<1>8. active'.priv = active'.pub
  BY <1>1, <1>2, <1>3 DEF Matches, WholePairs
<1>9. ASSUME passive' # {}
      PROVE  files["passivePrivate"] = files["passivePublic"]
  <2>1. PICK q : q \in passive
    BY <1>2, <1>5, <1>9 DEF Matches, PassiveFiles
  <2> QED BY <1>1, <1>2, <2>1 DEF Matches, WholePairs
<1>10. WholePairs'
  BY <1>4, <1>8, <1>9 DEF WholePairs
<1>11. PICK row : row = jobs[j] /\ row = jobs'[j]
  BY <1>1
<1>12. Idles(row)'
  BY <1>1, <1>2, <1>7, <1>11 DEF Idles
<1> QED BY <1>10, <1>11, <1>12 DEF SlotIsGood, JobInv

\* Keys, files and requests stay as they are.
LEMMA StillGood ==
    ASSUME ManagerInv, ~torn, NEW j \in Slots, UNCHANGED <<active, passive, files, jobs>>
    PROVE  SlotIsGood(j)
<1>1. WholePairs /\ JobInv(jobs[j])
  BY DEF ManagerInv
<1>2. PICK row : row = jobs[j] /\ row = jobs'[j]
  OBVIOUS
<1>3. Matches' <=> Matches
  BY DEF Matches, LoadedId
<1>4. \A w, todo : Progress(w, todo)' <=> Progress(w, todo)
  BY DEF Progress
<1>5. \A a, k : Writes(a, a, k)' = Writes(a, a, k)
  BY DEF Writes
<1>6. Idles(row) => Idles(row)'
  BY <1>3 DEF Idles
<1>7. Rotates(row) => Rotates(row)'
  BY <1>4, <1>5 DEF Rotates
<1>8. RollsBack(row) => RollsBack(row)'
  BY <1>4, <1>5 DEF RollsBack
<1>9. Retires(row) => Retires(row)'
  BY <1>4 DEF Retires, LoadedId
<1>10. JobInv(row)'
  BY <1>1, <1>2, <1>6, <1>7, <1>8, <1>9 DEF JobInv
<1>11. WholePairs'
  BY <1>1 DEF WholePairs
<1> QED BY <1>2, <1>10, <1>11 DEF SlotIsGood

\* A server that is down runs no request.
LEMMA DownIsIdle ==
    ASSUME KeyShape, ~up => \A j \in Slots : jobs[j].op = "none", [KeyNext]_<<now, keyVars>>
    PROVE  ~up' => \A j \in Slots : jobs'[j].op = "none"
<1>1. ASSUME NEW j \in Slots, StartRotate(j) \/ StartRollback(j) \/ StartRetire(j)
      PROVE  up'
  BY <1>1 DEF StartRotate, StartRollback, StartRetire, Free
<1>2. ASSUME NEW j \in Slots, WriteFile(j)
      PROVE  up' = up /\ \A i \in Slots : jobs'[i].op = jobs[i].op
  <2>1. up' = up /\ jobs' = [jobs EXCEPT ![j].todo = Tail(jobs[j].todo)]
    BY <1>2 DEF WriteFile
  <2>2. \A i \in Slots : jobs[i] \in Job
    BY DEF KeyShape
  <2> QED BY <2>1, <2>2 DEF KeyShape, Job
<1>3. ASSUME NEW j \in Slots, Activate(j) \/ ActivateFails(j) \/ FinishRetire(j) \/ WriteFails(j)
      PROVE  up' = up /\ \A i \in Slots : jobs'[i] = jobs[i] \/ jobs'[i].op = "none"
  <2>1. up' = up /\ jobs' = [jobs EXCEPT ![j] = NoJob]
    BY <1>3, Zenon DEF Activate, ActivateFails, FinishRetire, WriteFails
  <2> QED BY <2>1 DEF KeyShape, NoJob
<1>4. CASE Stop
  BY <1>4 DEF Stop
<1>5. CASE Crash
  BY <1>5 DEF Crash, NoJob
<1>6. CASE Boot
  BY <1>6 DEF Boot
<1>7. CASE KeyTick \/ UNCHANGED <<now, keyVars>>
  BY <1>7 DEF KeyTick, keyVars
<1>8. CASE \E j \in Slots : StartRotate(j) \/ StartRollback(j) \/ StartRetire(j)
  BY <1>1, <1>8
<1>9. CASE \E j \in Slots : WriteFile(j)
  BY <1>2, <1>9
<1>10. CASE \E j \in Slots : Activate(j) \/ ActivateFails(j) \/ FinishRetire(j) \/ WriteFails(j)
  BY <1>3, <1>10
<1> QED BY <1>4, <1>5, <1>6, <1>7, <1>8, <1>9, <1>10, Zenon DEF KeyNext

\* Every step of the serial manager keeps the invariant.
LEMMA ManagerStep ==
    ASSUME OneManager, ManagerInv, [KeyNext]_<<now, keyVars>>
    PROVE  ManagerInv'
<1>1. KeyShape /\ KeyInv /\ (~up => \A j \in Slots : jobs[j].op = "none")
  BY DEF ManagerInv
<1>2. KeyInv'
  BY <1>1, KeyInvIsInductive
<1>3. KeyShape'
  BY <1>1, StartsKeepShape, WriteKeepsShape, EndsKeepShape, ServerKeepsShape, Zenon DEF KeyNext
<1>4. ~up' => \A j \in Slots : jobs'[j].op = "none"
  BY <1>1, DownIsIdle
<1>5. PICK j : Slots = {j}
  BY DEF OneManager
<1>6. j \in Slots
  BY <1>5
<1>7. ASSUME ~torn'
      PROVE  SlotIsGood(j)
  <2>1. ASSUME StartRotate(j) \/ StartRollback(j) \/ StartRetire(j)
        PROVE  SlotIsGood(j)
    <3>1. ~torn
      BY <1>7, <2>1 DEF StartRotate, StartRollback, StartRetire
    <3> QED BY <1>6, <2>1, <3>1, StartRotateGood, StartRollbackGood, StartRetireGood
  <2>2. ASSUME WriteFile(j)
        PROVE  SlotIsGood(j)
    <3>1. ~torn /\ UNCHANGED <<active, passive>>
      BY <1>7, <2>2 DEF WriteFile
    <3>2. WholePairs' /\ JobInv(jobs[j])
      BY <1>6, <3>1 DEF ManagerInv, WholePairs
    <3> QED BY <1>1, <1>6, <2>2, <3>2, WriteKeepsJob DEF SlotIsGood
  <2>3. ASSUME Activate(j)
        PROVE  SlotIsGood(j)
    <3>1. ~torn /\ jobs' = [jobs EXCEPT ![j] = NoJob]
      BY <1>7, <2>3, Zenon DEF Activate
    <3> QED BY <1>1, <1>6, <2>3, <3>1, ActivateMatches, EndsGood
  <2>4. ASSUME FinishRetire(j)
        PROVE  SlotIsGood(j)
    BY <1>6, <1>7, <2>4, FinishRetireGood DEF FinishRetire
  <2>5. ~ActivateFails(j) /\ ~WriteFails(j) /\ ~Crash
    BY <1>7 DEF ActivateFails, WriteFails, Crash
  <2>6. ASSUME Boot
        PROVE  SlotIsGood(j)
    BY <1>6, <1>7, <2>6, BootGood DEF Boot
  <2>7. ASSUME Stop \/ KeyTick \/ UNCHANGED <<now, keyVars>>
        PROVE  SlotIsGood(j)
    <3>1. ~torn /\ UNCHANGED <<active, passive, files, jobs>>
      BY <1>7, <2>7 DEF Stop, KeyTick, keyVars
    <3> QED BY <1>6, <3>1, StillGood
  <2>8. CASE \E i \in Slots : \/ StartRotate(i) \/ StartRollback(i) \/ StartRetire(i)
                              \/ WriteFile(i) \/ WriteFails(i)
                              \/ Activate(i) \/ ActivateFails(i) \/ FinishRetire(i)
    <3>1. PICK i \in Slots : \/ StartRotate(i) \/ StartRollback(i) \/ StartRetire(i)
                             \/ WriteFile(i) \/ WriteFails(i)
                             \/ Activate(i) \/ ActivateFails(i) \/ FinishRetire(i)
      BY <2>8
    <3>2. i = j
      BY <1>5
    <3> QED BY <2>1, <2>2, <2>3, <2>4, <2>5, <3>1, <3>2, Zenon
  <2> QED BY <2>5, <2>6, <2>7, <2>8, Zenon DEF KeyNext
<1> QED BY <1>2, <1>3, <1>4, <1>5, <1>7 DEF ManagerInv, SlotIsGood

\* A first start: the files hold the pair in memory, under the default kid.
LEMMA ManagerStart ==
    ASSUME KeyInit
    PROVE  ManagerInv
<1>1. KeyInv
  BY KeyInitEstablishes
<1>2. /\ active = [id |-> DefaultId, priv |-> 1, pub |-> 1] /\ passive = {} /\ jobs = [j \in Slots |-> NoJob]
      /\ files = [f \in Files |-> IF f \in {"private", "public"} THEN 1 ELSE None] /\ generated = 1 /\ up = TRUE
  BY DEF KeyInit
<1>3. 1 \in Pairs /\ 1 \in Contents /\ DefaultId \in Contents /\ None \in Contents
  BY KeyAssumption DEF Pairs, Contents
<1>4. KeyShape
  BY <1>2, <1>3, NoJobIsJob DEF KeyShape
<1>5. /\ files["private"] = 1 /\ files["public"] = 1 /\ files["id"] = None
      /\ \A f \in PassiveFiles : files[f] = None
  BY <1>2 DEF Files, ActiveFiles, PassiveFiles
<1>6. WholePairs /\ Matches
  BY <1>2, <1>5 DEF WholePairs, Matches, LoadedId
<1>7. \A j \in Slots : Idles(jobs[j])
  BY <1>2, <1>6 DEF Idles, NoJob
<1> QED BY <1>1, <1>2, <1>4, <1>6, <1>7 DEF ManagerInv, JobInv

\* With one management request at a time, and unless one was cut short, a token
\* signed now verifies now, and between requests a restart would resume with the
\* keys in memory (auth_rotate_jwt_key, auth_rollback_jwt_key,
\* auth_retire_jwt_key, from_config).
THEOREM SerialKeysMatchFiles ==
    ASSUME OneManager
    PROVE  KeySpec => []FilesMatchMemory
<1>1. KeyInit => ManagerInv
  BY ManagerStart
<1>2. ManagerInv /\ [KeyNext]_<<now, keyVars>> => ManagerInv'
  BY ManagerStep
<1>3. ManagerInv => FilesMatchMemory
  <2> SUFFICES ASSUME ManagerInv, up, ~torn
               PROVE  /\ Accepts(active.id, active.priv)
                      /\ (\A j \in Slots : jobs[j].op = "none") =>
                            /\ active = [id |-> LoadedId, priv |-> files["private"], pub |-> files["public"]]
                            /\ passive = {} => \A f \in PassiveFiles : files[f] = None
                            /\ \A q \in passive :
                                  <<q.id, q.priv, q.pub>> =
                                     <<files["passiveId"], files["passivePrivate"], files["passivePublic"]>>
    BY DEF FilesMatchMemory
  <2>1. Accepts(active.id, active.priv)
    BY DEF ManagerInv, WholePairs, Accepts
  <2>2. PICK j : Slots = {j}
    BY DEF OneManager
  <2>3. (\A i \in Slots : jobs[i].op = "none") => Matches
    BY <2>2 DEF ManagerInv, JobInv, Idles, Rotates, RollsBack, Retires
  <2> QED BY <2>1, <2>3 DEF Matches
<1> QED BY <1>1, <1>2, <1>3, PTL DEF KeySpec
==============================================================================
