-------------------------- MODULE AutoEvents_proofs --------------------------
(***************************************************************************)
(* Proofs about the AutoEvents of a Device.  The threads (AutoEvents): as  *)
(* long as one thread at a time calls the service, a restart leaves        *)
(* exactly one executor per AutoEvent, each of them in the manager's list. *)
(* With two threads this is false, which is why each of these theorems has *)
(* OneCaller as its hypothesis.  What they compare (OnChange): what a      *)
(* subscriber knows, for all resources, values, thresholds and orders of   *)
(* readings.                                                               *)
(***************************************************************************)
EXTENDS AutoEvents, OnChange, FiniteSetTheorems, TLAPS

OneCaller == \A c, d \in Caller : c = d

Used == {e \in Executor : state[e] # "free"}

\* Executors that read, and the one that is about to.
Present(e) == Live(e) \/ state[e] = "made"

Sources == Cardinality(Source)

Typed ==
  /\ cached \in Device \union {NoDevice}
  /\ current \in Nat /\ lists \in Nat
  /\ state \in [Executor -> {"free", "made", "wait", "read", "put", "ended"}]
  /\ source = [e \in Executor |-> source[e]]
  /\ list \in [Executor -> Nat]
  /\ stopped \in [Executor -> BOOLEAN]
  /\ started \in BOOLEAN
  /\ pc \in [Caller -> Step]
  /\ clone \in [Caller -> Device \union {NoDevice}]
  /\ mine \in [Caller -> Nat] /\ old \in [Caller -> Nat]
  /\ todo \in [Caller -> SUBSET Source]
  /\ fresh \in [Caller -> Executor \union {None}]
  /\ ops \in 0..MaxOps
  /\ wanted \subseteq Source /\ toggled \in BOOLEAN

\* Before a caller has run the service nothing has been made.
NothingYet ==
  IF started THEN Caller # {}
  ELSE /\ \A e \in Executor : state[e] = "free"
       /\ \A c \in Caller : pc[c] = "idle"
       /\ ops = 0

\* Executors are made in order, and there is one left for every event to schedule.
Counted ==
  /\ Used = 1 .. Cardinality(Used)
  /\ \A c \in Caller :
       Cardinality(Used) + (IF pc[c] \in {"claim", "schedule", "start"}
                            THEN Cardinality(todo[c]) ELSE 0)
         <= (IF pc[c] \in {"edit", "pop", "stop", "lookup"} THEN ops ELSE ops + 1) * Sources

\* What reads is in the list of the dictionary, or in the one that is about to be stopped.
Listed(c) ==
  /\ \A e \in Executor : Live(e) =>
       list[e] # None /\ list[e] = IF pc[c] = "stop" THEN old[c] ELSE current
  /\ pc[c] \in {"stop", "lookup", "claim"} => current = None
  /\ pc[c] \in {"schedule", "start"} => mine[c] = current /\ current # None
  /\ \A e \in Executor : state[e] = "made" <=> pc[c] = "start" /\ fresh[c] = e
  /\ pc[c] = "start" => fresh[c] \in Executor /\ list[fresh[c]] = mine[c]

\* Two sets of AutoEvents, but for those that a patch has crossed.
Agree(A, B) == \A s : s \notin crossed => (s \in A <=> s \in B)

\* What is to be read.
Valid == cached.events \ Invalid

\* What a patcher may put in place differs from the Device in what is crossed only.
Copies ==
  /\ patch \in [Patcher -> {"idle", "write", "request"}]
  /\ copy \in [Patcher -> Device \union {NoDevice}]
  /\ crossed \subseteq Source
  /\ \A p \in Patcher : patch[p] # "idle" =>
       /\ copy[p] \in Device
       /\ cached # NoDevice => Agree(copy[p].events, cached.events)

\* No source has two executors, and the events of the Device are those with an executor
\* and those yet to get one.
Scheduled(c) ==
  /\ \A e, f \in Executor : Present(e) /\ Present(f) /\ source[e] = source[f] => e = f
  /\ pc[c] \in {"schedule", "start"} =>
       \A e \in Executor : Present(e) => source[e] \notin todo[c]
  /\ cached # NoDevice =>
       /\ pc[c] = "claim" => Agree(todo[c], Valid)
       /\ pc[c] \in {"schedule", "start"} =>
            Agree(Valid, todo[c] \union {source[e] : e \in {x \in Executor : Present(x)}})
       /\ pc[c] \in {"claim", "schedule", "start"} /\ cached.blocked => toggled
       /\ pc[c] = "idle" /\ started =>
            /\ \A e \in Executor : Live(e) /\ source[e] \notin crossed => source[e] \in Valid
            /\ ~ toggled /\ ~ cached.blocked =>
                 \A s \in Valid \ crossed : \E e \in Executor : Live(e) /\ source[e] = s
            /\ ~ toggled /\ cached.blocked => \A e \in Executor : ~ Live(e)

\* The clone has what is wanted until it is put in place.
Edited(c) ==
  /\ pc[c] = "edit" => clone[c] \in Device /\ Agree(clone[c].events, wanted)
  /\ pc[c] # "edit" /\ cached # NoDevice => Agree(cached.events, wanted)

\* The inductive invariant.
AutoInv ==
  /\ Typed /\ NothingYet /\ Counted /\ Copies
  /\ \A c \in Caller : Listed(c) /\ Scheduled(c) /\ Edited(c)

LEMMA Budget ==
  /\ Sources \in Nat
  /\ \A o \in Nat : o * Sources \in Nat /\ (o + 1) * Sources = o * Sources + Sources
  /\ \A o \in 0..MaxOps : (o + 1) * Sources <= (MaxOps + 1) * Sources
<1>1. Sources \in Nat
  BY AutoAssumption, FS_CardinalityType DEF Sources
<1> HIDE DEF Sources
<1>2. \A o \in Nat : o * Sources \in Nat /\ (o + 1) * Sources = o * Sources + Sources
  BY <1>1
<1>3. ASSUME NEW o \in 0..MaxOps PROVE (o + 1) * Sources <= (MaxOps + 1) * Sources
  BY <1>1, <1>3, AutoAssumption
<1> QED BY <1>1, <1>2, <1>3

LEMMA UsedFinite == Used \subseteq Executor /\ IsFiniteSet(Used) /\ Cardinality(Used) \in Nat
<1>1. IsFiniteSet(Executor)
  <2>1. Cardinality(Source) \in Nat
    BY AutoAssumption, FS_CardinalityType
  <2>2. (MaxOps + 1) * Cardinality(Source) \in Nat
    BY <2>1, Budget, AutoAssumption DEF Sources
  <2> QED BY <2>2, FS_Interval DEF Executor
<1> QED BY <1>1, FS_Subset, FS_CardinalityType DEF Used

LEMMA InitAuto == Init => AutoInv
<1> SUFFICES ASSUME Init PROVE AutoInv
  OBVIOUS
<1>1. Typed
  <2>1. cached \in Device /\ wanted \subseteq Source /\ toggled \in BOOLEAN
    BY DEF Init, Device
  <2>2. source = [e \in Executor |-> source[e]]
    BY DEF Init
  <2>3. ops \in 0..MaxOps
    BY AutoAssumption DEF Init
  <2> QED BY <2>1, <2>2, <2>3 DEF Init, Typed, Step, None
<1>2. NothingYet
  BY DEF Init, NothingYet
<1>3. Counted
  <2>1. Used = {}
    BY DEF Init, Used
  <2>2. Cardinality(Used) = 0
    BY <2>1, FS_EmptySet
  <2>3. \A c \in Caller : pc[c] = "idle"
    BY DEF Init
  <2>4. (0 + 1) * Sources \in Nat
    BY Budget
  <2> QED BY <2>1, <2>2, <2>3, <2>4 DEF Counted, Init
<1>4. ASSUME NEW c \in Caller PROVE Listed(c) /\ Scheduled(c) /\ Edited(c)
  <2>1. \A e \in Executor : state[e] = "free" /\ ~ Live(e) /\ ~ Present(e)
    BY DEF Init, Live, Present
  <2>2. pc[c] = "idle" /\ ~ started /\ cached.events = wanted
    BY DEF Init
  <2> QED BY <2>1, <2>2 DEF Listed, Scheduled, Edited, Agree
<1>5. Copies
  BY DEF Init, Copies
<1> QED BY <1>1, <1>2, <1>3, <1>4, <1>5 DEF AutoInv

LEMMA CopiesKept ==
  ASSUME Copies, UNCHANGED <<cached, patches, crossed>>
  PROVE  Copies'
BY DEF Copies, Agree, patches

\* A step that makes, starts and stops no executor.
Untouched ==
  /\ \A e \in Executor : /\ Live(e)' <=> Live(e)
                         /\ state'[e] = "made" <=> state[e] = "made"
                         /\ state'[e] = "free" <=> state[e] = "free"
  /\ source' = source /\ list' = list

LEMMA UntouchedMeans ==
  ASSUME Untouched
  PROVE  /\ Used' = Used
         /\ \A e \in Executor : Present(e)' <=> Present(e)
         /\ {e \in Executor : Present(e)}' = {e \in Executor : Present(e)}
  BY DEF Untouched, Used, Present

LEMMA RunAuto ==
  ASSUME AutoInv, NEW x \in Executor, Run(x)
  PROVE  AutoInv'
<1>1. Typed /\ NothingYet /\ Counted /\ Copies /\ \A c \in Caller : Listed(c) /\ Scheduled(c) /\ Edited(c)
  BY DEF AutoInv
<1>2. /\ state[x] \in {"wait", "read", "put"}
      /\ \E to \in {"wait", "read", "put", "ended"} :
           state' = [state EXCEPT ![x] = to] /\ (to = "ended" => stopped[x])
      /\ UNCHANGED <<cached, current, lists, source, list, stopped, down, started, pc,
                     locals, ops, patches, history>>
  BY DEF Run, Wake, ReadNothing, ReadSomething, Put, ExecutorStep
<1>3. Untouched
  BY <1>1, <1>2 DEF Untouched, Live, Typed
<1>4. Used' = Used /\ \A e \in Executor : Present(e)' <=> Present(e)
  BY <1>3, UntouchedMeans
<1>5. Typed'
  BY <1>1, <1>2 DEF Typed, locals, history
<1>6. NothingYet'
  BY <1>1, <1>2, <1>3 DEF NothingYet, Untouched
<1>7. Counted'
  BY <1>1, <1>2, <1>4 DEF Counted, locals
<1>8. ASSUME NEW c \in Caller PROVE Listed(c)'
  BY <1>1, <1>2, <1>3, <1>8 DEF Listed, Untouched, locals
<1>9. ASSUME NEW c \in Caller PROVE Scheduled(c)'
  <2>1. {e \in Executor : Present(e)}' = {e \in Executor : Present(e)}
    BY <1>3, UntouchedMeans
  <2>2. {source[e] : e \in {y \in Executor : Present(y)}}'
          = {source[e] : e \in {y \in Executor : Present(y)}}
    BY <1>2, <2>1
  <2> QED BY <1>1, <1>2, <1>3, <1>4, <1>9, <2>2 DEF Scheduled, Agree, Valid, Untouched, locals, history
<1>10. ASSUME NEW c \in Caller PROVE Edited(c)'
  BY <1>1, <1>2 DEF Edited, Agree, locals, history
<1>11. Copies'
  BY <1>1, <1>2, CopiesKept DEF history
<1> QED BY <1>5, <1>6, <1>7, <1>8, <1>9, <1>10, <1>11 DEF AutoInv

\* The budget of a caller, by where it is.
LEMMA CountedFor ==
  ASSUME Typed, Counted, NEW c \in Caller
  PROVE  /\ Used = 1 .. Cardinality(Used)
         /\ pc[c] = "idle" => Cardinality(Used) <= (ops + 1) * Sources
         /\ pc[c] \in {"edit", "pop", "stop", "lookup"} => Cardinality(Used) <= ops * Sources
         /\ pc[c] \in {"claim", "schedule", "start"} =>
              Cardinality(Used) + Cardinality(todo[c]) <= (ops + 1) * Sources
<1>1. PICK n : n = Cardinality(Used)
  OBVIOUS
<1>2. PICK a, b : a = ops * Sources /\ b = (ops + 1) * Sources
  OBVIOUS
<1>3. n \in Nat
  BY <1>1, UsedFinite
<1>4. n + (IF pc[c] \in {"claim", "schedule", "start"} THEN Cardinality(todo[c]) ELSE 0)
        <= (IF pc[c] \in {"edit", "pop", "stop", "lookup"} THEN ops ELSE ops + 1) * Sources
  BY <1>1 DEF Counted
<1>5. ASSUME pc[c] = "idle" PROVE n <= b
  <2>1. n + 0 <= b
    BY <1>2, <1>4, <1>5
  <2> QED BY <1>3, <2>1
<1>6. ASSUME pc[c] \in {"edit", "pop", "stop", "lookup"} PROVE n <= a
  <2>1. n + 0 <= a
    BY <1>2, <1>4, <1>6
  <2> QED BY <1>3, <2>1
<1>7. ASSUME pc[c] \in {"claim", "schedule", "start"} PROVE n + Cardinality(todo[c]) <= b
  BY <1>2, <1>4, <1>7
<1> QED BY <1>1, <1>2, <1>5, <1>6, <1>7 DEF Counted

LEMMA Unmoved ==
  ASSUME UNCHANGED executors
  PROVE  /\ Untouched /\ Used' = Used
         /\ \A e \in Executor : (Live(e)' <=> Live(e)) /\ (Present(e)' <=> Present(e))
         /\ {source[e] : e \in {y \in Executor : Present(y)}}'
              = {source[e] : e \in {y \in Executor : Present(y)}}
<1>1. Untouched
  BY DEF Untouched, Live, executors
<1>2. source' = source
  BY DEF executors
<1> QED BY <1>1, <1>2, UntouchedMeans DEF Untouched

\* What a patcher does to the cache: it puts a Device in place that differs in what is
\* crossed only.
LEMMA PatchMeans ==
  ASSUME Typed, Copies, NEW p \in Patcher, PatchClone(p) \/ PatchWrite(p) \/ PatchEnd(p)
  PROVE  /\ UNCHANGED <<current, lists, executors, started, pc, locals, ops, wanted>>
         /\ crossed \subseteq crossed' /\ crossed' \subseteq Source
         /\ toggled' \in BOOLEAN /\ (toggled => toggled')
         /\ \/ cached' = cached
            \/ /\ cached # NoDevice /\ cached' \in Device
               /\ \A s : s \notin crossed' => (s \in cached'.events <=> s \in cached.events)
               /\ cached'.blocked = cached.blocked \/ toggled'
         /\ Copies'
<1>1. CASE PatchClone(p)
  <2>1. /\ UNCHANGED <<cached, current, lists, executors, started, pc, locals, ops, history>>
        /\ cached # NoDevice
        /\ patch' = [patch EXCEPT ![p] = "write"] /\ copy' = [copy EXCEPT ![p] = cached]
    BY <1>1 DEF PatchClone
  <2>2. Copies'
    BY <2>1 DEF Typed, Copies, Agree, history
  <2> QED BY <2>1, <2>2 DEF Typed, Copies, history
<1>2. CASE PatchWrite(p) /\ cached = NoDevice
  <2>1. /\ UNCHANGED <<cached, current, lists, executors, started, pc, locals, ops, history, copy>>
        /\ patch' = [patch EXCEPT ![p] = "idle"]
    BY <1>2 DEF PatchWrite, history
  <2>2. Copies'
    BY <1>2, <2>1 DEF Copies, Agree, history
  <2> QED BY <2>1, <2>2 DEF Typed, Copies, history
<1>3. CASE PatchWrite(p) /\ cached # NoDevice
  <2>1. PICK device \in Device :
          /\ Replace(device)
          /\ crossed' = crossed \union Differing(copy[p], device)
          /\ patch' = [patch EXCEPT ![p] = "request"]
    BY <1>3 DEF PatchWrite
  <2>2. /\ UNCHANGED <<current, lists, executors, started, pc, locals, ops, wanted, copy>>
        /\ patch[p] = "write"
    BY <1>3 DEF PatchWrite
  <2>3. cached' = device /\ toggled' = (toggled \/ device.blocked # cached.blocked)
    BY <2>1 DEF Replace
  <2>4. copy[p] \in Device /\ Agree(copy[p].events, cached.events)
    BY <1>3, <2>2 DEF Copies
  <2>5. /\ crossed \subseteq crossed' /\ crossed' \subseteq Source
        /\ \A s : s \notin crossed' => (s \in device.events <=> s \in copy[p].events)
    BY <2>1, <2>4 DEF Copies, Differing, Device
  <2>6. \A s : s \notin crossed' => (s \in device.events <=> s \in cached.events)
    BY <2>4, <2>5 DEF Agree
  <2>7. Copies'
    <3>1. patch' \in [Patcher -> {"idle", "write", "request"}]
      BY <2>1 DEF Copies
    <3>2. ASSUME NEW q \in Patcher, patch'[q] # "idle"
          PROVE  copy'[q] \in Device /\ Agree(copy[q].events, device.events)'
      <4>1. patch[q] # "idle"
        BY <2>1, <2>2, <3>2 DEF Copies
      <4>2. copy[q] \in Device /\ Agree(copy[q].events, cached.events)
        BY <1>3, <4>1 DEF Copies
      <4> QED BY <2>2, <2>5, <2>6, <4>2 DEF Agree
    <3> QED BY <2>2, <2>3, <2>5, <3>1, <3>2 DEF Copies, Agree
  <2>8. toggled' \in BOOLEAN /\ (toggled => toggled')
    BY <2>3 DEF Typed
  <2>9. cached'.blocked = cached.blocked \/ toggled'
    BY <2>3
  <2> QED BY <1>3, <2>2, <2>3, <2>5, <2>6, <2>7, <2>8, <2>9
<1>4. CASE PatchEnd(p)
  <2>1. /\ UNCHANGED <<current, lists, executors, started, pc, locals, ops, wanted, copy, crossed>>
        /\ patch[p] = "request" /\ patch' = [patch EXCEPT ![p] = "idle"]
        /\ \/ UNCHANGED <<cached, toggled>>
           \/ cached # NoDevice /\ Replace(copy[p])
    BY <1>4 DEF PatchEnd
  <2>2. CASE UNCHANGED <<cached, toggled>>
    <3>1. Copies'
      BY <2>1, <2>2 DEF Copies, Agree
    <3> QED BY <2>1, <2>2, <3>1 DEF Typed, Copies
  <2>3. CASE cached # NoDevice /\ Replace(copy[p])
    <3>1. cached' = copy[p] /\ toggled' = (toggled \/ copy[p].blocked # cached.blocked)
      BY <2>3 DEF Replace
    <3>2. copy[p] \in Device /\ Agree(copy[p].events, cached.events)
      BY <2>1, <2>3 DEF Copies
    <3>3. Copies'
      <4>1. patch' \in [Patcher -> {"idle", "write", "request"}]
        BY <2>1 DEF Copies
      <4>2. ASSUME NEW q \in Patcher, patch'[q] # "idle"
            PROVE  copy[q] \in Device /\ Agree(copy[q].events, copy[p].events)
        <5>1. patch[q] # "idle"
          BY <2>1, <4>2 DEF Copies
        <5>2. copy[q] \in Device /\ Agree(copy[q].events, cached.events)
          BY <2>3, <5>1 DEF Copies
        <5> QED BY <3>2, <5>2 DEF Agree
      <4> QED BY <2>1, <3>1, <4>1, <4>2 DEF Copies, Agree
    <3>4. toggled' \in BOOLEAN /\ (toggled => toggled')
      BY <3>1 DEF Typed
    <3>5. \A s : s \notin crossed' => (s \in cached'.events <=> s \in cached.events)
      BY <2>1, <3>1, <3>2 DEF Agree
    <3>6. cached'.blocked = cached.blocked \/ toggled'
      BY <3>1
    <3>7. crossed \subseteq crossed' /\ crossed' \subseteq Source
      BY <2>1 DEF Copies
    <3> QED BY <2>1, <2>3, <3>1, <3>2, <3>3, <3>4, <3>5, <3>6, <3>7
  <2> QED BY <2>1, <2>2, <2>3
<1> QED BY <1>1, <1>2, <1>3, <1>4

LEMMA OthersAuto ==
  ASSUME AutoInv,
         \/ Pump \/ Shutdown \/ Remove
         \/ \E p \in Patcher : PatchClone(p) \/ PatchWrite(p) \/ PatchEnd(p)
  PROVE  AutoInv'
<1>1. Typed /\ NothingYet /\ Counted /\ Copies /\ \A c \in Caller : Listed(c) /\ Scheduled(c) /\ Edited(c)
  BY DEF AutoInv
<1>2. /\ UNCHANGED <<current, lists, executors, started, pc, locals, ops, wanted>>
      /\ crossed \subseteq crossed'
      /\ toggled' \in BOOLEAN /\ (toggled => toggled')
      /\ \/ cached' \in {cached, NoDevice}
         \/ /\ cached # NoDevice /\ cached' \in Device
            /\ \A s : s \notin crossed' => (s \in cached'.events <=> s \in cached.events)
            /\ cached'.blocked = cached.blocked \/ toggled'
      /\ Copies'
  <2>1. ASSUME NEW p \in Patcher, PatchClone(p) \/ PatchWrite(p) \/ PatchEnd(p)
        PROVE  /\ UNCHANGED <<current, lists, executors, started, pc, locals, ops, wanted>>
               /\ crossed \subseteq crossed'
               /\ toggled' \in BOOLEAN /\ (toggled => toggled')
               /\ \/ cached' \in {cached, NoDevice}
                  \/ /\ cached # NoDevice /\ cached' \in Device
                     /\ \A s : s \notin crossed' => (s \in cached'.events <=> s \in cached.events)
                     /\ cached'.blocked = cached.blocked \/ toggled'
               /\ Copies'
    BY <1>1, <2>1, PatchMeans
  <2>2. CASE Pump \/ Shutdown
    <3>1. UNCHANGED <<cached, current, lists, executors, started, pc, locals, ops, patches, history>>
      BY <2>2 DEF Pump, Shutdown
    <3>2. Copies'
      BY <1>1, <3>1, CopiesKept DEF history
    <3> QED BY <1>1, <3>1, <3>2 DEF history, Typed
  <2>3. CASE Remove
    <3>1. /\ UNCHANGED <<current, lists, executors, started, pc, locals, ops, patches, history>>
          /\ cached' = NoDevice
      BY <2>3 DEF Remove
    <3>2. Copies'
      BY <1>1, <3>1 DEF Copies, patches, history
    <3> QED BY <1>1, <3>1, <3>2 DEF history, Typed
  <2> QED BY <2>1, <2>2, <2>3
<1>3. cached' = NoDevice \/
        /\ cached # NoDevice
        /\ \A s : s \notin crossed' => (s \in cached'.events <=> s \in cached.events)
        /\ cached'.blocked = cached.blocked \/ toggled'
  BY <1>2
<1>4. Used' = Used /\ Untouched /\ \A e \in Executor : Present(e)' <=> Present(e)
  BY <1>2, Unmoved
<1>5. Typed'
  <2>1. cached' \in Device \union {NoDevice}
    BY <1>1, <1>2 DEF Typed
  <2> QED BY <1>1, <1>2, <2>1 DEF Typed, executors, locals
<1>6. NothingYet'
  BY <1>1, <1>2 DEF NothingYet, executors
<1>7. Counted'
  BY <1>1, <1>2, <1>4 DEF Counted, locals
<1>8. ASSUME NEW c \in Caller PROVE Listed(c)'
  BY <1>1, <1>2, <1>4, <1>8 DEF Listed, Untouched, locals
<1>9. ASSUME NEW c \in Caller PROVE Scheduled(c)'
  <2>1. {source[e] : e \in {y \in Executor : Present(y)}}'
          = {source[e] : e \in {y \in Executor : Present(y)}}
    BY <1>2, Unmoved
  <2>2. /\ Scheduled(c) /\ pc' = pc /\ todo' = todo /\ started' = started /\ source' = source
        /\ \A e \in Executor : (Live(e)' <=> Live(e)) /\ (Present(e)' <=> Present(e))
    BY <1>1, <1>2, Unmoved DEF locals, executors
  <2>3. cached' # NoDevice /\ pc'[c] = "claim" => Agree(todo[c], Valid)'
    BY <1>2, <1>3, <2>2 DEF Scheduled, Agree, Valid
  <2>4. cached' # NoDevice /\ pc'[c] \in {"schedule", "start"} =>
          Agree(Valid, todo[c] \union {source[e] : e \in {y \in Executor : Present(y)}})'
    BY <1>2, <1>3, <2>1, <2>2 DEF Scheduled, Agree, Valid
  <2>5. cached' # NoDevice /\ pc'[c] = "idle" /\ started' =>
          /\ \A e \in Executor : Live(e)' /\ source'[e] \notin crossed' => source'[e] \in Valid'
          /\ ~ toggled' /\ ~ cached'.blocked =>
               \A s \in Valid' \ crossed' : \E e \in Executor : Live(e)' /\ source'[e] = s
          /\ ~ toggled' /\ cached'.blocked => \A e \in Executor : ~ Live(e)'
    BY <1>2, <1>3, <2>2 DEF Scheduled, Valid
  <2>6. cached' # NoDevice /\ pc'[c] \in {"claim", "schedule", "start"} /\ cached'.blocked => toggled'
    BY <1>2, <1>3, <2>2 DEF Scheduled
  <2>7. /\ \A e, f \in Executor : Present(e)' /\ Present(f)' /\ source'[e] = source'[f] => e = f
        /\ pc'[c] \in {"schedule", "start"} =>
             \A e \in Executor : Present(e)' => source'[e] \notin todo'[c]
    BY <2>2 DEF Scheduled
  <2> QED BY <2>3, <2>4, <2>5, <2>6, <2>7 DEF Scheduled
<1>10. ASSUME NEW c \in Caller PROVE Edited(c)'
  BY <1>1, <1>2, <1>3 DEF Edited, Agree, locals
<1> QED BY <1>2, <1>5, <1>6, <1>7, <1>8, <1>9, <1>10 DEF AutoInv

\* Where there is one caller, what holds of it holds of all.
LEMMA ForAll ==
  ASSUME OneCaller, NEW c \in Caller, Typed', NothingYet', Copies', Used' = 1 .. Cardinality(Used'),
         Cardinality(Used') + (IF pc'[c] \in {"claim", "schedule", "start"}
                               THEN Cardinality(todo'[c]) ELSE 0)
           <= (IF pc'[c] \in {"edit", "pop", "stop", "lookup"} THEN ops' ELSE ops' + 1) * Sources,
         Listed(c)', Scheduled(c)', Edited(c)'
  PROVE  AutoInv'
<1>1. \A d \in Caller : d = c
  BY DEF OneCaller
<1> QED BY <1>1 DEF AutoInv, Counted

LEMMA BeginAuto ==
  ASSUME OneCaller, AutoInv, NEW c \in Caller, NEW s \in Source, AddEvent(c, s) \/ RemoveEvent(c, s)
  PROVE  AutoInv'
<1>1. Typed /\ NothingYet /\ Counted /\ Copies /\ Listed(c) /\ Scheduled(c) /\ Edited(c)
  BY DEF AutoInv
<1>2. /\ UNCHANGED <<cached, current, lists, executors, started, mine, old, todo, fresh, patches,
                     toggled, crossed>>
      /\ cached # NoDevice /\ cached \in Device /\ started /\ pc[c] = "idle"
      /\ ops < MaxOps /\ ops' = ops + 1
  BY <1>1 DEF AddEvent, RemoveEvent, Begin, Typed
<1>3. /\ pc' = [pc EXCEPT ![c] = pc'[c]] /\ pc'[c] \in {"edit", "pop"}
      /\ clone' = [clone EXCEPT ![c] = clone'[c]] /\ clone'[c] \in Device
      /\ Agree(clone'[c].events, wanted') /\ wanted' \subseteq Source
      /\ pc'[c] = "pop" => Agree(cached.events, wanted')
  <2>1. Agree(cached.events, wanted)
    BY <1>1, <1>2 DEF Edited
  <2>2. CASE AddEvent(c, s)
    BY <1>1, <1>2, <2>1, <2>2 DEF AddEvent, Goto, Typed, Device, Agree
  <2>3. CASE RemoveEvent(c, s)
    BY <1>1, <1>2, <2>1, <2>3 DEF RemoveEvent, Goto, Typed, Device, Agree
  <2> QED BY <2>2, <2>3
<1>4. /\ Used' = Used
      /\ \A e \in Executor : (Live(e)' <=> Live(e)) /\ (Present(e)' <=> Present(e))
  BY <1>2, Unmoved
<1>5. Typed'
  <2>1. pc' \in [Caller -> Step] /\ clone' \in [Caller -> Device \union {NoDevice}]
    BY <1>1, <1>3 DEF Typed, Step
  <2>2. ops' \in 0..MaxOps
    BY <1>1, <1>2, AutoAssumption DEF Typed
  <2> QED BY <1>1, <1>2, <1>3, <2>1, <2>2 DEF Typed, executors
<1>6. NothingYet'
  BY <1>2 DEF NothingYet
<1>7. Cardinality(Used) <= (ops + 1) * Sources /\ Used = 1 .. Cardinality(Used)
  BY <1>1, <1>2, CountedFor DEF Typed
<1>8. Listed(c)'
  BY <1>1, <1>2, <1>3, <1>4 DEF Listed, executors
<1>9. Scheduled(c)'
  BY <1>1, <1>2, <1>3, <1>4 DEF Scheduled, Agree, Valid, executors
<1>10. Edited(c)'
  BY <1>2, <1>3 DEF Edited, Agree
<1>11. Cardinality(Used') + 0 <= ops' * Sources
  BY <1>2, <1>4, <1>7, UsedFinite
<1>12. Copies'
  BY <1>1, <1>2, CopiesKept
<1> QED BY <1>3, <1>4, <1>5, <1>6, <1>7, <1>8, <1>9, <1>10, <1>11, <1>12, ForAll

LEMMA StartAuto ==
  ASSUME OneCaller, AutoInv, NEW c \in Caller, Start(c)
  PROVE  AutoInv'
<1>1. Typed /\ NothingYet /\ Counted /\ Copies /\ Listed(c) /\ Scheduled(c) /\ Edited(c)
  BY DEF AutoInv
<1>2. /\ UNCHANGED <<cached, lists, executors, locals, ops, patches, history>>
      /\ ~ started /\ started' = TRUE /\ current' = None /\ pc' = [pc EXCEPT ![c] = "lookup"]
  BY DEF Start, Goto
<1>3. pc[c] = "idle" /\ ops = 0 /\ pc'[c] = "lookup" /\ \A e \in Executor : state[e] = "free"
  BY <1>1, <1>2 DEF NothingYet, Typed
<1>4. /\ Used' = Used /\ Used = {}
      /\ \A e \in Executor : ~ Live(e)' /\ ~ Present(e)' /\ state'[e] = "free"
  BY <1>2, <1>3, Unmoved DEF Used, Live, Present, executors
<1>5. Typed'
  BY <1>1, <1>2 DEF Typed, executors, locals, history, Step, None
<1>6. NothingYet'
  BY <1>2 DEF NothingYet
<1>7. Cardinality(Used') = 0 /\ Used' = 1 .. Cardinality(Used')
  BY <1>1, <1>4, FS_EmptySet DEF Counted
<1>8. Cardinality(Used') + 0 <= ops' * Sources
  BY <1>2, <1>3, <1>7, Budget
<1>9. Listed(c)'
  BY <1>2, <1>3, <1>4 DEF Listed
<1>10. Scheduled(c)'
  BY <1>2, <1>3, <1>4 DEF Scheduled, Agree, Valid
<1>11. Edited(c)'
  BY <1>1, <1>2, <1>3 DEF Edited, Agree, history, locals
<1>30. Copies'
  BY <1>1, <1>2, CopiesKept DEF history
<1> QED BY <1>3, <1>5, <1>6, <1>7, <1>8, <1>9, <1>10, <1>11, <1>30, ForAll

LEMMA EditAuto ==
  ASSUME OneCaller, AutoInv, NEW c \in Caller, Edit(c)
  PROVE  AutoInv'
<1>1. Typed /\ NothingYet /\ Counted /\ Copies /\ Listed(c) /\ Scheduled(c) /\ Edited(c)
  BY DEF AutoInv
<1>2. /\ UNCHANGED <<current, lists, executors, started, locals, ops, patches, wanted, toggled>>
      /\ pc[c] = "edit" /\ started /\ pc' = [pc EXCEPT ![c] = pc'[c]]
      /\ \/ cached' = NoDevice /\ cached = NoDevice /\ pc'[c] = "idle" /\ crossed' = crossed
         \/ /\ cached' = clone[c] /\ pc'[c] = "pop" /\ cached # NoDevice
            /\ crossed' = IF \A p \in Patcher : patch[p] = "idle" THEN crossed
                          ELSE crossed \union Differing(cached, clone[c])
  BY <1>1 DEF Edit, Goto, NothingYet, Typed
<1>3. /\ Used' = Used
      /\ \A e \in Executor : (Live(e)' <=> Live(e)) /\ (Present(e)' <=> Present(e))
  BY <1>2, Unmoved
<1>4. Typed'
  BY <1>1, <1>2 DEF Typed, executors, locals, Step
<1>5. NothingYet'
  BY <1>2 DEF NothingYet
<1>6. Cardinality(Used) <= ops * Sources /\ Used = 1 .. Cardinality(Used)
  BY <1>1, <1>2, CountedFor DEF Typed
<1>7. Cardinality(Used) <= (ops + 1) * Sources
  BY <1>1, <1>6, UsedFinite, Budget DEF Typed
<1>8. Listed(c)'
  BY <1>1, <1>2, <1>3 DEF Listed, executors, locals
<1>9. Scheduled(c)'
  BY <1>1, <1>2, <1>3 DEF Scheduled, executors, locals
<1>10. Edited(c)'
  BY <1>1, <1>2 DEF Edited, Agree, locals
<1>12. Copies'
  <2>1. CASE cached = NoDevice
    BY <1>1, <1>2, <2>1 DEF Copies, Agree, patches
  <2>2. CASE cached # NoDevice /\ \A p \in Patcher : patch[p] = "idle"
    BY <1>1, <1>2, <2>2 DEF Copies, patches
  <2>3. CASE cached # NoDevice /\ ~ \A p \in Patcher : patch[p] = "idle"
    <3>1. cached \in Device /\ clone[c] \in Device
      BY <1>1, <1>2, <2>3 DEF Typed, Edited
    <3>2. crossed' = crossed \union Differing(cached, clone[c]) /\ cached' = clone[c]
      BY <1>1, <1>2, <2>3
    <3>3. crossed' \subseteq Source
      BY <1>1, <3>1, <3>2 DEF Copies, Differing, Device
    <3>4. ASSUME NEW p \in Patcher, patch'[p] # "idle"
          PROVE  copy'[p] \in Device /\ Agree(copy[p].events, cached.events)'
      <4>1. copy[p] \in Device /\ Agree(copy[p].events, cached.events)
        BY <1>1, <1>2, <2>3, <3>4 DEF Copies, patches
      <4> QED BY <1>2, <3>2, <4>1 DEF Agree, Differing, patches
    <3> QED BY <1>1, <1>2, <3>3, <3>4 DEF Copies, patches
  <2> QED BY <2>1, <2>2, <2>3
<1>11. Cardinality(Used') + 0 <= (IF pc'[c] = "pop" THEN ops' ELSE ops' + 1) * Sources
  BY <1>2, <1>3, <1>6, <1>7, UsedFinite
<1> QED BY <1>2, <1>3, <1>4, <1>5, <1>6, <1>8, <1>9, <1>10, <1>11, <1>12, ForAll

LEMMA PopAuto ==
  ASSUME OneCaller, AutoInv, NEW c \in Caller, Pop(c)
  PROVE  AutoInv'
<1>1. Typed /\ NothingYet /\ Counted /\ Copies /\ Listed(c) /\ Scheduled(c) /\ Edited(c)
  BY DEF AutoInv
<1>2. /\ UNCHANGED <<cached, lists, executors, started, clone, mine, todo, fresh, ops, patches, history>>
      /\ pc[c] = "pop" /\ pc' = [pc EXCEPT ![c] = "stop"] /\ started
      /\ old' = [old EXCEPT ![c] = current] /\ current' = None
  BY <1>1 DEF Pop, Goto, NothingYet
<1>3. pc'[c] = "stop" /\ old'[c] = current
  BY <1>1, <1>2 DEF Typed
<1>4. /\ Used' = Used
      /\ \A e \in Executor : (Live(e)' <=> Live(e)) /\ (Present(e)' <=> Present(e))
  BY <1>2, Unmoved
<1>5. Typed'
  BY <1>1, <1>2 DEF Typed, executors, history, Step, None
<1>6. NothingYet'
  BY <1>2 DEF NothingYet
<1>7. Cardinality(Used') + 0 <= ops' * Sources /\ Used' = 1 .. Cardinality(Used')
  BY <1>1, <1>2, <1>4, CountedFor, UsedFinite
<1>8. Listed(c)'
  BY <1>1, <1>2, <1>3, <1>4 DEF Listed, executors
<1>9. Scheduled(c)'
  BY <1>1, <1>2, <1>3, <1>4 DEF Scheduled, Agree, Valid, executors
<1>10. Edited(c)'
  BY <1>1, <1>2, <1>3 DEF Edited, Agree, history
<1>30. Copies'
  BY <1>1, <1>2, CopiesKept DEF history
<1> QED BY <1>3, <1>5, <1>6, <1>7, <1>8, <1>9, <1>10, <1>30, ForAll

\* Whatever read before the restart has been told to stop.

LEMMA StopOldAuto ==
  ASSUME OneCaller, AutoInv, NEW c \in Caller, StopOld(c)
  PROVE  AutoInv'
<1>1. Typed /\ NothingYet /\ Counted /\ Copies /\ Listed(c) /\ Scheduled(c) /\ Edited(c)
  BY DEF AutoInv
<1>2. /\ UNCHANGED <<cached, current, lists, state, source, list, started, locals, ops, patches, history>>
      /\ pc[c] = "stop" /\ pc' = [pc EXCEPT ![c] = "lookup"] /\ started
      /\ stopped' = [e \in Executor |-> stopped[e] \/ (old[c] # None /\ list[e] = old[c])]
  BY <1>1 DEF StopOld, Goto, NothingYet
<1>3. pc'[c] = "lookup"
  BY <1>1, <1>2 DEF Typed
<1>4. ASSUME NEW e \in Executor PROVE ~ Live(e)'
  <2>1. Live(e) => old[c] # None /\ list[e] = old[c]
    BY <1>1, <1>2 DEF Listed
  <2> QED BY <1>2, <2>1 DEF Live
<1>5. Used' = Used /\ \A e \in Executor : state[e] # "made" /\ ~ Present(e)'
  BY <1>1, <1>2, <1>4 DEF Used, Listed, Present
<1>6. Typed'
  <2>1. stopped' \in [Executor -> BOOLEAN]
    BY <1>2
  <2> QED BY <1>1, <1>2, <2>1 DEF Typed, locals, history, Step
<1>7. NothingYet'
  BY <1>2 DEF NothingYet
<1>8. Cardinality(Used') + 0 <= ops' * Sources /\ Used' = 1 .. Cardinality(Used')
  BY <1>1, <1>2, <1>5, CountedFor, UsedFinite
<1>9. Listed(c)'
  BY <1>1, <1>2, <1>3, <1>4, <1>5 DEF Listed, locals
<1>10. Scheduled(c)'
  BY <1>3, <1>5 DEF Scheduled, Agree, Valid
<1>11. Edited(c)'
  BY <1>1, <1>2, <1>3 DEF Edited, Agree, locals, history
<1>30. Copies'
  BY <1>1, <1>2, CopiesKept DEF history
<1> QED BY <1>3, <1>6, <1>7, <1>8, <1>9, <1>10, <1>11, <1>30, ForAll

\* After a restart has stopped the executors nothing reads until new ones are started.

LEMMA NoneLive ==
  ASSUME NEW c \in Caller, Listed(c), pc[c] \in {"lookup", "claim"}
  PROVE  /\ current = None
         /\ \A e \in Executor : ~ Live(e) /\ state[e] # "made" /\ ~ Present(e)
  BY DEF Listed, Present

LEMMA LookupAuto ==
  ASSUME OneCaller, AutoInv, NEW c \in Caller, Lookup(c)
  PROVE  AutoInv'
<1>1. Typed /\ NothingYet /\ Counted /\ Copies /\ Listed(c) /\ Scheduled(c) /\ Edited(c)
  BY DEF AutoInv
<1>2. /\ UNCHANGED <<cached, current, lists, executors, started, clone, mine, old, fresh,
                     ops, patches, history>>
      /\ pc[c] = "lookup" /\ started
      /\ \/ /\ pc' = [pc EXCEPT ![c] = "idle"] /\ todo' = todo
            /\ cached = NoDevice \/ cached.blocked \/ cached.events = {}
         \/ /\ pc' = [pc EXCEPT ![c] = "claim"] /\ todo' = [todo EXCEPT ![c] = Valid]
            /\ cached # NoDevice /\ ~ cached.blocked
  BY <1>1 DEF Lookup, Goto, NothingYet, Valid
<1>3. /\ current = None /\ Used' = Used
      /\ \A e \in Executor : ~ Live(e)' /\ ~ Present(e)' /\ state'[e] # "made"
  BY <1>1, <1>2, Unmoved, NoneLive DEF executors
<1>4. Typed'
  <2>1. cached # NoDevice => Valid \in SUBSET Source
    BY <1>1 DEF Typed, Device, Valid
  <2>2. pc' \in [Caller -> Step] /\ todo' \in [Caller -> SUBSET Source]
    BY <1>1, <1>2, <2>1 DEF Typed, Step
  <2> QED BY <1>1, <1>2, <2>2 DEF Typed, executors, history
<1>5. NothingYet'
  BY <1>2 DEF NothingYet
<1>6. Cardinality(Used) <= ops * Sources /\ Used = 1 .. Cardinality(Used)
      /\ Cardinality(Used) \in Nat /\ ops \in Nat
  BY <1>1, <1>2, CountedFor, UsedFinite DEF Typed
<1>7. PICK a, b : a = ops * Sources /\ b = (ops + 1) * Sources
  OBVIOUS
<1>8. a \in Nat /\ b = a + Sources /\ Sources \in Nat
  BY <1>6, <1>7, Budget
<1>30. Copies'
  BY <1>1, <1>2, CopiesKept DEF history
<1>9. CASE pc' = [pc EXCEPT ![c] = "idle"]
  <2>1. pc'[c] = "idle" /\ (cached = NoDevice \/ cached.blocked \/ cached.events = {})
    BY <1>1, <1>2, <1>9 DEF Typed
  <2>2. Cardinality(Used') + 0 <= (ops' + 1) * Sources
    BY <1>2, <1>3, <1>6, <1>7, <1>8
  <2>3. Listed(c)'
    BY <1>3, <2>1 DEF Listed
  <2>4. Scheduled(c)'
    BY <1>2, <1>3, <2>1 DEF Scheduled, Agree, Valid
  <2>5. Edited(c)'
    BY <1>1, <1>2, <2>1 DEF Edited, Agree, history
  <2> QED BY <1>3, <1>4, <1>5, <1>6, <2>1, <2>2, <2>3, <2>4, <2>5, <1>30, ForAll
<1>10. CASE pc' # [pc EXCEPT ![c] = "idle"]
  <2>1. /\ pc'[c] = "claim" /\ todo'[c] = Valid /\ cached # NoDevice /\ ~ cached.blocked
    BY <1>1, <1>2, <1>10 DEF Typed
  <2>2. Cardinality(todo'[c]) \in Nat /\ Cardinality(todo'[c]) <= Sources
    <3>1. todo'[c] \subseteq Source
      BY <1>4 DEF Typed
    <3>2. IsFiniteSet(todo'[c]) /\ Cardinality(todo'[c]) <= Cardinality(Source)
      BY <3>1, AutoAssumption, FS_Subset
    <3> QED BY <3>2, FS_CardinalityType DEF Sources
  <2>3. Cardinality(Used') + Cardinality(todo'[c]) <= (ops' + 1) * Sources
    <3>1. PICK n, m : n = Cardinality(Used) /\ m = Cardinality(todo'[c])
      OBVIOUS
    <3>2. n + m <= b
      BY <1>6, <1>7, <1>8, <2>2, <3>1
    <3> QED BY <1>2, <1>3, <1>7, <3>1, <3>2
  <2>4. Listed(c)'
    BY <1>2, <1>3, <2>1 DEF Listed
  <2>5. Scheduled(c)'
    BY <1>2, <1>3, <2>1 DEF Scheduled, Agree, Valid
  <2>6. Edited(c)'
    BY <1>1, <1>2, <2>1 DEF Edited, Agree, history
  <2> QED BY <1>3, <1>4, <1>5, <1>6, <2>1, <2>3, <2>4, <2>5, <2>6, <1>30, ForAll
<1> QED BY <1>9, <1>10

LEMMA ClaimAuto ==
  ASSUME OneCaller, AutoInv, NEW c \in Caller, Claim(c)
  PROVE  AutoInv'
<1>1. Typed /\ NothingYet /\ Counted /\ Copies /\ Listed(c) /\ Scheduled(c) /\ Edited(c)
  BY DEF AutoInv
<1>2. /\ UNCHANGED <<cached, executors, started, clone, old, todo, fresh, ops, patches, history>>
      /\ pc[c] = "claim" /\ started
      /\ pc' = [pc EXCEPT ![c] = IF todo[c] = {} THEN "idle" ELSE "schedule"]
      /\ mine' = [mine EXCEPT ![c] = current']
  BY <1>1 DEF Claim, Goto, NothingYet
<1>3. /\ current = None /\ Used' = Used
      /\ \A e \in Executor : ~ Live(e)' /\ ~ Present(e)' /\ state'[e] # "made"
  BY <1>1, <1>2, Unmoved, NoneLive DEF executors
<1>4. lists' = lists + 1 /\ current' = lists + 1
  BY <1>3 DEF Claim
<1>5. pc'[c] = (IF todo[c] = {} THEN "idle" ELSE "schedule") /\ mine'[c] = current' /\ current' # None
  BY <1>1, <1>2, <1>4 DEF Typed, None
<1>6. Typed'
  BY <1>1, <1>2, <1>4 DEF Typed, executors, history, Step
<1>7. NothingYet'
  BY <1>2 DEF NothingYet
<1>8. Cardinality(Used') + Cardinality(todo'[c]) <= (ops' + 1) * Sources
      /\ Used' = 1 .. Cardinality(Used')
  BY <1>1, <1>2, <1>3, CountedFor
<1>12. Cardinality(Used') + (IF pc'[c] \in {"claim", "schedule", "start"}
                             THEN Cardinality(todo'[c]) ELSE 0) <= (ops' + 1) * Sources
  <2>1. CASE pc'[c] = "schedule"
    BY <1>8, <2>1
  <2>2. CASE pc'[c] = "idle"
    <3>1. Cardinality(todo'[c]) = 0 /\ Cardinality(Used') \in Nat
      BY <1>2, <1>3, <1>5, <2>2, UsedFinite, FS_EmptySet
    <3>. QED  BY <1>8, <2>2, <3>1
  <2>. QED  BY <1>5, <2>1, <2>2
<1>9. Listed(c)'
  BY <1>3, <1>5 DEF Listed
<1>10. Scheduled(c)'
  <2>1. cached' # NoDevice => Agree(todo[c], Valid)' /\ (cached'.blocked => toggled')
    BY <1>1, <1>2 DEF Scheduled, Agree, Valid, history
  <2>2. {source[e] : e \in {x \in Executor : Present(x)}}' = {}
    BY <1>3
  <2>3. CASE pc'[c] = "schedule"
    <3>1. cached' # NoDevice =>
            Agree(Valid, todo[c] \union {source[e] : e \in {x \in Executor : Present(x)}})'
      BY <2>1, <2>2 DEF Agree
    <3> QED BY <1>3, <2>1, <2>3, <3>1 DEF Scheduled
  <2>4. CASE pc'[c] = "idle"
    <3>1. todo'[c] = {}
      BY <1>2, <1>5, <2>4
    <3>2. cached' # NoDevice => \A s \in Valid' : s \in crossed'
      BY <2>1, <3>1 DEF Agree
    <3> QED BY <1>3, <2>1, <2>4, <3>2 DEF Scheduled
  <2> QED BY <1>5, <2>3, <2>4
<1>11. Edited(c)'
  BY <1>1, <1>2, <1>5 DEF Edited, Agree, history
<1>30. Copies'
  BY <1>1, <1>2, CopiesKept DEF history
<1> QED BY <1>5, <1>6, <1>7, <1>8, <1>12, <1>9, <1>10, <1>11, <1>30, ForAll

\* The next executor: there is one, it is free, and the budget pays for it.

LEMMA NextExecutor ==
  ASSUME Typed, Counted, NEW c \in Caller, pc[c] = "schedule", NEW s \in todo[c]
  PROVE  LET e == 1 + Cardinality(Used) IN
         /\ e \in Executor /\ state[e] = "free"
         /\ Used \union {e} = 1 .. Cardinality(Used \union {e})
         /\ Cardinality(Used \union {e}) + Cardinality(todo[c] \ {s}) <= (ops + 1) * Sources
<1>1. PICK n, m : n = Cardinality(Used) /\ m = Cardinality(todo[c])
  OBVIOUS
<1>2. PICK b, top : b = (ops + 1) * Sources /\ top = (MaxOps + 1) * Sources
  OBVIOUS
<1>3. Used = 1 .. n /\ n + m <= b /\ n \in Nat
  BY <1>1, <1>2, CountedFor, UsedFinite
<1>4. b \in Nat /\ b <= top /\ top \in Nat
  <2>1. ops \in Nat /\ ops + 1 \in Nat /\ MaxOps + 1 \in Nat
    BY AutoAssumption DEF Typed
  <2> QED BY <1>2, <2>1, Budget DEF Typed
<1>5. IsFiniteSet(todo[c]) /\ m \in Nat
  <2>1. todo[c] \subseteq Source
    BY DEF Typed
  <2> QED BY <1>1, <2>1, AutoAssumption, FS_Subset, FS_CardinalityType
<1>6. m # 0 /\ Cardinality(todo[c] \ {s}) = m - 1
  BY <1>1, <1>5, FS_EmptySet, FS_RemoveElement
<1>7. n + 1 \in 1 .. top
  BY <1>3, <1>4, <1>5, <1>6
<1>8. Executor = 1 .. top
  BY <1>2 DEF Executor, Sources
<1>9. n + 1 \notin Used
  BY <1>3
<1>10. state[n + 1] = "free"
  BY <1>7, <1>8, <1>9 DEF Used
<1>11. Used \union {n + 1} = 1 .. n + 1
  BY <1>3
<1>12. Cardinality(Used \union {n + 1}) = n + 1
  BY <1>1, <1>9, UsedFinite, FS_AddElement
<1>13. n + 1 + (m - 1) <= b
  BY <1>3, <1>5
<1>14. 1 + Cardinality(Used) = n + 1
  BY <1>1, <1>3
<1> QED BY <1>2, <1>6, <1>7, <1>8, <1>10, <1>11, <1>12, <1>13, <1>14

LEMMA ScheduleAuto ==
  ASSUME OneCaller, AutoInv, NEW c \in Caller, Schedule(c)
  PROVE  AutoInv'
<1>1. Typed /\ NothingYet /\ Counted /\ Copies /\ Listed(c) /\ Scheduled(c) /\ Edited(c)
  BY DEF AutoInv
<1>2. PICK s \in todo[c] : \E e : e = 1 + Cardinality(Used) /\
        /\ state' = [state EXCEPT ![e] = "made"]
        /\ source' = [source EXCEPT ![e] = s]
        /\ list' = [list EXCEPT ![e] = mine[c]]
        /\ fresh' = [fresh EXCEPT ![c] = e]
        /\ todo' = [todo EXCEPT ![c] = @ \ {s}]
  BY DEF Schedule, Used
<1>3. PICK e : /\ e = 1 + Cardinality(Used)
               /\ state' = [state EXCEPT ![e] = "made"]
               /\ source' = [source EXCEPT ![e] = s]
               /\ list' = [list EXCEPT ![e] = mine[c]]
               /\ fresh' = [fresh EXCEPT ![c] = e]
               /\ todo' = [todo EXCEPT ![c] = @ \ {s}]
  BY <1>2
<1>4. /\ UNCHANGED <<cached, current, lists, stopped, started, clone, mine, old, ops, patches, history>>
      /\ pc[c] = "schedule" /\ pc' = [pc EXCEPT ![c] = "start"] /\ started
  BY <1>1 DEF Schedule, Goto, NothingYet
<1>5. /\ e \in Executor /\ state[e] = "free"
      /\ Used \union {e} = 1 .. Cardinality(Used \union {e})
      /\ Cardinality(Used \union {e}) + Cardinality(todo[c] \ {s}) <= (ops + 1) * Sources
  BY <1>1, <1>3, <1>4, NextExecutor
<1>6. /\ pc'[c] = "start" /\ fresh'[c] = e /\ todo'[c] = todo[c] \ {s}
      /\ state'[e] = "made" /\ list'[e] = mine[c] /\ source'[e] = s
      /\ \A x \in Executor : x # e => /\ state'[x] = state[x] /\ list'[x] = list[x]
                                      /\ source'[x] = source[x]
  BY <1>1, <1>3, <1>4, <1>5 DEF Typed
<1>7. /\ Used' = Used \union {e}
      /\ \A x \in Executor : state[x] # "made"
      /\ \A x \in Executor : /\ Live(x)' <=> Live(x)
                             /\ Present(x)' <=> Present(x) \/ x = e
      /\ ~ Present(e) /\ ~ Live(e)
  BY <1>1, <1>4, <1>5, <1>6 DEF Used, Listed, Live, Present
<1>8. Typed'
  <2>1. /\ state' \in [Executor -> {"free", "made", "wait", "read", "put", "ended"}]
        /\ source' = [x \in Executor |-> source'[x]]
        /\ list' \in [Executor -> Nat]
    BY <1>1, <1>3, <1>5 DEF Typed
  <2>2. pc' \in [Caller -> Step] /\ todo' \in [Caller -> SUBSET Source]
        /\ fresh' \in [Caller -> Executor \union {None}]
    BY <1>1, <1>3, <1>4, <1>5 DEF Typed, Step
  <2> QED BY <1>1, <1>4, <2>1, <2>2 DEF Typed, history
<1>9. NothingYet'
  BY <1>4 DEF NothingYet
<1>10. Cardinality(Used') + Cardinality(todo'[c]) <= (ops' + 1) * Sources
       /\ Used' = 1 .. Cardinality(Used')
  BY <1>4, <1>5, <1>6, <1>7
<1>11. Listed(c)'
  BY <1>1, <1>4, <1>5, <1>6, <1>7 DEF Listed
<1>12. Scheduled(c)'
  <2>1. \A x \in Executor : Present(x) => source[x] \notin todo[c] /\ x # e
    BY <1>1, <1>4, <1>7 DEF Scheduled, Agree, Valid
  <2>2. \A x, y \in Executor : Present(x)' /\ Present(y)' /\ source'[x] = source'[y] => x = y
    BY <1>1, <1>5, <1>6, <1>7, <2>1 DEF Scheduled, Agree, Valid
  <2>3. \A x \in Executor : Present(x)' => source'[x] \notin todo'[c]
    BY <1>6, <1>7, <2>1
  <2>4. {source[x] : x \in {y \in Executor : Present(y)}}'
          = {source[x] : x \in {y \in Executor : Present(y)}} \union {s}
    <3>1. ASSUME NEW z \in {source[x] : x \in {y \in Executor : Present(y)}}
          PROVE  z \in {source[x] : x \in {y \in Executor : Present(y)}}'
      BY <1>6, <1>7, <2>1, <3>1
    <3>2. s \in {source[x] : x \in {y \in Executor : Present(y)}}'
      BY <1>5, <1>6, <1>7
    <3>3. ASSUME NEW z \in {source[x] : x \in {y \in Executor : Present(y)}}', z # s
          PROVE  z \in {source[x] : x \in {y \in Executor : Present(y)}}
      BY <1>6, <1>7, <3>3
    <3> QED BY <3>1, <3>2, <3>3
  <2>5. cached' # NoDevice =>
          /\ Agree(Valid, todo[c] \union {source[x] : x \in {y \in Executor : Present(y)}})'
          /\ cached'.blocked => toggled'
    BY <1>1, <1>4, <1>6, <2>4 DEF Scheduled, Agree, Valid, history
  <2> QED BY <1>6, <2>2, <2>3, <2>5 DEF Scheduled, Agree, Valid
<1>13. Edited(c)'
  BY <1>1, <1>4, <1>6 DEF Edited, Agree, history
<1>30. Copies'
  BY <1>1, <1>4, CopiesKept DEF history
<1> QED BY <1>6, <1>8, <1>9, <1>10, <1>11, <1>12, <1>13, <1>30, ForAll

LEMMA StartThreadAuto ==
  ASSUME OneCaller, AutoInv, NEW c \in Caller, StartThread(c)
  PROVE  AutoInv'
<1>1. Typed /\ NothingYet /\ Counted /\ Copies /\ Listed(c) /\ Scheduled(c) /\ Edited(c)
  BY DEF AutoInv
<1>2. PICK e : e = fresh[c]
  OBVIOUS
<1>3. /\ UNCHANGED <<cached, current, lists, source, list, started, locals, ops, patches, history>>
      /\ pc[c] = "start" /\ started
      /\ pc' = [pc EXCEPT ![c] = IF todo[c] = {} THEN "idle" ELSE "schedule"]
      /\ state' = [state EXCEPT ![e] = "wait"] /\ stopped' = [stopped EXCEPT ![e] = FALSE]
  BY <1>1, <1>2 DEF StartThread, Goto, NothingYet
<1>4. e \in Executor /\ state[e] = "made" /\ list[e] = current /\ current # None
  BY <1>1, <1>2, <1>3 DEF Listed
<1>5. pc'[c] = IF todo[c] = {} THEN "idle" ELSE "schedule"
  BY <1>1, <1>3 DEF Typed
<1>6. /\ Used' = Used
      /\ \A x \in Executor : /\ state'[x] # "made"
                             /\ Live(x)' <=> Present(x)
                             /\ Present(x)' <=> Present(x)
                             /\ Present(x) <=> Live(x) \/ x = e
  <2>1. \A x \in Executor : state[x] = "made" <=> x = e
    BY <1>1, <1>2, <1>3 DEF Listed
  <2>2. \A x \in Executor : state'[x] = IF x = e THEN "wait" ELSE state[x]
    BY <1>1, <1>3, <1>4 DEF Typed
  <2>3. \A x \in Executor : stopped'[x] = IF x = e THEN FALSE ELSE stopped[x]
    BY <1>1, <1>3, <1>4 DEF Typed
  <2> QED BY <2>1, <2>2, <2>3 DEF Used, Live, Present
<1>7. Typed'
  BY <1>1, <1>3, <1>4 DEF Typed, locals, history, Step
<1>8. NothingYet'
  BY <1>3 DEF NothingYet
<1>9. PICK n, m, b : n = Cardinality(Used) /\ m = Cardinality(todo[c]) /\ b = (ops + 1) * Sources
  OBVIOUS
<1>10. Used = 1 .. n /\ n + m <= b /\ n \in Nat /\ m \in Nat /\ b \in Nat
  <2>1. todo[c] \subseteq Source /\ ops \in Nat /\ ops + 1 \in Nat
    BY <1>1 DEF Typed
  <2>2. m \in Nat
    BY <1>9, <2>1, AutoAssumption, FS_Subset, FS_CardinalityType
  <2> QED BY <1>1, <1>3, <1>9, <2>1, <2>2, CountedFor, UsedFinite, Budget
<1>11. Cardinality(Used') + (IF pc'[c] \in {"claim", "schedule", "start"}
                             THEN Cardinality(todo'[c]) ELSE 0) <= (ops' + 1) * Sources
  <2>1. n + (IF pc'[c] \in {"claim", "schedule", "start"} THEN m ELSE 0) <= b
    BY <1>5, <1>10
  <2> QED BY <1>3, <1>6, <1>9, <2>1 DEF locals
<1>12. Listed(c)'
  BY <1>1, <1>3, <1>4, <1>5, <1>6 DEF Listed, locals
<1>13. Scheduled(c)'
  <2>1. {source[x] : x \in {y \in Executor : Present(y)}}'
          = {source[x] : x \in {y \in Executor : Present(y)}}
    BY <1>3, <1>6
  <2>2. \A x, y \in Executor : Present(x)' /\ Present(y)' /\ source'[x] = source'[y] => x = y
    BY <1>1, <1>3, <1>6 DEF Scheduled, Agree, Valid
  <2>3. \A x \in Executor : Present(x)' => source'[x] \notin todo'[c]
    BY <1>1, <1>3, <1>6 DEF Scheduled, Agree, Valid, locals
  <2>4. cached' # NoDevice =>
          /\ Agree(Valid, todo[c] \union {source[x] : x \in {y \in Executor : Present(y)}})'
          /\ cached'.blocked => toggled'
    BY <1>1, <1>3, <2>1 DEF Scheduled, Agree, Valid, history, locals
  <2>5. CASE todo[c] # {}
    BY <1>5, <2>2, <2>3, <2>4, <2>5 DEF Scheduled, Agree, Valid
  <2>6. CASE todo[c] = {}
    <3>1. pc'[c] = "idle" /\ todo'[c] = {}
      BY <1>3, <1>5, <2>6 DEF locals
    <3>2. cached' # NoDevice =>
            Agree(Valid, {source[x] : x \in {y \in Executor : Present(y)}})'
      BY <2>4, <3>1 DEF Agree
    <3>3. cached' # NoDevice =>
            /\ \A x \in Executor : Live(x)' /\ source'[x] \notin crossed' => source'[x] \in Valid'
            /\ \A s \in Valid' \ crossed' : \E x \in Executor : Live(x)' /\ source'[x] = s
      BY <1>6, <3>2 DEF Agree
    <3> QED BY <2>2, <2>4, <3>1, <3>3 DEF Scheduled, Agree, Valid
  <2> QED BY <2>5, <2>6
<1>14. Edited(c)'
  BY <1>1, <1>3, <1>5 DEF Edited, Agree, locals, history
<1>15. pc'[c] \notin {"edit", "pop", "stop", "lookup"}
  BY <1>5
<1>30. Copies'
  BY <1>1, <1>3, CopiesKept DEF history
<1> QED BY <1>6, <1>7, <1>8, <1>9, <1>10, <1>11, <1>12, <1>13, <1>14, <1>15, <1>30, ForAll

LEMMA AutoInvariant == OneCaller /\ AutoInv /\ [Next]_vars => AutoInv'
<1> SUFFICES ASSUME OneCaller, AutoInv, [Next]_vars PROVE AutoInv'
  OBVIOUS
<1>1. ASSUME NEW c \in Caller, Start(c) \/ Proceed(c) PROVE AutoInv'
  BY <1>1, StartAuto, EditAuto, PopAuto, StopOldAuto, LookupAuto, ClaimAuto, ScheduleAuto,
     StartThreadAuto DEF Proceed
<1>2. ASSUME NEW c \in Caller, NEW s \in Source, AddEvent(c, s) \/ RemoveEvent(c, s)
      PROVE  AutoInv'
  BY <1>2, BeginAuto
<1>3. ASSUME NEW e \in Executor, Run(e) PROVE AutoInv'
  BY <1>3, RunAuto
<1>4. CASE \/ Pump \/ Shutdown \/ Remove
           \/ \E p \in Patcher : PatchClone(p) \/ PatchWrite(p) \/ PatchEnd(p)
  BY <1>4, OthersAuto
<1>5. CASE UNCHANGED vars
  <2>1. /\ UNCHANGED <<cached, current, lists, executors, started, pc, locals, ops, patches, history>>
        /\ Typed /\ NothingYet /\ Counted /\ Copies /\ \A c \in Caller : Listed(c) /\ Scheduled(c) /\ Edited(c)
    BY <1>5 DEF vars, AutoInv
  <2>2. /\ Untouched /\ Used' = Used
        /\ \A e \in Executor : (Live(e)' <=> Live(e)) /\ (Present(e)' <=> Present(e))
        /\ {source[e] : e \in {y \in Executor : Present(y)}}'
             = {source[e] : e \in {y \in Executor : Present(y)}}
    BY <2>1, Unmoved
  <2>3. Typed' /\ NothingYet' /\ Counted' /\ Copies'
    BY <2>1, <2>2, CopiesKept DEF Typed, NothingYet, Counted, executors, locals, history
  <2>4. ASSUME NEW c \in Caller PROVE Listed(c)' /\ Scheduled(c)' /\ Edited(c)'
    BY <2>1, <2>2 DEF Listed, Scheduled, Edited, Agree, Valid, executors, locals, history
  <2> QED BY <2>3, <2>4 DEF AutoInv
<1> QED BY <1>1, <1>2, <1>3, <1>4, <1>5 DEF Next

\* No executor is left running where no restart and no stop can find it.
LEMMA ListedIsFound == AutoInv => NoOrphans
<1> SUFFICES ASSUME AutoInv, NEW e \in Executor, Live(e)
             PROVE  \/ list[e] = current
                    \/ \E c \in Caller : pc[c] = "stop" /\ old[c] = list[e]
  BY DEF NoOrphans
<1>1. started /\ Caller # {}
  BY DEF AutoInv, NothingYet, Live
<1>2. PICK c \in Caller : TRUE
  BY <1>1
<1>3. list[e] = IF pc[c] = "stop" THEN old[c] ELSE current
  BY DEF AutoInv, Listed
<1> QED BY <1>3

LEMMA ScheduledIsOne == AutoInv => OneExecutorPerEvent
<1> SUFFICES ASSUME AutoInv, Quiet, cached # NoDevice, NEW s \in Source
             PROVE  /\ Cardinality(Readers(s)) <= 1
                    /\ s \notin crossed =>
                         /\ Readers(s) # {} => s \in Valid
                         /\ ~ toggled /\ ~ cached.blocked /\ s \in Valid => Readers(s) # {}
                         /\ ~ toggled /\ cached.blocked => Readers(s) = {}
  BY DEF OneExecutorPerEvent, Valid
<1>1. started /\ Caller # {}
  BY DEF Quiet, AutoInv, NothingYet
<1>2. PICK c \in Caller : TRUE
  BY <1>1
<1>3. Scheduled(c) /\ pc[c] = "idle"
  BY DEF AutoInv, Quiet
<1>4. \A e, f \in Readers(s) : e = f
  BY <1>3 DEF Scheduled, Readers, Present
<1>5. Cardinality(Readers(s)) <= 1
  <2>1. CASE Readers(s) = {}
    <3>1. Cardinality(Readers(s)) = 0
      BY <2>1, FS_EmptySet
    <3> QED BY <3>1
  <2>2. CASE Readers(s) # {}
    <3>1. PICK e : Readers(s) = {e}
      BY <1>4, <2>2
    <3>2. Cardinality(Readers(s)) = 1
      BY <3>1, FS_Singleton
    <3> QED BY <3>2
  <2> QED BY <2>1, <2>2
<1>6. s \notin crossed /\ Readers(s) # {} => s \in Valid
  BY <1>1, <1>3 DEF Scheduled, Readers
<1>7. ~ toggled /\ ~ cached.blocked /\ s \in Valid \ crossed => Readers(s) # {}
  BY <1>1, <1>3 DEF Scheduled, Readers
<1>8. ~ toggled /\ cached.blocked => Readers(s) = {}
  BY <1>1, <1>3 DEF Scheduled, Readers
<1> QED BY <1>5, <1>6, <1>7, <1>8

LEMMA KeptIsWanted == AutoInv => EditsKept
<1> SUFFICES ASSUME AutoInv, Quiet, cached # NoDevice PROVE Agree(cached.events, wanted)
  BY DEF EditsKept, Agree
<1>1. PICK c \in Caller : TRUE
  BY DEF Quiet, AutoInv, NothingYet
<1> QED BY <1>1 DEF AutoInv, Edited, Quiet

\* An executor that runs can be stopped, at any moment of a restart: it is in the list the
\* manager knows, or in the one it is about to stop.
THEOREM NeverAnOrphan ==
  ASSUME OneCaller
  PROVE  Spec => []NoOrphans
<1> QED BY InitAuto, AutoInvariant, ListedIsFound, PTL DEF Spec

\* Between calls no source is read by two executors.  Except for AutoEvents that a patch
\* brought or that were edited while a patch held its snapshot, none is read without a
\* valid AutoEvent, and every valid one of a Device never locked or marked is read.
THEOREM AlwaysOneExecutor ==
  ASSUME OneCaller
  PROVE  Spec => []OneExecutorPerEvent
<1> QED BY InitAuto, AutoInvariant, ScheduledIsOne, PTL DEF Spec

\* Between calls the cached Device has the AutoEvents that were added and not removed,
\* except for those that a patch replaced or that were edited while a patch held its
\* snapshot, for any number of patchers, whatever becomes of their patches.
THEOREM EditsAreKept ==
  ASSUME OneCaller
  PROVE  Spec => []EditsKept
<1> QED BY InitAuto, AutoInvariant, KeptIsWanted, PTL DEF Spec

-----------------------------------------------------------------------------
(* What an executor compares. *)

\* How far what was sent may be from what is kept.
Drift == IF mode = "changed" THEN 0 ELSE Threshold

\* A subscriber of changes knows each resource that is kept, up to the drift.
KeptIsSent ==
  mode # "always" =>
    \A r \in DOMAIN last :
      IF r \in Binary THEN last[r] = Fingerprint[view[r]]
      ELSE /\ last[r] \in Number \union {NotANumber}
           /\ NotANumber \in {last[r], view[r]} \/ ~ Apart(last[r], view[r], Drift)

ChangeInv ==
  /\ mode \in {"always", "all", "changed"}
  /\ DOMAIN view = Compared
  /\ DOMAIN last \subseteq Compared
  /\ \A r \in DOMAIN last : view[r] \in ValueOf(r)
  /\ KeptIsSent

LEMMA ReadingType ==
  ASSUME NEW reading \in Reading
  PROVE  /\ DOMAIN reading \subseteq Compared
         /\ \A r \in DOMAIN reading : reading[r] \in ValueOf(r)
BY DEF Reading, Readings

\* One reading, resource by resource: what is kept and what was sent afterwards are no
\* farther apart than before, and what was sent is current.
LEMMA OneResource ==
  ASSUME ChangeInv, mode # "always",
         NEW reading \in Reading, Execute(reading), NEW r \in DOMAIN reading
  PROVE  /\ view'[r] \in ValueOf(r)
         /\ IF r \in Binary
            THEN last'[r] = Fingerprint[view'[r]] /\ last'[r] = Fingerprint[reading[r]]
            ELSE /\ last'[r] \in Number \union {NotANumber}
                 /\ NotANumber \in {last'[r], view'[r]} \/ ~ Apart(last'[r], view'[r], Drift)
                 /\ \/ NotANumber \in {last'[r], view'[r], reading[r]}
                    \/ ~ Apart(view'[r], reading[r], Margin)
<1>. USE ChangeAssumption
<1>1. /\ DOMAIN reading \subseteq Compared
      /\ reading[r] \in ValueOf(r)
      /\ r \in Compared
  BY ReadingType
<1>2. /\ last'[r] = IF r \in Changed(reading) THEN Kept(r, reading[r]) ELSE last[r]
      /\ view'[r] = IF r \in Sent(reading) THEN reading[r] ELSE view[r]
  BY <1>1 DEF Execute, Renewed
<1>3. mode \in {"all", "changed"}
  BY DEF ChangeInv
<1>4. CASE r \in Changed(reading)
  <2>1. r \in Sent(reading)
    BY <1>3, <1>4 DEF Sent
  <2>2. last'[r] = Kept(r, reading[r]) /\ view'[r] = reading[r]
    BY <1>2, <1>4, <2>1
  <2>3. CASE r \in Binary
    BY <1>1, <2>2, <2>3 DEF Kept
  <2>4. CASE r \notin Binary
    <3>1. reading[r] \in Number \union {NotANumber} /\ last'[r] = reading[r]
      BY <1>1, <2>2, <2>4 DEF Kept, ValueOf
    <3>2. CASE reading[r] = NotANumber
      BY <1>1, <2>2, <2>4, <3>1, <3>2
    <3>3. CASE reading[r] \in Number
      BY <1>1, <1>3, <2>2, <2>4, <3>1, <3>3 DEF Apart, Drift, Margin
    <3>. QED  BY <3>1, <3>2, <3>3
  <2>. QED  BY <2>3, <2>4
<1>5. CASE r \notin Changed(reading)
  <2>1. r \in DOMAIN last /\ ~ Differs(r, last[r], reading[r])
    BY <1>5 DEF Changed, Unknown
  <2>2. last'[r] = last[r] /\ view[r] \in ValueOf(r)
    BY <1>2, <1>5, <2>1 DEF ChangeInv
  <2>3. CASE r \in Binary
    BY <1>1, <1>2, <2>1, <2>2, <2>3 DEF ChangeInv, KeptIsSent, Differs
  <2>4. CASE r \notin Binary
    <3>1. reading[r] \in Number \union {NotANumber} /\ view[r] \in Number \union {NotANumber}
      BY <1>1, <2>2, <2>4 DEF ValueOf
    <3>2. /\ last[r] \in Number \union {NotANumber}
          /\ NotANumber \in {last[r], view[r]} \/ ~ Apart(last[r], view[r], Drift)
      BY <2>1, <2>4 DEF ChangeInv, KeptIsSent
    <3>3. NotANumber \in {last[r], reading[r]} \/ ~ Apart(last[r], reading[r], Threshold)
      BY <2>1, <2>4 DEF Differs
    <3>4. mode = "changed" => view'[r] = view[r]
      BY <1>2, <1>5 DEF Sent
    <3>5. CASE last[r] = NotANumber
      BY <1>1, <1>2, <2>2, <2>4, <3>5
    <3>6. CASE last[r] # NotANumber /\ reading[r] = NotANumber
      <4>1. view'[r] = NotANumber \/ view'[r] = view[r]
        BY <1>2, <3>6
      <4>. QED  BY <1>1, <1>2, <2>2, <2>4, <3>2, <3>6, <4>1
    <3>7. CASE last[r] # NotANumber /\ reading[r] \in Number
      <4>1. reading[r] \in Int /\ ~ Apart(last[r], reading[r], Threshold)
        BY <3>3, <3>7
      <4>2. CASE view'[r] = view[r]
        BY <1>1, <1>3, <2>2, <2>4, <3>1, <3>2, <3>7, <4>1, <4>2 DEF Apart, Drift, Margin
      <4>3. CASE view'[r] # view[r]
        <5>1. view'[r] = reading[r] /\ mode = "all"
          BY <1>2, <1>3, <3>4, <4>3
        <5>2. last[r] \in Int
          BY <3>2, <3>7
        <5>. QED  BY <1>1, <2>2, <2>4, <3>2, <3>7, <4>1, <5>1, <5>2 DEF Apart, Drift, Margin
      <4>. QED  BY <4>2, <4>3
    <3>. QED  BY <3>1, <3>5, <3>6, <3>7
  <2>. QED  BY <2>3, <2>4
<1>. QED  BY <1>4, <1>5

\* What holds of the mode that does not compare: the reading just made was sent.
LEMMA OneResourceAlways ==
  ASSUME ChangeInv, mode = "always", NEW reading \in Reading, Execute(reading),
         NEW r \in DOMAIN reading
  PROVE  view'[r] = reading[r]
BY ReadingType DEF Execute, Sent

LEMMA ExecuteKeeps ==
  ASSUME ChangeInv, NEW reading \in Reading, Execute(reading)
  PROVE  ChangeInv' /\ PictureIsCurrent'
<1>1. /\ mode' = mode /\ now' = reading /\ DOMAIN view' = Compared
      /\ DOMAIN reading \subseteq Compared
      /\ \A r \in DOMAIN reading : reading[r] \in ValueOf(r)
  BY ReadingType DEF Execute
<1>2. \A r \in DOMAIN reading : \A v \in ValueOf(r) : v # Unsent
  BY ChangeAssumption DEF ValueOf
<1>3. CASE mode = "always"
  <2>1. /\ last' = last
        /\ \A r \in DOMAIN reading : view'[r] = reading[r]
        /\ \A r \in Compared : view'[r] \in {view[r], reading[r]}
    BY <1>3, OneResourceAlways DEF Execute
  <2>2. \A r \in DOMAIN last : view'[r] \in ValueOf(r)
    <3>. SUFFICES ASSUME NEW r \in DOMAIN last PROVE view'[r] \in ValueOf(r)
      OBVIOUS
    <3>1. view[r] \in ValueOf(r) /\ r \in Compared
      BY DEF ChangeInv
    <3>2. view'[r] = IF r \in Sent(reading) THEN reading[r] ELSE view[r]
      BY <3>1 DEF Execute
    <3>3. Sent(reading) = DOMAIN reading
      BY <1>3 DEF Sent
    <3>. QED  BY <1>1, <3>1, <3>2, <3>3
  <2>3. ChangeInv'
    BY <1>1, <1>3, <2>1, <2>2 DEF ChangeInv, KeptIsSent, ValueOf
  <2>4. PictureIsCurrent'
    <3>. SUFFICES ASSUME NEW r \in DOMAIN reading
                  PROVE  /\ view'[r] # Unsent
                         /\ IF r \in Binary THEN Fingerprint[view'[r]] = Fingerprint[reading[r]]
                            ELSE NotANumber \in {view'[r], reading[r]} \/ ~ Apart(view'[r], reading[r], Margin')
      BY <1>1 DEF PictureIsCurrent, Apart
    <3>1. view'[r] = reading[r] /\ Margin' = 0
      BY <1>1, <1>3, <2>1 DEF Margin
    <3>2. CASE r \in Binary
      BY <1>1, <1>2, <3>1, <3>2
    <3>3. CASE r \notin Binary
      <4>1. reading[r] = NotANumber \/ reading[r] \in Int
        BY <1>1, <3>3, ChangeAssumption DEF ValueOf
      <4>2. view'[r] # Unsent
        BY <1>1, <1>2, <3>1
      <4>. QED  BY <3>1, <3>3, <4>1, <4>2 DEF Apart
    <3>. QED  BY <3>2, <3>3
  <2>. QED  BY <2>3, <2>4
<1>4. CASE mode # "always"
  <2>1. last' = Renewed(reading) /\ DOMAIN last' = DOMAIN reading
    BY <1>4 DEF Execute, Renewed
  <2>2. Margin' = Margin /\ Drift' = Drift
    BY <1>1 DEF Margin, Drift
  <2>3. ChangeInv'
    <3>1. \A r \in DOMAIN last' : view'[r] \in ValueOf(r)
      BY <1>4, <2>1, OneResource
    <3>2. KeptIsSent'
      <4>. SUFFICES ASSUME NEW r \in DOMAIN reading
                    PROVE  IF r \in Binary THEN last'[r] = Fingerprint[view'[r]]
                           ELSE /\ last'[r] \in Number \union {NotANumber}
                                /\ \/ NotANumber \in {last'[r], view'[r]}
                                   \/ ~ Apart(last'[r], view'[r], Drift)
        BY <2>1, <2>2 DEF KeptIsSent, Apart
      <4>. QED  BY <1>4, OneResource
    <3>. QED  BY <1>1, <2>1, <3>1, <3>2 DEF ChangeInv, ValueOf
  <2>4. PictureIsCurrent'
    <3>. SUFFICES ASSUME NEW r \in DOMAIN reading
                  PROVE  /\ view'[r] # Unsent
                         /\ IF r \in Binary THEN Fingerprint[view'[r]] = Fingerprint[reading[r]]
                            ELSE \/ NotANumber \in {view'[r], reading[r]}
                                 \/ r \in DOMAIN last' /\ last'[r] = NotANumber
                                 \/ ~ Apart(view'[r], reading[r], Margin)
      BY <1>1, <2>2 DEF PictureIsCurrent, Apart
    <3>1. r \in DOMAIN last'
      BY <2>1
    <3>. QED  BY <1>2, <1>4, <3>1, OneResource
  <2>. QED  BY <2>3, <2>4
<1>. QED  BY <1>3, <1>4

\* However a value drifts and whichever resources the driver answers for, a subscriber
\* of the events knows every value just read, up to the margin of the mode.
THEOREM PictureStaysCurrent == ChangeSpec => []PictureIsCurrent
<1>1. ChangeInit => ChangeInv /\ PictureIsCurrent
  BY DEF ChangeInit, ChangeInv, KeptIsSent, PictureIsCurrent
<1>2. ChangeInv /\ PictureIsCurrent /\ [ChangeNext]_changeVars
        => ChangeInv' /\ PictureIsCurrent'
  <2>. SUFFICES ASSUME ChangeInv, PictureIsCurrent, [ChangeNext]_changeVars
                PROVE  ChangeInv' /\ PictureIsCurrent'
    OBVIOUS
  <2>1. ASSUME NEW reading \in Reading, Execute(reading)
        PROVE  ChangeInv' /\ PictureIsCurrent'
    BY <2>1, ExecuteKeeps
  <2>2. CASE Skip
    BY <2>2 DEF Skip, ChangeInv, KeptIsSent, Drift, ValueOf, PictureIsCurrent
  <2>3. CASE Restart
    BY <2>3 DEF Restart, ChangeInv, KeptIsSent, PictureIsCurrent
  <2>4. CASE UNCHANGED changeVars
    BY <2>4 DEF changeVars, ChangeInv, KeptIsSent, Drift, ValueOf, PictureIsCurrent, Margin, Apart
  <2>. QED  BY <2>1, <2>2, <2>3, <2>4 DEF ChangeNext
<1>. QED  BY <1>1, <1>2, PTL DEF ChangeSpec

-----------------------------------------------------------------------------
\* No answer is a reading of no resource.
LEMMA NoReading == <<>> \in Reading /\ DOMAIN <<>> = {}
<1>1. DOMAIN <<>> = {}
  OBVIOUS
<1>2. <<>> \in [{} -> UNION {ValueOf(r) : r \in {}}]
  OBVIOUS
<1>. QED  BY <1>1, <1>2 DEF Reading, Readings

\* What is sent anew is kept as it was read; the rest stays as it was kept.
LEMMA RenewedKept ==
  ASSUME ChangeTypeOK, NEW reading \in Reading, NEW r \in DOMAIN reading
  PROVE  \E v \in ValueOf(r) : Renewed(reading)[r] = Kept(r, v)
<1>1. reading[r] \in ValueOf(r)
  BY ReadingType
<1>2. CASE r \in Changed(reading)
  BY <1>1, <1>2 DEF Renewed
<1>3. CASE r \notin Changed(reading)
  <2>1. r \in DOMAIN last
    BY <1>3 DEF Changed, Unknown
  <2>. QED  BY <1>3, <2>1 DEF Renewed, ChangeTypeOK
<1>. QED  BY <1>2, <1>3

\* What an executor keeps of a resource is what a reading of it leaves, so that it always
\* compares like with like: numbers with numbers, checksums with checksums.
THEOREM KeptWasRead == ChangeSpec => []ChangeTypeOK
<1>1. ChangeInit => ChangeTypeOK
  <2>. SUFFICES ASSUME ChangeInit PROVE ChangeTypeOK
    OBVIOUS
  <2>. QED  BY NoReading DEF ChangeInit, ChangeTypeOK
<1>2. ChangeTypeOK /\ [ChangeNext]_changeVars => ChangeTypeOK'
  <2>. SUFFICES ASSUME ChangeTypeOK, [ChangeNext]_changeVars PROVE ChangeTypeOK'
    OBVIOUS
  <2>1. ASSUME NEW reading \in Reading, Execute(reading)
        PROVE  ChangeTypeOK'
    <3>1. /\ DOMAIN reading \subseteq Compared
          /\ \A r \in DOMAIN reading : reading[r] \in ValueOf(r)
      BY ReadingType
    <3>2. Sent(reading) \subseteq DOMAIN reading
      BY DEF Sent, Changed
    <3>3. \A r \in Compared : view'[r] \in ValueOf(r) \union {Unsent}
      BY <2>1, <3>1, <3>2 DEF Execute, ChangeTypeOK
    <3>4. DOMAIN last' \subseteq Compared
          /\ \A r \in DOMAIN last' : \E v \in ValueOf(r) : last'[r] = Kept(r, v)
      <4>1. CASE mode = "always"
        BY <2>1, <4>1 DEF Execute, ChangeTypeOK
      <4>2. CASE mode # "always"
        <5>1. last' = Renewed(reading) /\ DOMAIN last' = DOMAIN reading
          BY <2>1, <4>2 DEF Execute, Renewed
        <5>. QED  BY <3>1, <5>1, RenewedKept
      <4>. QED  BY <4>1, <4>2
    <3>. QED  BY <2>1, <3>3, <3>4 DEF Execute, ChangeTypeOK, ValueOf, Kept
  <2>2. CASE Skip
    BY NoReading, <2>2 DEF Skip, ChangeTypeOK, ValueOf, Kept
  <2>3. CASE Restart
    BY NoReading, <2>3 DEF Restart, ChangeTypeOK, ValueOf
  <2>4. CASE UNCHANGED changeVars
    BY <2>4 DEF changeVars, ChangeTypeOK, ValueOf, Kept
  <2>. QED  BY <2>1, <2>2, <2>3, <2>4 DEF ChangeNext
<1>. QED  BY <1>1, <1>2, PTL DEF ChangeSpec

=============================================================================
