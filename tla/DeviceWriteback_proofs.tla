------------------------ MODULE DeviceWriteback_proofs ------------------------
(***************************************************************************)
(* What the write-back of Devices guarantees for every set of Devices,     *)
(* callers, attributes and values (DeviceWriteback), and what the          *)
(* system-events loop, one of its callers, guarantees besides for every    *)
(* size of the topic queue and every order in which users, the application *)
(* and Core Metadata change a Device (MetadataSync, which EXTENDS it).     *)
(***************************************************************************)
EXTENDS MetadataSync, TLAPS


\* What the one call running on an undisturbed Device knows of its entry in the cache.
Knows(c) ==
  LET d == dev[c] IN
  /\ pc[c] = "clone" => op[c] # "add" /\ cache[d] # NoDevice
  /\ pc[c] = "write" =>
       /\ op[c] = "add" => cache[d] = NoDevice
       /\ op[c] # "add" => cache[d] = saved[c]
  /\ pc[c] \in {"request", "rollback"} =>
       /\ op[c] = "add" => cache[d] = arg[c]
       /\ op[c] = "patch" => cache[d] = Apply(saved[c], arg[c])
       /\ op[c] = "remove" => cache[d] = NoDevice

\* What it knows of Core Metadata besides, if no change has failed unnoticed.
KnowsMetadata(c) ==
  LET d == dev[c] IN
  /\ pc[c] = "clone" => metadata[d] = cache[d]
  /\ pc[c] \in {"write", "request", "rollback"} =>
       /\ op[c] = "add" => metadata[d] = NoDevice
       /\ op[c] # "add" => metadata[d] = saved[c]

\* Two calls on one Device disturb it.
Alone ==
  \A c, e \in Caller :
    /\ pc[c] # "idle" /\ pc[e] # "idle" /\ dev[c] = dev[e] /\ c # e
    => dev[c] \in disturbed

\* With no call on it, a Device that is not lost is the same on both sides.
Settled ==
  \A d \in Device \ Lost :
    (\A c \in Caller : pc[c] # "idle" => dev[c] # d) => cache[d] = metadata[d]

\* Every call on an undisturbed Device knows its copy, or its two copies.
Known ==
  \A c \in Caller : pc[c] # "idle" /\ dev[c] \notin disturbed =>
    Knows(c) /\ (dev[c] \notin parted => KnowsMetadata(c))

\* Only disturbed Devices have requests under way whose client has given up.
LateDisturbed == \A r \in late : r.dev \in disturbed

\* The inductive invariant behind SyncUnlessDisturbed and SurprisesNeedOverlap.
CallInv == Alone /\ Settled /\ Known /\ LateDisturbed /\ SurprisesNeedOverlap

-----------------------------------------------------------------------------
(* The operators on Devices. *)

\* A whole Device is an update map that sets every attribute.
LEMMA ContentIsPatch == Content \subseteq Patch
  BY DEF Content, Patch

\* Applying any update map to a Device gives a Device.
LEMMA ApplyType ==
  ASSUME NEW content \in Content, NEW patch \in Patch
  PROVE  Apply(content, patch) \in Content
<1>1. PICK S \in SUBSET Attr : patch \in [S -> Value]
  BY DEF Patch
<1>2. \A a \in Attr : a \in DOMAIN patch => patch[a] \in Value
  BY <1>1
<1>. QED  BY <1>2 DEF Apply, Content

-----------------------------------------------------------------------------
(* Type correctness. *)

\* The initial states are well typed.
LEMMA InitTypeOK == Init => TypeOK
  BY DEF Init, TypeOK, Step, Op, Outcome, Entry, Argument

\* Starting or rejecting a call keeps the types.
LEMMA BeginTypeOK ==
  ASSUME TypeOK, NEW c \in Caller, Begin(c)
  PROVE  TypeOK'
<1>. USE ContentIsPatch DEF TypeOK, Step, Op, Outcome, Entry, Argument,
                            Start, Reject, Return, Enter, Request, RequestOf
<1>1. PICK d \in Device :
        \/ \E content \in Content : AddBegin(c, d, content)
        \/ \E patch \in Patch : PatchBegin(c, d, patch)
        \/ RemoveBegin(c, d)
  BY DEF Begin
<1>2. ASSUME NEW content \in Content, AddBegin(c, d, content) PROVE TypeOK'
  BY <1>2 DEF AddBegin
<1>3. ASSUME NEW patch \in Patch, PatchBegin(c, d, patch) PROVE TypeOK'
  BY <1>3 DEF PatchBegin
<1>4. CASE RemoveBegin(c, d)
  BY <1>4 DEF RemoveBegin
<1>. QED  BY <1>1, <1>2, <1>3, <1>4

\* So does every step of a call between its start and its end: what it writes to
\* the cache, forward or in a rollback, is a whole Device or nothing.
LEMMA ProceedTypeOK ==
  ASSUME TypeOK, NEW c \in Caller, Proceed(c)
  PROVE  TypeOK'
<1>. USE DEF TypeOK, Step, Op, Outcome, Entry, Argument, Return, Request, RequestOf
<1>1. CASE Clone(c)
  BY <1>1 DEF Clone
<1>2. CASE ValidationFails(c)
  BY <1>2 DEF ValidationFails
<1>3. CASE AddWrite(c)
  BY <1>3 DEF AddWrite, CacheAdd, Send, Goto
<1>4. CASE PatchWrite(c)
  <2>1. Apply(saved[c], arg[c]) \in Content
    BY <1>4, ApplyType DEF PatchWrite
  <2>. QED  BY <1>4, <2>1 DEF PatchWrite, CacheUpdate, Send, Goto
<1>5. CASE RemoveWrite(c)
  BY <1>5 DEF RemoveWrite, CacheRemove, Send, Goto
<1>6. CASE AddRollback(c)
  BY <1>6 DEF AddRollback, CacheRemove, Fail
<1>7. CASE PatchRollback(c)
  BY <1>7 DEF PatchRollback, CacheUpdate, Fail
<1>8. CASE RemoveRollback(c)
  BY <1>8 DEF RemoveRollback, CacheAdd, Fail
<1>. QED  BY <1>1, <1>2, <1>3, <1>4, <1>5, <1>6, <1>7, <1>8 DEF Proceed, Work

\* Core Metadata makes an Entry of every request it can be sent.
LEMMA EffectType ==
  ASSUME TypeOK, NEW r \in Request, Acceptable(r)
  PROVE  Effect(r) \in Entry
<1>1. CASE r \in [op : {"add"}, dev : Device, arg : Content]
  BY <1>1 DEF Effect, Entry
<1>2. CASE r \in [op : {"patch"}, dev : Device, arg : Patch]
  <2>1. metadata[r.dev] \in Content
    BY <1>2 DEF Acceptable, TypeOK, Entry
  <2>. QED  BY <1>2, <2>1, ApplyType DEF Effect, Entry
<1>3. CASE r \in [op : {"remove"}, dev : Device, arg : {NoDevice}]
  BY <1>3 DEF Effect, Entry
<1>. QED  BY <1>1, <1>2, <1>3 DEF Request

\* So does every outcome of a request.
LEMMA AnswerTypeOK ==
  ASSUME TypeOK, NEW c \in Caller, Answer(c)
  PROVE  TypeOK'
<1>1. pc[c] = "request" /\ RequestOf(c) \in Request
  BY DEF Answer, Accept, RefusedInside, Unserializable, Part, Refuse, Timeout, TypeOK
<1>. USE DEF TypeOK, Step, Outcome, Argument, Return, Goto
<1>2. CASE Accept(c)
  <2>1. Effect(RequestOf(c)) \in Entry
    BY <1>1, <1>2, EffectType DEF Accept
  <2>. QED  BY <1>2, <2>1 DEF Accept, Request, RequestOf, Entry
<1>3. CASE Refuse(c)
  BY <1>3 DEF Refuse, Request, RequestOf
<1>4. CASE Timeout(c)
  <2>1. late' \subseteq Request
    BY <1>1, <1>4 DEF Timeout
  <2>2. disturbed' \subseteq Device
    BY <1>4 DEF Timeout
  <2>. QED  BY <1>4, <2>1, <2>2 DEF Timeout, Request, RequestOf
<1>5. CASE RefusedInside(c) \/ Unserializable(c)
  <2>1. PICK result \in Outcome : Part(c, result)
    BY <1>5 DEF RefusedInside, Unserializable
  <2>2. parted' \subseteq Device
    BY <2>1 DEF Part
  <2>3. /\ pc' \in [Caller -> Step] /\ outcome' \in [Caller -> Outcome]
        /\ arg' \in [Caller -> Argument] /\ saved' \in [Caller -> Entry]
    BY <2>1 DEF Part, Entry
  <2>4. \A x \in Caller : pc'[x] # "idle" =>
          pc'[x] = pc[x] /\ arg'[x] = arg[x] /\ saved'[x] = saved[x]
    BY <2>1 DEF Part
  <2>5. UNCHANGED <<cache, metadata, op, dev, late, disturbed>>
    BY <2>1 DEF Part
  <2>. QED  BY <2>2, <2>3, <2>4, <2>5 DEF RequestOf
<1>. QED  BY <1>2, <1>3, <1>4, <1>5 DEF Answer

\* So does a request that arrives, or is lost, after its client has given up.
LEMMA LateArrivalTypeOK ==
  ASSUME TypeOK, NEW r \in late, LateAccept(r) \/ LateLoss(r)
  PROVE  TypeOK'
<1>1. r \in Request
  BY DEF TypeOK
<1>2. metadata' \in [Device -> Entry]
  BY <1>1, EffectType DEF LateAccept, LateLoss, TypeOK
<1>. QED  BY <1>2 DEF LateAccept, LateLoss, TypeOK, Request, RequestOf

\* Every behaviour of the write-back keeps the types of its state: whatever the
\* overlap of calls and however late requests arrive, no entry of the cache or of
\* Core Metadata is ever anything but a whole Device.
THEOREM TypeCorrect == Spec => []TypeOK
<1>1. Init => TypeOK
  BY InitTypeOK
<1>2. TypeOK /\ [Next]_vars => TypeOK'
  <2>1. CASE UNCHANGED vars
    BY <2>1 DEF vars, TypeOK, RequestOf, Request
  <2>. QED
    BY <2>1, BeginTypeOK, ProceedTypeOK, AnswerTypeOK, LateArrivalTypeOK DEF Next
<1>. QED  BY <1>1, <1>2, PTL DEF Spec

-----------------------------------------------------------------------------
(* The invariant of undisturbed Devices. *)

\* With no call running, the cache and Core Metadata agree on every Device.
LEMMA InitCallInv == Init => CallInv
  BY DEF Init, CallInv, Alone, Settled, Known, LateDisturbed, SurprisesNeedOverlap, Lost

\* A call that begins on an idle Device that is not lost finds its two copies equal; on
\* a busy one it disturbs the Device.
LEMMA BeginCallInv ==
  ASSUME TypeOK, CallInv, NEW c \in Caller, Begin(c)
  PROVE  CallInv'
<1>. USE DEF TypeOK, CallInv, Alone, Settled, Known, Knows, KnowsMetadata, LateDisturbed,
             SurprisesNeedOverlap, Active, Lost
<1>1. PICK d \in Device :
        \/ \E content \in Content : AddBegin(c, d, content)
        \/ \E patch \in Patch : PatchBegin(c, d, patch)
        \/ RemoveBegin(c, d)
  BY DEF Begin
<1>2. ASSUME NEW o \in Op, Reject(c, o, d) PROVE CallInv'
  BY <1>2 DEF Reject, Start, Return
<1>3. ASSUME NEW o \in Op, NEW x, NEW step \in {"clone", "write"},
             Enter(c, o, d, x, step),
             o = "add" <=> step = "write",
             o = "add" <=> cache[d] = NoDevice
      PROVE  CallInv'
  <2>1. cache[d] = metadata[d] \/ d \in disturbed' \/ d \in parted
    BY <1>3 DEF Enter
  <2>2. Alone'
    BY <1>3 DEF Enter, Start
  <2>3. Settled'
    BY <1>3 DEF Enter, Start
  <2>4. Known'
    BY <1>3, <2>1 DEF Enter, Start
  <2>5. LateDisturbed' /\ SurprisesNeedOverlap'
    BY <1>3 DEF Enter, Start
  <2>. QED  BY <2>2, <2>3, <2>4, <2>5
<1>. QED
  BY <1>1, <1>2, <1>3 DEF AddBegin, PatchBegin, RemoveBegin, Op

\* A return that leaves both copies of its Device equal unless it is lost, and surprises
\* nobody, keeps the invariant.
LEMMA ReturnCallInv ==
  ASSUME TypeOK, CallInv, NEW c \in Caller, NEW result \in Outcome,
         pc[c] # "idle", Return(c, result),
         UNCHANGED <<op, dev, late, disturbed>>,
         parted' = parted \/ parted' = parted \union {dev[c]},
         \A d \in Device : d # dev[c] =>
            cache'[d] = cache[d] /\ metadata'[d] = metadata[d],
         dev[c] \notin Lost' => cache'[dev[c]] = metadata'[dev[c]],
         dev[c] \notin disturbed => result \notin {"skipped", "CacheError"}
  PROVE  CallInv'
<1>. USE DEF TypeOK, CallInv, Alone, LateDisturbed, SurprisesNeedOverlap, Return
<1>1. Alone'
  OBVIOUS
<1>2. Settled'
  BY DEF Settled, Lost
<1>3. Known'
  <2>. SUFFICES ASSUME NEW e \in Caller, pc'[e] # "idle", dev'[e] \notin disturbed'
                PROVE  Knows(e)' /\ (dev'[e] \notin parted' => KnowsMetadata(e)')
    BY DEF Known
  <2>1. e # c /\ pc[e] # "idle" /\ dev[e] # dev[c]
    OBVIOUS
  <2>2. Knows(e) /\ (dev[e] \notin parted => KnowsMetadata(e))
    BY <2>1 DEF Known
  <2>3. Knows(e)'
    BY <2>1, <2>2 DEF Knows
  <2>4. dev'[e] \notin parted' => KnowsMetadata(e)'
    BY <2>1, <2>2 DEF KnowsMetadata
  <2>. QED  BY <2>3, <2>4
<1>4. LateDisturbed' /\ SurprisesNeedOverlap'
  OBVIOUS
<1>. QED  BY <1>1, <1>2, <1>3, <1>4

\* A step after which the call goes on, knowing where its two copies stand.
LEMMA OnwardCallInv ==
  ASSUME TypeOK, CallInv, NEW c \in Caller,
         pc[c] # "idle", pc'[c] # "idle",
         \A e \in Caller : e # c => pc'[e] = pc[e] /\ arg'[e] = arg[e]
                                      /\ saved'[e] = saved[e],
         UNCHANGED <<op, dev, late, disturbed, parted, outcome, metadata>>,
         \A d \in Device : d # dev[c] => cache'[d] = cache[d],
         dev[c] \notin disturbed => Knows(c)',
         dev[c] \notin Lost => KnowsMetadata(c)'
  PROVE  CallInv'
<1>. USE DEF TypeOK, CallInv, Alone, LateDisturbed, SurprisesNeedOverlap
<1>1. Alone'
  OBVIOUS
<1>2. Settled'
  BY DEF Settled, Lost
<1>3. Known'
  <2>. SUFFICES ASSUME NEW e \in Caller, pc'[e] # "idle", dev'[e] \notin disturbed'
                PROVE  Knows(e)' /\ (dev'[e] \notin parted' => KnowsMetadata(e)')
    BY DEF Known
  <2>1. CASE e = c
    BY <2>1 DEF Lost
  <2>2. CASE e # c
    <3>1. pc[e] # "idle" /\ dev[e] # dev[c]
      BY <2>2
    <3>2. Knows(e) /\ (dev[e] \notin parted => KnowsMetadata(e))
      BY <3>1 DEF Known
    <3>3. Knows(e)'
      BY <2>2, <3>1, <3>2 DEF Knows
    <3>4. dev'[e] \notin parted' => KnowsMetadata(e)'
      BY <2>2, <3>1, <3>2 DEF KnowsMetadata
    <3>. QED  BY <3>3, <3>4
  <2>. QED  BY <2>1, <2>2
<1>4. LateDisturbed' /\ SurprisesNeedOverlap'
  OBVIOUS
<1>. QED  BY <1>1, <1>2, <1>3, <1>4

\* Each step of the only call on an undisturbed Device leaves the two copies as
\* Knows says of the next step, or equal when the call ends.
LEMMA ProceedCallInv ==
  ASSUME TypeOK, CallInv, NEW c \in Caller, Proceed(c)
  PROVE  CallInv'
<1>. DEFINE d == dev[c]
<1>1. pc[c] # "idle" /\ d \in Device
  BY DEF Proceed, Work, Clone, ValidationFails, AddWrite, PatchWrite, RemoveWrite,
         AddRollback, PatchRollback, RemoveRollback, TypeOK
<1>2. /\ d \notin disturbed => Knows(c)
      /\ d \notin Lost => Knows(c) /\ KnowsMetadata(c)
  BY <1>1 DEF CallInv, Known, Lost
<1>11. parted' = parted /\ Lost' = Lost /\ disturbed \subseteq Lost
  BY DEF Proceed, Work, Clone, ValidationFails, AddWrite, PatchWrite, RemoveWrite,
         AddRollback, PatchRollback, RemoveRollback, Lost
<1>. USE <1>11 DEF TypeOK, Knows, KnowsMetadata, Outcome
<1>3. CASE Clone(c)
  BY <1>1, <1>2, <1>3, ReturnCallInv, OnwardCallInv DEF Clone
<1>4. CASE ValidationFails(c)
  BY <1>1, <1>2, <1>4, ReturnCallInv DEF ValidationFails, Op
<1>5. CASE AddWrite(c)
  BY <1>1, <1>2, <1>5, ReturnCallInv, OnwardCallInv
     DEF AddWrite, CacheAdd, Send, Goto
<1>6. CASE PatchWrite(c)
  <2>1. saved[c] \in Content
    BY <1>1, <1>6 DEF PatchWrite
  <2>2. /\ d \notin disturbed => cache[d] # NoDevice
        /\ d \notin Lost => metadata[d] = saved[c]
    BY <1>2, <1>6, <2>1, NoDeviceAssumption DEF PatchWrite
  <2>3. CASE cache[d] = NoDevice
    BY <1>1, <1>6, <2>2, <2>3, ReturnCallInv DEF PatchWrite, CacheUpdate
  <2>4. CASE cache[d] # NoDevice
    BY <1>1, <1>6, <2>2, <2>4, OnwardCallInv DEF PatchWrite, CacheUpdate, Send, Goto
  <2>. QED  BY <2>3, <2>4
<1>7. CASE RemoveWrite(c)
  <2>1. saved[c] \in Content
    BY <1>1, <1>7 DEF RemoveWrite
  <2>2. /\ d \notin disturbed => cache[d] # NoDevice
        /\ d \notin Lost => metadata[d] = saved[c]
    BY <1>2, <1>7, <2>1, NoDeviceAssumption DEF RemoveWrite
  <2>3. CASE cache[d] = NoDevice
    BY <1>1, <1>7, <2>2, <2>3, ReturnCallInv DEF RemoveWrite, CacheRemove
  <2>4. CASE cache[d] # NoDevice
    BY <1>1, <1>7, <2>2, <2>4, OnwardCallInv DEF RemoveWrite, CacheRemove, Send, Goto
  <2>. QED  BY <2>3, <2>4
<1>8. CASE AddRollback(c)
  <2>1. arg[c] \in Content
    BY <1>1, <1>8 DEF AddRollback, Request, RequestOf
  <2>2. /\ d \notin disturbed => cache[d] # NoDevice
        /\ d \notin Lost => metadata[d] = NoDevice
    BY <1>2, <1>8, <2>1, NoDeviceAssumption DEF AddRollback
  <2>. QED
    BY <1>1, <1>8, <2>2, ReturnCallInv DEF AddRollback, CacheRemove, Fail
<1>9. CASE PatchRollback(c)
  <2>1. Apply(saved[c], arg[c]) \in Content
    <3>1. arg[c] \in Patch /\ saved[c] \in Content
      BY <1>1, <1>9 DEF PatchRollback, Request, RequestOf
    <3>. QED  BY <3>1, ApplyType
  <2>2. /\ d \notin disturbed => cache[d] # NoDevice
        /\ d \notin Lost => metadata[d] = saved[c]
    BY <1>2, <1>9, <2>1, NoDeviceAssumption DEF PatchRollback
  <2>. QED
    BY <1>1, <1>9, <2>2, ReturnCallInv DEF PatchRollback, CacheUpdate, Fail
<1>10. CASE RemoveRollback(c)
  BY <1>1, <1>2, <1>10, ReturnCallInv DEF RemoveRollback, CacheAdd, Fail
<1>. QED
  BY <1>3, <1>4, <1>5, <1>6, <1>7, <1>8, <1>9, <1>10 DEF Proceed, Work

\* An accepted request makes the copies equal again; a refused one leaves Core
\* Metadata as it was; a timeout disturbs the Device, an unnoticed failure loses it.
LEMMA AnswerCallInv ==
  ASSUME TypeOK, CallInv, NEW c \in Caller, Answer(c)
  PROVE  CallInv'
<1>. DEFINE d == dev[c]
<1>1. pc[c] = "request" /\ d \in Device /\ RequestOf(c) \in Request
  BY DEF Answer, Accept, RefusedInside, Unserializable, Part, Refuse, Timeout, TypeOK
<1>2. /\ d \notin disturbed => Knows(c)
      /\ d \notin Lost => Knows(c) /\ KnowsMetadata(c)
  BY <1>1 DEF CallInv, Known, Lost
<1>3. CASE Accept(c)
  <2>1. /\ op[c] = "add" => Effect(RequestOf(c)) = arg[c]
        /\ op[c] = "patch" => Effect(RequestOf(c)) = Apply(metadata[d], arg[c])
        /\ op[c] = "remove" => Effect(RequestOf(c)) = NoDevice
    BY DEF Effect, RequestOf
  <2>2. op[c] \in Op
    BY DEF TypeOK
  <2>3. d \notin Lost => cache[d] = Effect(RequestOf(c))
    BY <1>1, <1>2, <2>1, <2>2 DEF Knows, KnowsMetadata, Op
  <2>4. metadata'[d] = Effect(RequestOf(c))
    BY <1>1, <1>3 DEF Accept, TypeOK
  <2>5. parted' = parted /\ Lost' = Lost
    BY <1>3 DEF Accept, Lost
  <2>. QED
    BY <1>1, <1>3, <2>3, <2>4, <2>5, ReturnCallInv DEF Accept, TypeOK, Outcome
<1>4. CASE Refuse(c)
  BY <1>1, <1>2, <1>4, OnwardCallInv DEF Refuse, Goto, TypeOK, Knows, KnowsMetadata
<1>6. CASE RefusedInside(c) \/ Unserializable(c)
  <2>1. PICK result \in {"ok", "TypeError"} : Part(c, result)
    BY <1>6 DEF RefusedInside, Unserializable
  <2>2. d \in Lost' /\ result \in Outcome
    BY <1>1, <2>1 DEF Part, Lost, Outcome
  <2>. QED  BY <1>1, <2>1, <2>2, ReturnCallInv DEF Part
<1>5. CASE Timeout(c)
  <2>. USE <1>1, <1>5 DEF Timeout, Goto, TypeOK
  <2>1. Alone'
    BY DEF CallInv, Alone
  <2>2. Settled'
    BY DEF CallInv, Settled, Lost
  <2>3. Known'
    BY DEF CallInv, Known, Knows, KnowsMetadata
  <2>4. LateDisturbed'
    BY DEF CallInv, LateDisturbed, RequestOf
  <2>5. SurprisesNeedOverlap'
    BY DEF CallInv, SurprisesNeedOverlap
  <2>. QED  BY <2>1, <2>2, <2>3, <2>4, <2>5 DEF CallInv
<1>. QED  BY <1>3, <1>4, <1>5, <1>6 DEF Answer

\* A late request only touches a Device its client has disturbed.
LEMMA LateArrivalCallInv ==
  ASSUME TypeOK, CallInv, NEW r \in late, LateAccept(r) \/ LateLoss(r)
  PROVE  CallInv'
<1>1. r.dev \in disturbed
  BY DEF CallInv, LateDisturbed
<1>2. /\ \A d \in Device \ disturbed : metadata'[d] = metadata[d]
      /\ UNCHANGED parted
  BY <1>1 DEF LateAccept, LateLoss, TypeOK
<1>. USE <1>2 DEF LateAccept, LateLoss, TypeOK
<1>3. Alone' /\ LateDisturbed' /\ SurprisesNeedOverlap'
  BY DEF CallInv, Alone, LateDisturbed, SurprisesNeedOverlap
<1>4. Settled'
  BY DEF CallInv, Settled, Lost
<1>5. Known'
  BY DEF CallInv, Known, Knows, KnowsMetadata
<1>. QED  BY <1>3, <1>4, <1>5 DEF CallInv

\* The inductive invariant holds in every reachable state.
LEMMA CallInvariant == Spec => [](TypeOK /\ CallInv)
<1>1. TypeOK /\ CallInv /\ [Next]_vars => CallInv'
  <2>1. CASE UNCHANGED vars
    BY <2>1 DEF vars, CallInv, Alone, Settled, Known, Knows, KnowsMetadata, LateDisturbed,
                SurprisesNeedOverlap, Lost
  <2>. QED
    BY <2>1, BeginCallInv, ProceedCallInv, AnswerCallInv, LateArrivalCallInv
       DEF Next
<1>. QED  BY <1>1, InitCallInv, TypeCorrect, PTL DEF Spec

\* As long as no two calls on a Device overlap, no client gives up on Core Metadata and
\* none of its changes fails unnoticed, the cache and Core Metadata differ on it only
\* between the cache write of a call and the call's end: every refusal that shows in the
\* status of an answer is rolled back exactly.
THEOREM RollbackRestoresSync == Spec => []SyncUnlessDisturbed
<1>1. TypeOK /\ CallInv => SyncUnlessDisturbed
  <2>. SUFFICES ASSUME TypeOK, CallInv, NEW d \in Device \ Lost,
                       cache[d] # metadata[d]
                PROVE  PendingOn(d)
    BY DEF SyncUnlessDisturbed
  <2>1. PICK c \in Caller : pc[c] # "idle" /\ dev[c] = d
    BY DEF CallInv, Settled
  <2>2. Knows(c) /\ KnowsMetadata(c)
    BY <2>1 DEF CallInv, Known, Lost
  <2>3. pc[c] \in {"request", "rollback"}
    BY <2>1, <2>2 DEF Knows, KnowsMetadata, TypeOK, Step
  <2>. QED  BY <2>1, <2>3 DEF PendingOn, Active
<1>. QED  BY <1>1, CallInvariant, PTL

\* A CacheError, and a return that did nothing, reach a caller only when another
\* call on the same Device overlapped its own.
THEOREM SurprisesComeFromOverlap == Spec => []SurprisesNeedOverlap
<1>1. CallInv => SurprisesNeedOverlap
  BY DEF CallInv
<1>. QED  BY <1>1, CallInvariant, PTL
-----------------------------------------------------------------------------
(* The write-back implements the abstract store. *)

\* A step on one Device d that loses none is a step of the store when,
\* unless d is lost, it proposes, confirms or withdraws a change of d.
LEMMA OneDeviceStep ==
  ASSUME TypeOK, NEW d \in Device, NEW e \in Entry, NEW f \in Entry,
         cache' = [cache EXCEPT ![d] = e],
         metadata' = [metadata EXCEPT ![d] = f],
         Lost' = Lost,
         d \notin Lost =>
           \/ f = metadata[d] /\ (cache[d] = metadata[d] \/ e = metadata[d])
           \/ e = cache[d] /\ f = cache[d]
  PROVE  [Store!Next]_Store!storeVars
<1>. USE DEF TypeOK
<1>1. CASE d \in Lost
  BY <1>1 DEF Store!Next, Store!Stray
<1>2. CASE d \notin Lost /\ f = metadata[d] /\ cache[d] = metadata[d]
  <2>1. metadata' = metadata
    BY <1>2
  <2>2. Store!Propose(d, e)
    BY <1>2, <2>1 DEF Store!Propose
  <2>. QED  BY <1>2, <2>2 DEF Store!Next, Store!Kept
<1>3. CASE d \notin Lost /\ f = metadata[d] /\ e = metadata[d]
  <2>1. metadata' = metadata
    BY <1>3
  <2>2. Store!Withdraw(d)
    BY <1>3, <2>1 DEF Store!Withdraw
  <2>. QED  BY <1>3, <2>2 DEF Store!Next, Store!Kept
<1>4. CASE d \notin Lost /\ e = cache[d] /\ f = cache[d]
  <2>1. cache' = cache
    BY <1>4
  <2>2. Store!Confirm(d)
    BY <1>4, <2>1 DEF Store!Confirm
  <2>. QED  BY <1>4, <2>2 DEF Store!Next, Store!Kept
<1>. QED  BY <1>1, <1>2, <1>3, <1>4

\* A call that begins changes neither copy; it may lose its Device.
LEMMA BeginStoreStep ==
  ASSUME TypeOK, NEW c \in Caller, Begin(c)
  PROVE  [Store!Next]_Store!storeVars
<1>1. PICK d \in Device :
        /\ cache' = cache /\ metadata' = metadata
        /\ Lost' = Lost \/ Lost' = Lost \union {d}
  BY DEF Begin, AddBegin, PatchBegin, RemoveBegin, Reject, Enter, Start, Lost
<1>. QED  BY <1>1 DEF Store!Next, Store!Lose, Store!storeVars

\* The cache write of a call proposes its change, the rollback withdraws it, and
\* every other step of a call leaves both copies alone.
LEMMA ProceedStoreStep ==
  ASSUME TypeOK, CallInv, NEW c \in Caller, Proceed(c)
  PROVE  [Store!Next]_Store!storeVars
<1>. DEFINE d == dev[c]
<1>1. pc[c] # "idle" /\ d \in Device
  BY DEF Proceed, Work, Clone, ValidationFails, AddWrite, PatchWrite, RemoveWrite,
         AddRollback, PatchRollback, RemoveRollback, TypeOK
<1>2. d \notin Lost => Knows(c) /\ KnowsMetadata(c)
  BY <1>1 DEF CallInv, Known, Lost
<1>3. metadata' = metadata /\ Lost' = Lost
  BY DEF Proceed, Work, Clone, ValidationFails, AddWrite, PatchWrite, RemoveWrite,
         AddRollback, PatchRollback, RemoveRollback, Lost
<1>4. metadata' = [metadata EXCEPT ![d] = metadata[d]] /\ metadata[d] \in Entry
  BY <1>1, <1>3 DEF TypeOK
<1>5. CASE cache' = cache
  BY <1>3, <1>5 DEF Store!storeVars
<1>6. ASSUME NEW e \in Entry, cache' = [cache EXCEPT ![d] = e],
             d \notin Lost => cache[d] = metadata[d] \/ e = metadata[d]
      PROVE  [Store!Next]_Store!storeVars
  BY <1>1, <1>3, <1>4, <1>6, OneDeviceStep
<1>7. CASE AddWrite(c) \/ RemoveWrite(c)
  <2>1. RequestOf(c) \in Request /\ (op[c] # "add" => saved[c] \in Content)
    BY <1>1, <1>7 DEF TypeOK, AddWrite, RemoveWrite
  <2>2. op[c] = "add" => arg[c] \in Entry
    BY <2>1 DEF Request, RequestOf, Entry
  <2>3. NoDevice \in Entry
    BY DEF Entry
  <2>. QED
    BY <1>2, <1>5, <1>6, <1>7, <2>2, <2>3
       DEF AddWrite, RemoveWrite, CacheAdd, CacheRemove, Knows, KnowsMetadata
<1>8. CASE PatchWrite(c)
  <2>1. Apply(saved[c], arg[c]) \in Entry
    <3>1. saved[c] \in Content /\ arg[c] \in Patch
      BY <1>8 DEF PatchWrite, TypeOK, Request, RequestOf
    <3>. QED  BY <3>1, ApplyType DEF Entry
  <2>2. d \notin Lost => cache[d] = metadata[d]
    BY <1>2, <1>8 DEF PatchWrite, Knows, KnowsMetadata
  <2>. QED  BY <1>5, <1>6, <1>8, <2>1, <2>2 DEF PatchWrite, CacheUpdate
<1>9. CASE AddRollback(c)
  <2>1. NoDevice \in Entry /\ (d \notin Lost => metadata[d] = NoDevice)
    BY <1>2, <1>9 DEF Entry, AddRollback, Knows, KnowsMetadata
  <2>. QED  BY <1>5, <1>6, <1>9, <2>1 DEF AddRollback, CacheRemove
<1>10. CASE PatchRollback(c) \/ RemoveRollback(c)
  <2>1. saved[c] \in Entry /\ (d \notin Lost => metadata[d] = saved[c])
    BY <1>2, <1>10 DEF TypeOK, PatchRollback, RemoveRollback, Knows, KnowsMetadata
  <2>. QED
    BY <1>5, <1>6, <1>10, <2>1
       DEF PatchRollback, RemoveRollback, CacheAdd, CacheUpdate
<1>11. CASE Clone(c) \/ ValidationFails(c)
  BY <1>5, <1>11 DEF Clone, ValidationFails
<1>. QED
  BY <1>7, <1>8, <1>9, <1>10, <1>11 DEF Proceed, Work

\* An accepted request confirms exactly what the cache shows, although it carries
\* the update map and not the Device; an unnoticed failure loses the Device.
LEMMA AnswerStoreStep ==
  ASSUME TypeOK, CallInv, NEW c \in Caller, Answer(c)
  PROVE  [Store!Next]_Store!storeVars
<1>. DEFINE d == dev[c]
            sent == Effect(RequestOf(c))
<1>1. pc[c] = "request" /\ d \in Device /\ RequestOf(c) \in Request
  BY DEF Answer, Accept, RefusedInside, Unserializable, Part, Refuse, Timeout, TypeOK
<1>2. d \notin Lost => Knows(c) /\ KnowsMetadata(c)
  BY <1>1 DEF CallInv, Known, Lost
<1>3. CASE Accept(c)
  <2>1. sent \in Entry
    BY <1>1, <1>3, EffectType DEF Accept
  <2>2. /\ op[c] = "add" => sent = arg[c]
        /\ op[c] = "patch" => sent = Apply(metadata[d], arg[c])
        /\ op[c] = "remove" => sent = NoDevice
    BY DEF Effect, RequestOf
  <2>3. d \notin Lost => sent = cache[d]
    BY <1>1, <1>2, <2>2 DEF Knows, KnowsMetadata, TypeOK, Op
  <2>4. /\ cache' = [cache EXCEPT ![d] = cache[d]] /\ cache[d] \in Entry
        /\ metadata' = [metadata EXCEPT ![d] = sent]
        /\ Lost' = Lost
    BY <1>1, <1>3 DEF Accept, TypeOK, Lost
  <2>. QED  BY <1>1, <2>1, <2>3, <2>4, OneDeviceStep
<1>4. CASE Refuse(c)
  BY <1>4 DEF Refuse, Store!storeVars, Lost
<1>5. CASE Timeout(c) \/ RefusedInside(c) \/ Unserializable(c)
  <2>1. Lost' = Lost \union {d} /\ cache' = cache /\ metadata' = metadata
    BY <1>5 DEF Timeout, RefusedInside, Unserializable, Part, Lost
  <2>. QED  BY <1>1, <2>1 DEF Store!Next, Store!Lose
<1>. QED  BY <1>3, <1>4, <1>5 DEF Answer

\* A request that arrives late changes a Device the store has already lost.
LEMMA LateStoreStep ==
  ASSUME TypeOK, CallInv, NEW r \in late, LateAccept(r) \/ LateLoss(r)
  PROVE  [Store!Next]_Store!storeVars
<1>1. r.dev \in Lost /\ r.dev \in Device /\ r \in Request
  BY DEF CallInv, LateDisturbed, TypeOK, Request, Lost
<1>2. CASE LateAccept(r)
  <2>1. Effect(r) \in Entry /\ cache[r.dev] \in Entry
    BY <1>1, <1>2, EffectType DEF LateAccept, TypeOK
  <2>2. /\ cache' = [cache EXCEPT ![r.dev] = cache[r.dev]]
        /\ metadata' = [metadata EXCEPT ![r.dev] = Effect(r)]
        /\ Lost' = Lost
    BY <1>1, <1>2 DEF LateAccept, TypeOK, Lost
  <2>. QED  BY <1>1, <2>1, <2>2, OneDeviceStep
<1>3. CASE LateLoss(r)
  BY <1>3 DEF LateLoss, Store!storeVars, Lost
<1>. QED  BY <1>2, <1>3

\* The write-back implements the store: whoever watches the cache and Core Metadata
\* sees, of every Device that is not Lost (calls on it have not overlapped, no request has
\* timed out and none has failed unnoticed), one whole change after another, each confirmed as it was shown or withdrawn.
THEOREM WritebackImplementsStore == Spec => ImplementsStore
<1>1. Init => Store!Init
  BY DEF Init, Store!Init, Lost
<1>2. TypeOK /\ CallInv /\ [Next]_vars => [Store!Next]_Store!storeVars
  <2>1. CASE UNCHANGED vars
    BY <2>1 DEF vars, Store!storeVars, Lost
  <2>. QED
    BY <2>1, BeginStoreStep, ProceedStoreStep, AnswerStoreStep, LateStoreStep
       DEF Next
<1>. QED  BY <1>1, <1>2, CallInvariant, PTL DEF Spec, ImplementsStore, Store!Spec


-----------------------------------------------------------------------------
(* The events loop: its inductive invariants. *)

\* Only the event of a delete carries no Device.
Sound(e) == e.action # "delete" => e.details \in Content

\* What the types leave out: events are sound, and the loop has a call running only
\* inside of a handler, on the Device of its event, with what the event says.
LoopInv ==
  /\ \A i \in DOMAIN events : Sound(events[i])
  /\ handling # NoDevice => Sound(handling)
  /\ pc[EventsThread] # "idle" =>
       /\ handling # NoDevice
       /\ handling.dev = dev[EventsThread]
       /\ \/ /\ handling.action = "update" /\ op[EventsThread] = "patch"
             /\ arg[EventsThread] = UpdatesFrom(handling.details)
          \/ handling.action = "delete" /\ op[EventsThread] = "remove"

\* The application's calls are all on Devices it has touched.
Touches == \A c \in Application : pc[c] # "idle" => dev[c] \in touched

\* The loop's last call has returned without an error.
Succeeded == pc[EventsThread] = "idle" /\ outcome[EventsThread] \in {"ok", "skipped"}

Holds(d, attrs) ==
  cache[d] # NoDevice /\ \A a \in attrs : cache[d][a] = handling.details[a]

\* How far the handler of an event has come with a Device that is not the application's.
Reached ==
  handling # NoDevice /\ handling.dev \notin touched =>
    LET d == handling.dev  step == pc[EventsThread] IN
    /\ step = "clone" => cache[d] # NoDevice
    /\ handling.action = "add" => Holds(d, Copied)
    /\ handling.action = "update" /\ (step \in {"request", "rollback"} \/ Succeeded)
         => Holds(d, Patched)
    /\ handling.action = "delete" /\ (step = "request" \/ Succeeded)
         => cache[d] = NoDevice

ReachInv == SyncTypeOK /\ LoopInv /\ Touches /\ Reached

AddQueued(d) == \E i \in DOMAIN events : events[i].dev = d /\ events[i].action = "add"

\* Some call has taken d out of the cache and waits for Core Metadata.
Leaving(d) ==
  \E c \in Caller :
    op[c] = "remove" /\ dev[c] = d /\ pc[c] \in {"request", "rollback"}

\* Nobody adds a Device but users, through Core Metadata.
NoAdds ==
  /\ \A c \in Caller : pc[c] # "idle" => op[c] # "add"
  /\ \A r \in late : r.op # "add"

\* What Core Metadata holds and the cache lacks has its add event queued, or is Leaving.
Remembered ==
  \A d \in Device \ dropped :
    metadata[d] # NoDevice /\ cache[d] = NoDevice => AddQueued(d) \/ Leaving(d)

RememberInv == SyncTypeOK /\ LoopInv /\ NoAdds /\ Remembered

\* Where the application only patches, nothing but the loop makes Devices come and go.
OnlyPatches == \A c \in Application : pc[c] # "idle" => op[c] = "patch"

\* What the handler of an event knows of its Device, and of the driver.
Following ==
  handling # NoDevice =>
    LET d == handling.dev  step == pc[EventsThread] IN
    /\ handling.action = "add" => cache[d] # NoDevice
    /\ handling.action = "delete" =>
         /\ step \in {"clone", "write"} => cache[d] # NoDevice
         /\ step \in {"request", "rollback"} => cache[d] = NoDevice
         /\ step = "idle" /\ Raised => d \notin driver \/ cache[d] # NoDevice

FollowInv == SyncTypeOK /\ LoopInv /\ OnlyPatches /\ Following /\ DriverServesCached

-----------------------------------------------------------------------------
(* The queue of events. *)

\* Publishing queues a sound event behind the others, or leaves a mark in dropped.
LEMMA Published ==
  ASSUME SyncTypeOK, LoopInv, NEW d \in Device,
         NEW action \in {"add", "update", "delete"},
         metadata'[d] \in Entry, action # "delete" => metadata'[d] \in Content,
         Publish(action, d)
  PROVE  /\ events' \in Seq(Event) /\ Len(events') <= QueueSize
         /\ \A i \in DOMAIN events' : Sound(events'[i])
         /\ dropped \subseteq dropped' /\ dropped' \subseteq Device
         /\ \A x \in Device : AddQueued(x) => AddQueued(x)'
         /\ action = "add" => AddQueued(d)' \/ d \in dropped'
<1>. DEFINE e == [action |-> action, dev |-> d, details |-> metadata'[d]]
<1>1. CASE Len(events) < QueueSize
  <2>1. events' = Append(events, e) /\ dropped' = dropped
    BY <1>1 DEF Publish
  <2>2. events \in Seq(Event) /\ e \in Event /\ dropped \subseteq Device
    BY DEF SyncTypeOK, Event
  <2>3. /\ events' \in Seq(Event) /\ Len(events') = Len(events) + 1
        /\ events'[Len(events) + 1] = e
        /\ \A i \in DOMAIN events : i \in DOMAIN events' /\ events'[i] = events[i]
        /\ \A i \in DOMAIN events' : i \in DOMAIN events \/ i = Len(events) + 1
        /\ Len(events) + 1 \in DOMAIN events'
    BY <2>1, <2>2
  <2>4. Len(events') <= QueueSize
    BY <1>1, <2>2, <2>3, SyncAssumption
  <2>5. \A i \in DOMAIN events' : Sound(events'[i])
    BY <2>3 DEF LoopInv, Sound
  <2>6. \A x \in Device : AddQueued(x) => AddQueued(x)'
    BY <2>3 DEF AddQueued
  <2>7. action = "add" => AddQueued(d)'
    BY <2>3 DEF AddQueued
  <2>. QED  BY <2>1, <2>2, <2>3, <2>4, <2>5, <2>6, <2>7
<1>2. CASE ~ (Len(events) < QueueSize)
  BY <1>2 DEF Publish, SyncTypeOK, LoopInv, AddQueued
<1>. QED  BY <1>1, <1>2

\* The loop takes the first event; an add that was queued still is, unless it is this one.
LEMMA Taken ==
  ASSUME SyncTypeOK, LoopInv, NEW action, NextEvent(action)
  PROVE  /\ Head(events) \in Event /\ Sound(Head(events))
         /\ Head(events).action = action
         /\ events' \in Seq(Event) /\ Len(events') <= QueueSize
         /\ \A i \in DOMAIN events' : Sound(events'[i])
         /\ \A x \in Device : AddQueued(x) =>
              AddQueued(x)' \/ (action = "add" /\ Head(events).dev = x)
<1>1. events \in Seq(Event) /\ events # <<>> /\ Len(events) <= QueueSize
  BY DEF SyncTypeOK, NextEvent
<1>2. events' = Tail(events) /\ Head(events).action = action
  BY DEF NextEvent
<1>3. /\ Len(events) \in Nat \ {0} /\ DOMAIN events = 1 .. Len(events)
      /\ Head(events) = events[1] /\ events[1] \in Event
  BY <1>1
<1>4. events' \in Seq(Event) /\ Len(events') = Len(events) - 1
  BY <1>1, <1>2
<1>5. DOMAIN events' = 1 .. Len(events) - 1
  BY <1>4
<1>6. \A i \in 1 .. Len(events) - 1 : events'[i] = events[i + 1]
  BY <1>1, <1>2
<1>7. Sound(Head(events)) /\ \A i \in DOMAIN events' : Sound(events'[i])
  BY <1>3, <1>5, <1>6 DEF LoopInv, Sound
<1>8. ASSUME NEW x \in Device, AddQueued(x)
      PROVE  AddQueued(x)' \/ (action = "add" /\ Head(events).dev = x)
  <2>1. PICK i \in DOMAIN events : events[i].dev = x /\ events[i].action = "add"
    BY <1>8 DEF AddQueued
  <2>2. CASE i = 1
    BY <1>2, <1>3, <2>1, <2>2
  <2>3. CASE i # 1
    <3>1. i - 1 \in DOMAIN events' /\ events'[i - 1] = events[i]
      BY <1>3, <1>5, <1>6, <2>3
    <3>. QED  BY <2>1, <3>1 DEF AddQueued
  <2>. QED  BY <2>2, <2>3
<1>9. Len(events') <= QueueSize
  BY <1>1, <1>3, <1>4, SyncAssumption
<1>. QED  BY <1>2, <1>3, <1>4, <1>7, <1>8, <1>9

\* What the loop makes of an event is a Device, or an update map.
LEMMA FromEvent ==
  ASSUME NEW details \in Content
  PROVE  /\ DeviceFrom(details) \in Content /\ UpdatesFrom(details) \in Patch
         /\ \A a \in Copied : DeviceFrom(details)[a] = details[a]
         /\ DOMAIN UpdatesFrom(details) = Patched
         /\ \A a \in Patched : UpdatesFrom(details)[a] = details[a]
<1>1. DeviceFrom(details) \in Content
  BY SyncAssumption DEF DeviceFrom, Content
<1>2. UpdatesFrom(details) \in [Patched -> Value] /\ Patched \in SUBSET Attr
  BY SyncAssumption DEF UpdatesFrom, Content
<1>3. UpdatesFrom(details) \in Patch
  BY <1>2 DEF Patch
<1>. QED  BY <1>1, <1>3, SyncAssumption DEF DeviceFrom, UpdatesFrom

-----------------------------------------------------------------------------
(* What the steps of a call have in common. *)

CallStep(c) ==
  \/ Silently(Work(c) \/ Refuse(c) \/ Timeout(c) \/ RefusedInside(c))
  \/ AcceptAndPublish(c)
  \/ c \in Application /\ (Silently(ValidationFails(c)) \/ Silently(Unserializable(c)))

\* A step of a call leaves the other calls alone, and every Device but its own.
LEMMA CallFrame ==
  ASSUME SyncTypeOK, NEW c \in Caller, CallStep(c)
  PROVE  /\ pc[c] # "idle"
         /\ UNCHANGED <<op, dev, handling, driver, touched>>
         /\ \A x \in Caller \ {c} : pc'[x] = pc[x] /\ arg'[x] = arg[x] /\ outcome'[x] = outcome[x]
         /\ pc'[c] # "idle" => arg'[c] = arg[c]
         /\ \A d \in Device \ {dev[c]} : cache'[d] = cache[d]
<1>. USE DEF SyncTypeOK, TypeOK, Return, Goto
<1>1. CASE Silently(Work(c) \/ Refuse(c) \/ Timeout(c) \/ RefusedInside(c))
  <2>1. UNCHANGED <<handling, driver, touched>>
    BY <1>1 DEF Silently, Aside
  <2>2. CASE Clone(c)
    BY <2>1, <2>2 DEF Clone
  <2>3. CASE AddWrite(c) \/ PatchWrite(c) \/ RemoveWrite(c)
    BY <2>1, <2>3 DEF AddWrite, PatchWrite, RemoveWrite, CacheAdd, CacheUpdate, CacheRemove, Send
  <2>4. CASE AddRollback(c) \/ PatchRollback(c) \/ RemoveRollback(c)
    BY <2>1, <2>4 DEF AddRollback, PatchRollback, RemoveRollback,
                      CacheAdd, CacheUpdate, CacheRemove, Fail
  <2>5. CASE Refuse(c) \/ Timeout(c) \/ RefusedInside(c)
    BY <2>1, <2>5 DEF Refuse, Timeout, RefusedInside, Part
  <2>. QED  BY <1>1, <2>2, <2>3, <2>4, <2>5 DEF Silently, Work
<1>2. CASE AcceptAndPublish(c)
  BY <1>2 DEF AcceptAndPublish, Accept
<1>3. CASE Silently(ValidationFails(c)) \/ Silently(Unserializable(c))
  BY <1>3 DEF Silently, Aside, ValidationFails, Unserializable, Part
<1>. QED  BY <1>1, <1>2, <1>3 DEF CallStep

\* What a call that is accepted leaves in Core Metadata, and publishes.
LEMMA AcceptedIsSound ==
  ASSUME SyncTypeOK, NEW r \in Request, Acceptable(r),
         metadata' = [metadata EXCEPT ![r.dev] = Effect(r)]
  PROVE  /\ r.dev \in Device /\ metadata'[r.dev] = Effect(r)
         /\ ActionOf[r.op] \in {"add", "update", "delete"}
         /\ Effect(r) \in Entry
         /\ ActionOf[r.op] # "delete" => Effect(r) \in Content
         /\ r.op # "add" /\ Effect(r) # NoDevice => metadata[r.dev] # NoDevice
<1>. USE DEF SyncTypeOK, TypeOK, ActionOf
<1>1. CASE r \in [op : {"add"}, dev : Device, arg : Content]
  BY <1>1 DEF Effect, Entry
<1>2. CASE r \in [op : {"patch"}, dev : Device, arg : Patch]
  <2>1. metadata[r.dev] \in Content
    BY <1>2 DEF Acceptable, Entry
  <2>2. Effect(r) \in Content
    BY <1>2, <2>1, ApplyType DEF Effect
  <2>. QED  BY <1>2, <2>1, <2>2, NoDeviceAssumption DEF Entry
<1>3. CASE r \in [op : {"remove"}, dev : Device, arg : {NoDevice}]
  BY <1>3 DEF Effect, Entry
<1>. QED  BY <1>1, <1>2, <1>3 DEF Request

-----------------------------------------------------------------------------
(* Type correctness, and the loop's own call. *)

LoopTyped == SyncTypeOK /\ LoopInv

LEMMA InitLoopTyped == SyncInit => LoopTyped
<1>. SUFFICES ASSUME SyncInit PROVE LoopTyped
  OBVIOUS
<1>1. TypeOK
  BY InitTypeOK DEF SyncInit
<1>2. SyncTypeOK
  BY <1>1, SyncAssumption DEF SyncInit, SyncTypeOK
<1>3. LoopInv
  BY SyncAssumption DEF SyncInit, Init, LoopInv
<1>. QED  BY <1>2, <1>3 DEF LoopTyped

\* The loop's invariant depends on these alone.
LEMMA LoopKept ==
  ASSUME SyncTypeOK, LoopInv, UNCHANGED handling,
         \A i \in DOMAIN events' : Sound(events'[i]),
         pc'[EventsThread] # "idle" =>
           /\ pc[EventsThread] # "idle"
           /\ dev'[EventsThread] = dev[EventsThread]
           /\ op'[EventsThread] = op[EventsThread]
           /\ arg'[EventsThread] = arg[EventsThread]
  PROVE  LoopInv'
  BY DEF LoopInv, Sound

LEMMA UserEditTyped ==
  ASSUME LoopTyped, NEW d \in Device, UserEdit(d)
  PROVE  LoopTyped'
<1>. USE DEF LoopTyped
<1>1. PICK action \in {"add", "update", "delete"}, x \in Entry :
        /\ metadata' = [metadata EXCEPT ![d] = x] /\ Publish(action, d)
        /\ action # "delete" => x \in Content
  BY DEF UserEdit, Entry
<1>2. metadata' \in [Device -> Entry] /\ metadata'[d] = x
  BY <1>1 DEF SyncTypeOK, TypeOK
<1>3. /\ events' \in Seq(Event) /\ Len(events') <= QueueSize /\ dropped' \subseteq Device
      /\ \A i \in DOMAIN events' : Sound(events'[i])
  BY <1>1, <1>2, Published
<1>4. SyncTypeOK'
  BY <1>2, <1>3 DEF UserEdit, SyncTypeOK, TypeOK, RequestOf
<1>5. LoopInv'
  BY <1>3, LoopKept DEF UserEdit
<1>. QED  BY <1>4, <1>5

\* A call that begins leaves the other calls alone, and both stores.
LEMMA BeginFrame ==
  ASSUME SyncTypeOK, NEW c \in Caller, Begin(c)
  PROVE  /\ UNCHANGED <<cache, metadata, late>>
         /\ dev'[c] \in Device
         /\ \A x \in Caller \ {c} :
              /\ pc'[x] = pc[x] /\ op'[x] = op[x] /\ dev'[x] = dev[x]
              /\ arg'[x] = arg[x] /\ outcome'[x] = outcome[x]
<1>. USE DEF SyncTypeOK, TypeOK, Start, Reject, Return, Enter
<1>1. PICK d \in Device :
        \/ \E content \in Content : AddBegin(c, d, content)
        \/ \E patch \in Patch : PatchBegin(c, d, patch)
        \/ RemoveBegin(c, d)
  BY DEF Begin
<1>. QED  BY <1>1 DEF AddBegin, PatchBegin, RemoveBegin

LEMMA AppBeginTyped ==
  ASSUME LoopTyped, NEW c \in Application, AppBegin(c)
  PROVE  LoopTyped'
<1>. USE DEF LoopTyped
<1>1. c \in Caller /\ c # EventsThread /\ EventsThread \in Caller /\ Begin(c)
  BY SyncAssumption DEF Application, AppBegin
<1>2. TypeOK'
  BY <1>1, BeginTypeOK DEF SyncTypeOK
<1>3. SyncTypeOK'
  BY <1>1, <1>2, BeginFrame DEF SyncTypeOK, AppBegin, Aside
<1>4. LoopInv'
  BY <1>1, BeginFrame, LoopKept DEF AppBegin, Aside, LoopInv
<1>. QED  BY <1>3, <1>4

LEMMA CallTyped ==
  ASSUME LoopTyped, NEW c \in Caller, CallStep(c)
  PROVE  LoopTyped'
<1>. USE DEF LoopTyped
<1>1. TypeOK'
  BY ProceedTypeOK, AnswerTypeOK
     DEF CallStep, Silently, AcceptAndPublish, Proceed, Answer, SyncTypeOK
<1>2. /\ events' \in Seq(Event) /\ Len(events') <= QueueSize /\ dropped' \subseteq Device
      /\ \A i \in DOMAIN events' : Sound(events'[i])
  <2>1. CASE UNCHANGED <<events, dropped>>
    BY <2>1 DEF SyncTypeOK, LoopInv
  <2>2. CASE AcceptAndPublish(c)
    <3>1. RequestOf(c) \in Request
      BY <2>2 DEF AcceptAndPublish, Accept, SyncTypeOK, TypeOK
    <3>2. /\ Acceptable(RequestOf(c)) /\ RequestOf(c).dev = dev[c] /\ RequestOf(c).op = op[c]
          /\ metadata' = [metadata EXCEPT ![dev[c]] = Effect(RequestOf(c))]
          /\ Publish(ActionOf[op[c]], dev[c])
      BY <2>2 DEF AcceptAndPublish, Accept, RequestOf
    <3>3. /\ dev[c] \in Device /\ ActionOf[op[c]] \in {"add", "update", "delete"}
          /\ metadata'[dev[c]] \in Entry
          /\ ActionOf[op[c]] # "delete" => metadata'[dev[c]] \in Content
      BY <3>1, <3>2, AcceptedIsSound
    <3>. QED  BY <3>2, <3>3, Published
  <2>. QED  BY <2>1, <2>2 DEF CallStep, Silently, Aside
<1>3. SyncTypeOK'
  BY <1>1, <1>2, CallFrame DEF SyncTypeOK
<1>4. LoopInv'
  <2>1. EventsThread \in Caller
    BY SyncAssumption
  <2>. QED  BY <1>2, <2>1, CallFrame, LoopKept
<1>. QED  BY <1>3, <1>4

LEMMA LateTyped ==
  ASSUME LoopTyped, NEW r \in late, LateAcceptAndPublish(r) \/ Silently(LateLoss(r))
  PROVE  LoopTyped'
<1>. USE DEF LoopTyped
<1>1. TypeOK'
  BY LateArrivalTypeOK DEF SyncTypeOK, LateAcceptAndPublish, Silently
<1>2. /\ events' \in Seq(Event) /\ Len(events') <= QueueSize /\ dropped' \subseteq Device
      /\ \A i \in DOMAIN events' : Sound(events'[i])
  <2>1. CASE UNCHANGED <<events, dropped>>
    BY <2>1 DEF SyncTypeOK, LoopInv
  <2>2. CASE LateAcceptAndPublish(r)
    <3>1. r \in Request
      BY DEF SyncTypeOK, TypeOK
    <3>2. /\ Acceptable(r) /\ Publish(ActionOf[r.op], r.dev)
          /\ metadata' = [metadata EXCEPT ![r.dev] = Effect(r)]
      BY <2>2 DEF LateAcceptAndPublish, LateAccept
    <3>3. /\ r.dev \in Device /\ ActionOf[r.op] \in {"add", "update", "delete"}
          /\ metadata'[r.dev] \in Entry
          /\ ActionOf[r.op] # "delete" => metadata'[r.dev] \in Content
      BY <3>1, <3>2, AcceptedIsSound
    <3>. QED  BY <3>2, <3>3, Published
  <2>. QED  BY <2>1, <2>2 DEF Silently, Aside
<1>3. UNCHANGED <<pc, op, dev, arg, handling, driver, touched>>
  BY DEF LateAcceptAndPublish, LateAccept, Silently, Aside, LateLoss
<1>4. SyncTypeOK'
  BY <1>1, <1>2, <1>3 DEF SyncTypeOK
<1>5. LoopInv'
  BY <1>2, <1>3, LoopKept
<1>. QED  BY <1>4, <1>5

\* The loop begins a handler only when no call of its own is running, and ends it then.
LEMMA EventsTyped ==
  ASSUME LoopTyped, Events
  PROVE  LoopTyped'
<1>. USE DEF LoopTyped
<1>. DEFINE e == Head(events)
<1>1. CASE HandleAdd
  <2>1. NextEvent("add") /\ pc[EventsThread] = "idle"
    BY <1>1 DEF HandleAdd, NextEvent, LoopInv
  <2>2. e \in Event /\ e.details \in Content /\ e.dev \in Device
    BY <2>1, Taken DEF Sound, Event
  <2>3. cache' \in [Device -> Entry]
    BY <1>1, <2>2, FromEvent DEF HandleAdd, SyncTypeOK, TypeOK, Entry
  <2>4. TypeOK'
    BY <1>1, <2>3 DEF HandleAdd, SyncTypeOK, TypeOK, RequestOf
  <2>5. handling' = e \/ handling' = handling
    BY <1>1 DEF HandleAdd
  <2>6. SyncTypeOK'
    BY <1>1, <2>1, <2>2, <2>4, <2>5, Taken DEF HandleAdd, SyncTypeOK, NextEvent
  <2>7. LoopInv'
    BY <1>1, <2>1, <2>2, <2>5, Taken DEF HandleAdd, LoopInv, Sound
  <2>. QED  BY <2>6, <2>7
<1>2. CASE HandleUpdate
  <2>1. NextEvent("update")
    BY <1>2 DEF HandleUpdate
  <2>2. e \in Event /\ e.details \in Content /\ e.dev \in Device /\ e.action = "update"
    BY <2>1, Taken DEF Sound, Event
  <2>3. UpdatesFrom(e.details) \in Patch /\ EventsThread \in Caller
    BY <2>2, FromEvent, SyncAssumption
  <2>4. PatchBegin(EventsThread, e.dev, UpdatesFrom(e.details)) /\ handling' = e
    BY <1>2 DEF HandleUpdate
  <2>5. TypeOK'
    <3>1. Begin(EventsThread)
      BY <2>2, <2>3, <2>4 DEF Begin
    <3>. QED  BY <2>3, <3>1, BeginTypeOK DEF SyncTypeOK
  <2>6. SyncTypeOK'
    BY <2>1, <2>2, <2>4, <2>5, Taken DEF SyncTypeOK, NextEvent
  <2>7. LoopInv'
    <3>1. pc'[EventsThread] # "idle" =>
            /\ dev'[EventsThread] = e.dev /\ op'[EventsThread] = "patch"
            /\ arg'[EventsThread] = UpdatesFrom(e.details)
      BY <2>3, <2>4
         DEF PatchBegin, Reject, Enter, Start, Return, SyncTypeOK, TypeOK
    <3>2. handling' # NoDevice
      BY <2>2, <2>4, EventAssumption
    <3>. QED  BY <2>1, <2>2, <2>4, <3>1, <3>2, Taken DEF LoopInv, Sound
  <2>. QED  BY <2>6, <2>7
<1>3. CASE HandleDelete
  <2>1. NextEvent("delete")
    BY <1>3 DEF HandleDelete
  <2>2. e \in Event /\ e.dev \in Device /\ e.action = "delete"
    BY <2>1, Taken DEF Event
  <2>3. EventsThread \in Caller
    BY SyncAssumption
  <2>4. RemoveBegin(EventsThread, e.dev) /\ handling' = e
    BY <1>3 DEF HandleDelete
  <2>5. TypeOK'
    <3>1. Begin(EventsThread)
      BY <2>2, <2>3, <2>4 DEF Begin
    <3>. QED  BY <2>3, <3>1, BeginTypeOK DEF SyncTypeOK
  <2>6. SyncTypeOK'
    BY <2>1, <2>2, <2>4, <2>5, Taken DEF SyncTypeOK, NextEvent
  <2>7. LoopInv'
    <3>1. pc'[EventsThread] # "idle" =>
            dev'[EventsThread] = e.dev /\ op'[EventsThread] = "remove"
      BY <2>3, <2>4
         DEF RemoveBegin, Reject, Enter, Start, Return, SyncTypeOK, TypeOK
    <3>2. handling' # NoDevice
      BY <2>2, <2>4, EventAssumption
    <3>. QED  BY <2>1, <2>2, <2>4, <3>1, <3>2, Taken DEF LoopInv, Sound
  <2>. QED  BY <2>6, <2>7
<1>4. CASE Handled
  <2>1. /\ UNCHANGED <<vars, events, dropped, touched>> /\ handling' = NoDevice
        /\ handling \in Event
        /\ driver' = IF Raised THEN driver ELSE TellDriver
        /\ pc[EventsThread] = "idle"
    BY <1>4 DEF Handled, SyncTypeOK
  <2>2. driver' \subseteq Device
    BY <2>1 DEF TellDriver, SyncTypeOK, Event
  <2>3. TypeOK'
    BY <2>1 DEF SyncTypeOK, TypeOK, vars, RequestOf
  <2>4. SyncTypeOK'
    BY <2>1, <2>2, <2>3 DEF SyncTypeOK
  <2>. QED  BY <2>1, <2>4 DEF LoopInv, vars
<1>. QED  BY <1>1, <1>2, <1>3, <1>4 DEF Events

\* The steps of the system by what they have in common.
LEMMA StepCases ==
  ASSUME SyncNext
  PROVE  \/ \E d \in Device : UserEdit(d)
         \/ \E c \in Application : AppBegin(c)
         \/ \E c \in Caller : CallStep(c)
         \/ \E r \in late : LateAcceptAndPublish(r) \/ Silently(LateLoss(r))
         \/ Events
  BY DEF SyncNext, CallStep, Application

LEMMA StepTyped == LoopTyped /\ [SyncNext]_syncVars => LoopTyped'
<1>. SUFFICES ASSUME LoopTyped, [SyncNext]_syncVars PROVE LoopTyped'
  OBVIOUS
<1>1. CASE UNCHANGED syncVars
  BY <1>1 DEF LoopTyped, syncVars, vars, SyncTypeOK, TypeOK, RequestOf, LoopInv
<1>2. CASE SyncNext
  BY <1>2, StepCases, UserEditTyped, AppBeginTyped, CallTyped, LateTyped, EventsTyped
<1>. QED  BY <1>1, <1>2

\* Whatever is published, handled, dropped or answered late, the loop never puts anything
\* but a whole Device into the cache, and the topic queue stays within its bound.
THEOREM LoopTypeCorrect == SyncSpec => []SyncTypeOK
<1>1. LoopTyped => SyncTypeOK
  BY DEF LoopTyped
<1>. QED  BY <1>1, InitLoopTyped, StepTyped, PTL DEF SyncSpec

-----------------------------------------------------------------------------
(* What a handler has reached when it ends. *)

LEMMA ReachedKept ==
  ASSUME Reached, UNCHANGED handling, touched \subseteq touched',
         pc'[EventsThread] = pc[EventsThread],
         outcome'[EventsThread] = outcome[EventsThread],
         handling # NoDevice /\ handling.dev \notin touched =>
           cache'[handling.dev] = cache[handling.dev]
  PROVE  Reached'
  BY DEF Reached, Holds, Succeeded

\* A call of the application works on Devices it has touched, the loop's on the
\* Device of the event; only the steps of the loop's own call tell it anything.
LEMMA LoopCallReaches ==
  ASSUME LoopTyped, Reached, CallStep(EventsThread)
  PROVE  Reached'
<1>. DEFINE c == EventsThread
            d == handling.dev
<1>1. c \in Caller /\ c \notin Application
  BY SyncAssumption DEF Application
<1>2. /\ pc[c] # "idle" /\ handling \in Event /\ d = dev[c] /\ d \in Device
      /\ UNCHANGED <<handling, touched>>
      /\ \/ /\ handling.action = "update" /\ op[c] = "patch"
            /\ arg[c] = UpdatesFrom(handling.details) /\ handling.details \in Content
         \/ handling.action = "delete" /\ op[c] = "remove"
  BY <1>1, CallFrame DEF LoopTyped, SyncTypeOK, LoopInv, Sound, Event
<1>. USE DEF LoopTyped, SyncTypeOK, TypeOK, Step, Return, Goto, Reached, Succeeded
<1>3. CASE Clone(c)
  BY <1>1, <1>2, <1>3 DEF Clone
<1>4. CASE PatchWrite(c)
  <2>1. /\ saved[c] \in Content /\ arg[c] \in Patch
    BY <1>1, <1>4 DEF PatchWrite, Request, RequestOf
  <2>2. Apply(saved[c], arg[c]) \in Content
    BY <2>1, ApplyType
  <2>3. handling.action = "update" /\ \A a \in Patched : Apply(saved[c], arg[c])[a] = handling.details[a]
    <3>1. handling.action = "update" /\ arg[c] = UpdatesFrom(handling.details)
          /\ handling.details \in Content
      BY <1>2, <1>4 DEF PatchWrite
    <3>2. DOMAIN arg[c] = Patched /\ \A a \in Patched : arg[c][a] = handling.details[a]
      BY <3>1, FromEvent
    <3>. QED  BY <3>1, <3>2, SyncAssumption DEF Apply
  <2>4. CASE cache[d] = NoDevice
    BY <1>1, <1>2, <1>4, <2>3, <2>4 DEF PatchWrite, CacheUpdate
  <2>5. CASE cache[d] # NoDevice
    <3>1. cache'[d] = Apply(saved[c], arg[c]) /\ pc'[c] = "request"
      BY <1>1, <1>2, <1>4, <2>5 DEF PatchWrite, CacheUpdate, Send
    <3>2. Holds(d, Patched)'
      BY <1>2, <2>2, <2>3, <3>1, NoDeviceAssumption DEF Holds
    <3>. QED  BY <1>2, <2>3, <3>1, <3>2
  <2>. QED  BY <2>4, <2>5
<1>5. CASE RemoveWrite(c)
  <2>1. handling.action = "delete"
    BY <1>2, <1>5 DEF RemoveWrite
  <2>. QED  BY <1>1, <1>2, <1>5, <2>1 DEF RemoveWrite, CacheRemove, Send, Outcome
<1>6. CASE PatchRollback(c)
  <2>1. handling.action = "update"
    BY <1>2, <1>6 DEF PatchRollback
  <2>. QED  BY <1>1, <1>2, <1>6, <2>1 DEF PatchRollback, CacheUpdate, Fail
<1>7. CASE RemoveRollback(c)
  <2>1. handling.action = "delete"
    BY <1>2, <1>7 DEF RemoveRollback
  <2>. QED  BY <1>1, <1>2, <1>7, <2>1 DEF RemoveRollback, CacheAdd, Fail
<1>8. CASE Refuse(c) \/ Timeout(c) \/ RefusedInside(c)
  BY <1>1, <1>2, <1>8 DEF Refuse, Timeout, RefusedInside, Part, Holds
<1>9. CASE AcceptAndPublish(c)
  BY <1>1, <1>2, <1>9 DEF AcceptAndPublish, Accept, Holds
<1>10. ~ AddWrite(c) /\ ~ AddRollback(c)
  BY <1>2 DEF AddWrite, AddRollback
<1>. QED
  BY <1>1, <1>3, <1>4, <1>5, <1>6, <1>7, <1>8, <1>9, <1>10 DEF CallStep, Silently, Work

LEMMA EventsReach ==
  ASSUME LoopTyped, Reached, Events
  PROVE  Reached'
<1>. USE DEF LoopTyped
<1>. DEFINE e == Head(events)
<1>1. CASE HandleAdd
  <2>1. NextEvent("add") /\ pc[EventsThread] = "idle" /\ handling = NoDevice
    BY <1>1 DEF HandleAdd, NextEvent, LoopInv
  <2>. HIDE DEF e
  <2>2. PICK x \in Event : x = e /\ x.action = "add" /\ x.details \in Content /\ x.dev \in Device
    <3>1. e \in Event /\ e.action = "add" /\ Sound(e)
      BY <2>1, Taken DEF e
    <3>. QED  BY <3>1 DEF Sound, Event
  <2>3. CASE cache[x.dev] # NoDevice
    BY <1>1, <2>1, <2>2, <2>3 DEF HandleAdd, Reached, e
  <2>4. CASE cache[x.dev] = NoDevice
    <3>1. cache'[x.dev] = DeviceFrom(x.details) /\ handling' = x
          /\ UNCHANGED <<pc, outcome>>
      BY <1>1, <2>2, <2>4 DEF HandleAdd, SyncTypeOK, TypeOK, e
    <3>2. Holds(x.dev, Copied)'
      BY <2>2, <3>1, FromEvent, NoDeviceAssumption DEF Holds
    <3>. QED  BY <2>1, <2>2, <3>1, <3>2 DEF Reached
  <2>. QED  BY <2>3, <2>4
<1>2. CASE HandleUpdate
  <2>1. NextEvent("update") /\ handling' = e
        /\ PatchBegin(EventsThread, e.dev, UpdatesFrom(e.details))
    BY <1>2 DEF HandleUpdate
  <2>2. e.action = "update" /\ EventsThread \in Caller
    BY <2>1, Taken, SyncAssumption
  <2>3. CASE cache[e.dev] = NoDevice
    BY <2>1, <2>2, <2>3
       DEF PatchBegin, Reject, Start, Return, Reached, Succeeded, SyncTypeOK, TypeOK
  <2>4. CASE cache[e.dev] # NoDevice
    BY <2>1, <2>2, <2>4
       DEF PatchBegin, Enter, Start, Reached, Succeeded, SyncTypeOK, TypeOK
  <2>. QED  BY <2>3, <2>4
<1>3. CASE HandleDelete
  <2>1. NextEvent("delete") /\ handling' = e /\ RemoveBegin(EventsThread, e.dev)
    BY <1>3 DEF HandleDelete
  <2>2. e.action = "delete" /\ EventsThread \in Caller
    BY <2>1, Taken, SyncAssumption
  <2>3. CASE cache[e.dev] = NoDevice
    BY <2>1, <2>2, <2>3
       DEF RemoveBegin, Reject, Start, Return, Reached, Succeeded, SyncTypeOK, TypeOK
  <2>4. CASE cache[e.dev] # NoDevice
    BY <2>1, <2>2, <2>4
       DEF RemoveBegin, Enter, Start, Reached, Succeeded, SyncTypeOK, TypeOK
  <2>. QED  BY <2>3, <2>4
<1>4. CASE Handled
  BY <1>4 DEF Handled, Reached
<1>. QED  BY <1>1, <1>2, <1>3, <1>4 DEF Events

LEMMA InitReach == SyncInit => ReachInv
  BY InitLoopTyped
     DEF SyncInit, Init, ReachInv, LoopTyped, Touches, Reached, Application

LEMMA StepReach == ReachInv /\ [SyncNext]_syncVars => ReachInv'
<1>. SUFFICES ASSUME ReachInv, [SyncNext]_syncVars PROVE ReachInv'
  OBVIOUS
<1>. USE DEF ReachInv, LoopTyped
<1>1. LoopTyped' /\ EventsThread \in Caller /\ Application \subseteq Caller
      /\ EventsThread \notin Application
  BY StepTyped, SyncAssumption DEF Application
<1>2. CASE UNCHANGED syncVars
  BY <1>1, <1>2, ReachedKept DEF syncVars, vars, Touches
<1>3. ASSUME NEW d \in Device, UserEdit(d) PROVE Touches' /\ Reached'
  BY <1>3, ReachedKept DEF UserEdit, Touches
<1>4. ASSUME NEW c \in Application, AppBegin(c) PROVE Touches' /\ Reached'
  <2>1. Begin(c) /\ touched' = touched \union {dev'[c]} /\ UNCHANGED handling
    BY <1>4 DEF AppBegin, Aside
  <2>2. Touches'
    BY <1>1, <2>1, BeginFrame DEF Touches
  <2>3. Reached'
    BY <1>1, <2>1, BeginFrame, ReachedKept
  <2>. QED  BY <2>2, <2>3
<1>5. ASSUME NEW c \in Caller, CallStep(c) PROVE Touches' /\ Reached'
  <2>1. Touches'
    BY <1>1, <1>5, CallFrame DEF Touches
  <2>2. CASE c = EventsThread
    BY <1>5, <2>1, <2>2, LoopCallReaches
  <2>3. CASE c # EventsThread
    <3>1. dev[c] \in touched
      BY <1>5, <2>3, CallFrame DEF Touches, Application
    <3>2. handling # NoDevice => handling.dev \in Device
      BY DEF SyncTypeOK, Event
    <3>. QED  BY <1>1, <1>5, <2>1, <2>3, <3>1, <3>2, CallFrame, ReachedKept
  <2>. QED  BY <2>2, <2>3
<1>6. ASSUME NEW r \in late, LateAcceptAndPublish(r) \/ Silently(LateLoss(r))
      PROVE  Touches' /\ Reached'
  <2>1. UNCHANGED <<cache, pc, dev, outcome, handling, touched>>
    BY <1>6 DEF LateAcceptAndPublish, LateAccept, Silently, Aside, LateLoss
  <2>. QED  BY <2>1, ReachedKept DEF Touches
<1>7. CASE Events
  <2>1. Touches'
    BY <1>1, <1>7
       DEF Events, HandleAdd, HandleUpdate, HandleDelete, Handled, NextEvent, PatchBegin,
           RemoveBegin, Reject, Enter, Start, Return, Touches, SyncTypeOK, TypeOK, vars
  <2>. QED  BY <1>1, <1>7, <2>1, EventsReach
<1>. QED  BY <1>1, <1>2, <1>3, <1>4, <1>5, <1>6, <1>7, StepCases

\* An event that is handled without an error has reached the cache, whatever the users
\* of Core Metadata, the application's calls on other Devices and late answers do.
THEOREM HandledEventsReachFields == SyncSpec => EventsReachFields
<1>1. ReachInv /\ [SyncNext]_syncVars =>
        [LET d == handling.dev
             InCache(attrs) == \A a \in attrs : cache[d][a] = handling.details[a]
         IN handling # NoDevice /\ handling' = NoDevice /\ ~Raised /\ d \notin touched
              => CASE handling.action = "add"    -> cache[d] # NoDevice /\ InCache(Copied)
                   [] handling.action = "update" -> cache[d] # NoDevice /\ InCache(Patched)
                   [] handling.action = "delete" -> cache[d] = NoDevice]_syncVars
  <2>. SUFFICES ASSUME ReachInv, SyncNext, handling # NoDevice, handling' = NoDevice, ~Raised,
                       handling.dev \notin touched
                PROVE  CASE handling.action = "add"    -> Holds(handling.dev, Copied)
                         [] handling.action = "update" -> Holds(handling.dev, Patched)
                         [] handling.action = "delete" -> cache[handling.dev] = NoDevice
    BY DEF Holds
  <2>1. pc[EventsThread] = "idle"
    <3>1. CASE Events
      BY <3>1 DEF Events, Handled, HandleAdd, HandleUpdate, HandleDelete, NextEvent
    <3>2. CASE ~ Events
      <4>1. handling' = handling
        BY <3>2, StepCases, CallFrame
           DEF UserEdit, AppBegin, Aside, LateAcceptAndPublish, Silently, ReachInv
      <4>. QED  BY <4>1
    <3>. QED  BY <3>1, <3>2
  <2>2. handling \in Event
    BY DEF ReachInv, SyncTypeOK
  <2>. QED  BY <2>1, <2>2 DEF ReachInv, Reached, Succeeded, Raised, Event
<1>. QED  BY <1>1, InitReach, StepReach, PTL DEF SyncSpec, EventsReachFields

-----------------------------------------------------------------------------
(* What Core Metadata holds is not forgotten, where the application adds nothing. *)

\* A step that makes no Device appear in Core Metadata, or come or go in the cache.
PresenceKept ==
  \A d \in Device :
    /\ cache'[d] = NoDevice <=> cache[d] = NoDevice
    /\ metadata'[d] # NoDevice => metadata[d] # NoDevice

\* A patch sends, and its rollback restores, Devices that are there.
LEMMA PatchPresence ==
  ASSUME LoopTyped, NEW c \in Caller, CallStep(c), op[c] = "patch"
  PROVE  PresenceKept
<1>. USE DEF LoopTyped, SyncTypeOK, TypeOK, PresenceKept, Return, Goto
<1>1. ~ AddWrite(c) /\ ~ RemoveWrite(c) /\ ~ AddRollback(c) /\ ~ RemoveRollback(c)
  BY DEF AddWrite, RemoveWrite, AddRollback, RemoveRollback
<1>2. CASE Clone(c)
  BY <1>2 DEF Clone
<1>3. CASE PatchWrite(c)
  <2>1. Apply(saved[c], arg[c]) \in Content
    <3>1. saved[c] \in Content /\ arg[c] \in Patch
      BY <1>3 DEF PatchWrite, Request, RequestOf
    <3>. QED  BY <3>1, ApplyType
  <2>. QED  BY <1>3, <2>1, NoDeviceAssumption DEF PatchWrite, CacheUpdate, Send
<1>4. CASE PatchRollback(c)
  <2>1. saved[c] \in Content
    BY <1>4 DEF PatchRollback
  <2>. QED  BY <1>4, <2>1, NoDeviceAssumption DEF PatchRollback, CacheUpdate, Fail
<1>5. CASE Refuse(c) \/ Timeout(c) \/ RefusedInside(c)
          \/ Unserializable(c) \/ ValidationFails(c)
  BY <1>5 DEF Refuse, Timeout, RefusedInside, Unserializable, Part, ValidationFails
<1>6. CASE AcceptAndPublish(c)
  BY <1>6 DEF AcceptAndPublish, Accept, Acceptable, RequestOf
<1>. QED  BY <1>1, <1>2, <1>3, <1>4, <1>5, <1>6 DEF CallStep, Silently, Work

\* A remove makes its Device go in the cache, then in Core Metadata, or come back.
LEMMA RemovePresence ==
  ASSUME LoopTyped, NEW c \in Caller, CallStep(c), op[c] = "remove"
  PROVE  /\ \A d \in Device : metadata'[d] # NoDevice => metadata[d] # NoDevice
         /\ metadata'[dev[c]] # NoDevice /\ cache'[dev[c]] = NoDevice =>
              cache[dev[c]] = NoDevice \/ pc'[c] = "request"
         /\ metadata'[dev[c]] # NoDevice /\ cache'[dev[c]] = NoDevice
              /\ pc[c] \in {"request", "rollback"} => pc'[c] = "rollback"
<1>. USE DEF LoopTyped, SyncTypeOK, TypeOK, Return, Goto
<1>1. /\ ~ AddWrite(c) /\ ~ PatchWrite(c) /\ ~ AddRollback(c) /\ ~ PatchRollback(c)
      /\ ~ ValidationFails(c)
  BY DEF AddWrite, PatchWrite, AddRollback, PatchRollback, ValidationFails
<1>2. CASE Clone(c)
  BY <1>2 DEF Clone
<1>3. CASE RemoveWrite(c)
  BY <1>3 DEF RemoveWrite, CacheRemove, Send
<1>4. CASE RemoveRollback(c)
  <2>1. saved[c] \in Content
    BY <1>4 DEF RemoveRollback
  <2>. QED  BY <1>4, <2>1, NoDeviceAssumption DEF RemoveRollback, CacheAdd, Fail
<1>5. CASE Refuse(c) \/ Timeout(c)
  BY <1>5 DEF Refuse, Timeout
<1>7. ~ RefusedInside(c) /\ ~ Unserializable(c)
  BY DEF RefusedInside, Unserializable
<1>6. CASE AcceptAndPublish(c)
  <2>1. RequestOf(c).op = "remove" /\ RequestOf(c).dev = dev[c]
    BY DEF RequestOf
  <2>2. metadata' = [metadata EXCEPT ![dev[c]] = NoDevice]
    BY <1>6, <2>1 DEF AcceptAndPublish, Accept, Effect
  <2>. QED  BY <1>6, <2>2 DEF AcceptAndPublish, Accept
<1>. QED
  BY <1>1, <1>2, <1>3, <1>4, <1>5, <1>6, <1>7 DEF CallStep, Silently, Work

\* Whatever a call publishes, the add events stay where they are.
LEMMA CallQueues ==
  ASSUME LoopTyped, NEW c \in Caller, CallStep(c)
  PROVE  dropped \subseteq dropped' /\ \A d \in Device : AddQueued(d) => AddQueued(d)'
<1>. USE DEF LoopTyped
<1>1. CASE UNCHANGED <<events, dropped>>
  BY <1>1 DEF AddQueued
<1>2. CASE AcceptAndPublish(c)
  <2>1. RequestOf(c) \in Request
    BY <1>2 DEF AcceptAndPublish, Accept, SyncTypeOK, TypeOK
  <2>2. /\ Acceptable(RequestOf(c)) /\ RequestOf(c).dev = dev[c] /\ RequestOf(c).op = op[c]
        /\ metadata' = [metadata EXCEPT ![dev[c]] = Effect(RequestOf(c))]
        /\ Publish(ActionOf[op[c]], dev[c])
    BY <1>2 DEF AcceptAndPublish, Accept, RequestOf
  <2>3. /\ dev[c] \in Device /\ ActionOf[op[c]] \in {"add", "update", "delete"}
        /\ metadata'[dev[c]] \in Entry
        /\ ActionOf[op[c]] # "delete" => metadata'[dev[c]] \in Content
    BY <2>1, <2>2, AcceptedIsSound
  <2>. QED  BY <2>2, <2>3, Published
<1>. QED  BY <1>1, <1>2 DEF CallStep, Silently, Aside

LEMMA CallRemembers ==
  ASSUME LoopTyped, NoAdds, Remembered, NEW c \in Caller, CallStep(c)
  PROVE  Remembered'
<1>1. op[c] \in {"patch", "remove"}
  BY CallFrame DEF NoAdds, LoopTyped, SyncTypeOK, TypeOK, Op
<1>2. dropped \subseteq dropped' /\ \A d \in Device : AddQueued(d) => AddQueued(d)'
  BY CallQueues
<1>3. /\ UNCHANGED <<op, dev>>
      /\ \A x \in Caller \ {c} : pc'[x] = pc[x]
      /\ \A d \in Device \ {dev[c]} : cache'[d] = cache[d]
  BY CallFrame DEF LoopTyped
<1>. SUFFICES ASSUME NEW d \in Device, d \notin dropped',
                     metadata'[d] # NoDevice, cache'[d] = NoDevice
              PROVE  AddQueued(d)' \/ Leaving(d)'
  BY DEF Remembered
<1>4. CASE op[c] = "patch"
  <2>1. metadata[d] # NoDevice /\ cache[d] = NoDevice
    BY <1>4, PatchPresence DEF PresenceKept
  <2>. QED  BY <1>2, <1>3, <1>4, <2>1 DEF Remembered, Leaving
<1>5. CASE op[c] = "remove" /\ dev[c] # d
  <2>1. metadata[d] # NoDevice /\ cache[d] = NoDevice
    BY <1>3, <1>5, RemovePresence
  <2>. QED  BY <1>2, <1>3, <1>5, <2>1 DEF Remembered, Leaving
<1>6. CASE op[c] = "remove" /\ dev[c] = d
  <2>1. CASE pc'[c] \in {"request", "rollback"}
    BY <1>3, <1>6, <2>1 DEF Leaving
  <2>2. CASE pc'[c] \notin {"request", "rollback"}
    <3>1. metadata[d] # NoDevice /\ cache[d] = NoDevice /\ pc[c] \notin {"request", "rollback"}
      BY <1>6, <2>2, RemovePresence
    <3>. QED  BY <1>2, <1>3, <3>1 DEF Remembered, Leaving
  <2>. QED  BY <2>1, <2>2
<1>. QED  BY <1>1, <1>4, <1>5, <1>6

\* The event at the head of the queue.
LEMMA HeadOf ==
  ASSUME LoopTyped, NEW action, NextEvent(action)
  PROVE  \E e \in Event :
           /\ e = Head(events) /\ e.action = action /\ Sound(e) /\ e.dev \in Device
           /\ \A d \in Device :
                AddQueued(d) => AddQueued(d)' \/ (action = "add" /\ e.dev = d)
<1>1. Head(events) \in Event
  BY Taken DEF LoopTyped
<1>2. Head(events).dev \in Device
  BY <1>1 DEF Event
<1>. QED  BY <1>1, <1>2, Taken DEF LoopTyped

\* An add event makes its Device appear in the cache, unless it is there.
LEMMA AddAppears ==
  ASSUME LoopTyped, NEW e \in Event, e = Head(events), HandleAdd
  PROVE  /\ cache'[e.dev] # NoDevice
         /\ \A d \in Device : cache'[d] = NoDevice => cache[d] = NoDevice
         /\ handling' = NoDevice \/ handling' = e
<1>1. NextEvent("add") /\ handling = NoDevice
  BY DEF HandleAdd, NextEvent
<1>2. Sound(e) /\ e.action = "add"
  BY <1>1, Taken DEF LoopTyped
<1>3. e.dev \in Device /\ e.details \in Content
  BY <1>2 DEF Sound, Event
<1>4. CASE cache[e.dev] # NoDevice
  BY <1>1, <1>4 DEF HandleAdd
<1>5. CASE cache[e.dev] = NoDevice
  BY <1>3, <1>5, FromEvent, NoDeviceAssumption DEF HandleAdd, LoopTyped, SyncTypeOK, TypeOK
<1>. QED  BY <1>4, <1>5

\* The other handlers begin with a call of the loop, and end with none.
LEMMA HandlerFrame ==
  ASSUME LoopTyped, HandleUpdate \/ HandleDelete
  PROVE  /\ EventsThread \in Caller /\ Begin(EventsThread)
         /\ \E action \in {"update", "delete"} : NextEvent(action)
         /\ handling = NoDevice /\ pc[EventsThread] = "idle"
         /\ UNCHANGED <<cache, metadata, late, driver, dropped>>
         /\ op'[EventsThread] \in {"patch", "remove"}
<1>1. EventsThread \in Caller
  BY SyncAssumption
<1>2. CASE HandleUpdate
  <2>1. NextEvent("update")
        /\ PatchBegin(EventsThread, Head(events).dev, UpdatesFrom(Head(events).details))
    BY <1>2 DEF HandleUpdate
  <2>2. PICK e \in Event : e = Head(events) /\ e.action = "update" /\ Sound(e) /\ e.dev \in Device
    BY <2>1, HeadOf
  <2>3. UpdatesFrom(e.details) \in Patch
    BY <2>2, FromEvent DEF Sound
  <2>4. Begin(EventsThread)
    BY <2>1, <2>2, <2>3 DEF Begin
  <2>5. UNCHANGED <<cache, metadata, late, driver, dropped>>
        /\ handling = NoDevice /\ pc[EventsThread] = "idle"
    BY <2>1 DEF PatchBegin, Reject, Enter, Start, NextEvent
  <2>6. op'[EventsThread] = "patch"
    BY <1>1, <2>1 DEF PatchBegin, Reject, Enter, Start, LoopTyped, SyncTypeOK, TypeOK
  <2>. QED  BY <1>1, <2>1, <2>4, <2>5, <2>6
<1>3. CASE HandleDelete
  <2>1. NextEvent("delete") /\ RemoveBegin(EventsThread, Head(events).dev)
    BY <1>3 DEF HandleDelete
  <2>2. PICK e \in Event : e = Head(events) /\ e.dev \in Device
    BY <2>1, HeadOf
  <2>3. Begin(EventsThread)
    BY <2>1, <2>2 DEF Begin
  <2>4. UNCHANGED <<cache, metadata, late, driver, dropped>>
        /\ handling = NoDevice /\ pc[EventsThread] = "idle"
    BY <2>1 DEF RemoveBegin, Reject, Enter, Start, NextEvent
  <2>5. op'[EventsThread] = "remove"
    BY <1>1, <2>1 DEF RemoveBegin, Reject, Enter, Start, LoopTyped, SyncTypeOK, TypeOK
  <2>. QED  BY <1>1, <2>1, <2>3, <2>4, <2>5
<1>. QED  BY <1>2, <1>3

LEMMA StepNoAdds ==
  ASSUME "add" \notin AppOps, LoopTyped, NoAdds, SyncNext
  PROVE  NoAdds'
<1>. USE DEF LoopTyped
<1>1. ASSUME NEW d \in Device, UserEdit(d) PROVE NoAdds'
  BY <1>1 DEF UserEdit, NoAdds
<1>2. ASSUME NEW c \in Application, AppBegin(c) PROVE NoAdds'
  BY <1>2, BeginFrame DEF AppBegin, NoAdds, Application
<1>3. ASSUME NEW c \in Caller, CallStep(c) PROVE NoAdds'
  <2>1. op[c] # "add" /\ \A x \in Caller : pc'[x] # "idle" => op'[x] # "add"
    BY <1>3, CallFrame DEF NoAdds
  <2>2. late' \subseteq late \union {RequestOf(c)}
    BY <1>3
       DEF CallStep, Silently, Work, Clone, AddWrite, PatchWrite, RemoveWrite, AddRollback,
           PatchRollback, RemoveRollback, Refuse, Timeout, ValidationFails,
           AcceptAndPublish, Accept, RefusedInside, Unserializable, Part
  <2>. QED  BY <2>1, <2>2 DEF NoAdds, RequestOf
<1>4. ASSUME NEW r \in late, LateAcceptAndPublish(r) \/ Silently(LateLoss(r))
      PROVE  NoAdds'
  BY <1>4 DEF LateAcceptAndPublish, LateAccept, Silently, LateLoss, NoAdds
<1>5. CASE HandleUpdate \/ HandleDelete
  BY <1>5, HandlerFrame, BeginFrame DEF NoAdds
<1>6. CASE HandleAdd \/ Handled
  BY <1>6 DEF HandleAdd, Handled, NoAdds, vars
<1>. QED  BY <1>1, <1>2, <1>3, <1>4, <1>5, <1>6, StepCases DEF Events

LEMMA StepRemembered ==
  ASSUME LoopTyped, NoAdds, Remembered, SyncNext
  PROVE  Remembered'
<1>1. ASSUME NEW d \in Device, UserEdit(d) PROVE Remembered'
  <2>1. PICK action \in {"add", "update", "delete"}, x \in Entry :
          /\ metadata' = [metadata EXCEPT ![d] = x] /\ Publish(action, d)
          /\ action # "delete" => x \in Content
          /\ action # "add" /\ x # NoDevice => metadata[d] # NoDevice
    BY <1>1 DEF UserEdit, Entry
  <2>2. metadata'[d] = x /\ \A y \in Device \ {d} : metadata'[y] = metadata[y]
    BY <2>1 DEF LoopTyped, SyncTypeOK, TypeOK
  <2>3. /\ dropped \subseteq dropped' /\ \A y \in Device : AddQueued(y) => AddQueued(y)'
        /\ action = "add" => AddQueued(d)' \/ d \in dropped'
    BY <2>1, <2>2, Published DEF LoopTyped
  <2>. QED  BY <1>1, <2>1, <2>2, <2>3 DEF UserEdit, Remembered, Leaving
<1>2. ASSUME NEW c \in Caller, Begin(c), UNCHANGED dropped, pc[c] = "idle",
             \A d \in Device : AddQueued(d) => AddQueued(d)'
      PROVE  Remembered'
  BY <1>2, BeginFrame DEF Remembered, Leaving, LoopTyped
<1>3. ASSUME NEW c \in Application, AppBegin(c) PROVE Remembered'
  <2>1. Begin(c) /\ c \in Caller /\ UNCHANGED dropped
        /\ \A d \in Device : AddQueued(d) => AddQueued(d)'
    BY <1>3 DEF AppBegin, Aside, AddQueued, Application
  <2>2. pc[c] = "idle"
    BY <2>1 DEF Begin, AddBegin, PatchBegin, RemoveBegin, Reject, Enter, Start
  <2>. QED  BY <1>2, <2>1, <2>2
<1>4. ASSUME NEW r \in late, LateAcceptAndPublish(r) \/ Silently(LateLoss(r))
      PROVE  Remembered'
  <2>1. CASE Silently(LateLoss(r))
    BY <2>1 DEF Silently, Aside, LateLoss, Remembered, AddQueued, Leaving
  <2>2. CASE LateAcceptAndPublish(r)
    <3>1. r \in Request /\ r.op # "add"
      BY DEF NoAdds, LoopTyped, SyncTypeOK, TypeOK
    <3>2. /\ Acceptable(r) /\ Publish(ActionOf[r.op], r.dev)
          /\ metadata' = [metadata EXCEPT ![r.dev] = Effect(r)]
          /\ UNCHANGED <<cache, pc, op, dev>>
      BY <2>2 DEF LateAcceptAndPublish, LateAccept
    <3>3. /\ r.dev \in Device /\ ActionOf[r.op] \in {"add", "update", "delete"}
          /\ metadata'[r.dev] \in Entry
          /\ ActionOf[r.op] # "delete" => metadata'[r.dev] \in Content
          /\ metadata'[r.dev] # NoDevice => metadata[r.dev] # NoDevice
      BY <3>1, <3>2, AcceptedIsSound DEF LoopTyped
    <3>4. \A d \in Device : metadata'[d] # NoDevice => metadata[d] # NoDevice
      BY <3>2, <3>3 DEF LoopTyped, SyncTypeOK, TypeOK
    <3>5. dropped \subseteq dropped' /\ \A d \in Device : AddQueued(d) => AddQueued(d)'
      BY <3>2, <3>3, Published DEF LoopTyped
    <3>. QED  BY <3>2, <3>4, <3>5 DEF Remembered, Leaving
  <2>. QED  BY <1>4, <2>1, <2>2
<1>5. CASE HandleAdd
  <2>1. NextEvent("add") /\ UNCHANGED <<metadata, dropped, pc, op, dev>>
    BY <1>5 DEF HandleAdd, NextEvent
  <2>2. PICK e \in Event :
          e = Head(events) /\ \A d \in Device : AddQueued(d) => AddQueued(d)' \/ e.dev = d
    BY <2>1, HeadOf
  <2>. QED  BY <1>5, <2>1, <2>2, AddAppears DEF Remembered, Leaving
<1>6. CASE HandleUpdate \/ HandleDelete
  <2>1. \A d \in Device : AddQueued(d) => AddQueued(d)'
    <3>1. PICK action \in {"update", "delete"} : NextEvent(action)
      BY <1>6, HandlerFrame
    <3>. QED  BY <3>1, Taken DEF LoopTyped
  <2>. QED  BY <1>2, <1>6, <2>1, HandlerFrame
<1>7. CASE Handled
  BY <1>7 DEF Handled, Remembered, AddQueued, Leaving, vars
<1>. QED  BY <1>1, <1>3, <1>4, <1>5, <1>6, <1>7, CallRemembers, StepCases DEF Events

\* As long as the application adds no Device itself, none of Core Metadata's is forgotten:
\* it is cached, or its add event is queued or was dropped, or a delete has taken it out of
\* the cache and has not ended.
THEOREM NoDeviceIsForgotten ==
  ASSUME "add" \notin AppOps PROVE SyncSpec => []NothingForgotten
<1>1. SyncInit => RememberInv
  BY InitLoopTyped DEF SyncInit, Init, LoopTyped, RememberInv, NoAdds, Remembered
<1>2. RememberInv /\ [SyncNext]_syncVars => RememberInv'
  <2>1. CASE UNCHANGED syncVars
    BY <2>1, StepTyped
       DEF RememberInv, LoopTyped, syncVars, vars, NoAdds, Remembered, Leaving, AddQueued
  <2>. QED  BY <2>1, StepTyped, StepNoAdds, StepRemembered DEF RememberInv, LoopTyped
<1>3. RememberInv => NothingForgotten
  <2>. SUFFICES ASSUME RememberInv, NEW d \in Device \ dropped,
                       metadata[d] # NoDevice, cache[d] = NoDevice
                PROVE  Coming(d)
    BY DEF NothingForgotten
  <2>1. AddQueued(d) \/ Leaving(d)
    BY DEF RememberInv, Remembered
  <2>. QED  BY <2>1 DEF AddQueued, Leaving, Coming, Active
<1>. QED  BY <1>1, <1>2, <1>3, PTL DEF SyncSpec

-----------------------------------------------------------------------------
(* The driver follows the cache, where the application only patches. *)

\* A step that makes no Device come or go, unless it is the loop's.
LEMMA FollowKept ==
  ASSUME LoopTyped, Following, DriverServesCached,
         \A d \in Device : cache'[d] = NoDevice <=> cache[d] = NoDevice,
         UNCHANGED <<handling, driver>>,
         pc'[EventsThread] = pc[EventsThread],
         outcome'[EventsThread] = outcome[EventsThread]
  PROVE  Following' /\ DriverServesCached'
<1>1. handling # NoDevice => handling.dev \in Device
  BY DEF LoopTyped, SyncTypeOK, Event
<1>2. Following'
  BY <1>1 DEF Following, Raised
<1>3. DriverServesCached'
  BY DEF DriverServesCached, LoopTyped, SyncTypeOK
<1>. QED  BY <1>2, <1>3

\* The loop's own call takes out, and puts back, the Device of the delete it handles.
LEMMA LoopCallFollows ==
  ASSUME LoopTyped, Following, DriverServesCached, CallStep(EventsThread)
  PROVE  Following' /\ DriverServesCached'
<1>. DEFINE c == EventsThread
            d == handling.dev
<1>1. c \in Caller /\ c \notin Application
  BY SyncAssumption DEF Application
<1>2. /\ pc[c] # "idle" /\ handling \in Event /\ handling # NoDevice
      /\ d = dev[c] /\ d \in Device /\ UNCHANGED <<handling, driver, op, dev>>
      /\ \A x \in Device \ {d} : cache'[x] = cache[x]
      /\ \/ handling.action = "update" /\ op[c] = "patch"
         \/ handling.action = "delete" /\ op[c] = "remove"
  BY <1>1, CallFrame, EventAssumption DEF LoopTyped, SyncTypeOK, LoopInv, Event
<1>3. CASE op[c] = "patch"
  <2>1. \A x \in Device : cache'[x] = NoDevice <=> cache[x] = NoDevice
    BY <1>1, <1>3, PatchPresence DEF PresenceKept
  <2>2. Following'
    BY <1>2, <1>3 DEF Following
  <2>. QED  BY <1>2, <2>1, <2>2 DEF DriverServesCached, LoopTyped, SyncTypeOK
<1>4. CASE op[c] = "remove"
  <2>. USE DEF LoopTyped, SyncTypeOK, TypeOK, Step, Return, Goto
  <2>1. DriverServesCached'
    BY <1>2, <1>4 DEF DriverServesCached
  <2>2. CASE Clone(c)
    BY <1>1, <1>2, <2>1, <2>2 DEF Clone, Following
  <2>3. CASE RemoveWrite(c)
    <3>1. cache[d] # NoDevice
      BY <1>1, <1>2, <1>4, <2>3 DEF RemoveWrite, Following
    <3>2. cache'[d] = NoDevice /\ pc'[c] = "request"
      BY <1>1, <1>2, <2>3, <3>1 DEF RemoveWrite, CacheRemove, Send
    <3>. QED  BY <1>2, <1>4, <2>1, <3>2 DEF Following
  <2>4. CASE RemoveRollback(c)
    <3>1. saved[c] \in Content
      BY <1>1, <1>4, <2>4 DEF RemoveRollback
    <3>2. cache'[d] # NoDevice /\ pc'[c] = "idle"
      BY <1>1, <1>2, <2>4, <3>1, NoDeviceAssumption DEF RemoveRollback, CacheAdd, Fail
    <3>. QED  BY <1>2, <1>4, <2>1, <3>2 DEF Following
  <2>5. CASE Refuse(c) \/ Timeout(c)
    BY <1>1, <1>2, <2>1, <2>5 DEF Refuse, Timeout, Following
  <2>6. CASE AcceptAndPublish(c)
    <3>1. pc'[c] = "idle" /\ outcome'[c] = "ok" /\ cache' = cache
      BY <1>1, <2>6 DEF AcceptAndPublish, Accept
    <3>. QED  BY <1>2, <1>4, <2>1, <3>1 DEF Following, Raised
  <2>7. /\ ~ AddWrite(c) /\ ~ PatchWrite(c) /\ ~ AddRollback(c) /\ ~ PatchRollback(c)
        /\ ~ RefusedInside(c)
    BY <1>4 DEF AddWrite, PatchWrite, AddRollback, PatchRollback, RefusedInside
  <2>. QED
    BY <1>1, <2>2, <2>3, <2>4, <2>5, <2>6, <2>7 DEF CallStep, Silently, Work
<1>. QED  BY <1>2, <1>3, <1>4

\* A delete that is refused at once is of a Device the driver does not serve.
LEMMA EventsFollow ==
  ASSUME LoopTyped, Following, DriverServesCached, Events
  PROVE  Following' /\ DriverServesCached'
<1>1. CASE HandleAdd
  <2>1. NextEvent("add") /\ handling = NoDevice /\ UNCHANGED driver
    BY <1>1 DEF HandleAdd, NextEvent
  <2>2. PICK e \in Event : e = Head(events) /\ e.action = "add"
    BY <2>1, HeadOf
  <2>3. Following'
    BY <1>1, <2>2, AddAppears DEF Following
  <2>4. DriverServesCached'
    BY <1>1, <2>1, <2>2, AddAppears DEF DriverServesCached, LoopTyped, SyncTypeOK
  <2>. QED  BY <2>3, <2>4
<1>2. CASE HandleUpdate \/ HandleDelete
  <2>1. DriverServesCached'
    BY <1>2, HandlerFrame DEF DriverServesCached
  <2>2. CASE HandleUpdate
    <3>1. PICK e \in Event : e = Head(events) /\ e.action = "update" /\ handling' = e
      BY <2>2, HeadOf DEF HandleUpdate
    <3>. QED  BY <2>1, <3>1 DEF Following
  <2>3. CASE HandleDelete
    <3>1. PICK e \in Event : e = Head(events) /\ e.dev \in Device
      BY <2>3, HeadOf DEF HandleDelete
    <3>2. RemoveBegin(EventsThread, e.dev) /\ handling' = e /\ UNCHANGED <<cache, driver>>
      BY <2>3, <3>1, HandlerFrame DEF HandleDelete
    <3>3. \/ cache[e.dev] = NoDevice /\ pc'[EventsThread] = "idle"
          \/ cache[e.dev] # NoDevice /\ pc'[EventsThread] = "clone"
      BY <1>2, <3>2, HandlerFrame
         DEF RemoveBegin, Reject, Enter, Start, Return, LoopTyped, SyncTypeOK, TypeOK
    <3>4. cache[e.dev] = NoDevice => e.dev \notin driver
      BY <1>2, HandlerFrame DEF DriverServesCached
    <3>5. Following'
      <4>1. e.action = "delete"
        BY <2>3, <3>1, HeadOf DEF HandleDelete
      <4>. QED  BY <3>2, <3>3, <3>4, <4>1 DEF Following
    <3>. QED  BY <2>1, <3>5
  <2>. QED  BY <1>2, <2>2, <2>3
<1>3. CASE Handled
  <2>1. /\ handling \in Event /\ handling # NoDevice /\ handling' = NoDevice
        /\ pc[EventsThread] = "idle" /\ UNCHANGED <<vars, events, dropped>>
        /\ driver' = IF Raised THEN driver ELSE TellDriver
    BY <1>3 DEF Handled, LoopTyped, SyncTypeOK
  <2>2. handling.action \in {"add", "update", "delete"}
    BY <2>1 DEF Event
  <2>3. ASSUME NEW d \in driver' PROVE cache'[d] # NoDevice
    BY <2>1, <2>2, <2>3 DEF TellDriver, Raised, Following, DriverServesCached, vars
  <2>. QED  BY <2>1, <2>3 DEF Following, DriverServesCached
<1>. QED  BY <1>1, <1>2, <1>3 DEF Events

LEMMA StepFollow ==
  ASSUME AppOps \subseteq {"patch"}, LoopTyped, OnlyPatches, Following, DriverServesCached,
         SyncNext
  PROVE  OnlyPatches' /\ Following' /\ DriverServesCached'
<1>1. EventsThread \in Caller /\ Application \subseteq Caller /\ EventsThread \notin Application
  BY SyncAssumption DEF Application
<1>. USE DEF OnlyPatches
<1>. DEFINE Goal == OnlyPatches' /\ Following' /\ DriverServesCached'
<1>2. ASSUME NEW d \in Device, UserEdit(d) PROVE Goal
  BY <1>2, FollowKept DEF UserEdit
<1>3. ASSUME NEW c \in Application, AppBegin(c) PROVE Goal
  <2>1. Begin(c) /\ op'[c] \in {"patch"} /\ UNCHANGED <<handling, driver>>
    BY <1>3 DEF AppBegin, Aside
  <2>2. OnlyPatches'
    BY <1>1, <2>1, BeginFrame DEF LoopTyped
  <2>3. Following' /\ DriverServesCached'
    BY <1>1, <2>1, BeginFrame, FollowKept DEF LoopTyped
  <2>. QED  BY <2>2, <2>3
<1>4. ASSUME NEW c \in Caller, CallStep(c) PROVE Goal
  <2>1. OnlyPatches'
    BY <1>1, <1>4, CallFrame DEF LoopTyped
  <2>2. CASE c = EventsThread
    BY <1>4, <2>1, <2>2, LoopCallFollows
  <2>3. CASE c # EventsThread
    <3>1. op[c] = "patch"
      BY <1>4, <2>3, CallFrame DEF LoopTyped, Application
    <3>2. \A d \in Device : cache'[d] = NoDevice <=> cache[d] = NoDevice
      BY <1>4, <3>1, PatchPresence DEF PresenceKept
    <3>. QED  BY <1>1, <1>4, <2>1, <2>3, <3>2, CallFrame, FollowKept DEF LoopTyped
  <2>. QED  BY <2>2, <2>3
<1>5. ASSUME NEW r \in late, LateAcceptAndPublish(r) \/ Silently(LateLoss(r)) PROVE Goal
  <2>1. UNCHANGED <<cache, pc, op, outcome, handling, driver>>
    BY <1>5 DEF LateAcceptAndPublish, LateAccept, Silently, Aside, LateLoss
  <2>. QED  BY <2>1, FollowKept
<1>6. ASSUME Events PROVE Goal
  <2>1. OnlyPatches'
    <3>1. CASE HandleUpdate \/ HandleDelete
      BY <1>1, <3>1, HandlerFrame, BeginFrame DEF LoopTyped
    <3>2. CASE HandleAdd \/ Handled
      BY <3>2 DEF HandleAdd, Handled, vars
    <3>. QED  BY <1>6, <3>1, <3>2 DEF Events
  <2>. QED  BY <1>6, <2>1, EventsFollow
<1>. QED  BY <1>2, <1>3, <1>4, <1>5, <1>6, StepCases

\* As long as the application only patches Devices, the driver never serves one that the
\* cache has lost, but for the delete that is being handled: a delete that is rolled back,
\* or refused at once, leaves the two together.
THEOREM DriverFollowsCache ==
  ASSUME AppOps \subseteq {"patch"} PROVE SyncSpec => []DriverServesCached
<1>1. SyncInit => FollowInv
  BY InitLoopTyped
     DEF SyncInit, Init, LoopTyped, FollowInv, OnlyPatches, Following, DriverServesCached,
         Application
<1>2. FollowInv /\ [SyncNext]_syncVars => FollowInv'
  <2>1. CASE UNCHANGED syncVars
    BY <2>1, StepTyped
       DEF FollowInv, LoopTyped, syncVars, vars, OnlyPatches, Following, Raised,
           DriverServesCached
  <2>. QED  BY <2>1, StepTyped, StepFollow DEF FollowInv, LoopTyped
<1>3. FollowInv => DriverServesCached
  BY DEF FollowInv
<1>. QED  BY <1>1, <1>2, <1>3, PTL DEF SyncSpec
=============================================================================
