------------------------- MODULE MCLifecycle_proofs -------------------------
(***************************************************************************)
(* What a service does at its start and its end, for any resources, watched *)
(* sections, secrets, callers and threads.  The proofs are about           *)
(* MCLifecycle, where the components stand side by side and most of the    *)
(* properties are stated; each has an invariant of its own.                *)
(***************************************************************************)
EXTENDS MCLifecycle, SequenceTheorems, FiniteSetTheorems, TLAPS

-----------------------------------------------------------------------------
(* The inductive invariants. *)

\* Every need of an entry comes before it, if it comes at all.
Ordered(q) ==
  \A i, j \in DOMAIN q : i <= j => q[j] \notin Needs(q[i])

Listed(q) == {q[i] : i \in DOMAIN q}

\* What is not ahead any more is at Core Metadata, or there is a reason.
Accounted(e) ==
  \/ e \in remote
  \/ excused \intersect ({e} \union Needs(e)) # {}
  \/ Needs(e) \ ({Service} \union cached) # {}

RegistrationInv ==
  /\ step \in {"load", "lookup", "add", "done"} /\ todo \in Seq(Entry)
  /\ cached \subseteq Resource
  /\ Ordered(todo)
  /\ step \in {"lookup", "add"} => todo # <<>>
  /\ step = "load" => cached = {}
  /\ step = "done" => todo = <<>>
  /\ step # "load" => \A e \in ({Service} \union cached) \ Listed(todo) : Accounted(e)

\* Shutdown clears the client; what Core Keeper has after that came late, or was not deleted.
KeeperInv ==
  /\ where \in {"check", "ping", "post"} => client \/ down
  /\ keeper => client \/ unheard \/ overtaken
  /\ closing["run"] \notin {"none", "deregister"} => ~ client

BusInv ==
  /\ where = "new" => bus = "none" /\ ~ keeper
  /\ bus \in {"none", "up", "closed"}
  /\ closing["run"] = "done" => bus # "up"
  /\ closing["stop"] = "done" /\ ~ early => bus = "closed"

ClosingInv ==
  /\ closing \in [{"run", "stop"} ->
       {"none", "deregister", "watches", "join", "executor", "shut", "disconnect", "done",
        "raised"}]
  /\ where = "ended" => closing["run"] = "done"
  /\ where \notin {"closing", "ended", "raised"} => closing["run"] = "none"
  /\ \A c \in {"run", "stop"} : closing[c] # "none" => down
  /\ watched \subseteq Section
  /\ iterating \in [{"run", "stop"} -> Nat]

LifeInv == KeeperInv /\ BusInv /\ ClosingInv

\* The other shutdown has cleared the executor.
Overtaken(c) == \E d \in {"run", "stop"} \ {c} : closing[d] \in {"disconnect", "done"}

CutShort(c) == Cardinality(watched) > 1 \/ (c = "stop" /\ from # "application") \/ Overtaken(c)

CutInv ==
  \A c \in {"run", "stop"} :
    /\ closing[c] = "raised" => CutShort(c)
    /\ closing[c] = "shut" => executor \/ Overtaken(c)

\* One callback after the stop, and then the thread sleeps a last time.
WatchInv ==
  /\ DOMAIN at = Watch /\ DOMAIN late = Watch /\ DOMAIN stop = Watch
  /\ \A w \in Watch :
       \/ late[w] = 0
       \/ late[w] = 1 /\ stop[w] /\ at[w] \in {"wait", "ended"}

Users == Driver \union {Http}

\* Each provider has steps of its own.
SecretTyped ==
  /\ provider \in {"memory", "openbao"}
  /\ DOMAIN doing = Users /\ DOMAIN copy = Users /\ DOMAIN pairs = Users
  /\ \A c \in Users :
       /\ doing[c] # "idle" => pairs[c] \in Seq(Key) /\ pairs[c] # <<>>
       /\ provider = "openbao" => doing[c] \in {"idle", "post", "read", "write"}
       /\ provider = "memory" => doing[c] \notin {"post", "read", "write"}

\* As long as no calls overlap, a path that is made or removed is empty, and what a delete
\* has read from OpenBao is what is kept.
SecretInv ==
  /\ SecretTyped
  /\ provider = "memory" /\ ~ there => kept = {}
  /\ ~ overlapped => \A c \in Users :
       /\ doing[c] \in {"make", "remove"} => kept = {}
       /\ doing[c] = "write" => copy[c] = kept
  /\ S!StoreIsExplained

TokenInv == DOMAIN renewing = Renewer /\ T!MissingForCause

-----------------------------------------------------------------------------
(* The order of registration. *)

LEMMA SetListed ==
  ASSUME NEW U, NEW A \in SUBSET U, IsFiniteSet(A)
  PROVE  SetToSeq(A) \in Seq(U) /\ Listed(SetToSeq(A)) = A
<1>. DEFINE n == Cardinality(A)
<1>1. n \in Nat /\ ExistsBijection(1..n, A)
  BY FS_CardinalityType
<1>2. \E f \in [1..n -> A] : IsInjective(f)
  BY <1>1 DEF ExistsBijection, Bijection, Injection
<1>3. SetToSeq(A) \in [1..n -> A] /\ IsInjective(SetToSeq(A))
  BY <1>2 DEF SetToSeq
<1>4. SetToSeq(A) \in Injection(1..n, A) /\ Cardinality(1..n) = n /\ IsFiniteSet(1..n)
  <2>1. SetToSeq(A) \in Injection(1..n, A)
    BY <1>3 DEF Injection
  <2>. HIDE DEF n
  <2>2. Cardinality(1..n) = n /\ IsFiniteSet(1..n)
    BY <1>1, FS_Interval
  <2>. QED  BY <2>1, <2>2
<1>5. SetToSeq(A) \in Surjection(1..n, A)
  BY <1>4, FS_Injection
<1>. QED  BY <1>1, <1>3, <1>5 DEF Surjection, Listed

LEMMA JoinListed ==
  ASSUME NEW p \in Seq(Entry), NEW q \in Seq(Entry)
  PROVE  p \o q \in Seq(Entry) /\ Listed(p \o q) = Listed(p) \union Listed(q)
<1>1. /\ p \o q \in Seq(Entry) /\ DOMAIN p = 1..Len(p) /\ DOMAIN q = 1..Len(q)
      /\ DOMAIN (p \o q) = 1..(Len(p) + Len(q))
      /\ \A i \in 1..(Len(p) + Len(q)) :
           (p \o q)[i] = IF i <= Len(p) THEN p[i] ELSE q[i - Len(p)]
      /\ Len(p) \in Nat /\ Len(q) \in Nat
  OBVIOUS
<1>2. ASSUME NEW x \in Listed(q) PROVE x \in Listed(p \o q)
  <2>1. PICK i \in 1..Len(q) : x = q[i]
    BY <1>1, <1>2 DEF Listed
  <2>2. i + Len(p) \in 1..(Len(p) + Len(q)) /\ (p \o q)[i + Len(p)] = q[i]
    BY <1>1, <2>1
  <2>. QED  BY <1>1, <2>1, <2>2 DEF Listed
<1>3. ASSUME NEW x \in Listed(p) PROVE x \in Listed(p \o q)
  <2>1. PICK i \in 1..Len(p) : x = p[i]
    BY <1>1, <1>3 DEF Listed
  <2>2. i \in 1..(Len(p) + Len(q)) /\ (p \o q)[i] = p[i]
    BY <1>1, <2>1
  <2>. QED  BY <1>1, <2>1, <2>2 DEF Listed
<1>4. ASSUME NEW x \in Listed(p \o q) PROVE x \in Listed(p) \union Listed(q)
  <2>1. PICK i \in 1..(Len(p) + Len(q)) : x = (p \o q)[i]
    BY <1>1, <1>4 DEF Listed
  <2>2. i <= Len(p) \/ i - Len(p) \in 1..Len(q)
    BY <1>1, <2>1
  <2>. QED  BY <1>1, <2>1, <2>2 DEF Listed
<1>. QED  BY <1>1, <1>2, <1>3, <1>4

\* Nothing that comes later is needed by what comes before.
LEMMA JoinOrdered ==
  ASSUME NEW p \in Seq(Entry), NEW q \in Seq(Entry), Ordered(p), Ordered(q),
         \A x \in Listed(p) : Needs(x) \intersect Listed(q) = {}
  PROVE  Ordered(p \o q)
<1>1. /\ DOMAIN p = 1..Len(p) /\ DOMAIN q = 1..Len(q)
      /\ DOMAIN (p \o q) = 1..(Len(p) + Len(q))
      /\ \A i \in 1..(Len(p) + Len(q)) :
           (p \o q)[i] = IF i <= Len(p) THEN p[i] ELSE q[i - Len(p)]
      /\ Len(p) \in Nat /\ Len(q) \in Nat
  OBVIOUS
<1>. SUFFICES ASSUME NEW i \in DOMAIN (p \o q), NEW j \in DOMAIN (p \o q), i <= j
              PROVE  (p \o q)[j] \notin Needs((p \o q)[i])
  BY DEF Ordered
<1>2. CASE j <= Len(p)
  <2>1. i \in DOMAIN p /\ j \in DOMAIN p /\ (p \o q)[i] = p[i] /\ (p \o q)[j] = p[j]
    BY <1>1, <1>2
  <2>. QED  BY <2>1 DEF Ordered
<1>3. CASE i <= Len(p) /\ ~ j <= Len(p)
  <2>1. /\ i \in DOMAIN p /\ j - Len(p) \in DOMAIN q
        /\ (p \o q)[i] = p[i] /\ (p \o q)[j] = q[j - Len(p)]
    BY <1>1, <1>3
  <2>2. p[i] \in Listed(p) /\ q[j - Len(p)] \in Listed(q)
    BY <2>1 DEF Listed
  <2>. QED  BY <2>1, <2>2
<1>4. CASE ~ i <= Len(p)
  <2>1. /\ i - Len(p) \in DOMAIN q /\ j - Len(p) \in DOMAIN q /\ i - Len(p) <= j - Len(p)
        /\ (p \o q)[i] = q[i - Len(p)] /\ (p \o q)[j] = q[j - Len(p)]
    BY <1>1, <1>4
  <2>. QED  BY <2>1 DEF Ordered
<1>. QED  BY <1>1, <1>2, <1>3, <1>4

\* Entries of one kind do not need each other.
LEMMA KindOrdered ==
  ASSUME NEW q \in Seq(Entry), \A x \in Listed(q) : Needs(x) \intersect Listed(q) = {}
  PROVE  Ordered(q)
BY DEF Ordered, Listed

LEMMA OrderIsOrdered ==
  ASSUME NEW loaded \in SUBSET Resource
  PROVE  /\ Order(loaded) \in Seq(Entry) /\ Order(loaded) # <<>>
         /\ Listed(Order(loaded)) = {Service} \union loaded
         /\ Ordered(Order(loaded))
<1>. DEFINE P == Profile \intersect loaded
            D == Device \intersect loaded
            W == Watcher \intersect loaded
            s == <<Service>>
            p == SetToSeq(P)
            d == SetToSeq(D)
            w == SetToSeq(W)
<1>1. IsFiniteSet(P) /\ IsFiniteSet(D) /\ IsFiniteSet(W)
  BY FS_Subset, RegistrationAssumption DEF Resource
<1>2. /\ p \in Seq(Entry) /\ Listed(p) = P
      /\ d \in Seq(Entry) /\ Listed(d) = D
      /\ w \in Seq(Entry) /\ Listed(w) = W
  BY <1>1, SetListed DEF Resource, Entry
<1>3. s \in Seq(Entry) /\ Listed(s) = {Service}
  BY DEF Listed, Entry
<1>. HIDE DEF s, p, d, w
<1>4. /\ s \o p \in Seq(Entry) /\ Listed(s \o p) = {Service} \union P
      /\ (s \o p) \o d \in Seq(Entry) /\ Listed((s \o p) \o d) = {Service} \union P \union D
      /\ ((s \o p) \o d) \o w \in Seq(Entry)
      /\ Listed(((s \o p) \o d) \o w) = {Service} \union P \union D \union W
  <2>1. s \o p \in Seq(Entry) /\ Listed(s \o p) = {Service} \union P
    BY <1>2, <1>3, JoinListed
  <2>2. (s \o p) \o d \in Seq(Entry) /\ Listed((s \o p) \o d) = {Service} \union P \union D
    BY <1>2, <2>1, JoinListed
  <2>3. /\ ((s \o p) \o d) \o w \in Seq(Entry)
        /\ Listed(((s \o p) \o d) \o w) = {Service} \union P \union D \union W
    BY <1>2, <2>2, JoinListed
  <2>. QED  BY <2>1, <2>2, <2>3
<1>5. /\ \A x \in {Service} \union P : Needs(x) = {}
      /\ \A x \in D \union W : Needs(x) \subseteq {Service} \union Profile
      /\ (D \union W) \intersect ({Service} \union Profile) = {}
      /\ Service \notin Profile
  BY RegistrationAssumption DEF Needs, Resource
<1>6. Ordered(s) /\ Ordered(p) /\ Ordered(d) /\ Ordered(w)
  BY <1>2, <1>3, <1>5, KindOrdered
<1>7. Ordered(s \o p)
  BY <1>2, <1>3, <1>5, <1>6, JoinOrdered
<1>8. Ordered((s \o p) \o d)
  BY <1>2, <1>4, <1>5, <1>6, <1>7, JoinOrdered
<1>9. Ordered(((s \o p) \o d) \o w)
  BY <1>2, <1>4, <1>5, <1>6, <1>8, JoinOrdered
<1>10. Order(loaded) = ((s \o p) \o d) \o w
  BY DEF Order, s, p, d, w
<1>11. {Service} \union P \union D \union W = {Service} \union loaded
  BY DEF Resource
<1>12. Order(loaded) # <<>>
  BY <1>4, <1>10, <1>11 DEF Listed
<1>. QED  BY <1>4, <1>9, <1>10, <1>11, <1>12

-----------------------------------------------------------------------------
(* Registration. *)

LEMMA InitRegistration == RegistrationInit => RegistrationInv
BY DEF RegistrationInit, RegistrationInv, Ordered

LEMMA LoadKeeps ==
  ASSUME RegistrationInv, NEW loaded \in SUBSET Resource, Load(loaded)
  PROVE  RegistrationInv'
BY OrderIsOrdered DEF RegistrationInv, Load

\* Who removes an entry excuses it.
Kept == remote \ remote' \subseteq excused'

LEMMA AccountedStays ==
  ASSUME Kept, excused \subseteq excused', cached' = cached, NEW e, Accounted(e)
  PROVE  Accounted(e)'
BY DEF Accounted, Kept

LEMMA NextEntryKeeps ==
  ASSUME RegistrationInv, step \in {"lookup", "add"}, NextEntry,
         Kept, excused \subseteq excused', cached' = cached,
         NEW e, e = Head(todo), Accounted(e)'
  PROVE  RegistrationInv'
<1>1. /\ todo \in Seq(Entry) /\ todo # <<>> /\ Len(todo) \in Nat \ {0}
      /\ DOMAIN todo = 1..Len(todo)
      /\ todo' = Tail(todo) /\ todo' \in Seq(Entry) /\ DOMAIN todo' = 1..(Len(todo) - 1)
      /\ \A i \in DOMAIN todo' : todo'[i] = todo[i + 1]
      /\ e = todo[1]
  BY DEF RegistrationInv, NextEntry
<1>2. Ordered(todo')
  BY <1>1 DEF RegistrationInv, Ordered
<1>3. Listed(todo) \subseteq {e} \union Listed(todo')
  <2>. SUFFICES ASSUME NEW i \in 1..Len(todo), i # 1 PROVE todo[i] \in Listed(todo')
    BY <1>1 DEF Listed
  <2>1. i - 1 \in DOMAIN todo' /\ todo'[i - 1] = todo[i]
    BY <1>1
  <2>. QED  BY <2>1 DEF Listed
<1>4. ASSUME NEW x \in ({Service} \union cached) \ Listed(todo') PROVE Accounted(x)'
  <2>1. CASE x = e
    BY <2>1
  <2>2. CASE x # e
    <3>1. Accounted(x)
      BY <1>3, <2>2 DEF RegistrationInv
    <3>. QED  BY <3>1, AccountedStays
  <2>. QED  BY <2>1, <2>2
<1>5. /\ step' = "done" => todo' = <<>>
      /\ step' = "lookup" => todo' # <<>>
      /\ step' \in {"done", "lookup"}
  <2>1. Len(todo') = Len(todo) - 1 /\ (todo' = <<>> <=> Len(todo') = 0)
    BY <1>1, EmptySeq
  <2>2. step' = IF Len(todo) = 1 THEN "done" ELSE "lookup"
    BY DEF NextEntry
  <2>3. CASE Len(todo) = 1
    BY <1>1, <2>1, <2>2, <2>3
  <2>4. CASE Len(todo) # 1
    <3>1. Len(todo') # 0
      BY <1>1, <2>1, <2>4
    <3>. QED  BY <2>1, <2>2, <2>4, <3>1
  <2>. QED  BY <2>3, <2>4
<1>. QED  BY <1>1, <1>2, <1>4, <1>5 DEF RegistrationInv

LEMMA LookupKeeps ==
  ASSUME RegistrationInv, Lookup
  PROVE  RegistrationInv'
<1>. PICK e : e = Head(todo)
  OBVIOUS
<1>1. step = "lookup" /\ UNCHANGED <<cached, remote>> /\ excused \subseteq excused' /\ Kept
  BY DEF Lookup, Kept
<1>2. CASE step' = "add" /\ UNCHANGED <<todo, excused>>
  BY <1>1, <1>2, AccountedStays DEF RegistrationInv
<1>3. CASE NextEntry /\ (e \in remote \/ e \in excused')
  <2>1. Accounted(e)'
    BY <1>1, <1>3 DEF Accounted
  <2>. QED  BY <1>1, <1>3, <2>1, NextEntryKeeps
<1>. QED  BY <1>2, <1>3 DEF Lookup

\* An entry is refused for a need that has had its turn, and that excused.
LEMMA AddKeeps ==
  ASSUME RegistrationInv, Add
  PROVE  RegistrationInv'
<1>. PICK e : e = Head(todo)
  OBVIOUS
<1>1. /\ step = "add" /\ NextEntry /\ cached' = cached
      /\ Kept /\ excused \subseteq excused'
      /\ e \in excused' \/ (Needs(e) \subseteq remote => e \in remote')
  BY DEF Add, Kept
<1>2. todo # <<>> /\ todo \in Seq(Entry) /\ e = todo[1] /\ 1 \in DOMAIN todo
  BY <1>1 DEF RegistrationInv
<1>3. \A n \in Needs(e) : n \notin Listed(todo) /\ Needs(n) = {}
  <2>. SUFFICES ASSUME NEW n \in Needs(e) PROVE n \notin Listed(todo) /\ Needs(n) = {}
    OBVIOUS
  <2>1. n \notin Listed(todo)
    BY <1>2 DEF RegistrationInv, Ordered, Listed
  <2>2. Needs(n) = {}
    BY RegistrationAssumption DEF Needs, Resource
  <2>. QED  BY <2>1, <2>2
<1>4. ASSUME NEW n \in Needs(e), n \notin remote, n \in {Service} \union cached
      PROVE  n \in excused
  <2>1. Accounted(n)
    BY <1>1, <1>3, <1>4 DEF RegistrationInv
  <2>2. Needs(n) = {}
    BY <1>3
  <2>. QED  BY <1>4, <2>1, <2>2 DEF Accounted
<1>5. Accounted(e)'
  <2>1. CASE e \in excused' \/ e \in remote'
    BY <2>1 DEF Accounted
  <2>2. CASE ~ (Needs(e) \subseteq remote)
    BY <1>1, <1>4, <2>2 DEF Accounted
  <2>. QED  BY <1>1, <2>1, <2>2
<1>. QED  BY <1>1, <1>5, NextEntryKeeps

LEMMA RegistrationInvariant ==
  RegistrationInv /\ (RegistrationNext \/ UNCHANGED registrationVars) => RegistrationInv'
<1>. SUFFICES ASSUME RegistrationInv, RegistrationNext \/ UNCHANGED registrationVars
              PROVE  RegistrationInv'
  OBVIOUS
<1>1. CASE UNCHANGED registrationVars
  BY <1>1 DEF registrationVars, RegistrationInv, Accounted, Ordered, Listed
<1>2. ASSUME NEW e \in Entry, Other(e) PROVE RegistrationInv'
  BY <1>2, AccountedStays DEF Other, Kept, RegistrationInv
<1>3. ASSUME NEW e \in Entry, Withdraw(e) PROVE RegistrationInv'
  BY <1>3, AccountedStays DEF Withdraw, Kept, RegistrationInv
<1>. QED  BY <1>1, <1>2, <1>3, LoadKeeps, LookupKeeps, AddKeeps DEF RegistrationNext, Start

-----------------------------------------------------------------------------
(* run and _shutdown. *)

Steps ==
  {"none", "deregister", "watches", "join", "executor", "shut", "disconnect", "done", "raised"}

LEMMA InitLife == L!Init => LifeInv
BY DEF L!Init, L!Closer, LifeInv, KeeperInv, BusInv, ClosingInv

LEMMA InitCut == L!Init => CutInv
BY DEF L!Init, L!Closer, CutInv

LEMMA RunKeeps ==
  ASSUME LifeInv, L!Connect \/ L!Run \/ L!Serve
  PROVE  LifeInv'
<1>1. /\ DOMAIN closing = {"run", "stop"} /\ closing["run"] \in Steps
      /\ UNCHANGED <<watched, iterating, early>>
  BY DEF LifeInv, ClosingInv, Steps, L!Connect, L!Run, L!Serve, L!Check, L!Ping, L!Post,
         L!StartHttp, L!StartValidation, L!StartPumps, L!StartCommands, L!StartEvents,
         L!StartThreads, L!StartDriver, L!StartClients, L!Go, L!Return, L!aside
<1>2. CASE L!Connect
  BY <1>1, <1>2 DEF L!Connect, LifeInv, KeeperInv, BusInv, ClosingInv
<1>3. CASE L!Serve
  BY <1>1, <1>3 DEF L!Serve, LifeInv, KeeperInv, BusInv, ClosingInv
<1>4. CASE L!Post
  BY <1>1, <1>4 DEF L!Post, LifeInv, KeeperInv, BusInv, ClosingInv
<1>5. CASE L!Check \/ L!Ping
  BY <1>1, <1>5 DEF L!Check, L!Ping, LifeInv, KeeperInv, BusInv, ClosingInv
<1>6. CASE L!StartHttp \/ L!StartDriver \/ L!StartClients
  BY <1>1, <1>6
     DEF L!StartHttp, L!StartDriver, L!StartClients, L!Go, LifeInv, KeeperInv, BusInv, ClosingInv
<1>7. CASE L!StartValidation \/ L!StartPumps \/ L!StartCommands \/ L!StartEvents
  BY <1>1, <1>7
     DEF L!StartValidation, L!StartPumps, L!StartCommands, L!StartEvents, L!StartThreads,
         LifeInv, KeeperInv, BusInv, ClosingInv
<1>8. CASE L!Return
  BY <1>1, <1>8 DEF L!Return, LifeInv, KeeperInv, BusInv, ClosingInv
<1>. QED  BY <1>2, <1>3, <1>4, <1>5, <1>6, <1>7, <1>8 DEF L!Run

\* An instance counts, and collects, as its module does.
LEMMA SameCount == \A A : L!Cardinality(A) = Cardinality(A)
BY DEF L!Cardinality, Cardinality

LEMMA SameSet == \A q : S!ToSet(q) = ToSet(q)
BY DEF S!ToSet, ToSet

\* How many sections are watched: a number that does not sink.
LEMMA WatchedCount ==
  ASSUME ClosingInv, watched \subseteq watched', watched' \subseteq Section
  PROVE  Cardinality(watched) \in Nat /\ Cardinality(watched') \in Nat
         /\ Cardinality(watched) <= Cardinality(watched')
BY LifecycleAssumption, FS_Subset, FS_CardinalityType DEF ClosingInv

LEMMA CloseKeeps ==
  ASSUME LifeInv, NEW c \in {"run", "stop"}, L!Close(c)
  PROVE  LifeInv'
<1>1. /\ closing \in [{"run", "stop"} -> Steps] /\ watched' = watched /\ down' = down
      /\ where' = where /\ overtaken' = overtaken
  BY DEF LifeInv, ClosingInv, Steps, L!Close, L!Deregister, L!StopWatches, L!Join, L!Disconnect,
         L!LookAtExecutor, L!ShutExecutor, L!Closes, L!aside
<1>2. Cardinality(watched) \in Nat
  BY <1>1, WatchedCount DEF LifeInv, ClosingInv
<1>3. CASE L!Deregister(c)
  <2>1. /\ closing[c] = "deregister" /\ closing' = [closing EXCEPT ![c] = "watches"]
        /\ client' = FALSE /\ bus' = bus /\ early' = early
        /\ iterating' = [iterating EXCEPT ![c] = Cardinality(watched)]
        /\ IF client THEN \/ keeper' = FALSE /\ UNCHANGED unheard
                          \/ unheard' = TRUE /\ UNCHANGED keeper
           ELSE UNCHANGED <<keeper, unheard>>
    BY <1>3, SameCount, Zenon DEF L!Deregister, L!Closes
  <2>2. KeeperInv'
    BY <1>1, <2>1 DEF LifeInv, KeeperInv, ClosingInv
  <2>3. BusInv'
    BY <1>1, <2>1 DEF LifeInv, BusInv
  <2>4. ClosingInv'
    BY <1>1, <1>2, <2>1 DEF LifeInv, ClosingInv, Steps
  <2>. QED  BY <2>2, <2>3, <2>4 DEF LifeInv
<1>4. CASE L!StopWatches(c)
  <2>1. PICK x \in {"join", "raised"} :
          /\ closing[c] = "watches" /\ closing' = [closing EXCEPT ![c] = x]
          /\ iterating' = [iterating EXCEPT ![c] = 0]
          /\ UNCHANGED <<client, keeper, bus, early, unheard>>
    BY <1>4 DEF L!StopWatches, L!Closes
  <2>2. KeeperInv' /\ BusInv'
    BY <1>1, <2>1 DEF LifeInv, KeeperInv, BusInv
  <2>3. ClosingInv'
    BY <1>1, <1>2, <2>1 DEF LifeInv, ClosingInv, Steps
  <2>. QED  BY <2>2, <2>3 DEF LifeInv
<1>5. CASE L!Join(c) \/ L!LookAtExecutor(c) \/ L!ShutExecutor(c)
  <2>1. PICK x \in {"executor", "shut", "disconnect", "raised"} :
          /\ closing[c] \in {"join", "executor", "shut"} /\ closing' = [closing EXCEPT ![c] = x]
          /\ UNCHANGED <<client, keeper, bus, early, iterating, unheard>>
    BY <1>5 DEF L!Join, L!LookAtExecutor, L!ShutExecutor, L!Closes, L!aside
  <2>2. KeeperInv' /\ BusInv'
    BY <1>1, <2>1 DEF LifeInv, KeeperInv, BusInv
  <2>3. ClosingInv'
    BY <1>1, <2>1 DEF LifeInv, ClosingInv, Steps
  <2>. QED  BY <2>2, <2>3 DEF LifeInv
<1>6. CASE L!Disconnect(c)
  <2>1. /\ closing[c] = "disconnect" /\ closing' = [closing EXCEPT ![c] = "done"]
        /\ bus' = IF bus = "up" THEN "closed" ELSE bus
        /\ early' = (early \/ (c = "stop" /\ bus = "none"))
        /\ UNCHANGED <<client, keeper, iterating, unheard>>
    BY <1>6 DEF L!Disconnect, L!Closes
  <2>2. KeeperInv'
    BY <1>1, <2>1 DEF LifeInv, KeeperInv
  <2>3. BusInv'
    BY <1>1, <2>1 DEF LifeInv, BusInv
  <2>4. ClosingInv'
    BY <1>1, <2>1 DEF LifeInv, ClosingInv, Steps
  <2>. QED  BY <2>2, <2>3, <2>4 DEF LifeInv
<1>. QED  BY <1>3, <1>4, <1>5, <1>6 DEF L!Close

LEMMA LifeInvariant == LifeInv /\ (L!Next \/ UNCHANGED lifeVars) => LifeInv'
<1>. SUFFICES ASSUME LifeInv, L!Next \/ UNCHANGED lifeVars PROVE LifeInv'
  OBVIOUS
<1>1. CASE UNCHANGED lifeVars
  BY <1>1 DEF lifeVars, LifeInv, KeeperInv, BusInv, ClosingInv
<1>2. CASE L!Stop
  BY <1>2 DEF L!Stop, L!aside, LifeInv, KeeperInv, BusInv, ClosingInv
<1>3. ASSUME NEW t, L!ThreadEnds(t) PROVE LifeInv'
  BY <1>3 DEF L!ThreadEnds, L!aside, LifeInv, KeeperInv, BusInv, ClosingInv
<1>4. ASSUME NEW s \in Section, L!Listen(s) PROVE LifeInv'
  <2>1. /\ watched \subseteq watched' /\ watched' \subseteq Section
        /\ UNCHANGED <<where, bus, client, keeper, down, closing, iterating, unheard,
                       overtaken, early>>
    BY <1>4 DEF L!Listen, LifeInv, ClosingInv
  <2>. QED  BY <2>1 DEF LifeInv, KeeperInv, BusInv, ClosingInv
<1>5. CASE L!WriteBack
  BY <1>5 DEF L!WriteBack, LifeInv, KeeperInv, BusInv, ClosingInv
<1>. QED  BY <1>1, <1>2, <1>3, <1>4, <1>5, RunKeeps, CloseKeeps DEF L!Next, L!Closer

\* Who has passed the executor does not come back to it, and sections do not get fewer.
LEMMA CutShortStays ==
  ASSUME LifeInv, NEW c \in {"run", "stop"}, NEW x, closing' = [closing EXCEPT ![c] = x],
         closing[c] \in {"disconnect", "done"} => x \in {"disconnect", "done"}
  PROVE  \A d \in {"run", "stop"} : Overtaken(d) => Overtaken(d)'
BY DEF LifeInv, ClosingInv, Overtaken

LEMMA CloseCuts ==
  ASSUME LifeInv, CutInv, NEW c \in {"run", "stop"}, L!Close(c)
  PROVE  CutInv'
<1>1. /\ closing \in [{"run", "stop"} -> Steps] /\ watched' = watched /\ from' = from
      /\ Cardinality(watched) \in Nat /\ iterating[c] \in Nat
  BY WatchedCount
     DEF LifeInv, ClosingInv, Steps, L!Close, L!Deregister, L!StopWatches, L!Join, L!Disconnect,
         L!LookAtExecutor, L!ShutExecutor, L!Closes, L!aside
<1>. DEFINE Turns(x) ==
        /\ closing' = [closing EXCEPT ![c] = x]
        /\ closing[c] \in {"disconnect", "done"} => x \in {"disconnect", "done"}
        /\ x = "raised" => CutShort(c) \/ (closing[c] = "shut" /\ ~ executor)
        /\ x = "shut" => executor
        /\ executor /\ ~ executor' => x \in {"disconnect", "done"}
<1>2. \E x : Turns(x)
  <2>1. CASE L!Deregister(c)
    <3>1. Turns("watches")
      BY <2>1 DEF L!Deregister, L!Closes
    <3>. QED  BY <3>1
  <2>2. CASE L!StopWatches(c)
    <3>1. L!Grown(c) => CutShort(c)
      BY <1>1, SameCount DEF L!Grown, CutShort
    <3>2. L!Within(c, "watch") => CutShort(c)
      BY DEF L!Within, CutShort
    <3>3. Turns("join") \/ Turns("raised")
      BY <2>2, <3>1, <3>2 DEF L!StopWatches, L!Closes
    <3>. QED  BY <3>3
  <2>3. CASE L!Join(c)
    <3>1. L!Within(c, "events") => CutShort(c)
      BY DEF L!Within, CutShort
    <3>2. Turns("executor") \/ Turns("raised")
      BY <2>3, <3>1 DEF L!Join, L!Closes, L!aside
    <3>. QED  BY <3>2
  <2>4. CASE L!LookAtExecutor(c)
    <3>1. Turns("shut") \/ Turns("disconnect")
      BY <2>4 DEF L!LookAtExecutor, L!Closes, L!aside
    <3>. QED  BY <3>1
  <2>5. CASE L!ShutExecutor(c)
    <3>1. closing[c] = "shut" /\ executor' = FALSE
      BY <2>5 DEF L!ShutExecutor, L!Closes
    <3>2. CASE executor
      <4>1. Turns("disconnect")
        BY <2>5, <3>1, <3>2 DEF L!ShutExecutor, L!Closes
      <4>. QED  BY <4>1
    <3>3. CASE ~ executor
      <4>1. Turns("raised")
        BY <1>1, <2>5, <3>1, <3>3 DEF L!ShutExecutor, L!Closes
      <4>. QED  BY <4>1
    <3>. QED  BY <3>2, <3>3
  <2>6. CASE L!Disconnect(c)
    <3>1. Turns("done")
      BY <2>6 DEF L!Disconnect, L!Closes
    <3>. QED  BY <3>1
  <2>. QED  BY <2>1, <2>2, <2>3, <2>4, <2>5, <2>6 DEF L!Close
<1>. PICK x : Turns(x)
  BY <1>2
<1>3. \A d \in {"run", "stop"} : Overtaken(d) => Overtaken(d)'
  BY CutShortStays
<1>4. \A d \in {"run", "stop"} : CutShort(d) => CutShort(d)'
  BY <1>1, <1>3 DEF CutShort
<1>5. \A d \in {"run", "stop"} \ {c} : executor /\ ~ executor' => Overtaken(d)'
  BY <1>1 DEF Overtaken
<1>6. closing[c] = "shut" /\ ~ executor => CutShort(c)
  BY DEF CutInv, CutShort
<1>7. /\ closing'[c] = "raised" => CutShort(c)'
      /\ closing'[c] = "shut" => executor'
  BY <1>1, <1>4, <1>6
<1>8. ASSUME NEW d \in {"run", "stop"} \ {c}
      PROVE  /\ closing'[d] = "raised" => CutShort(d)'
             /\ closing'[d] = "shut" => executor' \/ Overtaken(d)'
  BY <1>1, <1>3, <1>4, <1>5 DEF CutInv
<1>. QED  BY <1>7, <1>8 DEF CutInv

\* What is not a step of a shutdown, but may begin one.
LEMMA OthersCut ==
  ASSUME LifeInv, CutInv, watched \subseteq watched', watched' \subseteq Section,
         executor => executor',
         \/ UNCHANGED <<closing, from>>
         \/ \E c \in {"run", "stop"} : /\ closing[c] = "none"
                                       /\ closing' = [closing EXCEPT ![c] = "deregister"]
                                       /\ from' # from => c = "stop"
  PROVE  CutInv'
<1>1. /\ Cardinality(watched) \in Nat /\ Cardinality(watched') \in Nat
      /\ Cardinality(watched) <= Cardinality(watched')
  BY WatchedCount DEF LifeInv
<1>2. \A d \in {"run", "stop"} :
        /\ closing[d] # "none" => closing'[d] = closing[d] /\ (d = "stop" => from' = from)
        /\ closing'[d] \in {"raised", "shut"} => closing[d] # "none"
  <2>1. CASE UNCHANGED <<closing, from>>
    BY <2>1
  <2>2. CASE \E c \in {"run", "stop"} : /\ closing[c] = "none"
                                        /\ closing' = [closing EXCEPT ![c] = "deregister"]
                                        /\ from' # from => c = "stop"
    <3>1. PICK c \in {"run", "stop"} : /\ closing[c] = "none"
                                       /\ closing' = [closing EXCEPT ![c] = "deregister"]
                                       /\ from' # from => c = "stop"
      BY <2>2
    <3>2. DOMAIN closing = {"run", "stop"}
      BY DEF LifeInv, ClosingInv
    <3>3. \A d \in {"run", "stop"} : closing'[d] = IF d = c THEN "deregister" ELSE closing[d]
      BY <3>1, <3>2
    <3>. QED  BY <3>1, <3>3
  <2>. QED  BY <2>1, <2>2
<1>3. \A d \in {"run", "stop"} : Overtaken(d) => Overtaken(d)'
  BY <1>2 DEF Overtaken
<1>. QED  BY <1>1, <1>2, <1>3 DEF CutInv, CutShort

LEMMA CutInvariant == LifeInv /\ CutInv /\ (L!Next \/ UNCHANGED lifeVars) => CutInv'
<1>. SUFFICES ASSUME LifeInv, CutInv, L!Next \/ UNCHANGED lifeVars PROVE CutInv'
  OBVIOUS
<1>0. watched \subseteq Section
  BY DEF LifeInv, ClosingInv
<1>1. CASE UNCHANGED lifeVars
  BY <1>0, <1>1, OthersCut DEF lifeVars
<1>2. CASE L!Connect \/ L!Run
  <2>1. UNCHANGED <<watched, executor, closing, from>>
    BY <1>2
       DEF L!Connect, L!Run, L!Check, L!Ping, L!Post, L!StartHttp, L!StartValidation,
           L!StartPumps, L!StartCommands, L!StartEvents, L!StartThreads, L!StartDriver,
           L!StartClients, L!Go, L!Return, L!aside
  <2>. QED  BY <1>0, <2>1, OthersCut
<1>3. CASE L!Serve
  <2>1. /\ UNCHANGED <<watched, executor, from>> /\ closing["run"] = "none"
        /\ closing' = [closing EXCEPT !["run"] = "deregister"]
    BY <1>3 DEF L!Serve, L!aside, LifeInv, ClosingInv
  <2>. QED  BY <1>0, <2>1, OthersCut
<1>4. CASE L!Stop
  <2>1. /\ UNCHANGED <<watched, executor>> /\ closing["stop"] = "none"
        /\ closing' = [closing EXCEPT !["stop"] = "deregister"]
    BY <1>4 DEF L!Stop
  <2>. QED  BY <1>0, <2>1, OthersCut
<1>5. CASE L!WriteBack
  BY <1>0, <1>5, OthersCut DEF L!WriteBack
<1>6. ASSUME NEW t, L!ThreadEnds(t) PROVE CutInv'
  BY <1>0, <1>6, OthersCut DEF L!ThreadEnds, L!aside
<1>7. ASSUME NEW s \in Section, L!Listen(s) PROVE CutInv'
  BY <1>0, <1>7, OthersCut DEF L!Listen
<1>. QED
  BY <1>1, <1>2, <1>3, <1>4, <1>5, <1>6, <1>7, CloseCuts DEF L!Next, L!Closer

-----------------------------------------------------------------------------
(* The watch of a section. *)

LEMMA InitWatch == C!WatchInit => WatchInv
BY DEF C!WatchInit, WatchInv

LEMMA WatchInvariant == WatchInv /\ (C!WatchNext \/ UNCHANGED watchVars) => WatchInv'
<1>. SUFFICES ASSUME WatchInv, C!WatchNext \/ UNCHANGED watchVars PROVE WatchInv'
  OBVIOUS
<1>1. CASE UNCHANGED watchVars
  BY <1>1 DEF watchVars, WatchInv
<1>2. ASSUME NEW c, C!Write(c) PROVE WatchInv'
  BY <1>2 DEF C!Write, WatchInv
<1>3. CASE C!Shut
  BY <1>3 DEF C!Shut, WatchInv
<1>4. ASSUME NEW w \in Watch, C!Listen(w) PROVE WatchInv'
  BY <1>4 DEF C!Listen, C!Goto, WatchInv
<1>5. ASSUME NEW w \in Watch, C!Launch(w) \/ C!Look(w) \/ C!Read(w) \/ C!Poll(w) PROVE WatchInv'
  BY <1>5 DEF C!Launch, C!Look, C!Read, C!Poll, C!Goto, WatchInv
<1>6. ASSUME NEW w \in Watch, C!Call(w) PROVE WatchInv'
  BY <1>6 DEF C!Call, C!Goto, WatchInv
<1>. QED  BY <1>1, <1>2, <1>3, <1>4, <1>5, <1>6 DEF C!WatchNext, C!Thread

-----------------------------------------------------------------------------
(* Secrets. *)

LEMMA InitSecrets == S!SecretsInit => SecretInv
BY DEF S!SecretsInit, S!Caller, S!StoreIsExplained, SecretInv, SecretTyped, Users

LEMMA BeginSecret ==
  ASSUME SecretInv, NEW c \in Users, NEW to \in {"store", "post", "read", "drop"},
         NEW keys \in Seq(Key), keys # <<>>, S!Begin(c, to, keys),
         provider = "memory" <=> to \in {"store", "drop"}
  PROVE  SecretInv'
<1>1. SecretTyped'
  BY DEF S!Begin, SecretInv, SecretTyped
<1>2. (~ overlapped => \A b \in Users :
         /\ doing[b] \in {"make", "remove"} => kept = {}
         /\ doing[b] = "write" => copy[b] = kept)'
  BY DEF S!Begin, SecretInv, SecretTyped
<1>. QED  BY <1>1, <1>2 DEF S!Begin, SecretInv, S!StoreIsExplained

\* Where a caller goes next, with the pairs it has left.
Goes(c, to) ==
  /\ doing' = [doing EXCEPT ![c] = to]
  /\ \A b \in Users \ {c} : pairs'[b] = pairs[b]
  /\ DOMAIN pairs' = Users
  /\ to # "idle" => pairs'[c] \in Seq(Key) /\ pairs'[c] # <<>>

LEMMA Moved ==
  ASSUME SecretTyped, NEW c \in Users, doing[c] # "idle"
  PROVE  /\ \A to : S!Goto(c, to) => Goes(c, to)
         /\ \A result : S!End(c, result) => Goes(c, "idle")
         /\ S!NextPair(c) => Goes(c, "idle") \/ Goes(c, S!StoreStep)
<1>1. pairs[c] \in Seq(Key) /\ pairs[c] # <<>> /\ DOMAIN pairs = Users
  BY DEF SecretTyped
<1>2. ASSUME NEW to, S!Goto(c, to) PROVE Goes(c, to)
  BY <1>1, <1>2 DEF S!Goto, Goes
<1>3. ASSUME NEW result, S!End(c, result) PROVE Goes(c, "idle")
  BY <1>1, <1>3 DEF S!End, Goes
<1>4. ASSUME S!NextPair(c) PROVE Goes(c, "idle") \/ Goes(c, S!StoreStep)
  <2>1. CASE Len(pairs[c]) = 1
    BY <1>3, <1>4, <2>1 DEF S!NextPair
  <2>2. CASE Len(pairs[c]) # 1
    <3>1. PICK q \in Seq(Key) : q = pairs[c] /\ q # <<>>
      BY <1>1
    <3>2. Len(q) \in Nat \ {0} /\ Tail(q) \in Seq(Key) /\ Len(Tail(q)) = Len(q) - 1
      BY <3>1
    <3>3. Tail(q) # <<>>
      <4>1. Len(Tail(q)) # 0
        BY <2>2, <3>1, <3>2
      <4>. QED  BY <3>2, <4>1, EmptySeq
    <3>4. doing' = [doing EXCEPT ![c] = S!StoreStep] /\ pairs' = [pairs EXCEPT ![c] = Tail(q)]
      BY <1>4, <2>2, <3>1 DEF S!NextPair
    <3>. QED  BY <1>1, <3>2, <3>3, <3>4 DEF Goes
  <2>. QED  BY <2>1, <2>2
<1>. QED  BY <1>2, <1>3, <1>4

LEMMA GoesTyped ==
  ASSUME SecretTyped, NEW c \in Users, NEW to, Goes(c, to), provider' = provider,
         DOMAIN copy' = Users,
         provider = "openbao" => to \in {"idle", "post", "write"},
         provider = "memory" => to \in {"idle", "store", "make", "put", "tidy", "remove"}
  PROVE  SecretTyped'
BY DEF SecretTyped, Goes

\* In memory: what is stored goes into a path that nobody has seen empty or missing.
LEMMA MemoryKeeps ==
  ASSUME SecretInv, NEW c \in Users, S!InMemory(c)
  PROVE  SecretInv'
<1>. DEFINE k == Head(pairs[c])
<1>1. /\ provider = "memory" /\ provider' = provider /\ copy' = copy /\ doing[c] # "idle"
      /\ SecretTyped /\ DOMAIN doing = Users
  BY DEF S!InMemory, S!LookForPath, S!MakePath, S!Put, S!Drop, S!Tidy, S!RemovePath, SecretInv,
         SecretTyped
<1>2. S!StoreStep = "store" /\ \A x : S!Stored(x) = kept \union {x}
  BY <1>1 DEF S!StoreStep, S!Stored
<1>3. PICK to \in {"idle", "store", "make", "put", "tidy", "remove"} :
        /\ Goes(c, to)
        /\ \/ UNCHANGED <<there, kept, stored, deleted, overlapped>>
           \/ /\ doing[c] \in {"make", "remove"} /\ kept' = {} /\ to \notin {"make", "remove"}
              /\ UNCHANGED <<stored, deleted, overlapped>>
           \/ /\ there /\ there' /\ to \notin {"make", "remove"}
              /\ kept' = kept \union {k}
              /\ stored' = stored \union {k} /\ deleted' = deleted \ {k}
              /\ overlapped' = (overlapped
                    \/ \E b \in Users \ {c} : doing[b] \in {"make", "remove", "write"})
           \/ /\ to \notin {"make", "remove"} /\ kept' = kept \ {k}
              /\ stored' = stored \ {k} /\ deleted' = deleted \union {k}
              /\ UNCHANGED <<there, overlapped>>
        /\ to \in {"make", "remove"} => kept = {}
  <2>1. CASE S!LookForPath(c)
    BY <1>1, <2>1, Moved DEF S!LookForPath, SecretInv
  <2>2. CASE S!MakePath(c)
    BY <1>1, <2>2, Moved DEF S!MakePath
  <2>3. CASE S!Put(c)
    <3>1. CASE there
      <4>1. Goes(c, "idle") \/ Goes(c, "store")
        BY <1>1, <1>2, <2>3, <3>1, Moved DEF S!Put
      <4>2. /\ there' = there /\ kept' = kept \union {k}
            /\ stored' = (stored \ {}) \union {k} /\ deleted' = deleted \ ({k} \union {})
            /\ overlapped' = (overlapped
                  \/ \E b \in Users \ {c} : doing[b] \in {"make", "remove", "write"})
        BY <1>2, <2>3, <3>1 DEF S!Put, S!Recall, S!Overlap, S!Caller, Users
      <4>. QED  BY <3>1, <4>1, <4>2
    <3>2. CASE ~ there
      BY <1>1, <2>3, <3>2, Moved DEF S!Put
    <3>. QED  BY <3>1, <3>2
  <2>4. CASE S!Drop(c)
    BY <1>1, <2>4, Moved DEF S!Drop
  <2>5. CASE S!Tidy(c)
    BY <1>1, <2>5, Moved DEF S!Tidy
  <2>6. CASE S!RemovePath(c)
    BY <1>1, <2>6, Moved DEF S!RemovePath
  <2>. QED  BY <2>1, <2>2, <2>3, <2>4, <2>5, <2>6 DEF S!InMemory
<1>4. SecretTyped'
  BY <1>1, <1>3, GoesTyped DEF SecretTyped
<1>5. doing' = [doing EXCEPT ![c] = to]
  BY <1>3 DEF Goes
<1>6. /\ \A b \in Users : doing[b] # "write" /\ doing'[b] # "write"
      /\ ~ there => kept = {}
      /\ ~ overlapped => \A b \in Users : doing[b] \in {"make", "remove"} => kept = {}
      /\ (~ overlapped => stored \subseteq kept) /\ deleted \intersect kept = {}
  BY <1>1, <1>4 DEF SecretInv, SecretTyped, S!StoreIsExplained
<1>7. ~ there' => kept' = {}
  BY <1>3, <1>6
<1>8. ~ overlapped' => \A b \in Users : doing'[b] \in {"make", "remove"} => kept' = {}
  BY <1>1, <1>3, <1>5, <1>6
<1>9. (~ overlapped' => stored' \subseteq kept') /\ deleted' \intersect kept' = {}
  BY <1>1, <1>3, <1>6
<1>. QED
  BY <1>1, <1>4, <1>6, <1>7, <1>8, <1>9 DEF SecretInv, S!StoreIsExplained

LEMMA PostKeeps ==
  ASSUME SecretInv, NEW c \in Users, S!PostPair(c)
  PROVE  SecretInv'
<1>. DEFINE k == Head(pairs[c])
<1>1. /\ doing[c] = "post" /\ provider = "openbao" /\ SecretTyped /\ DOMAIN doing = Users
      /\ pairs[c] \in Seq(Key) /\ pairs[c] # <<>>
      /\ provider' = provider /\ copy' = copy
  BY DEF S!PostPair, SecretInv, SecretTyped
<1>2. S!StoreStep = "post" /\ S!Stored(k) = {k} /\ k \in ToSet(pairs[c])
  BY <1>1 DEF S!StoreStep, S!Stored, ToSet
<1>3. PICK to \in {"idle", "post"} : Goes(c, to)
  BY <1>1, <1>2, Moved DEF S!PostPair
<1>4. overlapped' = (overlapped
        \/ \E b \in Users \ {c} : doing[b] \in {"make", "remove", "write"})
  BY DEF S!PostPair, S!Overlap, S!Caller, Users
<1>5. kept' \in {kept, {k}} /\ k \notin deleted' /\ deleted' \subseteq deleted
  <2>1. \/ kept' = {k} /\ S!Recall({k}, {})
        \/ kept' \in {kept, {k}} /\ S!Recall({}, ToSet(pairs[c]))
    BY <1>2, SameSet DEF S!PostPair
  <2>. QED  BY <1>2, <2>1 DEF S!Recall
<1>6. SecretTyped'
  BY <1>1, <1>3, GoesTyped DEF SecretTyped
<1>7. doing' = [doing EXCEPT ![c] = to]
  BY <1>3 DEF Goes
<1>8. ~ overlapped' => \A b \in Users : doing'[b] \notin {"make", "remove", "write"}
  BY <1>1, <1>4, <1>7
<1>9. S!StoreIsExplained'
  BY <1>1, <1>4, <1>5 DEF S!StoreIsExplained, SecretInv
<1>. QED  BY <1>1, <1>6, <1>8, <1>9 DEF SecretInv

LEMMA ReadKeeps ==
  ASSUME SecretInv, NEW c \in Users, S!ReadAll(c)
  PROVE  SecretInv'
<1>1. /\ doing[c] = "read" /\ provider = "openbao" /\ SecretTyped
      /\ DOMAIN doing = Users /\ DOMAIN copy = Users
      /\ UNCHANGED <<provider, there, kept, stored, deleted, overlapped>>
  BY DEF S!ReadAll, SecretInv, SecretTyped
<1>2. \/ Goes(c, "write") /\ copy' = [copy EXCEPT ![c] = kept]
      \/ Goes(c, "idle") /\ copy' = copy
  BY <1>1, Moved DEF S!ReadAll
<1>3. SecretTyped'
  <2>1. DOMAIN copy' = Users
    BY <1>1, <1>2
  <2>. QED  BY <1>1, <1>2, <2>1, GoesTyped
<1>4. (~ overlapped => \A b \in Users :
         /\ doing[b] \in {"make", "remove"} => kept = {}
         /\ doing[b] = "write" => copy[b] = kept)'
  BY <1>1, <1>2 DEF SecretInv, Goes
<1>. QED  BY <1>1, <1>3, <1>4 DEF SecretInv, S!StoreIsExplained

LEMMA WriteKeeps ==
  ASSUME SecretInv, NEW c \in Users, S!WriteRest(c)
  PROVE  SecretInv'
<1>. DEFINE k == Head(pairs[c])
<1>1. /\ doing[c] = "write" /\ provider = "openbao" /\ SecretTyped
      /\ DOMAIN doing = Users /\ DOMAIN copy = Users
      /\ provider' = provider /\ copy' = [copy EXCEPT ![c] = {}]
  BY DEF S!WriteRest, SecretInv, SecretTyped
<1>2. Goes(c, "idle")
  BY <1>1, Moved DEF S!WriteRest
<1>3. overlapped' = (overlapped
        \/ \E b \in Users \ {c} : doing[b] \in {"make", "remove", "write"})
  BY DEF S!WriteRest, S!Overlap, S!Caller, Users
<1>4. \/ kept' = copy[c] \ {k} /\ deleted' = deleted \union {k}
      \/ kept' \in {kept, copy[c] \ {k}} /\ deleted' \subseteq deleted
  BY DEF S!WriteRest, S!Recall
<1>5. SecretTyped'
  BY <1>1, <1>2, GoesTyped
<1>6. doing' = [doing EXCEPT ![c] = "idle"]
  BY <1>2 DEF Goes
<1>7. ~ overlapped' => \A b \in Users : doing'[b] \notin {"make", "remove", "write"}
  BY <1>1, <1>3, <1>6
<1>8. S!StoreIsExplained'
  BY <1>1, <1>3, <1>4 DEF S!StoreIsExplained, SecretInv
<1>. QED  BY <1>1, <1>5, <1>7, <1>8 DEF SecretInv

LEMMA SecretInvariant == SecretInv /\ (S!SecretsNext \/ UNCHANGED secretVars) => SecretInv'
<1>. SUFFICES ASSUME SecretInv, S!SecretsNext \/ UNCHANGED secretVars PROVE SecretInv'
  OBVIOUS
<1>1. CASE UNCHANGED secretVars
  BY <1>1 DEF secretVars, SecretInv, SecretTyped, S!StoreIsExplained
<1>0. provider \in {"memory", "openbao"} /\ Driver \subseteq Users /\ Http \in Users
  BY DEF SecretInv, SecretTyped, Users
<1>2. ASSUME NEW keys \in {<<k>> : k \in Key} \union {ks \in Key \X Key : ks[1] # ks[2]},
             S!Post(keys)
      PROVE  SecretInv'
  <2>1. keys \in Seq(Key) /\ keys # <<>>
    <3>1. CASE keys \in {<<k>> : k \in Key}
      <4>1. PICK k \in Key : keys = <<k>>
        BY <3>1
      <4>. QED  BY <4>1
    <3>2. CASE keys \in Key \X Key
      <4>1. PICK x \in Key, y \in Key : keys = <<x, y>>
        BY <3>2
      <4>. QED  BY <4>1
    <3>. QED  BY <1>2, <3>1, <3>2
  <2>. QED  BY <1>0, <1>2, <2>1, BeginSecret DEF S!Post, S!StoreStep
<1>3. ASSUME NEW c \in Driver, NEW k \in Key, S!StoreSecret(c, k) PROVE SecretInv'
  <2>1. <<k>> \in Seq(Key) /\ <<k>> # <<>>
    OBVIOUS
  <2>. QED  BY <1>0, <1>3, <2>1, BeginSecret DEF S!StoreSecret, S!StoreStep
<1>4. ASSUME NEW c \in Driver, NEW k \in Key, S!DeleteSecret(c, k) PROVE SecretInv'
  <2>1. <<k>> \in Seq(Key) /\ <<k>> # <<>>
    OBVIOUS
  <2>. QED  BY <1>0, <1>4, <2>1, BeginSecret DEF S!DeleteSecret
<1>. QED
  BY <1>1, <1>2, <1>3, <1>4, MemoryKeeps, PostKeeps, ReadKeeps, WriteKeeps
     DEF S!SecretsNext, S!Caller, Users

-----------------------------------------------------------------------------
(* The token. *)

LEMMA InitToken == T!TokenInit => TokenInv
BY DEF T!TokenInit, TokenInv, T!MissingForCause

LEMMA TokenInvariant == TokenInv /\ (T!TokenNext \/ UNCHANGED tokenVars) => TokenInv'
<1>. SUFFICES ASSUME TokenInv, T!TokenNext \/ UNCHANGED tokenVars PROVE TokenInv'
  OBVIOUS
<1>1. CASE UNCHANGED tokenVars
  BY <1>1 DEF tokenVars, TokenInv, T!MissingForCause
<1>2. CASE T!Tick \/ T!Provide \/ T!Close \/ T!Closed
  BY <1>2 DEF T!Tick, T!Provide, T!Close, T!Closed, TokenInv, T!MissingForCause
<1>3. ASSUME NEW r \in Request, T!Asks(r) PROVE TokenInv'
  <2>1. CASE T!Begin(r) \/ T!Look(r) \/ T!Again(r)
    BY <2>1 DEF T!Begin, T!Look, T!Again, TokenInv, T!MissingForCause
  <2>2. CASE T!Send(r)
    BY <2>2 DEF T!Send, T!GetToken, TokenInv, T!MissingForCause
  <2>3. ASSUME NEW n \in Renewer, T!Launch(r, n) PROVE TokenInv'
    BY <2>3 DEF T!Launch, TokenInv, T!MissingForCause
  <2>. QED  BY <1>3, <2>1, <2>2, <2>3 DEF T!Asks
<1>4. ASSUME NEW n \in Renewer, T!Check(n) \/ T!Sleep(n) PROVE TokenInv'
  BY <1>4 DEF T!Check, T!Sleep, T!Renew, TokenInv, T!MissingForCause
<1>5. ASSUME NEW n \in Renewer, T!Drop(n) PROVE TokenInv'
  BY <1>5 DEF T!Drop, T!Renew, TokenInv, T!MissingForCause
<1>6. ASSUME NEW n \in Renewer, T!Reread(n) PROVE TokenInv'
  BY <1>6 DEF T!Reread, T!Renew, T!GetToken, TokenInv, T!MissingForCause
<1>. QED
  BY <1>1, <1>2, <1>3, <1>4, <1>5, <1>6 DEF T!TokenNext, T!Renews

-----------------------------------------------------------------------------
(* The components side by side. *)

ServiceInv == RegistrationInv /\ LifeInv /\ CutInv /\ WatchInv /\ SecretInv /\ TokenInv

LEMMA InitService == Init => ServiceInv
BY InitRegistration, InitLife, InitCut, InitWatch, InitSecrets, InitToken
   DEF Init, RegistrationRests, LifeRests, WatchRests, SecretsRest, TokenRests, ServiceInv

LEMMA ServiceInvariant == ServiceInv /\ [Next]_all => ServiceInv'
<1>. SUFFICES ASSUME ServiceInv, [Next]_all PROVE ServiceInv'
  OBVIOUS
<1>1. /\ RegistrationNext \/ UNCHANGED registrationVars
      /\ L!Next \/ UNCHANGED lifeVars
      /\ C!WatchNext \/ UNCHANGED watchVars
      /\ S!SecretsNext \/ UNCHANGED secretVars
      /\ T!TokenNext \/ UNCHANGED tokenVars
  BY DEF Next, RegistrationStep, LifeStep, WatchStep, SecretStep, TokenStep, all
<1>. QED
  BY <1>1, RegistrationInvariant, LifeInvariant, CutInvariant, WatchInvariant, SecretInvariant, TokenInvariant
     DEF ServiceInv

\* What a started service serves is at Core Metadata, unless a request about it, its profile
\* or the service failed, one of them was refused for a reason of its own or removed by
\* another service, or the file of its profile was not loaded: for any files, and any
\* failures, refusals and removals on the way.
THEOREM WhatIsServedIsRegistered == Spec => []ServedIsRegistered
<1>1. ServiceInv => ServedIsRegistered
  BY DEF ServiceInv, RegistrationInv, Listed, Accounted, ServedIsRegistered
<1>. QED  BY InitService, ServiceInvariant, <1>1, PTL DEF Spec

\* A shutdown that is over leaves no registration and no connection behind, but for a failed
\* DELETE and for a stop() that crossed the start; only a new section, a stop() in a thread
\* that it joins, or the other shutdown cuts it short.
THEOREM ShutdownLeavesNothing == Spec => []NothingLeftBehind
<1>1. LifeInv => L!GoneFromRegistry
  BY DEF LifeInv, KeeperInv, ClosingInv, L!GoneFromRegistry
<1>2. LifeInv /\ CutInv => L!BusIsClosed
  BY SameCount
     DEF LifeInv, BusInv, ClosingInv, CutInv, CutShort, Overtaken, L!BusIsClosed, L!Closer
<1>3. ServiceInv => NothingLeftBehind
  BY <1>1, <1>2 DEF ServiceInv, NothingLeftBehind
<1>. QED  BY InitService, ServiceInvariant, <1>3, PTL DEF Spec

\* A replaced watch calls the application back at most once after it was told to stop.
THEOREM StoppedWatchCallsOnce == Spec => []StoppedCallsOnce
<1>1. ServiceInv => StoppedCallsOnce
  BY DEF ServiceInv, WatchInv, StoppedCallsOnce, C!StoppedCallsOnce
<1>. QED  BY InitService, ServiceInvariant, <1>1, PTL DEF Spec

\* A pair or a token is lost, or comes back, only for the named reasons, for any number of
\* callers and renewal threads.
THEOREM SecretsAlwaysExplained == Spec => []SecretsAreExplained
<1>1. ServiceInv => SecretsAreExplained
  BY DEF ServiceInv, SecretInv, TokenInv, SecretsAreExplained
<1>. QED  BY InitService, ServiceInvariant, <1>1, PTL DEF Spec
=============================================================================
