---------------------------- MODULE MCLifecycle ----------------------------
(***************************************************************************)
(* The start, the upkeep and the end of a service for TLC: its resources   *)
(* given to Core Metadata (SelfRegistration), run() and _shutdown          *)
(* (Lifecycle), the watch of a section of its custom configuration         *)
(* (ConfigWatch), the pairs of its secret store (Secrets) and the token    *)
(* they are asked for with (TokenRenewal).  They share no variable - what  *)
(* one has of another is a choice of outcomes - so a behaviour here steps  *)
(* one of them: the interleavings within each are all there.               *)
(***************************************************************************)
EXTENDS SelfRegistration, TLC

CONSTANTS
  Section, Watch, NoWatch, MaxWrites, Key, Driver, Http, Request, Renewer, NoRenewer, Ttl,
  p1, p2, d1, w1

ASSUME LifecycleAssumption == IsFiniteSet(Section)

Profiles2 == {p1, p2}
Devices1  == {d1}
Watchers1 == {w1}
Uses      == (d1 :> p1) @@ (w1 :> p2)

VARIABLES
  conf, where, bus, client, keeper, running, down, closing, from, executor, watched, iterating,
  unheard, overtaken, early,
  content, mtime, writes, current, at, last, read, stop, heard, late, coarse,
  provider, there, kept, doing, pairs, copy, answer, stored, deleted, overlapped,
  token, left, file, asking, renewing, thread, halt, closed, empty

L == INSTANCE Lifecycle WITH at <- where
C == INSTANCE ConfigWatch
S == INSTANCE Secrets
T == INSTANCE TokenRenewal

lifeVars   == <<conf, where, bus, client, keeper, running, down, closing, from, executor, watched,
                iterating, unheard, overtaken, early>>
watchVars  == <<content, mtime, writes, current, at, last, read, stop, heard, late, coarse>>
secretVars ==
  <<provider, there, kept, doing, pairs, copy, answer, stored, deleted, overlapped>>
tokenVars  == <<token, left, file, asking, renewing, thread, halt, closed, empty>>

all == <<registrationVars, lifeVars, watchVars, secretVars, tokenVars>>

\* A component that does not step is as it is at first, with nothing configured or kept.
RegistrationRests == RegistrationInit /\ remote = {}
LifeRests         == L!Init /\ conf = {}
WatchRests        == C!WatchInit
SecretsRest       == S!SecretsInit /\ provider = "memory"
TokenRests        == T!TokenInit /\ ~ token /\ ~ file

Init ==
  \/ RegistrationInit  /\ LifeRests /\ WatchRests /\ SecretsRest    /\ TokenRests
  \/ RegistrationRests /\ L!Init    /\ WatchRests /\ SecretsRest    /\ TokenRests
  \/ RegistrationRests /\ LifeRests /\ WatchRests /\ S!SecretsInit  /\ TokenRests
  \/ RegistrationRests /\ LifeRests /\ WatchRests /\ SecretsRest    /\ T!TokenInit

RegistrationStep ==
  /\ LifeRests /\ WatchRests /\ SecretsRest /\ TokenRests /\ RegistrationNext
  /\ UNCHANGED <<lifeVars, watchVars, secretVars, tokenVars>>
LifeStep ==
  /\ RegistrationRests /\ WatchRests /\ SecretsRest /\ TokenRests /\ L!Next
  /\ UNCHANGED <<registrationVars, watchVars, secretVars, tokenVars>>
WatchStep ==
  /\ RegistrationRests /\ LifeRests /\ SecretsRest /\ TokenRests /\ C!WatchNext
  /\ UNCHANGED <<registrationVars, lifeVars, secretVars, tokenVars>>
SecretStep ==
  /\ RegistrationRests /\ LifeRests /\ WatchRests /\ TokenRests /\ S!SecretsNext
  /\ UNCHANGED <<registrationVars, lifeVars, watchVars, tokenVars>>
TokenStep ==
  /\ RegistrationRests /\ LifeRests /\ WatchRests /\ SecretsRest /\ T!TokenNext
  /\ UNCHANGED <<registrationVars, lifeVars, watchVars, secretVars>>

Next == RegistrationStep \/ LifeStep \/ WatchStep \/ SecretStep \/ TokenStep

Spec == Init /\ [][Next]_all

\* No fair action is enabled in a component at rest.
FairSpec == Spec /\ L!Fairness /\ C!WatchFairness /\ T!TokenFairness

\* A shutdown that is over leaves nothing behind at Core Keeper or on the bus.
NothingLeftBehind == L!GoneFromRegistry /\ L!BusIsClosed

\* Threads that were told to stop end: those of run() and those that renew tokens.
StoppedThreadsEnd == L!ThreadsEnd /\ T!ClosedIsQuiet

\* A watch that was replaced or stopped calls back at most once more.
StoppedCallsOnce == C!StoppedCallsOnce

\* The watch in charge hears of the last state of its file.
HeardAtLast == C!HeardAtLast

\* Pairs are lost, and come back, only by calls that cross, and tokens only when there are none.
SecretsAreExplained == S!StoreIsExplained /\ T!MissingForCause
=============================================================================
