-------------------------- MODULE DeviceDown_proofs --------------------------
(***************************************************************************)
(* What DeviceDown guarantees for every number of command threads and      *)
(* every AllowedFails.                                                     *)
(***************************************************************************)
EXTENDS DeviceDown, TLAPS

\* Every step of a command keeps the types and, with the result a caller has yet to
\* store, the bound on the count.
LEMMA StepTypeOK ==
  ASSUME TypeOK, NEW c \in Caller,
         Begin(c) \/ Proceed(c) \/ Stored(c) \/ NotStored(c)
  PROVE  TypeOK'
<1>. USE DownAssumption DEF TypeOK, State, Step, Left, Goto, Finish, history
<1>1. ASSUME Failed(c) PROVE TypeOK'
  <2>1. CASE AllowedFails = 0
    BY <1>1, <2>1 DEF Failed
  <2>2. CASE AllowedFails # 0
    BY <1>1, <2>2 DEF Failed
  <2>. QED  BY <2>1, <2>2
<1>2. CASE Begin(c)      BY <1>2 DEF Begin
<1>3. CASE Check(c)      BY <1>3, <1>1 DEF Check
<1>4. CASE Unanswered(c) BY <1>4, <1>1 DEF Unanswered
<1>5. CASE Answered(c)   BY <1>5 DEF Answered
<1>6. CASE Read(c)       BY <1>6 DEF Read
<1>7. CASE Store(c)      BY <1>7 DEF Store
<1>8. CASE Reread(c)     BY <1>8 DEF Reread
<1>9. CASE Lookup(c)     BY <1>9 DEF Lookup
<1>10. CASE Compare(c)   BY <1>10 DEF Compare
<1>11. CASE Refill(c)    BY <1>11 DEF Refill
<1>12. CASE Snapshot(c)  BY <1>12 DEF Snapshot
<1>13. CASE Write(c)     BY <1>13 DEF Write
<1>14. CASE Rollback(c)  BY <1>14 DEF Rollback
<1>15. CASE Stored(c)    BY <1>15 DEF Stored
<1>16. CASE NotStored(c) BY <1>16 DEF NotStored
<1>. QED
  BY <1>2, <1>3, <1>4, <1>5, <1>6, <1>7, <1>8, <1>9, <1>10, <1>11, <1>12, <1>13,
     <1>14, <1>15, <1>16 DEF Proceed

\* However the threads interleave on the unlocked dictionary, a lost decrement
\* included, no more than AllowedFails failures are ever allowed.
THEOREM DownTypeCorrect == Spec => []TypeOK
<1>1. Init => TypeOK
  <2>. SUFFICES ASSUME Init PROVE TypeOK
    OBVIOUS
  <2>1. count \in Int \union {Absent} /\ Left <= AllowedFails /\ fails \in 0..AllowedFails
    BY DownAssumption DEF Init, Left
  <2>2. /\ local \in [Caller -> Int]
        /\ \A c \in Caller : local[c] <= AllowedFails
    BY DownAssumption DEF Init
  <2>3. /\ opState \in State
        /\ pc \in [Caller -> Step]
        /\ seen \in [Caller -> State]
        /\ goal \in [Caller -> State]
        /\ saved \in [Caller -> State]
        /\ reply \in [Caller -> {"none", "ok", "error"}]
        /\ pump \in {"sleep", "ask", "driver"}
    BY DEF Init, State, Step
  <2>4. answered \in BOOLEAN /\ refused \in BOOLEAN /\ raced \in BOOLEAN /\ marked \in BOOLEAN
    BY DEF Init
  <2>. QED  BY <2>1, <2>2, <2>3, <2>4 DEF TypeOK
<1>2. TypeOK /\ [Next]_vars => TypeOK'
  <2>. SUFFICES ASSUME TypeOK, [Next]_vars PROVE TypeOK'
    OBVIOUS
  <2>1. CASE UNCHANGED vars
    BY <2>1 DEF vars, TypeOK, Left, history
  <2>2. CASE PumpLook \/ PumpAsk
    BY <2>2 DEF PumpLook, PumpAsk, TypeOK, Left, history
  <2>3. CASE \E state \in State : MarkedByOthers(state)
    BY <2>3 DEF MarkedByOthers, TypeOK, Left
  <2>. QED  BY <2>1, <2>2, <2>3, StepTypeOK DEF Next
<1>. QED  BY <1>1, <1>2, PTL DEF Spec

-----------------------------------------------------------------------------
(* The count tells how many failures in a row there have been, as long as   *)
(* commands do not race.                                                    *)

\* n is what is left of the allowance after these failures; below zero when there were
\* more failures than fails counts.
Tally(n) ==
  /\ n \in Int
  /\ IF fails < AllowedFails THEN n = AllowedFails - fails ELSE n <= 0

\* Between the commands of a Device that has answered.
Settled == Tally(count) /\ (Undisturbed => (opState = "UP" <=> fails < AllowedFails))

\* A command has failed, and n is, or will be, the count after it.
Failing(n) ==
  /\ Tally(n)
  /\ Undisturbed => IF opState = "UP" THEN n = AllowedFails - fails ELSE n < 0

\* What each step of a command relies on.
AtStep(c) ==
  /\ pc[c] \in {"check", "driver"} => Settled
  /\ pc[c] = "read"    => count # Absent /\ Failing(count - 1)
  /\ pc[c] = "store"   => Failing(local[c])
  /\ pc[c] = "reread"  => Failing(count)
  /\ pc[c] = "lookup"  => /\ Tally(count) /\ fails = AllowedFails
                          /\ Undisturbed => opState = "UP"
  /\ pc[c] = "compare" => /\ fails = 0
                          /\ Undisturbed /\ opState # "UP" =>
                               seen[c] = "DOWN" /\ Left < AllowedFails
  /\ pc[c] = "refill"  => /\ fails = 0
                          /\ Undisturbed /\ opState # "UP" => seen[c] = "DOWN"
  /\ pc[c] \in {"snapshot", "write", "request", "rollback"} =>
       Tally(count) /\ fails = IF goal[c] = "UP" THEN 0 ELSE AllowedFails
  /\ pc[c] = "request" /\ ~marked => opState = goal[c]

\* Until the Device answers, the count is never refilled, and never is exactly zero.
NeverAnswered ==
  /\ count = Absent \/ count < 0
  /\ \A c \in Caller :
       /\ pc[c] \in {"idle", "check", "driver", "read", "store", "reread"}
       /\ pc[c] = "store" => local[c] < 0
       /\ pc[c] = "reread" => count # Absent

\* With no failure allowed nothing is counted, and a DOWN Device is not asked.
NoneAllowed ==
  /\ count = Absent
  /\ \A c \in Caller :
       /\ pc[c] \in {"idle", "check", "driver", "compare"}
       /\ pc[c] = "driver" => seen[c] = "UP"
       /\ ~raced /\ ~marked /\ pc[c] = "compare" => opState = "UP"

InPeace ==
  \A c \in Caller :
    /\ pc[c] # "idle" => Alone(c)
    /\ pc[c] \in {"check", "driver"} /\ ~marked => seen[c] = opState

DownInv ==
  /\ ~answered => NeverAnswered
  /\ ~raced => InPeace
  /\ \A c \in Caller : pc[c] = "rollback" => refused
  /\ AllowedFails = 0 => NoneAllowed
  /\ AllowedFails > 0 /\ answered /\ ~raced =>
       (Quiet => Settled) /\ \A c \in Caller : AtStep(c)

LEMMA InitDown == Init => DownInv
<1>. USE DownAssumption
<1>1. Init => ~answered /\ NeverAnswered /\ InPeace
  BY DEF Init, NeverAnswered, InPeace, Alone
<1>2. Init => NoneAllowed /\ \A c \in Caller : pc[c] # "rollback"
  BY DEF Init, NoneAllowed
<1>. QED  BY <1>1, <1>2 DEF DownInv, Init

LEMMA StepDown ==
  ASSUME TypeOK, DownInv, NEW c \in Caller,
         Begin(c) \/ Proceed(c) \/ Stored(c) \/ NotStored(c)
  PROVE  DownInv'
<1>. USE DownAssumption
     DEF TypeOK, State, Step, Left, Goto, Finish, history, DownInv, NeverAnswered,
         InPeace, NoneAllowed, Alone, AtStep, Tally, Settled, Failing, Quiet, Undisturbed
<1>2. CASE Begin(c)
  <2>1. /\ NeverAnswered' \/ answered'
        /\ \A x \in Caller : pc'[x] = "rollback" => refused'
        /\ AllowedFails = 0 => NoneAllowed'
    BY <1>2 DEF Begin
  <2>2. CASE raced'
    BY <2>1, <2>2
  <2>3. CASE ~raced'
    <3>1. ~raced /\ Quiet /\ pc' = [pc EXCEPT ![c] = "check"]
      BY <1>2, <2>3 DEF Begin
    <3>2. InPeace' /\ ~Quiet'
      BY <1>2, <3>1 DEF Begin
    <3>3. AllowedFails > 0 /\ answered => Settled'
      BY <1>2, <3>1 DEF Begin
    <3>4. AllowedFails > 0 /\ answered' => \A x \in Caller : AtStep(x)'
      BY <1>2, <3>1, <3>3 DEF Begin
    <3>. QED  BY <2>1, <3>2, <3>4
  <2>. QED  BY <2>2, <2>3
<1>3. CASE Check(c)      BY <1>3 DEF Check, Failed, RejectsDown
<1>4. CASE Unanswered(c) BY <1>4 DEF Unanswered, Failed
<1>5. CASE Answered(c)   BY <1>5 DEF Answered
<1>6. CASE Read(c)       BY <1>6 DEF Read
<1>7. CASE Store(c)      BY <1>7 DEF Store
<1>8. CASE Reread(c)     BY <1>8 DEF Reread
<1>9. CASE Lookup(c)     BY <1>9 DEF Lookup
<1>10. CASE Compare(c)   BY <1>10 DEF Compare
<1>11. CASE Refill(c)    BY <1>11 DEF Refill
<1>12. CASE Snapshot(c)  BY <1>12 DEF Snapshot
<1>13. CASE Write(c)     BY <1>13 DEF Write
<1>14. CASE Rollback(c)  BY <1>14 DEF Rollback
<1>15. CASE Stored(c)    BY <1>15 DEF Stored
<1>16. CASE NotStored(c) BY <1>16 DEF NotStored
<1>. QED
  BY <1>2, <1>3, <1>4, <1>5, <1>6, <1>7, <1>8, <1>9, <1>10, <1>11, <1>12, <1>13,
     <1>14, <1>15, <1>16 DEF Proceed

LEMMA DownInvariant == Spec => []DownInv
<1>1. TypeOK /\ DownInv /\ [Next]_vars => DownInv'
  <2>. SUFFICES ASSUME TypeOK, DownInv, [Next]_vars PROVE DownInv'
    OBVIOUS
  <2>1. CASE UNCHANGED vars \/ PumpLook \/ PumpAsk
    <3>1. UNCHANGED <<count, opState, pc, seen, local, goal, history>>
      BY <2>1 DEF vars, history, PumpLook, PumpAsk
    <3>. QED
      BY <3>1 DEF history, DownInv, NeverAnswered, NoneAllowed, InPeace, Alone, AtStep,
                  Tally, Settled, Failing, Quiet, Left, Undisturbed
  <2>2. CASE \E state \in State : MarkedByOthers(state)
    BY <2>2 DEF MarkedByOthers, DownInv, NeverAnswered, NoneAllowed, InPeace, Alone, AtStep,
                Tally, Settled, Failing, Quiet, Left, Undisturbed
  <2>. QED  BY <2>1, <2>2, StepDown DEF Next
<1>. QED  BY InitDown, <1>1, DownTypeCorrect, PTL DEF Spec

\* A Device that has answered, and then fails AllowedFails commands in a row, is DOWN,
\* for any number of threads and any AllowedFails, unless commands raced, somebody
\* else wrote the operating state or Core Metadata refused one.
THEOREM ExhaustedDeviceIsDown == Spec => []ExhaustedIsDown
<1>1. TypeOK /\ DownInv => ExhaustedIsDown
  BY DownAssumption DEF TypeOK, State, DownInv, Settled, ExhaustedIsDown
<1>. QED  BY <1>1, DownInvariant, DownTypeCorrect, PTL

\* No command marks a Device DOWN before AllowedFails commands in a row have failed,
\* whatever Core Metadata refused and whoever else wrote the operating state in the past.
THEOREM DownIsAlwaysEarned == Spec => DownIsEarned
<1> DEFINE Earned == ~raced /\ pc' # pc /\ opState = "UP" /\ opState' = "DOWN" =>
                       fails = AllowedFails \/ \E c \in Caller : pc[c] = "rollback"
<1>1. TypeOK /\ DownInv /\ [Next]_vars => Earned
  <2>. SUFFICES ASSUME TypeOK, DownInv, [Next]_vars,
                       ~raced, pc' # pc, opState = "UP", opState' = "DOWN"
                PROVE  fails = AllowedFails \/ \E c \in Caller : pc[c] = "rollback"
    OBVIOUS
  <2>1. PICK c \in Caller : Write(c) \/ Rollback(c)
    BY DEF Next, vars, MarkedByOthers, Proceed, PumpLook, PumpAsk, Begin, Check, Unanswered, Failed, Answered,
           Read, Store, Reread, Lookup, Compare, Refill, Snapshot, Stored, NotStored
  <2>2. CASE Write(c)
    <3>1. pc[c] = "write" /\ goal[c] = "DOWN"
      BY <2>2 DEF Write
    <3>2. answered /\ AllowedFails > 0
      BY <3>1, DownAssumption DEF DownInv, NeverAnswered, NoneAllowed
    <3>. QED  BY <3>1, <3>2 DEF DownInv, AtStep
  <2>3. CASE Rollback(c)
    BY <2>3 DEF Rollback
  <2>. QED  BY <2>1, <2>2, <2>3
<1>. QED  BY <1>1, DownInvariant, DownTypeCorrect, PTL DEF Spec, DownIsEarned

\* A command that ends in success leaves the Device UP, for any AllowedFails, 0 included,
\* unless commands raced, Core Metadata refused a mark, or somebody else marked the Device.
THEOREM SuccessAlwaysRestoresUp == Spec => SuccessRestoresUp
<1> DEFINE Restored == \A c \in Caller :
             /\ Undisturbed /\ ~raced
             /\ pc[c] # "idle" /\ pc'[c] = "idle" /\ reply'[c] = "ok"
             => opState' = "UP"
<1>1. TypeOK /\ DownInv /\ [Next]_vars => Restored
  <2>. SUFFICES ASSUME TypeOK, DownInv, [Next]_vars, NEW c \in Caller,
                       Undisturbed, ~raced,
                       pc[c] # "idle", pc'[c] = "idle", reply'[c] = "ok"
                PROVE  opState' = "UP"
    OBVIOUS
  <2>1. Compare(c) \/ Refill(c) \/ Stored(c)
    <3>1. PICK x \in Caller : Begin(x) \/ Proceed(x) \/ Stored(x) \/ NotStored(x)
      BY DEF Next, vars, PumpLook, PumpAsk, MarkedByOthers
    <3>2. x = c
      BY <3>1 DEF TypeOK, Goto, Finish, Proceed, Begin, Check, Unanswered, Failed, Answered,
             Read, Store, Reread, Lookup, Compare, Refill, Snapshot, Write, Rollback,
             Stored, NotStored
    <3>. QED
      BY <3>1, <3>2 DEF TypeOK, Goto, Finish, Proceed, Begin, Check, Unanswered, Failed, Answered,
             Read, Store, Reread, Lookup, Snapshot, Write, Rollback, NotStored
  <2>2. answered
    BY <2>1 DEF DownInv, NeverAnswered, Compare, Refill, Stored
  <2>3. CASE AllowedFails = 0
    BY <2>1, <2>3 DEF DownInv, NoneAllowed, Undisturbed, Compare, Refill, Stored
  <2>4. CASE AllowedFails # 0
    <3>1. AtStep(c)
      BY <2>2, <2>4, DownAssumption DEF DownInv
    <3>2. CASE Compare(c)
      BY <2>4, <3>1, <3>2, DownAssumption DEF TypeOK, Compare, Goto, Finish, AtStep, Undisturbed
    <3>3. CASE Refill(c)
      BY <2>4, <3>1, <3>3 DEF TypeOK, Refill, Goto, Finish, AtStep, Undisturbed, State
    <3>4. CASE Stored(c)
      BY <2>4, <3>1, <3>4 DEF TypeOK, Stored, Goto, Finish, AtStep, Undisturbed, State
    <3>. QED  BY <2>1, <3>2, <3>3, <3>4
  <2>. QED  BY <2>3, <2>4
<1>. QED  BY <1>1, DownInvariant, DownTypeCorrect, PTL DEF Spec, SuccessRestoresUp
=============================================================================
