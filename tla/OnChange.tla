------------------------------ MODULE OnChange ------------------------------
(***************************************************************************)
(* What an AutoEvent that reports changes tells its subscribers: the       *)
(* executor compares what it has read with what it kept of earlier         *)
(* readings, numbers up to a threshold and binary values by a checksum,    *)
(* and sends all readings, or those that changed                           *)
(* (internal/autoevent/executor.py, _execute_once and _compare_readings).  *)
(* The threads, their start and their stop are in AutoEvents.              *)
(***************************************************************************)
EXTENDS Integers, FiniteSets

CONSTANTS
  Numeric, Binary,  \* the resources of the source, by type
  Number, Blob,     \* their values
  NotANumber,       \* the float that is no number
  Fingerprint,      \* the checksum of each Blob
  Threshold,        \* on_change_threshold
  Unsent            \* never sent

Compared == Numeric \union Binary

ASSUME ChangeAssumption ==
  /\ Number \subseteq Int /\ NotANumber \notin Number
  /\ Fingerprint \in [Blob -> Int]
  /\ Threshold \in Nat
  /\ Unsent \notin Number \union Blob \union {NotANumber}

VARIABLES
  mode,   \* "always" sends every reading; "all" and "changed" wait for a change
  last,   \* _last_readings: of each resource in it the value, or the checksum
  now,    \* the last answer of the driver, empty if there was none
  view    \* history: what subscribers were sent last of each resource

changeVars == <<mode, last, now, view>>

ValueOf(r) == IF r \in Binary THEN Blob ELSE Number \union {NotANumber}

Readings == UNION {[rs -> UNION {ValueOf(r) : r \in rs}] : rs \in SUBSET Compared}

Reading == {m \in Readings : \A r \in DOMAIN m : m[r] \in ValueOf(r)}

Kept(r, v) == IF r \in Binary THEN Fingerprint[v] ELSE v

ChangeTypeOK ==
  /\ mode \in {"always", "all", "changed"}
  /\ DOMAIN last \subseteq Compared
  /\ \A r \in DOMAIN last : \E v \in ValueOf(r) : last[r] = Kept(r, v)
  /\ now \in Reading
  /\ \A r \in Compared : view[r] \in ValueOf(r) \union {Unsent}

ChangeInit ==
  /\ mode \in {"always", "all", "changed"}
  /\ last = <<>> /\ now = <<>>
  /\ view = [r \in Compared |-> Unsent]

Apart(v, w, margin) == v - w > margin \/ w - v > margin

\* Nothing is farther from NotANumber than the threshold.
Differs(r, kept, v) ==
  IF r \in Binary THEN kept # Fingerprint[v]
  ELSE NotANumber \notin {kept, v} /\ Apart(kept, v, Threshold)

\* Other resources than last time: all count as changed, and all are kept.
Unknown(reading) ==
  Cardinality(DOMAIN last) # Cardinality(DOMAIN reading) \/ ~ DOMAIN reading \subseteq DOMAIN last

Changed(reading) ==
  IF Unknown(reading) THEN DOMAIN reading
  ELSE {r \in DOMAIN reading : Differs(r, last[r], reading[r])}

\* Mutant: every reading is kept, whether it counts as a change or not.
RenewedAlways(reading) == [r \in DOMAIN reading |-> Kept(r, reading[r])]

\* The others stay as they are, so that a slow drift is noticed in the end.
Renewed(reading) ==
  [r \in DOMAIN reading |-> IF r \in Changed(reading) THEN Kept(r, reading[r]) ELSE last[r]]

Sent(reading) ==
  IF mode = "always" \/ (mode = "all" /\ Changed(reading) # {}) THEN DOMAIN reading
  ELSE IF mode = "changed" THEN Changed(reading) ELSE {}

\* The driver answers for all resources, or for some of them.
Execute(reading) ==
  /\ DOMAIN reading # {}
  /\ now' = reading
  /\ last' = IF mode = "always" THEN last ELSE Renewed(reading)
  /\ view' = [r \in Compared |-> IF r \in Sent(reading) THEN reading[r] ELSE view[r]]
  /\ UNCHANGED mode

\* The driver fails or has nothing to say.
Skip == now' = <<>> /\ UNCHANGED <<mode, last, view>>

\* A restart puts a new executor in the place of this one.
Restart == last' = <<>> /\ now' = <<>> /\ UNCHANGED <<mode, view>>

ChangeNext == (\E reading \in Reading : Execute(reading)) \/ Skip \/ Restart

ChangeSpec == ChangeInit /\ [][ChangeNext]_changeVars

-----------------------------------------------------------------------------
(* Properties. *)

\* How far a subscriber may be from what is read: only changed readings are sent, and the
\* threshold holds; a reading that is sent in the company of one that changed is not kept,
\* and the next may be a threshold away from the kept one on the other side.
Margin == CASE mode = "always" -> 0 [] mode = "changed" -> Threshold [] mode = "all" -> 2 * Threshold

\* Whoever has followed the events knows every value just read up to the threshold, however
\* slowly it drifts and whichever resources the driver answered for.  NotANumber is no change from
\* anything: it is not noticed, and a resource whose kept value it is never changes again.
\* Binary values with the same checksum are the same.
PictureIsCurrent ==
  \A r \in DOMAIN now :
    /\ view[r] # Unsent
    /\ IF r \in Binary THEN Fingerprint[view[r]] = Fingerprint[now[r]]
       ELSE \/ NotANumber \in {view[r], now[r]}
            \/ r \in DOMAIN last /\ last[r] = NotANumber
            \/ ~ Apart(view[r], now[r], Margin)
=============================================================================
