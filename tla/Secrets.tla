------------------------------- MODULE Secrets -------------------------------
(***************************************************************************)
(* The pairs of one path of the secret store: POST /api/v3/secret          *)
(* (controller/http/secret.py) and the driver, over the two providers of   *)
(* clients/secret.py.  The one in memory tests without a lock whether the  *)
(* path is there, or empty, before it makes or removes it; the one for     *)
(* OpenBao writes the whole path with each request, and deletes a pair by  *)
(* reading all of them and writing the others back.                        *)
(***************************************************************************)
EXTENDS Naturals, Sequences, SequencesExt

CONSTANTS
  Key,          \* the keys of the path
  Driver,       \* the driver's threads
  Http          \* the event loop: one request at a time

Caller == Driver \union {Http}

VARIABLES
  provider,     \* "memory" or "openbao"
  there,        \* the path is in memory
  kept,         \* the keys the path holds
  doing,        \* where each caller is
  pairs,        \* what it has left to store, or is to delete
  copy,         \* what it has read
  answer,       \* how its last call ended
  stored,       \* history: keys last stored, by a call that did not fail there
  deleted,      \* history: keys last deleted, by a call that did not fail there
  overlapped    \* history: a path was written while another call was about to replace it

secretVars ==
  <<provider, there, kept, doing, pairs, copy, answer, stored, deleted, overlapped>>

SecretsTypeOK ==
  /\ provider \in {"memory", "openbao"} /\ there \in BOOLEAN /\ kept \subseteq Key
  /\ doing \in [Caller -> {"idle", "store", "make", "put", "drop", "tidy", "remove",
                            "post", "read", "write"}]
  /\ pairs \in [Caller -> Seq(Key)] /\ copy \in [Caller -> SUBSET Key]
  /\ answer \in [Caller -> {"none", "created", "deleted", "failed"}]
  /\ {stored, deleted} \subseteq SUBSET Key /\ overlapped \in BOOLEAN

\* create_secret_provider chooses once, by the mode, the token file and the address.
SecretsInit ==
  /\ provider \in {"memory", "openbao"} /\ there = FALSE /\ kept = {}
  /\ doing = [c \in Caller |-> "idle"]
  /\ pairs = [c \in Caller |-> <<>>] /\ copy = [c \in Caller |-> {}]
  /\ answer = [c \in Caller |-> "none"]
  /\ stored = {} /\ deleted = {} /\ overlapped = FALSE

Begin(c, step, keys) ==
  /\ doing[c] = "idle"
  /\ doing' = [doing EXCEPT ![c] = step]
  /\ pairs' = [pairs EXCEPT ![c] = keys]
  /\ answer' = [answer EXCEPT ![c] = "none"]
  /\ UNCHANGED <<provider, there, kept, copy, stored, deleted, overlapped>>

StoreStep == IF provider = "memory" THEN "store" ELSE "post"

\* A validated SecretRequest has one pair or more.
Post(keys)        == keys # <<>> /\ Begin(Http, StoreStep, keys)
StoreSecret(c, k)  == Begin(c, StoreStep, <<k>>)
DeleteSecret(c, k) == Begin(c, IF provider = "memory" THEN "drop" ELSE "read", <<k>>)

End(c, result) ==
  /\ doing' = [doing EXCEPT ![c] = "idle"]
  /\ pairs' = [pairs EXCEPT ![c] = <<>>]
  /\ answer' = [answer EXCEPT ![c] = result]

Goto(c, step) ==
  /\ doing' = [doing EXCEPT ![c] = step]
  /\ UNCHANGED <<pairs, answer>>

\* One pair is stored; the next of a POST is a call of its own.
NextPair(c) ==
  IF Len(pairs[c]) = 1
  THEN End(c, "created")
  ELSE /\ doing' = [doing EXCEPT ![c] = StoreStep]
       /\ pairs' = [pairs EXCEPT ![c] = Tail(@)]
       /\ UNCHANGED answer

\* A call that fails in OpenBao leaves its keys open.
Recall(in, out) ==
  /\ stored'  = (stored \ out) \union in
  /\ deleted' = deleted \ (in \union out)

\* Another call replaces the path next, by what it has seen before.
Overlap(c) ==
  overlapped' = (overlapped \/ \E b \in Caller \ {c} : doing[b] \in {"make", "remove", "write"})

\* Mutant: the map of the path in memory is made anew for every pair.
StoredAnew(k) == {k}

Stored(k) == IF provider = "memory" THEN kept \union {k} ELSE {k}

-----------------------------------------------------------------------------
(* In memory.  A path or a pair that has gone meanwhile is a KeyError.      *)

LookForPath(c) ==
  /\ doing[c] = "store"
  /\ Goto(c, IF there THEN "put" ELSE "make")
  /\ UNCHANGED <<provider, there, kept, copy, stored, deleted, overlapped>>

MakePath(c) ==
  /\ doing[c] = "make"
  /\ there' = TRUE /\ kept' = {}
  /\ Goto(c, "put")
  /\ UNCHANGED <<provider, copy, stored, deleted, overlapped>>

Put(c) ==
  /\ doing[c] = "put"
  /\ IF there
     THEN /\ kept' = Stored(Head(pairs[c]))
          /\ Recall({Head(pairs[c])}, {}) /\ Overlap(c)
          /\ NextPair(c)
     ELSE End(c, "failed") /\ UNCHANGED <<kept, stored, deleted, overlapped>>
  /\ UNCHANGED <<provider, there, copy>>

Drop(c) ==
  /\ doing[c] = "drop"
  /\ LET k == Head(pairs[c]) IN
       IF k \in kept
       THEN /\ kept' = kept \ {k}
            /\ stored' = stored \ {k} /\ deleted' = deleted \union {k}
            /\ Goto(c, "tidy")
       ELSE End(c, "failed") /\ UNCHANGED <<kept, stored, deleted>>
  /\ UNCHANGED <<provider, there, copy, overlapped>>

Tidy(c) ==
  /\ doing[c] = "tidy"
  /\ CASE ~ there               -> End(c, "failed")
       [] there /\ kept = {}    -> Goto(c, "remove")
       [] there /\ kept # {}    -> End(c, "deleted")
  /\ UNCHANGED <<provider, there, kept, copy, stored, deleted, overlapped>>

RemovePath(c) ==
  /\ doing[c] = "remove"
  /\ there' = FALSE /\ kept' = {}
  /\ End(c, IF there THEN "deleted" ELSE "failed")
  /\ UNCHANGED <<provider, copy, stored, deleted, overlapped>>

InMemory(c) ==
  LookForPath(c) \/ MakePath(c) \/ Put(c) \/ Drop(c) \/ Tidy(c) \/ RemovePath(c)

-----------------------------------------------------------------------------
(* In OpenBao.  A request that fails may have been carried out.             *)

PostPair(c) ==
  /\ doing[c] = "post"
  /\ LET k == Head(pairs[c]) IN
       \/ /\ kept' = Stored(k)
          /\ Recall({k}, {})
          /\ NextPair(c)
       \/ /\ kept' \in {kept, Stored(k)}
          /\ Recall({}, ToSet(pairs[c]))
          /\ End(c, "failed")
  /\ Overlap(c)
  /\ UNCHANGED <<provider, there, copy>>

\* A key that is not there is a KeyError.
ReadAll(c) ==
  /\ doing[c] = "read"
  /\ \/ /\ Head(pairs[c]) \in kept
        /\ copy' = [copy EXCEPT ![c] = kept]
        /\ Goto(c, "write")
     \/ End(c, "failed") /\ UNCHANGED copy
  /\ UNCHANGED <<provider, there, kept, stored, deleted, overlapped>>

WriteRest(c) ==
  /\ doing[c] = "write"
  /\ LET k == Head(pairs[c])
         rest == copy[c] \ {k} IN
       \/ /\ kept' = rest
          /\ stored' = stored \ {k} /\ deleted' = deleted \union {k}
          /\ End(c, "deleted")
       \/ /\ kept' \in {kept, rest}
          /\ Recall({}, {k})
          /\ End(c, "failed")
  /\ Overlap(c)
  /\ copy' = [copy EXCEPT ![c] = {}]
  /\ UNCHANGED <<provider, there>>

SecretsNext ==
  \/ \E keys \in {<<k>> : k \in Key} \union {ks \in Key \X Key : ks[1] # ks[2]} : Post(keys)
  \/ \E c \in Driver, k \in Key : StoreSecret(c, k) \/ DeleteSecret(c, k)
  \/ \E c \in Caller : InMemory(c) \/ PostPair(c) \/ ReadAll(c) \/ WriteRest(c)

-----------------------------------------------------------------------------
(* Properties. *)

\* In memory a pair that was stored is there until it is deleted, whoever else is at work
\* on the path, unless it was stored between another call's test of the path - it is not
\* there, it is empty - and what that call then does; a path that always holds one pair
\* loses none.  In OpenBao, where a store leaves no other pair, a deleted one is back only
\* when another call wrote between the two requests of a delete.
StoreIsExplained ==
  /\ provider = "memory" /\ ~ overlapped => stored \subseteq kept
  /\ deleted \intersect kept # {} => provider = "openbao" /\ overlapped
=============================================================================
