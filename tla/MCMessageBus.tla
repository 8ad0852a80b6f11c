---------------------------- MODULE MCMessageBus ----------------------------
(***************************************************************************)
(* A small instance of the services on the message bus for TLC: commands   *)
(* enough to fill both the workers and the queue, and one validation.      *)
(***************************************************************************)
EXTENDS DeviceValidation, TLC

CONSTANTS r1, r2, v1, commands, validations

Commands2 == {r1, r2}
Validations1 == {v1}
Requests  == Command \union Validation
Topics    == {commands, validations}
Rooms     == (commands :> Max) @@ (validations :> Unbounded)

Query(p, ret) == [push |-> p, return |-> ret]

Says(m, q, ok) == [method |-> m, query |-> q, valid |-> ok]

Plain   == Says("SET", Query("absent", "absent"), TRUE)
Full    == Says("GET", Query("true", "absent"), TRUE)
Silent  == Says("GET", Query("other", "false"), TRUE)
Invalid == Says("SET", Query("absent", "absent"), FALSE)
Strange == Says("PUT", Query("absent", "absent"), TRUE)

Scenarios ==
  { (r1 :> a) @@ (r2 :> b) :
      <<a, b>> \in {<<Full, Plain>>, <<Full, Silent>>, <<Invalid, Full>>,
                    <<Plain, Strange>>} }
=============================================================================
