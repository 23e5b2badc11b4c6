------------------------------ MODULE MCServe ------------------------------
(***************************************************************************)
(* Instances of Serve for TLC: the requests that tell the handler's exits  *)
(* apart.                                                                  *)
(***************************************************************************)
EXTENDS Serve

Update_ == [allowed |-> TRUE, get |-> TRUE, password |-> "right", host |-> "ours"]
Guess   == [Update_ EXCEPT !.password = "wrong"]

\* One request for each way through the handler.
EveryKind ==
  { Update_, Guess,
    [Update_ EXCEPT !.allowed = FALSE], [Update_ EXCEPT !.get = FALSE],
    [Update_ EXCEPT !.password = "missing"],
    [Update_ EXCEPT !.host = ""], [Update_ EXCEPT !.host = "other"] }
=============================================================================
