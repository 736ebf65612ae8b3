-------------------------------- MODULE MCReuse --------------------------------
(***************************************************************************)
(* PIReuse with two other products on the machine: one in service, and one  *)
(* whose usage is off already.                                              *)
(***************************************************************************)
EXTENDS PIReuse, MCLifecycle

TwoOthers == {Provided("active", "paid", "commercial"),
              Provided("disconnection", "paymentFinal", "priceFinal")}
NoOthers  == {}
=============================================================================
