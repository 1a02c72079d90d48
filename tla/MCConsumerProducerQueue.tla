---------------------- MODULE MCConsumerProducerQueue ----------------------
(***************************************************************************)
(* Instances of ConsumerProducerQueue for TLC, with model values for the   *)
(* threads and the requests.                                               *)
(***************************************************************************)
EXTENDS ConsumerProducerQueue

CONSTANTS p1, p2, c1, c2, r1, r2

TwoProducers == {p1, p2}
TwoConsumers == {c1, c2}
TwoRequests  == {r1, r2}
=============================================================================
