------------------------- MODULE ProducerProperties -------------------------
(***************************************************************************)
(* The other properties of Producer that the runs check: liveness, and     *)
(* what comments of the code say.                                          *)
(***************************************************************************)
EXTENDS ProducerBuffer

-----------------------------------------------------------------------------
(* What comments of the code say, and the code does not do *)

\* An AppendContext call that meets a closed producer returns ErrShutdown
\* ("ErrShutdown indicates the buffer has been shut down", error.go); it never
\* panics in the send on appendCh.
NoPanic == \A m \in Msgs : apc[m] # "panicked"

-----------------------------------------------------------------------------
(* Liveness *)

\* Every accepted message has an outcome in the end, if the store answers.
AcceptedResolves ==
  StoreAnswers => \A m \in Msgs : apc[m] = "accepted" ~> Resolved(m)

\* If the store answers, AppendContext and Flush calls return although no
\* context fires: backpressure is lifted in the end.
CallsReturn ==
  StoreAnswers =>
    /\ \A m \in Msgs : apc[m] \in {"reserve", "blocked"} ~> Finished(m)
    /\ \A f \in FlushCalls : fpc[f] = "send" ~> fpc[f] \notin FlushWaits

\* If the store answers, Close returns, and the pipeline has drained.
CloseCompletes ==
  StoreAnswers => (clpc = "flush" ~> (clpc \in {"closed", "forced"} /\ AllDone))

\* When its context fires, Close returns although the store hangs, and all
\* goroutines of the pipeline exit.
ForcedCloseDrains == closeCtx ~> (clpc \in {"closed", "forced"} /\ AllDone)
=============================================================================
