-------------------------- MODULE BackgroundProofs --------------------------
(***************************************************************************)
(* What is proved of the processes behind the pages one by one holds where *)
(* they are put into one system: the system changes a process only by the  *)
(* process's own steps.                                                    *)
(***************************************************************************)
EXTENDS MCBackground, BillingProofs, RefreshProofs, SendingProofs, GenerationPublishProofs

backgroundVars ==
    <<part, readVars, paymentVars, checkoutVars, refreshVars, watchVars, queueVars, buildVars, generationVars>>

LEMMA ReadMoves ==
    ASSUME [SumNext]_backgroundVars
    PROVE  [Next]_readVars
BY DEF SumNext, backgroundVars

LEMMA ProcessorMoves ==
    ASSUME [SumNext]_backgroundVars
    PROVE  [LedgerNext]_paymentVars /\ [CheckoutNext]_checkoutVars
BY DEF SumNext, backgroundVars

(* The end of its requests is no step of the refresh.                      *)
LEMMA RefreshMoves ==
    ASSUME [SumNext]_backgroundVars
    PROVE  [RefreshNext]_refreshVars
BY DEF SumNext, backgroundVars, RefreshStops

LEMMA SendersMove ==
    ASSUME [SumNext]_backgroundVars
    PROVE  [WatchNext]_watchVars /\ [QueueNext]_queueVars
BY DEF SumNext, backgroundVars

(* Nor is the end of a build a step of it.                                 *)
LEMMA MapMoves ==
    ASSUME [SumNext]_backgroundVars
    PROVE  [BuildNext]_buildVars /\ [GenerationNext]_generationVars
BY DEF SumNext, backgroundVars, BuildStops

(* Each part behaves as its own specification says, so what is proved of   *)
(* the parts holds where they are checked together.                        *)
THEOREM EachPartBehaves ==
    SumSpec => /\ Spec /\ LedgerSpec /\ CheckoutSpec /\ RefreshSpec
               /\ WatchSpec /\ QueueSpec /\ BuildSpec /\ GenerationSpec
<1>1. SumInit => /\ Init /\ RefreshInit /\ LedgerInit /\ CheckoutInit
                 /\ WatchInit /\ QueueInit /\ GenerationInit /\ BuildInit
  BY DEF SumInit
<1>2. [SumNext]_backgroundVars =>
        /\ [Next]_readVars /\ [LedgerNext]_paymentVars /\ [CheckoutNext]_checkoutVars
        /\ [RefreshNext]_refreshVars /\ [WatchNext]_watchVars /\ [QueueNext]_queueVars
        /\ [BuildNext]_buildVars /\ [GenerationNext]_generationVars
  BY ReadMoves, ProcessorMoves, RefreshMoves, SendersMove, MapMoves
<1> QED
  BY <1>1, <1>2, PTL DEF SumSpec, backgroundVars, Spec, LedgerSpec, CheckoutSpec, RefreshSpec,
     WatchSpec, QueueSpec, BuildSpec, GenerationSpec

(* Every table, request, lock and call of every part holds what its type   *)
(* says.                                                                   *)
THEOREM AllIsTyped == SumSpec => []TypesOK
BY EachPartBehaves, ReadIsTyped, RefreshIsTyped, QueueIsTyped, GenerationIsTyped, LedgerStaysFaithful,
   PagesStaySpaced, BuildIsTyped, WatchIsTyped, PTL DEF TypesOK
=============================================================================
