------------------------------ MODULE ToolHooks ------------------------------
(***************************************************************************)
(* How each tool's hook treats a submission and its answer                 *)
(* (features/*/hooks).  A hook is a record:                                *)
(*   drops    what the user does that makes the hook drop the answer to an *)
(*            earlier question: "question", "malformed" input, or "reset"; *)
(*            a hook without "reset" has a page that offers none           *)
(*   tagged   the state is hidden when it belongs to another network       *)
(*   parses   input can be malformed, which is told before any request     *)
(*   answers  "later", after an await, or "at once"                        *)
(*   locked   the form is disabled while an answer is awaited              *)
(*   turns    the pages of a history can be turned: a new request for the  *)
(*            account last submitted ("account") or for the one shown      *)
(*            ("shown"), or along the trail of past requests ("trail")     *)
(*   filters  what is shown can be filtered                                *)
(*   repeats  the last question can be asked again                         *)
(*   retries  a request may wait and be made again before it is answered   *)
(*   mounts   asks a question of its own when the page opens               *)
(*   fixed    asks the test network, whatever network is selected          *)
(* Hooks whose code differs in names only are equal here.                  *)
(***************************************************************************)
(* The previous request is aborted before the input is parsed. *)
useTomlValidator ==
  [drops |-> {"question", "malformed", "reset"}, tagged |-> FALSE, parses |-> TRUE, answers |-> {"later"},
   locked |-> TRUE, turns |-> "no", repeats |-> FALSE, filters |-> FALSE, retries |-> FALSE,
   mounts |-> FALSE, fixed |-> FALSE]
useAnchorDiscovery == useTomlValidator
useClaimablePredicateBuilder == useTomlValidator
useLiquidityPoolCalculator == useTomlValidator
useOrderbookViewer == useTomlValidator
usePathPaymentInspector == useTomlValidator
useSep10Inspector == useTomlValidator
useSep7SignatureVerifier == useTomlValidator
useSignatureVerifier == useTomlValidator
useSimulationExplainer == useTomlValidator
useTradeAggregationViewer == useTomlValidator
useNetworkComparison == useTomlValidator

(* Submissions are counted before the input is parsed, with the same effect. *)
useStrkeyInspector == useTomlValidator
useHashCalculator == useStrkeyInspector
useLedgerRangePlanner == useStrkeyInspector
useMuxedAccountCodec == useStrkeyInspector
usePriceFractionLab == useStrkeyInspector
useTrustlineLimitPlanner == useStrkeyInspector

(* A file is read while the form still takes another one. *)
usePaymentCsvPreflight == [useTomlValidator EXCEPT !.answers = {"later", "at once"}, !.locked = FALSE]

(* The previous request is aborted, and the state belongs to a network. *)
useLedgerLookup == [useTomlValidator EXCEPT !.tagged = TRUE]
useHorizonHealth == useLedgerLookup
useMultisigAnalyzer == useLedgerLookup
useOfferInspector == useLedgerLookup
useSponsorshipPlanner == useLedgerLookup
useAccountMergePreflight == useLedgerLookup
useClaimableBalances == useLedgerLookup
usePreconditionsExplainer == useLedgerLookup
useSponsoredReserves == useLedgerLookup
useSequenceInspector == [useLedgerLookup EXCEPT !.repeats = TRUE]

(* The previous request is aborted and counted out; only well-formed input counts. *)
useAccountDataEntries == useLedgerLookup
useAssetStatistics == useLedgerLookup

(* The previous request is aborted once the input is parsed. *)
useAssetMetadata == [useTomlValidator EXCEPT !.drops = {"question", "reset"}]
useFederationResolver == useAssetMetadata
useTestnetFaucet == [useAssetMetadata EXCEPT !.retries = TRUE]

(* Requests are counted once the input is parsed, and the state belongs to a network. *)
useBalanceViewer == [useAssetMetadata EXCEPT !.tagged = TRUE]
useAccountSigners == useBalanceViewer
useAssetFlagsInspector == useBalanceViewer
useContractEvents == useBalanceViewer
useLiquidityPoolInspector == useBalanceViewer
useReserveCalculator == useBalanceViewer
useTransactionLookup == useBalanceViewer
useTrustlineChecker == useBalanceViewer
useFeeStats == [useBalanceViewer EXCEPT !.parses = FALSE]

(* Pages of a history. *)
usePaymentHistory == [useBalanceViewer EXCEPT !.turns = "account"]
useTradeHistory == [useTomlValidator EXCEPT !.turns = "shown"]
useEffectsTimeline == [useLedgerLookup EXCEPT !.turns = "trail"]
useActivityTimeline == useEffectsTimeline

(* Whatever is answered is shown: only the disabled form keeps answers in order. *)
usePathPaymentFinder == [useTomlValidator EXCEPT !.drops = {}, !.parses = FALSE]
usePaymentUriParser == usePathPaymentFinder
useSorobanAuthInspector == usePathPaymentFinder
useMemoInspector == [usePathPaymentFinder EXCEPT !.parses = TRUE]
usePaymentQr == useMemoInspector
useFreighter == [usePathPaymentFinder EXCEPT !.mounts = TRUE]
useSorobanFeeEstimator == [useMemoInspector EXCEPT !.fixed = TRUE]
useSorobanSpecViewer == [usePathPaymentFinder EXCEPT !.fixed = TRUE]

(* The answer is computed before the submission returns. *)
useAddressValidator == [useTomlValidator EXCEPT !.answers = {"at once"}]
useBatchAddressValidator == useAddressValidator
useFeeBumpInspector == useAddressValidator
useManageDataCodec == useAddressValidator
useResultCodeExplainer == useAddressValidator
useTransactionSizeAnalyzer == useAddressValidator
useXdrInspector == useAddressValidator
useSorobanDecoder == useAddressValidator
useTransactionDecoder == useAddressValidator
useAccountSnapshotDiff == [useAddressValidator EXCEPT !.filters = TRUE]
useOperationSourceMap == useAccountSnapshotDiff
useTransactionEnvelopeDiff == useAccountSnapshotDiff
useExplorerLinks == [useAddressValidator EXCEPT !.fixed = TRUE]

(* The hooks that ask the test network whatever is selected, and all the others. *)
TestNetworkHooks == {useSorobanFeeEstimator, useSorobanSpecViewer, useExplorerLinks}
SelectedNetworkHooks ==
  {useTomlValidator, useAnchorDiscovery, useClaimablePredicateBuilder, useLiquidityPoolCalculator,
   useOrderbookViewer, usePathPaymentInspector, useSep10Inspector, useSep7SignatureVerifier,
   useSignatureVerifier, useSimulationExplainer, useTradeAggregationViewer, useNetworkComparison,
   useStrkeyInspector, useHashCalculator, useLedgerRangePlanner, useMuxedAccountCodec, usePriceFractionLab,
   useTrustlineLimitPlanner, usePaymentCsvPreflight, useLedgerLookup, useHorizonHealth, useMultisigAnalyzer,
   useOfferInspector, useSponsorshipPlanner, useAccountMergePreflight, useClaimableBalances,
   usePreconditionsExplainer, useSponsoredReserves, useSequenceInspector, useAccountDataEntries,
   useAssetStatistics, useAssetMetadata, useFederationResolver, useTestnetFaucet, useBalanceViewer,
   useAccountSigners, useAssetFlagsInspector, useContractEvents, useLiquidityPoolInspector,
   useReserveCalculator, useTransactionLookup, useTrustlineChecker, useFeeStats, usePaymentHistory,
   useTradeHistory, useEffectsTimeline, useActivityTimeline, usePathPaymentFinder, usePaymentUriParser,
   useSorobanAuthInspector, useMemoInspector, usePaymentQr, useFreighter, useAddressValidator,
   useBatchAddressValidator, useFeeBumpInspector, useManageDataCodec, useResultCodeExplainer,
   useTransactionSizeAnalyzer, useXdrInspector, useSorobanDecoder, useTransactionDecoder,
   useAccountSnapshotDiff, useOperationSourceMap, useTransactionEnvelopeDiff}
=============================================================================
