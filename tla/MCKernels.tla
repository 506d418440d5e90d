------------------------------ MODULE MCKernels -----------------------------
(***************************************************************************)
(* What feeds and builds the histograms of a GPU, for TLC: the gradients   *)
(* and their fixed-point pairs (GradientQuantizer), the launches of a span *)
(* (HistLaunch) and the threads of one launch (HistKernel).  Each is       *)
(* sequential or meets the others only at the end of a kernel, so a        *)
(* behaviour moves one of them.                                            *)
(***************************************************************************)
EXTENDS HistKernel, GradientQuantizer, TLC

VARIABLES
  scenario

----------------------------------------------------------------------------
\* HistLaunch, with its constants in the .cfg: every span of an arena of nine rows;
\* features that fill a tile exactly, share one, or are too wide for any.

FeatureBins == {<<2, 1, 3>>, <<2, 1, 1>>, <<2>>, <<1, 3>>, << >>, <<2, 4, 1>>, <<1, 2, 4>>}

----------------------------------------------------------------------------
\* HistKernel: one block whose threads have two rows each and work through two
\* tiles, with the sampled columns in another order or with a mask that drops the
\* first tile; and a batch of nodes, some of them empty, of several blocks.

Span(offset, len) == [offset |-> offset, len |-> len]
MissingBin == 255

\* Two, three or four rows, so that a thread may be one row short.
BlockSpans == {<<Span(0, 3)>>, <<Span(0, 4)>>, <<Span(1, 2)>>}
BlockRowIdx == 0 :> 2 @@ 1 :> 1 @@ 2 :> 4 @@ 3 :> 3
\* For the swapped columns: the first resident column has one bin.
SwappedBins == {<<<<0, MissingBin, 0, 0>>, <<0, 0, 1, 0>>, <<0, 0, 0, MissingBin>>>>,
                <<<<0, 0, 0, 0>>, <<0, 1, 1, MissingBin>>, <<0, 0, 0, 0>>>>}
MaskedBins == {<<<<0, 0, 1, 0>>, <<0, MissingBin, 0, 0>>, <<0, 0, 0, MissingBin>>>>,
               <<<<0, 1, 0, MissingBin>>, <<0, 0, 0, 0>>, <<MissingBin, 0, 0, 0>>>>}

SwappedColumns ==
  {[nBins |-> <<2, 1, 1>>, selected |-> 1..3, physical |-> <<2, 1, 3>>, rowIdx |-> BlockRowIdx,
    spans |-> s, grads |-> g, bins |-> x] :
      s \in BlockSpans, g \in {<<1, 3, 3, 1>>, <<3, 3, 1, 3>>, <<1, 1, 1, 3>>}, x \in SwappedBins}

MaskedColumns ==
  {[nBins |-> <<2, 1, 1>>, selected |-> {3}, physical |-> <<1, 2, 3>>, rowIdx |-> BlockRowIdx,
    spans |-> s, grads |-> g, bins |-> x] :
      s \in BlockSpans, g \in {<<1, 3, 3, 1>>, <<3, 3, 3, 3>>, <<3, 1, 1, 3>>}, x \in MaskedBins}

\* Up to five rows of an arena of six, up to three blocks and nodes.
Batches ==
  {[nBins |-> <<2>>, selected |-> {1}, physical |-> <<1>>, rowIdx |-> [i \in 0..5 |-> 6 - i],
    spans |-> s, grads |-> <<3, 1, 3, 2, 3, 1>>, bins |-> <<<<0, 1, 1, 0, MissingBin, 1>>>>] :
      s \in {<<Span(0, 3), Span(3, 0), Span(3, 2)>>, <<Span(0, 5)>>, <<Span(2, 0), Span(0, 0)>>,
             <<Span(0, 1), Span(4, 1), Span(2, 2)>>}}

KernelCalls == SwappedColumns \cup MaskedColumns \cup Batches

----------------------------------------------------------------------------
\* GradientQuantizer, with its constants in the .cfg: a small first round, whose
\* leftovers the second must not see.  Three times 21 is rounded over the budget; 48
\* is far from the other magnitudes, so that small ones are rounded.

P(g, h) == [grad |-> g, hess |-> h]

KernelInputs == << {P(3, 1), P(-21, 6)},
                   {P(1, 2), P(-6, 0), P(48, 3), P(NonFinite, 1), P(1, NonFinite)} >>

----------------------------------------------------------------------------
Some(S) == CHOOSE x \in S : TRUE

kernel_only == << call, lo, hi, place, tasks, carry, hists >>
launch_only == << span, path, feature, part, added, launches, result >>

\* A call of no node, for the behaviours in which no kernel runs.
NoCall == [nBins |-> << >>, spans |-> << >>, selected |-> {}, rowIdx |-> << >>]

KernelsInit ==
  /\ scenario \in {"launch", "kernel", "quantize"}
  /\ LaunchInit
  /\ scenario # "launch" => span = Span(0, 0) /\ path = "Tiles"
  /\ scenario = "quantize" => nBins = << >>
  /\ IF scenario = "kernel" THEN KernelInit
     ELSE /\ call = NoCall /\ lo = << >> /\ hi = << >> /\ place = << >>
          /\ tasks = << >> /\ carry = << >> /\ hists = << >>
  /\ QuantizerInit
  /\ scenario # "quantize" => mode = "host"

LaunchKernels ==
  /\ scenario = "launch" /\ LaunchNext
  /\ UNCHANGED << scenario, kernel_only, quantizer_vars >>

RunThreads ==
  /\ scenario = "kernel" /\ KernelNext
  /\ UNCHANGED << scenario, launch_only, quantizer_vars >>

QuantizeRounds ==
  /\ scenario = "quantize" /\ QuantizerNext
  /\ UNCHANGED << scenario, launch_vars, kernel_only >>

\* The launches are over or refused, or every thread has left the kernel.
Ended ==
  CASE scenario = "launch" -> result # "running"
    [] scenario = "kernel" -> KernelEnded
    [] OTHER -> FALSE

vars == << scenario, launch_vars, kernel_only, quantizer_vars >>

Next == LaunchKernels \/ RunThreads \/ QuantizeRounds \/ (Ended /\ UNCHANGED vars)

KernelsSpec == KernelsInit /\ [][Next]_vars

=============================================================================
