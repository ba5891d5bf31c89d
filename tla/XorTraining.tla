----------------------------- MODULE XorTraining -----------------------------
(***************************************************************************)
(* Training a network on exclusive or (neuralNetwork): map_xor.c checks    *)
(* its arguments, makes the patterns, calls train (nn.c), and writes the   *)
(* errors sampled on the way to rmses.csv.                                 *)
(*                                                                         *)
(* Numbers of type double are kept as what they were computed from: an     *)
(* error as its epoch and pattern, an rmse as the errors added to it.  The *)
(* weights and the nodes are left out: whether an rmse is less than the    *)
(* tolerance is free.                                                      *)
(***************************************************************************)
EXTENDS Integers, Sequences, FiniteSets

CONSTANTS
  Every,        \* 10: epochs from one sample to the next
  MaxInputs,    \* 4
  Args          \* the arguments that may be given

ASSUME EveryAssumption == Every \in Nat \ {0} /\ MaxInputs \in 1..4
ASSUME ArgsAssumption ==
  Args \subseteq [epochs : Int, inputs : Int, valid : BOOLEAN]

VARIABLES
  args,          \* the command line; valid if all but epochs and inputs is in range
  phase,         \* "args", "train", "epoch", "csv", "predict", "done", "exit"
  xor,           \* the patterns
  i, j,          \* epoch, and patterns shown in it
  rmse,          \* the errors in it
  rmse_it,       \* the next sample
  rmsearr,       \* the samples, <<>> if never assigned
  converge,      \* 0, or the epoch reported
  converged,
  below,         \* history: epochs whose rmse was less than the tolerance
  csv            \* the columns of rmses.csv

vars == <<args, phase, xor, i, j, rmse, rmse_it, rmsearr, converge, converged,
          below, csv>>

-----------------------------------------------------------------------------
(* The patterns.                                                           *)

NumPatterns == 2^args.inputs

\* Mistake: the frequency is not halved from input to input.
BinfreqKept(input) == 2^args.inputs \div 2

\* How many patterns input 1, 2, ... keeps its value for.
Binfreq(input) == 2^args.inputs \div 2^input

\* round, when pattern p (from 0) is filled in.
Round(p, input) == Cardinality({q \in 0..p : q % Binfreq(input) = 0})

Inputs(p) == [input \in 1..args.inputs |-> Round(p, input) % 2]

\* result ^ input, from the first to the last.
Output(in) ==
  LET f[k \in 1..args.inputs] == IF k = 1 THEN in[1] ELSE (f[k - 1] + in[k]) % 2
  IN  f[args.inputs]

Patterns == [p \in 0..(NumPatterns - 1) |-> [inputs |-> Inputs(p), output |-> Output(Inputs(p))]]

NumRmses == args.epochs \div Every + 1

-----------------------------------------------------------------------------
Init ==
  /\ args \in Args /\ phase = "args" /\ xor = <<>> /\ i = 0 /\ j = 0
  /\ rmse = <<>> /\ rmse_it = 0 /\ rmsearr = <<>>
  /\ converge = 0 /\ converged = FALSE /\ below = {} /\ csv = <<>>

ArgsGood == args.valid /\ args.epochs >= Every /\ args.inputs \in 1..MaxInputs

BadArgs ==
  /\ phase = "args" /\ ~ArgsGood
  /\ phase' = "exit"
  /\ UNCHANGED <<args, xor, i, j, rmse, rmse_it, rmsearr, converge, converged,
                 below, csv>>

\* The patterns are made and train is called.
Prepare ==
  /\ phase = "args" /\ ArgsGood
  /\ phase' = "train" /\ xor' = Patterns
  /\ rmsearr' = [k \in 0..(NumRmses - 1) |-> <<>>] /\ i' = 1
  /\ UNCHANGED <<args, j, rmse, rmse_it, converge, converged, below, csv>>

\* Mistake: rmse goes on from epoch to epoch.
EpochBeginsAdding ==
  /\ phase = "train" /\ i <= args.epochs
  /\ phase' = "epoch" /\ j' = 0
  /\ UNCHANGED <<args, xor, i, rmse, rmse_it, rmsearr, converge, converged, below, csv>>

EpochBegins ==
  /\ phase = "train" /\ i <= args.epochs
  /\ phase' = "epoch" /\ rmse' = <<>> /\ j' = 0
  /\ UNCHANGED <<args, xor, i, rmse_it, rmsearr, converge, converged, below, csv>>

\* One pattern: its output, its error, and rmse.
Present ==
  /\ phase = "epoch" /\ j < NumPatterns
  /\ rmse' = Append(rmse, <<i, j>>) /\ j' = j + 1
  /\ UNCHANGED <<args, phase, xor, i, rmse_it, rmsearr, converge, converged, below, csv>>

\* Mistake: the last epoch below the tolerance is reported, not the first.
ReportLast(low) ==
  /\ converge' = IF low THEN i ELSE converge
  /\ converged' = (converged \/ low)

Report(low) ==
  /\ converge' = IF low /\ ~converged THEN i ELSE converge
  /\ converged' = (converged \/ low)

\* Mistake: every epoch is sampled.
SampleAlways == rmsearr' = [rmsearr EXCEPT ![rmse_it] = rmse] /\ rmse_it' = rmse_it + 1

Sample ==
  IF i % Every = 0
  THEN rmsearr' = [rmsearr EXCEPT ![rmse_it] = rmse] /\ rmse_it' = rmse_it + 1
  ELSE UNCHANGED <<rmsearr, rmse_it>>

EpochEnds ==
  /\ phase = "epoch" /\ j = NumPatterns
  /\ \E low \in BOOLEAN :
       /\ Report(low)
       /\ below' = IF low THEN below \cup {i} ELSE below
  /\ Sample
  /\ phase' = "train" /\ i' = i + 1
  /\ UNCHANGED <<args, xor, j, rmse, csv>>

\* train returns.
Trained ==
  /\ phase = "train" /\ i > args.epochs
  /\ phase' = "csv"
  /\ UNCHANGED <<args, xor, i, j, rmse, rmse_it, rmsearr, converge, converged,
                 below, csv>>

WriteCsv ==
  /\ phase = "csv"
  /\ csv' = [k \in 1..NumRmses |-> [label |-> (k - 1) * Every, value |-> rmsearr[k - 1]]]
  /\ phase' = "predict" /\ j' = 0
  /\ UNCHANGED <<args, xor, i, rmse, rmse_it, rmsearr, converge, converged, below>>

\* rmses.csv cannot be opened.
CsvFails ==
  /\ phase = "csv"
  /\ phase' = "exit"
  /\ UNCHANGED <<args, xor, i, j, rmse, rmse_it, rmsearr, converge, converged,
                 below, csv>>

\* Every pattern once more, and no weight is changed.
Predict ==
  /\ phase = "predict" /\ j' = j + 1
  /\ phase' = IF j' = NumPatterns THEN "done" ELSE "predict"
  /\ UNCHANGED <<args, xor, i, rmse, rmse_it, rmsearr, converge, converged, below, csv>>

Ended == phase \in {"done", "exit"} /\ UNCHANGED vars

Next ==
  \/ BadArgs \/ Prepare \/ EpochBegins \/ Present \/ EpochEnds \/ Trained
  \/ WriteCsv \/ CsvFails \/ Predict \/ Ended

Spec == Init /\ [][Next]_vars

-----------------------------------------------------------------------------
\* The errors of one epoch, each pattern's once and in order.
EpochErrors(epoch) == [k \in 1..NumPatterns |-> <<epoch, k - 1>>]

Done == IF i = 0 THEN 0 ELSE i - 1    \* epochs that are over

\* The variables have their types; no sample is written past the end of rmsearr.
TypeOK ==
  /\ args \in Args
  /\ phase \in {"args", "train", "epoch", "csv", "predict", "done", "exit"}
  /\ i \in Nat /\ j \in Nat /\ converge \in Nat /\ converged \in BOOLEAN
  /\ rmse \in Seq(Nat \X Nat) /\ below \subseteq 1..Done
  /\ rmsearr # <<>> => DOMAIN rmsearr = 0..(NumRmses - 1) /\ rmse_it \in DOMAIN rmsearr

\* The patterns are every combination of inputs, each once, with their parity.
PatternsComplete ==
  phase \notin {"args", "exit"} =>
    /\ {xor[p].inputs : p \in DOMAIN xor} = [1..args.inputs -> {0, 1}]
    /\ Cardinality(DOMAIN xor) = 2^args.inputs
    /\ \A p \in DOMAIN xor :
         xor[p].output = Cardinality({k \in 1..args.inputs : xor[p].inputs[k] = 1}) % 2

\* Sample k is the rmse of epoch Every * (k + 1), of all its patterns and of no
\* other epoch's, and there is one for every such epoch that is over.
SampledEveryTenth ==
  /\ rmse_it = Done \div Every
  /\ \A k \in 0..(rmse_it - 1) : rmsearr[k] = EpochErrors(Every * (k + 1))

\* The epoch reported is the first whose rmse is less than the tolerance.
ReportsFirst ==
  IF below = {} THEN converge = 0
  ELSE converge \in below /\ \A e \in below : converge <= e

\* What the labels of rmses.csv promise: under 10, 20, ... is the rmse of that
\* epoch.  The code writes the first sample, epoch 10's, under 0.
CsvLabelled ==
  \A k \in DOMAIN csv : csv[k].label > 0 => csv[k].value = EpochErrors(csv[k].label)
=============================================================================
