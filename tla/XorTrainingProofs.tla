------------------------- MODULE XorTrainingProofs -------------------------
(***************************************************************************)
(* Theorems about training (map_xor.c, nn.c), for every number of epochs,  *)
(* distance between samples, and outcome of the tests for convergence: no  *)
(* sample is written past the end of its array, samples are of the epochs  *)
(* they should be of, and the epoch reported is the first below the        *)
(* tolerance.                                                              *)
(*                                                                         *)
(* The invariant ties the samples to the epochs that are over, and rmse in *)
(* an epoch to the patterns shown so far.  The patterns are taken apart    *)
(* from it, at the end: an input is the complement of a bit of the number  *)
(* of the pattern, because every b-th number from 0 on is met one time     *)
(* more than b goes into the last.                                         *)
(***************************************************************************)
EXTENDS XorTraining, FunctionTheorems, FiniteSetTheorems, TLAPS

\* train has been called.
Called == rmsearr # <<>>

\* Nothing happens before it is.
NothingYet ==
  ~Called => i = 0 /\ j = 0 /\ rmse_it = 0

\* Where in its run the program is.
Stages ==
  /\ phase = "args" => ~Called
  /\ phase \in {"train", "epoch", "csv", "predict", "done"} => Called
  /\ Called => ArgsGood /\ i \in 1..(args.epochs + 1)
  /\ phase = "epoch" => i <= args.epochs
  /\ phase \in {"csv", "predict", "done"} => i = args.epochs + 1

\* The errors added to rmse are those of the patterns shown in this epoch.
ErrorsSoFar ==
  phase = "epoch" => j <= NumPatterns /\ rmse = [k \in 1..j |-> <<i, k - 1>>]

ConvergedOnce == converged <=> below # {}

IInv ==
  /\ TypeOK /\ NothingYet /\ Stages /\ ErrorsSoFar
  /\ SampledEveryTenth /\ ConvergedOnce /\ ReportsFirst

-----------------------------------------------------------------------------
\* Arithmetic of the samples.

LEMMA Multiple ==
  ASSUME NEW n \in Nat, n % Every = 0 PROVE Every * (n \div Every) = n
BY EveryAssumption

LEMMA NextSample ==
  ASSUME NEW n \in Nat \ {0}
  PROVE  n \div Every = IF n % Every = 0 THEN (n - 1) \div Every + 1 ELSE (n - 1) \div Every
<1>1. n - 1 \in Nat /\ Every \in Nat \ {0}
  BY EveryAssumption
<1>2. \A m \in Nat, d \in Nat \ {0} : (m + 1) % d = 0 => (m + 1) \div d = m \div d + 1
  OBVIOUS
<1>3. \A m \in Nat, d \in Nat \ {0} : (m + 1) % d # 0 => (m + 1) \div d = m \div d
  OBVIOUS
<1>4. (n - 1) + 1 = n
  OBVIOUS
<1> QED
  BY <1>1, <1>2, <1>3, <1>4

LEMMA SamplesGrow ==
  ASSUME NEW m \in Nat, NEW n \in Nat, m <= n PROVE m \div Every <= n \div Every
BY EveryAssumption

LEMMA SampleCount ==
  ASSUME NEW n \in Nat PROVE n \div Every \in Nat
BY EveryAssumption

LEMMA NotEmpty == ASSUME NEW f, 0 \in DOMAIN f PROVE f # <<>>
OBVIOUS

LEMMA PatternCount == ASSUME ArgsGood PROVE NumPatterns \in Nat
<1>1. args.inputs \in 1..4
  BY EveryAssumption DEF ArgsGood
<1>2. args.inputs = 1 \/ args.inputs = 2 \/ args.inputs = 3 \/ args.inputs = 4
  BY <1>1
<1>3. 2^1 \in Nat /\ 2^2 \in Nat /\ 2^3 \in Nat /\ 2^4 \in Nat
  OBVIOUS
<1> QED
  BY <1>2, <1>3 DEF NumPatterns

LEMMA EpochsAreMany ==
  ASSUME TypeOK, ArgsGood
  PROVE  args.epochs \in Nat /\ args.epochs >= 1 /\ NumRmses \in Nat \ {0}
<1>1. args.epochs \in Int /\ args.epochs >= Every
  BY ArgsAssumption DEF TypeOK, ArgsGood
<1>2. args.epochs \in Nat /\ args.epochs >= 1
  BY <1>1, EveryAssumption
<1>3. args.epochs \div Every \in Nat
  BY <1>2, SampleCount
<1> QED
  BY <1>2, <1>3 DEF NumRmses

-----------------------------------------------------------------------------
\* One lemma per kind of step.

LEMMA IInvInit == Init => IInv
<1> SUFFICES ASSUME Init PROVE IInv
  OBVIOUS
<1>1. ~Called /\ phase = "args" /\ below = {} /\ Done = 0
  BY DEF Init, Called, Done
<1>2. 0 \div Every = 0
  BY EveryAssumption
<1>3. TypeOK
  <2>1. rmse \in Seq(Nat \X Nat)
    BY DEF Init
  <2> QED
    BY <1>1, <2>1 DEF Init, TypeOK
<1>4. SampledEveryTenth
  BY <1>1, <1>2 DEF Init, SampledEveryTenth
<1> QED
  BY <1>1, <1>3, <1>4
     DEF Init, IInv, NothingYet, Stages, ErrorsSoFar, ConvergedOnce, ReportsFirst

\* Steps that leave all but the phase and the count of predictions alone.
LEMMA Unmoved ==
  ASSUME IInv,
         UNCHANGED <<args, i, rmse_it, rmsearr, converge, converged, below>>,
         rmse' = rmse, j' \in Nat,
         phase' \in {"csv", "predict", "done", "exit"}, phase # "epoch", ~Called => j' = j,
         phase' # "exit" => Called /\ i = args.epochs + 1
  PROVE  IInv'
<1>1. TypeOK'
  BY DEF IInv, TypeOK, Done, NumRmses
<1>2. SampledEveryTenth'
  BY DEF IInv, SampledEveryTenth, Done, EpochErrors, NumPatterns
<1>3. (Called' <=> Called) /\ (NumRmses' = NumRmses) /\ (ArgsGood' <=> ArgsGood)
  BY DEF Called, NumRmses, ArgsGood
<1>4. NothingYet' /\ Stages' /\ ErrorsSoFar'
  BY <1>3 DEF IInv, NothingYet, Stages, ErrorsSoFar
<1>5. ConvergedOnce' /\ ReportsFirst'
  BY <1>3 DEF IInv, ConvergedOnce, ReportsFirst
<1> QED
  BY <1>1, <1>2, <1>4, <1>5 DEF IInv

LEMMA StepOver ==
  ASSUME IInv, BadArgs \/ Trained \/ WriteCsv \/ CsvFails \/ Predict PROVE IInv'
<1>1. CASE BadArgs
  BY <1>1, Unmoved DEF BadArgs, IInv, TypeOK
<1>2. CASE Trained
  <2>1. Called /\ i = args.epochs + 1
    <3>1. Called /\ ArgsGood /\ i \in 1..(args.epochs + 1) /\ i > args.epochs
      BY <1>2 DEF Trained, IInv, Stages
    <3>2. args.epochs \in Nat
      BY <3>1, EpochsAreMany DEF IInv
    <3> QED
      BY <3>1, <3>2
  <2> QED
    BY <1>2, <2>1, Unmoved DEF Trained, IInv, TypeOK
<1>3. CASE CsvFails
  BY <1>3, Unmoved DEF CsvFails, IInv, TypeOK
<1>4. CASE Predict
  <2>1. Called /\ i = args.epochs + 1
    BY <1>4 DEF Predict, IInv, Stages
  <2>2. j' \in Nat /\ phase' \in {"predict", "done"} /\ phase = "predict"
    BY <1>4 DEF Predict, IInv, TypeOK
  <2> QED
    BY <1>4, <2>1, <2>2, Unmoved DEF Predict
<1>5. CASE WriteCsv
  <2>1. Called /\ i = args.epochs + 1
    BY <1>5 DEF WriteCsv, IInv, Stages
  <2> QED
    BY <1>5, <2>1, Unmoved DEF WriteCsv
<1> QED
  BY <1>1, <1>2, <1>3, <1>4, <1>5

LEMMA StepPrepare == ASSUME IInv, Prepare PROVE IInv'
<1>1. ~Called /\ ArgsGood /\ phase = "args" /\ i = 0 /\ j = 0 /\ rmse_it = 0
  BY DEF Prepare, IInv, Stages, NothingYet
<1>2. args.epochs \in Nat /\ args.epochs >= 1 /\ NumRmses \in Nat \ {0}
  BY <1>1, EpochsAreMany DEF IInv
<1>3. /\ rmsearr' = [k \in 0..(NumRmses - 1) |-> <<>>] /\ i' = 1 /\ phase' = "train"
      /\ UNCHANGED <<args, j, rmse, rmse_it, converge, converged, below>>
  BY DEF Prepare
<1>4. DOMAIN rmsearr' = 0..(NumRmses - 1) /\ 0 \in DOMAIN rmsearr'
  BY <1>2, <1>3
<1>5. Called'
  BY <1>4, NotEmpty DEF Called
<1>6. (Done = 0) /\ (Done' = 0) /\ (NumRmses' = NumRmses) /\ (ArgsGood' <=> ArgsGood)
      /\ (NumPatterns' = NumPatterns)
  BY <1>1, <1>3 DEF Done, NumRmses, ArgsGood, NumPatterns
<1>7. TypeOK'
  BY <1>1, <1>2, <1>3, <1>4, <1>6 DEF IInv, TypeOK
<1>8. SampledEveryTenth'
  <2>1. 0 \div Every = 0
    BY EveryAssumption
  <2> QED
    BY <1>1, <1>3, <1>6, <2>1 DEF SampledEveryTenth
<1>9. NothingYet' /\ Stages' /\ ErrorsSoFar'
  BY <1>1, <1>2, <1>3, <1>5, <1>6 DEF NothingYet, Stages, ErrorsSoFar
<1>10. ConvergedOnce' /\ ReportsFirst'
  BY <1>1, <1>3 DEF IInv, ConvergedOnce, ReportsFirst
<1> QED
  BY <1>7, <1>8, <1>9, <1>10 DEF IInv

LEMMA StepBegins == ASSUME IInv, EpochBegins PROVE IInv'
<1>1. Called /\ i <= args.epochs /\ phase = "train"
  BY DEF EpochBegins, IInv, Stages
<1>2. /\ phase' = "epoch" /\ rmse' = <<>> /\ j' = 0
      /\ UNCHANGED <<args, i, rmse_it, rmsearr, converge, converged, below>>
  BY DEF EpochBegins
<1>3. (Called' <=> Called) /\ (NumRmses' = NumRmses) /\ (ArgsGood' <=> ArgsGood)
      /\ (Done' = Done) /\ (NumPatterns' = NumPatterns)
  BY <1>2 DEF Called, NumRmses, ArgsGood, Done, NumPatterns
<1>4. NumPatterns \in Nat
  BY <1>1, PatternCount DEF IInv, Stages
<1>5. TypeOK'
  BY <1>2, <1>3 DEF IInv, TypeOK
<1>6. SampledEveryTenth'
  BY <1>2, <1>3 DEF IInv, SampledEveryTenth, EpochErrors
<1>7. NothingYet' /\ Stages'
  BY <1>1, <1>2, <1>3 DEF IInv, NothingYet, Stages
<1>8. ErrorsSoFar'
  <2>1. [k \in 1..0 |-> <<i, k - 1>>] = <<>>
    OBVIOUS
  <2> QED
    BY <1>2, <1>3, <1>4, <2>1 DEF ErrorsSoFar
<1>9. ConvergedOnce' /\ ReportsFirst'
  BY <1>2, <1>3 DEF IInv, ConvergedOnce, ReportsFirst
<1> QED
  BY <1>5, <1>6, <1>7, <1>8, <1>9 DEF IInv

\* One more pattern: one more error.
LEMMA StepPresent == ASSUME IInv, Present PROVE IInv'
<1>1. /\ phase = "epoch" /\ Called /\ ArgsGood /\ j \in Nat /\ j < NumPatterns /\ i \in Nat
      /\ rmse = [k \in 1..j |-> <<i, k - 1>>] /\ rmse \in Seq(Nat \X Nat)
  BY DEF Present, IInv, Stages, ErrorsSoFar, TypeOK
<1>2. /\ rmse' = Append(rmse, <<i, j>>) /\ j' = j + 1
      /\ UNCHANGED <<args, phase, i, rmse_it, rmsearr, converge, converged, below>>
  BY DEF Present
<1>3. (Called' <=> Called) /\ (NumRmses' = NumRmses) /\ (ArgsGood' <=> ArgsGood)
      /\ (Done' = Done) /\ (NumPatterns' = NumPatterns)
  BY <1>2 DEF Called, NumRmses, ArgsGood, Done, NumPatterns
<1>4. NumPatterns \in Nat /\ Done \in Nat
  BY <1>1, PatternCount DEF Done
<1>5. TypeOK'
  <2>1. rmse' \in Seq(Nat \X Nat)
    BY <1>1, <1>2
  <2> QED
    BY <1>1, <1>2, <1>3, <2>1 DEF IInv, TypeOK
<1>6. SampledEveryTenth'
  BY <1>2, <1>3 DEF IInv, SampledEveryTenth, EpochErrors
<1>7. NothingYet' /\ Stages'
  BY <1>1, <1>2, <1>3 DEF IInv, NothingYet, Stages
<1>8. ErrorsSoFar'
  <2>1. Append(rmse, <<i, j>>) = [k \in 1..(j + 1) |-> <<i, k - 1>>]
    BY <1>1
  <2> QED
    BY <1>1, <1>2, <1>3, <1>4, <2>1 DEF ErrorsSoFar
<1>9. ConvergedOnce' /\ ReportsFirst'
  BY <1>2, <1>3 DEF IInv, ConvergedOnce, ReportsFirst
<1> QED
  BY <1>5, <1>6, <1>7, <1>8, <1>9 DEF IInv

\* What an epoch that ends leaves in the samples: its errors are all patterns',
\* and the next sample is the one for this epoch.
LEMMA SampleTaken ==
  ASSUME IInv, EpochEnds
  PROVE  /\ rmse_it' = i \div Every
         /\ DOMAIN rmsearr' = 0..(NumRmses - 1) /\ rmse_it' \in DOMAIN rmsearr'
         /\ \A k \in 0..(rmse_it' - 1) : rmsearr'[k] = EpochErrors(Every * (k + 1))
<1>1. /\ phase = "epoch" /\ j = NumPatterns /\ Called /\ ArgsGood /\ i \in Nat \ {0}
      /\ i <= args.epochs /\ rmse = [k \in 1..j |-> <<i, k - 1>>]
      /\ DOMAIN rmsearr = 0..(NumRmses - 1) /\ rmse_it \in 0..(NumRmses - 1) /\ Done = i - 1
  BY DEF EpochEnds, IInv, Stages, ErrorsSoFar, TypeOK, Called, Done
<1>2. args.epochs \in Nat /\ NumRmses \in Nat \ {0} /\ NumRmses = args.epochs \div Every + 1
  BY <1>1, EpochsAreMany DEF IInv, NumRmses
<1>3. /\ rmse_it = (i - 1) \div Every
      /\ \A k \in 0..(rmse_it - 1) : rmsearr[k] = EpochErrors(Every * (k + 1))
  BY <1>1 DEF IInv, SampledEveryTenth
<1>4. rmse = EpochErrors(i)
  BY <1>1 DEF EpochErrors
<1>5. i \div Every <= NumRmses - 1 /\ i \div Every \in Nat /\ args.epochs \div Every \in Nat
  <2>1. i \div Every <= args.epochs \div Every
    BY <1>1, <1>2, SamplesGrow
  <2>2. i \div Every \in Nat /\ args.epochs \div Every \in Nat
    BY <1>1, <1>2, SampleCount
  <2> QED
    BY <1>2, <2>1, <2>2
<1>6. CASE i % Every = 0
  <2>1. rmsearr' = [rmsearr EXCEPT ![rmse_it] = rmse] /\ rmse_it' = rmse_it + 1
    BY <1>6 DEF EpochEnds, Sample
  <2>2. i \div Every = rmse_it + 1 /\ Every * (rmse_it + 1) = i
    BY <1>1, <1>3, <1>6, NextSample, Multiple
  <2>3. /\ DOMAIN rmsearr' = 0..(NumRmses - 1)
        /\ rmsearr'[rmse_it] = rmse
        /\ \A k \in 0..(NumRmses - 1) : k # rmse_it => rmsearr'[k] = rmsearr[k]
    BY <1>1, <2>1
  <2>4. rmse_it \in Nat /\ rmse_it < NumRmses - 1
    BY <1>1, <1>2, <1>5, <2>2
  <2>5. \A k \in 0..(rmse_it' - 1) : k = rmse_it \/ k \in 0..(rmse_it - 1)
    BY <2>1, <2>4
  <2>6. \A k \in 0..(rmse_it - 1) : rmsearr'[k] = rmsearr[k]
    BY <1>2, <2>3, <2>4
  <2>7. rmsearr'[rmse_it] = EpochErrors(Every * (rmse_it + 1))
    BY <1>4, <2>2, <2>3
  <2>8. \A k \in 0..(rmse_it' - 1) : rmsearr'[k] = EpochErrors(Every * (k + 1))
    BY <1>3, <2>5, <2>6, <2>7
  <2>9. rmse_it' = i \div Every /\ rmse_it' \in 0..(NumRmses - 1)
    BY <1>2, <2>1, <2>2, <2>4
  <2> QED
    BY <2>3, <2>8, <2>9
<1>7. CASE i % Every # 0
  <2>1. UNCHANGED <<rmsearr, rmse_it>>
    BY <1>7 DEF EpochEnds, Sample
  <2>2. i \div Every = rmse_it
    BY <1>1, <1>3, <1>7, NextSample
  <2> QED
    BY <1>1, <1>3, <2>1, <2>2
<1> QED
  BY <1>6, <1>7

LEMMA StepEnds == ASSUME IInv, EpochEnds PROVE IInv'
<1>1. /\ phase = "epoch" /\ j = NumPatterns /\ Called /\ ArgsGood /\ i \in Nat \ {0}
      /\ i <= args.epochs /\ Done = i - 1
  BY DEF EpochEnds, IInv, Stages, TypeOK, Done
<1>2. args.epochs \in Nat /\ NumPatterns \in Nat
  BY <1>1, EpochsAreMany, PatternCount DEF IInv
<1>3. PICK low \in BOOLEAN :
        /\ Report(low)
        /\ below' = IF low THEN below \cup {i} ELSE below
  BY DEF EpochEnds
<1>4. phase' = "train" /\ i' = i + 1 /\ UNCHANGED <<args, j, rmse>>
  BY DEF EpochEnds
<1>5. (NumRmses' = NumRmses) /\ (ArgsGood' <=> ArgsGood) /\ (NumPatterns' = NumPatterns)
      /\ Done' = i
  BY <1>1, <1>4 DEF NumRmses, ArgsGood, NumPatterns, Done
<1>6. /\ rmse_it' = i \div Every
      /\ DOMAIN rmsearr' = 0..(NumRmses - 1) /\ rmse_it' \in DOMAIN rmsearr'
      /\ \A k \in 0..(rmse_it' - 1) : rmsearr'[k] = EpochErrors(Every * (k + 1))
  BY SampleTaken
<1>7. Called'
  <2>1. NumRmses \in Nat \ {0}
    BY <1>1, EpochsAreMany DEF IInv
  <2> QED
    BY <1>6, <2>1, NotEmpty DEF Called
<1>8. TypeOK'
  <2>1. below' \subseteq 1..Done' /\ converge' \in Nat /\ converged' \in BOOLEAN
    BY <1>1, <1>3, <1>5 DEF IInv, TypeOK, Report
  <2> QED
    BY <1>1, <1>4, <1>5, <1>6, <2>1 DEF IInv, TypeOK
<1>9. SampledEveryTenth'
  <2>1. \A n : EpochErrors(n)' = EpochErrors(n)
    BY <1>5 DEF EpochErrors
  <2> QED
    BY <1>5, <1>6, <2>1 DEF SampledEveryTenth
<1>10. NothingYet' /\ Stages' /\ ErrorsSoFar'
  BY <1>1, <1>2, <1>4, <1>5, <1>7 DEF NothingYet, Stages, ErrorsSoFar
<1>11. ConvergedOnce' /\ ReportsFirst'
  <2>1. /\ converged <=> below # {}
        /\ below \subseteq 1..(i - 1) /\ i \in Nat /\ converge \in Nat
        /\ converged \in BOOLEAN
        /\ IF below = {} THEN converge = 0
           ELSE converge \in below /\ \A e \in below : converge <= e
    BY <1>1 DEF IInv, ConvergedOnce, ReportsFirst, TypeOK
  <2>2. CASE ~low
    BY <1>3, <2>1, <2>2 DEF Report, ConvergedOnce, ReportsFirst
  <2>3. CASE low /\ ~converged
    <3>1. below = {} /\ below' = {i} /\ converge' = i /\ converged'
      BY <1>3, <2>1, <2>3 DEF Report
    <3> QED
      BY <2>1, <3>1 DEF ConvergedOnce, ReportsFirst
  <2>4. CASE low /\ converged
    <3>1. /\ below # {} /\ below' = below \cup {i} /\ converge' = converge /\ converged'
      BY <1>3, <2>1, <2>4 DEF Report
    <3>2. converge <= i
      BY <2>1, <3>1
    <3> QED
      BY <2>1, <3>1, <3>2 DEF ConvergedOnce, ReportsFirst
  <2> QED
    BY <2>2, <2>3, <2>4
<1> QED
  BY <1>8, <1>9, <1>10, <1>11 DEF IInv

LEMMA IInvNext == IInv /\ [Next]_vars => IInv'
<1> SUFFICES ASSUME IInv, [Next]_vars PROVE IInv'
  OBVIOUS
<1>1. CASE Ended \/ UNCHANGED vars
  <2>1. /\ UNCHANGED <<args, phase, i, j, rmse, rmse_it, rmsearr>>
        /\ UNCHANGED <<converge, converged, below>>
    BY <1>1 DEF Ended, vars
  <2>2. (Called' <=> Called) /\ (NumRmses' = NumRmses) /\ (ArgsGood' <=> ArgsGood)
        /\ (Done' = Done) /\ (NumPatterns' = NumPatterns)
    BY <2>1 DEF Called, NumRmses, ArgsGood, Done, NumPatterns
  <2>3. TypeOK' /\ NothingYet' /\ Stages'
    BY <2>1, <2>2 DEF IInv, TypeOK, NothingYet, Stages
  <2>4. ErrorsSoFar' /\ SampledEveryTenth'
    BY <2>1, <2>2 DEF IInv, ErrorsSoFar, SampledEveryTenth, EpochErrors
  <2>5. ConvergedOnce' /\ ReportsFirst'
    BY <2>1, <2>2 DEF IInv, ConvergedOnce, ReportsFirst
  <2> QED
    BY <2>3, <2>4, <2>5 DEF IInv
<1> QED
  BY <1>1, StepOver, StepPrepare, StepBegins, StepPresent, StepEnds DEF Next

THEOREM Invariance == Spec => []IInv
<1> QED
  BY IInvInit, IInvNext, PTL DEF Spec

-----------------------------------------------------------------------------
\* rmse_it never runs past the numrmses samples map_xor.c allocates.
THEOREM TypeCorrect == Spec => []TypeOK
<1>1. IInv => TypeOK
  BY DEF IInv
<1> QED
  BY <1>1, Invariance, PTL

\* The samples train returns are those of epochs Every, 2 * Every, ..., each of
\* all patterns of its epoch, however many epochs there are.
THEOREM SamplesAreTenths == Spec => []SampledEveryTenth
<1>1. IInv => SampledEveryTenth
  BY DEF IInv
<1> QED
  BY <1>1, Invariance, PTL

\* converge is the first epoch whose rmse was below the tolerance, wherever the
\* rmse goes afterwards.
THEOREM FirstIsReported == Spec => []ReportsFirst
<1>1. IInv => ReportsFirst
  BY DEF IInv
<1> QED
  BY <1>1, Invariance, PTL

-----------------------------------------------------------------------------
(* The patterns, for the one to four inputs there may be.                  *)

\* One more number to count among.
LEMMA CountNext ==
  ASSUME NEW S, NEW a \in Int, NEW n \in Int, a <= n + 1
  PROVE  /\ Cardinality(S \cap a..n) \in Nat
         /\ Cardinality(S \cap a..(n + 1)) =
              Cardinality(S \cap a..n) + IF n + 1 \in S THEN 1 ELSE 0
<1>1. IsFiniteSet(S \cap a..n)
  <2>1. IsFiniteSet(a..n) /\ S \cap a..n \subseteq a..n
    BY FS_Interval
  <2>. QED  BY <2>1, FS_Subset
<1>2. n + 1 \notin S \cap a..n
  OBVIOUS
<1>3. Cardinality(S \cap a..n) \in Nat
  BY <1>1, FS_CardinalityType
<1>4. CASE n + 1 \in S
  <2>1. S \cap a..(n + 1) = (S \cap a..n) \cup {n + 1}
    BY <1>4
  <2>. QED  BY <1>1, <1>2, <1>3, <1>4, <2>1, FS_AddElement
<1>5. CASE n + 1 \notin S
  <2>1. S \cap a..(n + 1) = S \cap a..n
    BY <1>5
  <2>. QED  BY <1>3, <1>5, <2>1
<1>. QED  BY <1>3, <1>4, <1>5

\* Of the numbers 0..p, one in b is a multiple of b, the first of them 0.
LEMMA RoundAt ==
  ASSUME NEW b \in {1, 2, 4, 8}, NEW p \in Nat
  PROVE  Cardinality({q \in 0..p : q % b = 0}) = p \div b + 1
<1>. DEFINE f == [k \in 0..(p \div b) |-> k * b]
            T == {q \in 0..p : q % b = 0}
<1>1. p \div b \in Nat
  OBVIOUS
<1>2. f \in Bijection(0..(p \div b), T)
  <2>1. \A k \in 0..(p \div b) : k * b \in 0..p /\ (k * b) % b = 0
    BY b = 1 \/ b = 2 \/ b = 4 \/ b = 8
  <2>2. \A k, m \in 0..(p \div b) : k * b = m * b => k = m
    BY b = 1 \/ b = 2 \/ b = 4 \/ b = 8
  <2>3. \A q \in 0..p : q % b = 0 => q \div b \in 0..(p \div b) /\ (q \div b) * b = q
    BY b = 1 \/ b = 2 \/ b = 4 \/ b = 8
  <2>4. f \in [0..(p \div b) -> T]
    BY <2>1
  <2>5. \A k, m \in 0..(p \div b) : f[k] = f[m] => k = m
    BY <2>2
  <2>6. \A t \in T : \E k \in 0..(p \div b) : f[k] = t
    BY <2>3
  <2>. QED  BY <2>4, <2>5, <2>6, Fun_IsBij
<1>3. IsFiniteSet(0..(p \div b)) /\ Cardinality(0..(p \div b)) = p \div b + 1
  BY <1>1, FS_Interval
<1>. HIDE DEF f, T
<1>4. Cardinality(T) = Cardinality(0..(p \div b))
  BY <1>2, <1>3, FS_Bijection DEF ExistsBijection
<1>. QED  BY <1>3, <1>4 DEF T

LEMMA Powers ==
  ASSUME NEW n \in 1..4
  PROVE  2^n = IF n = 1 THEN 2 ELSE IF n = 2 THEN 4 ELSE IF n = 3 THEN 8 ELSE 16
<1>1. CASE n = 1  BY <1>1
<1>2. CASE n = 2  BY <1>2
<1>3. CASE n = 3  BY <1>3
<1>4. CASE n = 4  BY <1>4
<1>. QED  BY <1>1, <1>2, <1>3, <1>4

\* What input 1, ... of pattern p is: the complement of a bit of p.
LEMMA InputAt ==
  ASSUME args.inputs \in 1..4, NEW input \in 1..args.inputs, NEW p \in 0..(NumPatterns - 1)
  PROVE  /\ p \in Nat
         /\ Binfreq(input) = IF args.inputs = input THEN 1
                             ELSE IF args.inputs = input + 1 THEN 2
                             ELSE IF args.inputs = input + 2 THEN 4 ELSE 8
         /\ Inputs(p)[input] = (p \div Binfreq(input) + 1) % 2
<1>1. NumPatterns \in Nat
  BY Powers DEF NumPatterns
<1>2. Binfreq(input) = IF args.inputs = input THEN 1
                       ELSE IF args.inputs = input + 1 THEN 2
                       ELSE IF args.inputs = input + 2 THEN 4 ELSE 8
  <2>. DEFINE n == args.inputs
              a == 2^n
              c == 2^input
  <2>1. n \in 1..4 /\ input \in 1..n /\ input \in 1..4
    OBVIOUS
  <2>2. /\ a = IF n = 1 THEN 2 ELSE IF n = 2 THEN 4 ELSE IF n = 3 THEN 8 ELSE 16
        /\ c = IF input = 1 THEN 2 ELSE IF input = 2 THEN 4 ELSE IF input = 3 THEN 8 ELSE 16
    BY <2>1, Powers
  <2>3. Binfreq(input) = a \div c
    BY DEF Binfreq
  <2>. HIDE DEF n, a, c
  <2>4. a \div c = IF n = input THEN 1
                   ELSE IF n = input + 1 THEN 2
                   ELSE IF n = input + 2 THEN 4 ELSE 8
    <3>1. CASE input = 1  BY <2>1, <2>2, <3>1
    <3>2. CASE input = 2  BY <2>1, <2>2, <3>2
    <3>3. CASE input = 3  BY <2>1, <2>2, <3>3
    <3>4. CASE input = 4  BY <2>1, <2>2, <3>4
    <3>. QED  BY <2>1, <3>1, <3>2, <3>3, <3>4
  <2>. QED  BY <2>3, <2>4 DEF n
<1>3. Binfreq(input) \in {1, 2, 4, 8}
  BY <1>2
<1>4. p \in Nat
  BY <1>1
<1>5. Round(p, input) = p \div Binfreq(input) + 1
  BY <1>3, <1>4, RoundAt DEF Round
<1>. QED  BY <1>2, <1>4, <1>5 DEF Inputs

LEMMA InputsType ==
  ASSUME args.inputs \in 1..4, NEW p \in 0..(NumPatterns - 1)
  PROVE  Inputs(p) \in [1..args.inputs -> {0, 1}]
<1>1. ASSUME NEW input \in 1..args.inputs PROVE Inputs(p)[input] \in {0, 1}
  <2>1. Binfreq(input) \in {1, 2, 4, 8} /\ p \in Nat
    BY InputAt
  <2>2. p \div Binfreq(input) \in Nat
    BY <2>1
  <2>. QED  BY <2>2, InputAt
<1>. QED  BY <1>1 DEF Inputs

LEMMA Bits ==
  ASSUME NEW a \in {0, 1}, NEW b \in {0, 1}, NEW c \in {0, 1}, NEW d \in {0, 1},
         NEW m, m = 8 * a + 4 * b + 2 * c + d
  PROVE  /\ m \in 0..15 /\ (a = 0 => m < 8) /\ (a = 0 /\ b = 0 => m < 4)
         /\ (a = 0 /\ b = 0 /\ c = 0 => m < 2)
         /\ (m \div 8 + 1) % 2 = 1 - a /\ (m \div 4 + 1) % 2 = 1 - b
         /\ (m \div 2 + 1) % 2 = 1 - c /\ (m \div 1 + 1) % 2 = 1 - d
OBVIOUS

\* Every combination of inputs is a pattern: the one whose number has the
\* complements of the inputs as its bits, the first input the highest.
LEMMA Combinations ==
  ASSUME args.inputs \in 1..4, NEW in \in [1..args.inputs -> {0, 1}]
  PROVE  \E p \in 0..(NumPatterns - 1) : Inputs(p) = in
<1>. DEFINE n == args.inputs
            c == [k \in -2..4 |-> IF k \in 1..n THEN 1 - in[k] ELSE 0]
            p == 8 * c[n - 3] + 4 * c[n - 2] + 2 * c[n - 1] + c[n]
<1>1. n \in 1..4
  OBVIOUS
<1>2. \A k \in -2..4 : c[k] \in {0, 1} /\ (k < 1 => c[k] = 0)
  OBVIOUS
<1>3. /\ c[n] \in {0, 1} /\ c[n - 1] \in {0, 1} /\ c[n - 2] \in {0, 1} /\ c[n - 3] \in {0, 1}
      /\ n = 1 => c[n - 1] = 0
      /\ n <= 2 => c[n - 2] = 0
      /\ n <= 3 => c[n - 3] = 0
  <2>1. n \in -2..4 /\ n - 1 \in -2..4 /\ n - 2 \in -2..4 /\ n - 3 \in -2..4
    BY <1>1
  <2>. HIDE DEF c, n
  <2>. QED  BY <1>1, <1>2, <2>1
<1>4. NumPatterns = IF n = 1 THEN 2 ELSE IF n = 2 THEN 4 ELSE IF n = 3 THEN 8 ELSE 16
  BY Powers DEF NumPatterns
<1>5. \A k \in 1..n : 1 - c[k] = in[k]
  OBVIOUS
<1>. HIDE DEF c, n
<1>6. /\ p \in 0..15 /\ (c[n - 3] = 0 => p < 8) /\ (c[n - 3] = 0 /\ c[n - 2] = 0 => p < 4)
      /\ (c[n - 3] = 0 /\ c[n - 2] = 0 /\ c[n - 1] = 0 => p < 2)
      /\ (p \div 8 + 1) % 2 = 1 - c[n - 3] /\ (p \div 4 + 1) % 2 = 1 - c[n - 2]
      /\ (p \div 2 + 1) % 2 = 1 - c[n - 1] /\ (p \div 1 + 1) % 2 = 1 - c[n]
  <2>. DEFINE x == c[n - 3]
              y == c[n - 2]
              z == c[n - 1]
              t == c[n]
  <2>1. x \in {0, 1} /\ y \in {0, 1} /\ z \in {0, 1} /\ t \in {0, 1}
    BY <1>3
  <2>2. p = 8 * x + 4 * y + 2 * z + t
    OBVIOUS
  <2>. HIDE DEF p, x, y, z, t
  <2>3. /\ p \in 0..15 /\ (x = 0 => p < 8) /\ (x = 0 /\ y = 0 => p < 4)
        /\ (x = 0 /\ y = 0 /\ z = 0 => p < 2)
        /\ (p \div 8 + 1) % 2 = 1 - x /\ (p \div 4 + 1) % 2 = 1 - y
        /\ (p \div 2 + 1) % 2 = 1 - z /\ (p \div 1 + 1) % 2 = 1 - t
    BY <2>1, <2>2, Bits
  <2>. QED  BY <2>3 DEF x, y, z, t
<1>. HIDE DEF p
<1>7. p \in 0..(NumPatterns - 1)
  BY <1>1, <1>3, <1>4, <1>6
<1>9. ASSUME NEW input \in 1..n PROVE Inputs(p)[input] = in[input]
  <2>1. /\ Binfreq(input) = IF n = input THEN 1
                            ELSE IF n = input + 1 THEN 2
                            ELSE IF n = input + 2 THEN 4 ELSE 8
        /\ Inputs(p)[input] = (p \div Binfreq(input) + 1) % 2
    BY <1>7, InputAt DEF n
  <2>2. Inputs(p)[input] = 1 - c[input]
    <3>1. CASE input = n  BY <1>6, <2>1, <3>1
    <3>2. CASE input = n - 1  BY <1>1, <1>6, <2>1, <3>2
    <3>3. CASE input = n - 2  BY <1>1, <1>6, <2>1, <3>3
    <3>4. CASE input = n - 3  BY <1>1, <1>6, <2>1, <3>4
    <3>. QED  BY <1>1, <3>1, <3>2, <3>3, <3>4
  <2>. QED  BY <1>5, <2>2
<1>10. Inputs(p) \in [1..n -> {0, 1}] /\ in \in [1..n -> {0, 1}]
  BY <1>7, InputsType DEF n
<1>11. Inputs(p) = in
  <2>1. /\ Inputs(p) = [k \in 1..n |-> Inputs(p)[k]]
        /\ in = [k \in 1..n |-> in[k]]
    BY <1>10
  <2>2. [k \in 1..n |-> Inputs(p)[k]] = [k \in 1..n |-> in[k]]
    BY <1>9
  <2>. QED  BY <2>1, <2>2
<1>. QED  BY <1>7, <1>11

\* The exclusive or of the inputs is the parity of those that are 1.
LEMMA OutputIsParity ==
  ASSUME args.inputs \in 1..4, NEW in \in [1..args.inputs -> {0, 1}]
  PROVE  Output(in) = Cardinality({k \in 1..args.inputs : in[k] = 1}) % 2
<1>. DEFINE n == args.inputs
            S == {k \in 1..n : in[k] = 1}
            C(k) == Cardinality(S \cap 1..k)
            g == [k \in 1..n |-> C(k) % 2]
            f[k \in 1..n] == IF k = 1 THEN in[1] ELSE (f[k - 1] + in[k]) % 2
<1>1. n \in 1..4
  OBVIOUS
<1>2. C(0) = 0
  <2>1. S \cap 1..0 = {}
    OBVIOUS
  <2>. QED  BY <2>1, FS_EmptySet
<1>3. ASSUME NEW k \in 0..(n - 1)
      PROVE  C(k) \in Nat /\ C(k + 1) = C(k) + in[k + 1]
  <2>1. C(k) \in Nat /\ C(k + 1) = C(k) + IF k + 1 \in S THEN 1 ELSE 0
    <3>1. k \in Int /\ 1 <= k + 1
      BY <1>1
    <3>. HIDE DEF S
    <3>. QED  BY <3>1, CountNext
  <2>2. k + 1 \in 1..n
    OBVIOUS
  <2>3. IF k + 1 \in S THEN in[k + 1] = 1 ELSE in[k + 1] = 0
    BY <2>2
  <2>. QED  BY <2>1, <2>3
<1>. HIDE DEF C
<1>4. ASSUME NEW k \in 1..n
      PROVE  g[k] = IF k = 1 THEN in[1] ELSE (g[k - 1] + in[k]) % 2
  <2>1. k - 1 \in 0..(n - 1) /\ (k - 1) + 1 = k /\ in[k] \in {0, 1}
    OBVIOUS
  <2>2. C(k - 1) \in Nat /\ C(k) = C(k - 1) + in[k]
    BY <1>3, <2>1
  <2>3. CASE k = 1
    BY <1>2, <2>1, <2>2, <2>3
  <2>4. CASE k # 1
    <3>1. k - 1 \in 1..n
      BY <2>4
    <3>2. g[k - 1] = C(k - 1) % 2 /\ g[k] = C(k) % 2
      BY <3>1
    <3>. QED  BY <2>1, <2>2, <2>4, <3>2
  <2>. QED  BY <2>3, <2>4
<1>5. g = [k \in 1..n |-> IF k = 1 THEN in[1] ELSE (g[k - 1] + in[k]) % 2]
  BY <1>4
<1>6. f = [k \in 1..n |-> IF k = 1 THEN in[1] ELSE (f[k - 1] + in[k]) % 2]
  <2>1. \E h : h = [k \in 1..n |-> IF k = 1 THEN in[1] ELSE (h[k - 1] + in[k]) % 2]
    BY <1>5
  <2>. QED  BY <2>1 DEF f
<1>. HIDE DEF f, g
<1>7. \A k \in 1..n : f[k] = g[k]
  <2>1. f[1] = in[1] /\ g[1] = in[1]
    BY <1>1, <1>5, <1>6
  <2>2. ASSUME NEW k \in 2..n, f[k - 1] = g[k - 1] PROVE f[k] = g[k]
    <3>1. k \in 1..n /\ k # 1
      BY <1>1
    <3>. QED  BY <1>5, <1>6, <2>2, <3>1
  <2>3. n >= 2 => f[2] = g[2]
    BY <1>1, <2>1, <2>2
  <2>4. n >= 3 => f[3] = g[3]
    BY <1>1, <2>2, <2>3
  <2>5. n >= 4 => f[4] = g[4]
    BY <1>1, <2>2, <2>4
  <2>. QED  BY <1>1, <2>1, <2>3, <2>4, <2>5
<1>8. f[n] = C(n) % 2
  <2>1. n \in 1..n
    BY <1>1
  <2>2. g[n] = C(n) % 2
    BY <2>1 DEF g
  <2>. QED  BY <1>7, <2>1, <2>2
<1>9. Output(in) = f[n]
  BY DEF Output, f
<1>10. S \cap 1..n = S
  OBVIOUS
<1>. QED  BY <1>8, <1>9, <1>10 DEF C

LEMMA PatternsAll ==
  ASSUME args.inputs \in 1..4
  PROVE  /\ {Patterns[p].inputs : p \in DOMAIN Patterns} = [1..args.inputs -> {0, 1}]
         /\ Cardinality(DOMAIN Patterns) = 2^args.inputs
         /\ \A p \in DOMAIN Patterns :
              Patterns[p].output
                = Cardinality({k \in 1..args.inputs : Patterns[p].inputs[k] = 1}) % 2
<1>1. DOMAIN Patterns = 0..(NumPatterns - 1)
  BY DEF Patterns
<1>2. \A p \in DOMAIN Patterns :
        Patterns[p].inputs = Inputs(p) /\ Patterns[p].output = Output(Inputs(p))
  BY <1>1 DEF Patterns
<1>3. {Patterns[p].inputs : p \in DOMAIN Patterns} = [1..args.inputs -> {0, 1}]
  BY <1>1, <1>2, InputsType, Combinations
<1>4. Cardinality(DOMAIN Patterns) = 2^args.inputs
  <2>1. NumPatterns \in {2, 4, 8, 16}
    <3>1. \A n \in 1..4 : 2^n \in {2, 4, 8, 16}
      BY Powers
    <3>. QED  BY <3>1 DEF NumPatterns
  <2>2. \A m \in Int : Cardinality(0..m) = IF 0 > m THEN 0 ELSE m - 0 + 1
    BY FS_Interval
  <2>3. Cardinality(0..(NumPatterns - 1)) = NumPatterns
    BY <2>1, <2>2
  <2>. QED  BY <1>1, <2>3 DEF NumPatterns
<1>5. ASSUME NEW p \in DOMAIN Patterns
      PROVE  Patterns[p].output
               = Cardinality({k \in 1..args.inputs : Patterns[p].inputs[k] = 1}) % 2
  <2>1. Inputs(p) \in [1..args.inputs -> {0, 1}]
    BY <1>1, InputsType
  <2>2. Output(Inputs(p)) = Cardinality({k \in 1..args.inputs : Inputs(p)[k] = 1}) % 2
    BY <2>1, OutputIsParity
  <2>. QED  BY <1>2, <2>2
<1>. QED  BY <1>3, <1>4, <1>5

\* The patterns the network is trained on and asked about are all combinations
\* of one to four inputs, each once, and each with its exclusive or.
THEOREM PatternsAreComplete == Spec => []PatternsComplete
<1>1. Init => PatternsComplete
  BY DEF Init, PatternsComplete
<1>2. PatternsComplete /\ [Next]_vars => PatternsComplete'
  <2>. SUFFICES ASSUME PatternsComplete, [Next]_vars PROVE PatternsComplete'
    OBVIOUS
  <2>1. CASE Prepare
    <3>1. xor' = Patterns /\ args' = args /\ ArgsGood
      BY <2>1 DEF Prepare
    <3>2. args.inputs \in 1..4
      BY <3>1, EveryAssumption DEF ArgsGood
    <3>. QED  BY <3>1, <3>2, PatternsAll DEF PatternsComplete
  <2>2. ASSUME UNCHANGED <<args, xor>>, phase' = phase \/ phase' = "exit" \/ phase # "args",
               phase' # "exit" => phase # "exit"
        PROVE  PatternsComplete'
    BY <2>2 DEF PatternsComplete
  <2>3. CASE BadArgs \/ EpochBegins \/ Present \/ EpochEnds \/ Trained
    BY <2>2, <2>3 DEF BadArgs, EpochBegins, Present, EpochEnds, Trained
  <2>4. CASE WriteCsv \/ CsvFails \/ Predict \/ Ended \/ UNCHANGED vars
    BY <2>2, <2>4 DEF WriteCsv, CsvFails, Predict, Ended, vars
  <2>. QED  BY <2>1, <2>3, <2>4 DEF Next
<1>. QED  BY <1>1, <1>2, PTL DEF Spec

=============================================================================
