------------------------------ MODULE MCLoops -------------------------------
(***************************************************************************)
(* Both round loops for TLC.  train_with_backend leaves for                *)
(* train_multiclass_rounds when the objective has several outputs, so a    *)
(* behaviour is one of BoostLoop or one of MulticlassLoop; the variables   *)
(* of the other loop stay as they are.                                     *)
(***************************************************************************)
EXTENDS BoostLoop, MulticlassLoop

VARIABLE outputs      \* of the objective: "one" or "many"

ASSUME MulticlassParams

Some(S) == CHOOSE x \in S : TRUE

LoopsInit ==
  /\ \/ outputs = "one" /\ backend = "cpu" /\ m_kept = Some(Kepts)
     \/ outputs = "many" /\ config = Some(Configs) /\ kept = Some(KeptChoices)
  /\ Init /\ MultiInit

SingleOutput == outputs = "one" /\ Next /\ UNCHANGED << outputs, m_vars >>
Multiclass == outputs = "many" /\ MultiNext /\ UNCHANGED << outputs, vars >>

LoopsSpec ==
  /\ LoopsInit
  /\ [][SingleOutput \/ Multiclass]_<< outputs, vars, m_vars >>
  \* BoostLoop!FairSpec, and the same of MulticlassLoop
  /\ WF_vars(outputs = "one" /\ Step) /\ WF_m_vars(outputs = "many" /\ MultiNext)

\* Both loops return, with a model or with an error.
LoopsEnd == (outputs = "one" => Termination) /\ (outputs = "many" => <>ended)

----------------------------------------------------------------------------
\* Instances

Cpu == [backend |-> "cpu", math |-> "exact", dq_param |-> "unset", dq_env |-> "on"]

\* Every combination of backend, math mode and quantization request.
MCConfigs ==
  {Cpu} \cup [backend : {"gpu"}, math : {"exact", "fast"},
              dq_param : {"unset", "on", "off"}, dq_env : {"on", "off"}]

\* Two rows; row 2 is drawn or not in each of the first three rounds.
MCRow == {1, 2}
MCKept == {k \in [1..5 -> {{1}, MCRow}] : \A i \in {1, 5} : k[i] = MCRow}

\* A recorder between two early stoppings of different patience.
MCCallbacks == << [kind |-> "early", rounds |-> 2], [kind |-> "record"],
                  [kind |-> "early", rounds |-> 3] >>

\* Every class draws differently in the first round; later rounds draw at will.
MCKepts == {k \in [1..2 -> [0..2 -> {{1}, {2}, MCRow}]] :
              k[1][0] = {1} /\ k[1][1] = {2} /\ k[1][2] = MCRow}
=============================================================================
