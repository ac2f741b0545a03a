---------------------------- MODULE MCBookkeeping ----------------------------
(***************************************************************************)
(* Nine components for TLC that share no state: the daemon's registries,   *)
(* and the files of the notebooks and of the corpus.  One run takes each   *)
(* of them through all of its behaviours while the others rest: their sum, *)
(* not their product.                                                      *)
(***************************************************************************)
EXTENDS SessionCaps, NotebookMigrations, RerankFlight, LeanRepl,
        NotebookTables, Cutover, OaiDelta, ReEmbed, CorpusWriter

VARIABLE focus  \* the component that runs

MCLimit == [t \in Capped |-> 2]

\* Sessions, calls and searches are interchangeable, each kind for itself; only
\* one kind is ever at work, so the three may share names and permutations.
BookSymmetry == Permutations(Callers)

Init ==
    /\ CapInit /\ MigInit /\ FlightInit /\ LeanInit /\ TabInit
    /\ CutInit /\ DeltaInit /\ ReInit /\ WriterInit
    /\ focus \in {"caps", "migrations", "flight", "lean", "tables",
                  "cutover", "delta", "re-embed", "writer"}
    /\ focus # "migrations" => db.version = 0
    /\ focus # "lean" => repl = 0
    /\ focus # "cutover" => good = {} /\ version = [c \in Corpora |-> 1]

serverVars == <<capVars, migVars, flightVars, leanVars, tabVars>>
corpusVars == <<cutVars, deltaVars, reVars, writerVars>>

Next ==
    /\ UNCHANGED focus
    /\ \/ /\ UNCHANGED corpusVars
          /\ \/ focus = "caps" /\ CapNext
                /\ UNCHANGED <<migVars, flightVars, leanVars, tabVars>>
             \/ focus = "migrations" /\ MigNext
                /\ UNCHANGED <<capVars, flightVars, leanVars, tabVars>>
             \/ focus = "flight" /\ FlightNext
                /\ UNCHANGED <<capVars, migVars, leanVars, tabVars>>
             \/ focus = "lean" /\ LeanNext
                /\ UNCHANGED <<capVars, migVars, flightVars, tabVars>>
             \/ focus = "tables" /\ TabNext
                /\ UNCHANGED <<capVars, migVars, flightVars, leanVars>>
       \/ /\ UNCHANGED serverVars
          /\ \/ focus = "cutover" /\ CutNext
                /\ UNCHANGED <<deltaVars, reVars, writerVars>>
             \/ focus = "delta" /\ DeltaNext
                /\ UNCHANGED <<cutVars, reVars, writerVars>>
             \/ focus = "re-embed" /\ ReNext
                /\ UNCHANGED <<cutVars, deltaVars, writerVars>>
             \/ focus = "writer" /\ WriterNext
                /\ UNCHANGED <<cutVars, deltaVars, reVars>>

Spec == Init /\ [][Next]_<<serverVars, corpusVars, focus>>

\* Types of the nine components.
TypeOK == /\ CapTypeOK /\ MigTypeOK /\ FlightTypeOK /\ LeanTypeOK /\ TabTypeOK
          /\ CutTypeOK /\ DeltaTypeOK /\ ReTypeOK /\ WriterTypeOK
=============================================================================
