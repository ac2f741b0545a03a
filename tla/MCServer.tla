------------------------------- MODULE MCServer -------------------------------
(***************************************************************************)
(* Three components of the daemon for TLC: the queue of ingests            *)
(* (IngestRuns), the calls of search_papers that race the rebinding of the *)
(* corpus (CorpusBinding), and the tiers of their cache (CacheTiers).      *)
(* They share no state: one run takes each of them through all of its      *)
(* behaviours while the others rest: their sum, not their product.         *)
(***************************************************************************)
EXTENDS IngestRuns, CorpusBinding, CacheTiers, TLC

CONSTANTS t1, t2

VARIABLE focus  \* the component that runs

\* Two queries within the threshold of each other; one is asked for more and for
\* fewer rows, and of the notebook.
MCClosest == (t1 :> <<t1, t2>>) @@ (t2 :> <<t2, t1>>)
MCQuestions == {[text |-> t1, k |-> 1, book |-> FALSE],
                [text |-> t1, k |-> 2, book |-> FALSE],
                [text |-> t1, k |-> 1, book |-> TRUE],
                [text |-> t2, k |-> 1, book |-> FALSE]}

\* Search calls are interchangeable; those of CorpusBinding and of CacheTiers share
\* their names, for only one of the two is ever at work.
ServerSymmetry == Permutations(Requests)

ServerInit ==
    /\ Init
    /\ BindInit
    /\ TiersInit
    /\ focus \in {"queue", "binding", "tiers"}
    /\ focus # "binding" => marker = None

ServerNext ==
    /\ UNCHANGED focus
    /\ \/ focus = "queue" /\ Next /\ UNCHANGED <<bindVars, cacheVars>>
       \/ focus = "binding" /\ BindNext /\ UNCHANGED <<vars, cacheVars>>
       \/ focus = "tiers" /\ TiersNext /\ UNCHANGED <<vars, bindVars>>
          \* so are the corpus versions: which of them is the first is given
          /\ salt'[1] \in {NoSalt, CHOOSE v \in Salts : TRUE}

ServerSpec == ServerInit /\ [][ServerNext]_<<vars, bindVars, cacheVars, focus>>

\* Types of the queue of ingests, of the calls that race rebinds, and of the tiers.
ServerTypeOK == TypeOK /\ BindTypeOK /\ TiersTypeOK
===============================================================================
