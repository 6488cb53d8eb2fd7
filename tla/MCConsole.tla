------------------------------- MODULE MCConsole -------------------------------
(***************************************************************************)
(* The console's smaller parts for TLC.  They share no state, so one        *)
(* behaviour runs one of them, chosen at the start; the other parts keep    *)
(* their initial state.                                                     *)
(***************************************************************************)
EXTENDS AgentEdits, AgentKnowledge, ProviderCatalog, Accounts, ConsoleContracts, TLC

CONSTANTS r1, r2, r3, r4, s1, s2, b1, b2, b3, p1, p2

VARIABLE part   \* the part that runs

MCSessions == {s1, s2}
MCRequests == {r1, r2, r3}
MCCallers == {r1, r2, r3, r4}
MCBases == {b1, b2, b3}
MCReaders == {p1, p2}
MCCanonical(s) == IF s = "Ann" THEN "ann" ELSE s

\* Nothing tells three of the requests apart.
MCSymmetry == Permutations(MCRequests)

Parts == {"edits", "knowledge", "catalog", "accounts", "contracts"}

ConsoleInit ==
    /\ part \in Parts
    /\ Init /\ KBInit /\ CatInit /\ AccInit /\ ConInit
    \* The listing matters to the catalog only.
    /\ part # "catalog" => entry = <<"llm", "openai">> /\ keyed

ConsoleNext ==
    \/ part = "edits" /\ Next /\ UNCHANGED <<part, kbVars, catVars, accVars, case>>
    \/ part = "knowledge" /\ KBNext /\ UNCHANGED <<part, vars, catVars, accVars, case>>
    \/ part = "catalog" /\ CatNext /\ UNCHANGED <<part, vars, kbVars, accVars, case>>
    \/ part = "accounts" /\ AccNext /\ UNCHANGED <<part, vars, kbVars, catVars, case>>
    \/ part = "contracts" /\ ConNext /\ UNCHANGED <<part, vars, kbVars, catVars, accVars>>

ConsoleSpec == ConsoleInit /\ [][ConsoleNext]_<<part, vars, kbVars, catVars, accVars, case>>

\* Every part's variables hold values the code could hold (store.py,
\* auth_store.py, provider_catalog.py, and TurnCall's answers).
TypeOK == EditsTypeOK /\ KBTypeOK /\ CatTypeOK /\ AccTypeOK /\ ConTypeOK
===============================================================================
