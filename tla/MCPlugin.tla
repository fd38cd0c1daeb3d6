------------------------------ MODULE MCPlugin ------------------------------
(***************************************************************************)
(* One run for two components of the plugin that share no state: a         *)
(* behaviour is that of one Agent's gate or that of the ledger file, and   *)
(* the variables of the other keep their initial values.                   *)
(***************************************************************************)
EXTENDS MCSessionGate, MCLedgerFile

VARIABLE part

-----------------------------------------------------------------------------
\* A part that does not run has one initial state.
PluginInit ==
    /\ part \in {"gate", "file"}
    /\ Init /\ FileInit
    /\ part # "gate" => config = (CHOOSE c \in Configs : TRUE) /\ slots = Slots
    /\ part # "file" => disk = NoFile

PluginNext ==
    /\ UNCHANGED part
    /\ \/ part = "gate" /\ Next /\ UNCHANGED fileVars
       \/ part = "file" /\ FileNext /\ UNCHANGED vars

\* The fairness of FairSpec and FileFairSpec, of the part that runs.
PluginFairSpec ==
    /\ PluginInit /\ [][PluginNext]_<<part, vars, fileVars>>
    /\ \A s \in Slots : WF_vars(part = "gate" /\ s \in slots /\ Finishes(s))
    /\ \A i \in Instances : WF_fileVars(part = "file" /\ Progress(i))
=============================================================================
