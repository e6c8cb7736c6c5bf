--------------------------- MODULE MCLedgerAndRules ---------------------------
(***************************************************************************)
(* The chained journal, and what the law asks of the program on small      *)
(* instances: the rules that requests are checked against before they      *)
(* reach the journal, the settings of rules, the taxes, and the invoices   *)
(* for the tax authority. None of them shares state with another, so they  *)
(* are checked side by side: a behaviour is a behaviour of one while the   *)
(* others rest.                                                            *)
(***************************************************************************)
EXTENDS MCLedgerChain, RegulationChecks, MCRegulationForms,
        RegulationSettings, TaxRules, EtaDocuments

VARIABLE part   \* what runs

(* Pays on both sides of the yearly brackets, and payments on both sides of *)
(* the least invoices, in piasters.                                         *)
MCPays     == {0, 166667, 500000, 500001, 625000, 625001, 750003, 1833334,
               3499999, 3500001, 10166667, 10200001}
MCPayments == {1, 9999, 10000, 10001, 10050, 29999, 30000, 30001, 30301, 50000}

-----------------------------------------------------------------------------
ledgerVars == <<part, vars, chainVars, checkVars, settingsVars, taxVars, etaVars>>

LedgerInit ==
    /\ part \in {"chain", "regulation", "settings", "taxes", "eta"}
    /\ ChainInit /\ ChecksInit /\ SettingsInit /\ TaxInit /\ EtaInit
    /\ part # "regulation" => ChecksAtRest
    /\ part # "taxes" => pay = 0 /\ insurance = 0
    /\ part # "eta" => configured

LedgerNext ==
    \/ /\ part = "chain" /\ ChainNext
       /\ UNCHANGED <<part, checkVars, settingsVars, taxVars, etaVars>>
    \/ /\ part = "regulation" /\ ChecksNext
       /\ UNCHANGED <<part, vars, chainVars, settingsVars, taxVars, etaVars>>
    \/ /\ part = "settings" /\ SettingsNext
       /\ UNCHANGED <<part, vars, chainVars, checkVars, taxVars, etaVars>>
    \/ /\ part = "taxes" /\ TaxNext
       /\ UNCHANGED <<part, vars, chainVars, checkVars, settingsVars, etaVars>>
    \/ /\ part = "eta" /\ EtaNext
       /\ UNCHANGED <<part, vars, chainVars, checkVars, settingsVars, taxVars>>

LedgerSpec == LedgerInit /\ [][LedgerNext]_ledgerVars

(* The verdicts of the rules and the taxes agree with what they are to be    *)
(* (RegulationChecks, TaxRules), and settings and documents keep their types.*)
RulesAndTaxesAgree ==
    /\ part = "regulation" => RulesAgree
    /\ part = "taxes" => TaxesAgree
    /\ SettingsTypeOK /\ EtaTypeOK
==============================================================================
