-------------------------- MODULE RegulationSettings --------------------------
(***************************************************************************)
(* The settings of the rules of the financial regulation                   *)
(* (RegulationService): a request changes a rule in memory, queues a write *)
(* of it behind the earlier writes of that rule, and waits for the last    *)
(* write under way of every rule before it answers and records the event.  *)
(* Writes may fail, the process may stop, and a start that cannot read the *)
(* table goes on with the values the program was built with.               *)
(*                                                                         *)
(* A setting is the number of the request that made it; 0 is the default.  *)
(* A database is configured; without one nothing is written or awaited.    *)
(***************************************************************************)
EXTENDS Integers, FiniteSets, Sequences

CONSTANTS
    LiveRules,           \* rules that may be set
    MaxSettings,         \* bound: requests
    MaxSettingFailures,  \* bound: failed writes
    MaxSettingStarts     \* bound: restarts

ASSUME SettingsAssumption ==
    MaxSettings \in Nat /\ MaxSettingFailures \in Nat /\ MaxSettingStarts \in Nat

VARIABLES
    liveSetting,     \* [rule -> the setting in force]
    storedSetting,   \* [rule -> the setting in the table regulation_rules]
    pendingWrites,   \* [rule -> its settings still to be written, the first one under way]
    settings,        \* the requests: [rule, awaits, outcome]
    initialized,     \* the last start read the table
    settingFailures, settingStarts

settingsVars == <<liveSetting, storedSetting, pendingWrites, settings, initialized,
                  settingFailures, settingStarts>>

SettingsInit ==
    /\ liveSetting = [r \in LiveRules |-> 0]
    /\ storedSetting = [r \in LiveRules |-> 0]
    /\ pendingWrites = [r \in LiveRules |-> << >>]
    /\ settings = << >>
    /\ initialized = TRUE
    /\ settingFailures = 0 /\ settingStarts = 0

-----------------------------------------------------------------------------
(* configureRule and flushPersistence: the value is in force at once. *)
LastWrites(pending) == {pending[r][Len(pending[r])] : r \in {x \in LiveRules : pending[x] # << >>}}

Configure(r) ==
    LET n == Len(settings) + 1
        pending == [pendingWrites EXCEPT ![r] = Append(@, n)]
    IN  /\ Len(settings) < MaxSettings
        /\ liveSetting' = [liveSetting EXCEPT ![r] = n]
        /\ pendingWrites' = pending
        /\ settings' = Append(settings,
             [rule |-> r, awaits |-> LastWrites(pending), outcome |-> "WAITING"])
        /\ UNCHANGED <<storedSetting, initialized, settingFailures, settingStarts>>

(* Slip: the writes of a rule do not wait for each other. *)
AnyOf(r) == DOMAIN pendingWrites[r]

UnderWay(r) == DOMAIN pendingWrites[r] \intersect {1}

Without(s, i) == SubSeq(s, 1, i - 1) \o SubSeq(s, i + 1, Len(s))

(* A request answers when all it awaits is written, and is refused when one *)
(* of it fails, its own or another's.                                       *)
After(n, ok, s) ==
    IF s.outcome # "WAITING" \/ n \notin s.awaits THEN s
    ELSE [s EXCEPT !.awaits = @ \ {n},
                   !.outcome = IF ~ok THEN "REFUSED"
                               ELSE IF s.awaits = {n} THEN "ANSWERED" ELSE "WAITING"]

Settle(r, i, ok) ==
    LET n == pendingWrites[r][i]
    IN  /\ pendingWrites' = [pendingWrites EXCEPT ![r] = Without(@, i)]
        /\ settings' = [k \in DOMAIN settings |-> After(n, ok, settings[k])]

WriteSetting(r) ==
    \E i \in UnderWay(r) :
        /\ storedSetting' = [storedSetting EXCEPT ![r] = pendingWrites[r][i]]
        /\ Settle(r, i, TRUE)
        /\ UNCHANGED <<liveSetting, initialized, settingFailures, settingStarts>>

(* A failed write may have taken effect; the next one of the rule goes on.  *)
SettingFails(r) ==
    \E i \in UnderWay(r) :
        /\ settingFailures < MaxSettingFailures
        /\ settingFailures' = settingFailures + 1
        /\ \/ UNCHANGED storedSetting
           \/ storedSetting' = [storedSetting EXCEPT ![r] = pendingWrites[r][i]]
        /\ Settle(r, i, FALSE)
        /\ UNCHANGED <<liveSetting, initialized, settingStarts>>

(* The writes under way may take effect, those behind them do not; nobody   *)
(* is answered any more. The start reads the table, or fails to and does    *)
(* not try again.                                                           *)
StartWithSettings ==
    /\ settingStarts < MaxSettingStarts
    /\ settingStarts' = settingStarts + 1
    /\ \E landed \in SUBSET {r \in LiveRules : pendingWrites[r] # << >>} :
         storedSetting' = [r \in LiveRules |->
             IF r \in landed THEN Head(pendingWrites[r]) ELSE storedSetting[r]]
    /\ initialized' \in BOOLEAN
    /\ liveSetting' = [r \in LiveRules |-> IF initialized' THEN storedSetting'[r] ELSE 0]
    /\ pendingWrites' = [r \in LiveRules |-> << >>]
    /\ settings' = [k \in DOMAIN settings |->
         [settings[k] EXCEPT !.awaits = {},
                             !.outcome = IF @ = "WAITING" THEN "LOST" ELSE @]]
    /\ UNCHANGED settingFailures

SettingsNext ==
    \/ \E r \in LiveRules : Configure(r) \/ WriteSetting(r) \/ SettingFails(r)
    \/ StartWithSettings

SettingsSpec == SettingsInit /\ [][SettingsNext]_settingsVars

-----------------------------------------------------------------------------
(* Properties *)

SettingsTypeOK ==
    /\ liveSetting \in [LiveRules -> 0..MaxSettings]
    /\ storedSetting \in [LiveRules -> 0..MaxSettings]
    /\ pendingWrites \in [LiveRules -> Seq(1..MaxSettings)]
    /\ settings \in Seq([rule: LiveRules, awaits: SUBSET (1..MaxSettings),
                         outcome: {"WAITING", "ANSWERED", "REFUSED", "LOST"}])

(* A setting the administrator was told of is in the table or replaced by a *)
(* later one there, whatever fails or stops, and in force or replaced       *)
(* unless the last start could not read the table. With nothing under way   *)
(* the table holds what is in force, unless that setting was not answered   *)
(* for: then it may be in force although it was refused (configureRule,     *)
(* flushPersistence, initialize).                                           *)
AnsweredSettingsStay ==
    /\ \A n \in DOMAIN settings : settings[n].outcome = "ANSWERED" =>
         LET r == settings[n].rule
         IN  storedSetting[r] >= n /\ (initialized => liveSetting[r] >= n)
    /\ \A r \in LiveRules :
         LET n == liveSetting[r]
         IN  /\ initialized => storedSetting[r] <= n
             /\ n # 0 /\ pendingWrites[r] = << >> /\ storedSetting[r] # n =>
                  settings[n].outcome = "REFUSED"
=============================================================================
