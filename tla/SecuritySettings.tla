-------------------------- MODULE SecuritySettings --------------------------
(***************************************************************************)
(* The settings of threat intelligence, security/threat.ts: the VirusTotal *)
(* key and an external scanner, in memory and in a file.  To connect a     *)
(* scanner waits for a probe of its address, and a second connection, or a *)
(* change of the key, may come meanwhile.                                  *)
(***************************************************************************)
EXTENDS FiniteSets

CONSTANTS
  ScannerUrls,
  NoUrl,
  Connects,     \* names of connections under way
  TornSettings  \* a file that was cut off

ASSUME SettingsAssumption == NoUrl \notin ScannerUrls

VARIABLES
  settings,     \* cache: [key, url, token, reachable]
  settingsFile,
  probing       \* connections that wait for their probe

settingsVars == <<settings, settingsFile, probing>>

Settings == [key : BOOLEAN, url : ScannerUrls \union {NoUrl}, token : BOOLEAN, reachable : BOOLEAN]
ASSUME TornAssumption == TornSettings \notin Settings

NoSettings == [key |-> FALSE, url |-> NoUrl, token |-> FALSE, reachable |-> FALSE]

\* load takes a file that it cannot read for one that is not there.
LoadedSettings(f) == IF f = TornSettings THEN NoSettings ELSE f

SettingsInit == settings = NoSettings /\ settingsFile = NoSettings /\ probing = {}

\* A bug to be caught: a setting is changed in memory only.
ChangedInMemory(s) == settings' = s /\ UNCHANGED settingsFile

\* persist writes all of the settings as they are in memory.
Persisted(s) == settings' = s /\ settingsFile' = s

SetVtKey(given) ==
  /\ Persisted([settings EXCEPT !.key = given])
  /\ UNCHANGED probing

\* connectScanner: without a token the one that is stored stays; the file is not
\* written before the probe has ended.
ConnectScanner(c, u, token) ==
  /\ c \in Connects \ probing
  /\ settings' = [settings EXCEPT !.url = u, !.token = token \/ @, !.reachable = FALSE]
  /\ probing' = probing \union {c}
  /\ UNCHANGED settingsFile

\* The answer, or none within 5 s, is noted for the scanner configured by now.
Probed(c, answered) ==
  /\ c \in probing
  /\ Persisted([settings EXCEPT !.reachable = answered])
  /\ probing' = probing \ {c}

\* The process ends, maybe while it writes the file.
SettingsRestart ==
  /\ settingsFile' \in {settingsFile, TornSettings}
  /\ settings' = LoadedSettings(settingsFile')
  /\ probing' = {}

SettingsNext ==
  \/ \E given \in BOOLEAN : SetVtKey(given)
  \/ \E c \in Connects, u \in ScannerUrls, token \in BOOLEAN : ConnectScanner(c, u, token)
  \/ \E c \in Connects, answered \in BOOLEAN : Probed(c, answered)
  \/ SettingsRestart

SettingsSpec == SettingsInit /\ [][SettingsNext]_settingsVars

-----------------------------------------------------------------------------
(* Properties.                                                             *)

\* When no connection is under way, what the settings page shows is what a restart
\* would read: no order of connections and key changes leaves part of it unsaved.
SettingsStored == probing = {} => LoadedSettings(settingsFile) = settings
=============================================================================
