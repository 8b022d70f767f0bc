------------------------------ MODULE ConfigStore ------------------------------
(***************************************************************************)
(* The configuration: load and save of config.rs with the file system      *)
(* under them, the window's pages that edit it (app.rs, ui/), and what     *)
(* is connected by a name or a position in it: auto-connect at start-up,   *)
(* the Connect button, the tray's Quick Connect.                           *)
(*                                                                         *)
(* The GTK thread runs one handler after the other; a handler that saves   *)
(* is one action that changes the configuration and the widgets (nobody    *)
(* sees either before it returns) and then the steps of save(), between    *)
(* which the process may be killed or the machine lose power.  Launching   *)
(* the program again activates the running one, which opens another        *)
(* window.  Positions count from 1; 0 is no row, no item, "(None)".        *)
(***************************************************************************)
EXTENDS Naturals, FiniteSets, Sequences

CONSTANTS
  Typed,        \* profiles the user may type into the editor
  Starter,      \* Starter[n]: the profile New Profile makes as the n-th
  None,         \* no profile name
  InitialFiles, \* what the file may hold before the program first runs
  MaxProfiles, MaxWindows,
  MaxOps,       \* bound: operations of the user and of the session's threads
  MaxFaults     \* bound: saves that fail, power losses

ASSUME ConfigAssumption ==
  /\ DOMAIN Starter = 1 .. MaxProfiles /\ MaxWindows \in Nat \ {0}
  /\ \A c \in InitialFiles : c.kind # "torn"
  /\ \A n \in DOMAIN Starter : Starter[n].host = ""
  /\ \A p \in Typed : p.name # None

VARIABLES
  loaded,      \* the configuration main() loaded; every window starts with a copy
  windows,     \* AppWindows, in the order they were opened; <<>>: not running
  vpn,         \* the session: [state, name, from]
  remembered,  \* last_connected_profile
  pc,          \* save(): "idle", "opened", "written", "synced"
  saving,      \* the configuration it was called with
  \* the file system
  file,        \* what config.json reads as
  tmp,         \* what config.json.tmp reads as
  synced,      \* and whether it is on disk
  durable,     \* what config.json may hold after a power loss
  \* history
  failed,      \* a save of this process failed
  ops, faults

uiVars == <<loaded, windows, vpn, remembered>>
diskVars == <<file, tmp, synced, durable>>
configVars == <<uiVars, pc, saving, diskVars, failed, ops, faults>>

\* Contents of the file: a configuration, or nothing that parses as one.
Config(ps, auto) == [kind |-> "config", profiles |-> ps, auto |-> auto]
Unreadable(kind) == [kind |-> kind, profiles |-> <<>>, auto |-> None]
Default == Config(<<>>, None)
Load(c) == IF c.kind = "config" THEN c ELSE Default

Off == [state |-> "off", name |-> None, from |-> "nobody"]
Connecting(p, from) == [state |-> "connecting", name |-> p.name, from |-> from]
IsActive == vpn.state # "off"

\* find_profile and the searches by name: the first of that name, 0 if there is none.
Position(c, name) ==
  LET at == {i \in DOMAIN c.profiles : c.profiles[i].name = name}
  IN  IF at = {} THEN 0 ELSE CHOOSE i \in at : \A j \in at : i <= j

-----------------------------------------------------------------------------
(* The widgets of one window. *)

\* A drop-down that is given a new model selects its first item, if there is one.
FirstItem(c) == IF c.profiles = <<>> THEN 0 ELSE 1

\* refresh_list removes all rows, the selected one too.
RowAfter(w, c) == 0

\* refresh_profile_list, in a window whose configuration is now c.
Refreshed(w, c) ==
  [w EXCEPT !.conf = c, !.row = RowAfter(w, c), !.combo = FirstItem(c), !.auto_row = 0, !.moved = TRUE]

\* on_profile_selected.
Shows(w, i) ==
  IF i \in DOMAIN w.conf.profiles
  THEN [w EXCEPT !.editor = w.conf.profiles[i]] ELSE w

\* Mutant: auto-connect leaves the combo box alone.
ComboUntouched(w, i) == w.combo
\* set_selected(idx) before auto-connecting.
ComboForAuto(w, i) == i

FirstRun(c) == c.profiles = <<>>

WithStarter(c) == Config(Append(c.profiles, Starter[Len(c.profiles) + 1]), c.auto)

\* AppWindow::new up to the signals: lists, settings, the starter profile of a first
\* run, the first row.
NewWindow(c) ==
  LET c2 == IF FirstRun(c) THEN WithStarter(c) ELSE c
      w == [conf |-> c2, row |-> 1, editor |-> Starter[1], combo |-> 1,
            auto_row |-> IF c2 = c THEN Position(c, c.auto) ELSE 0,
            moved |-> FALSE, unseen |-> FALSE, was_connected |-> FALSE]
  IN  Shows(w, 1)

-----------------------------------------------------------------------------
(* save(): a temporary file, written and synced, then renamed. *)

Saves(c) ==
  /\ pc' = "opened" /\ saving' = c
  /\ tmp' = Unreadable("torn") /\ synced' = FALSE
  /\ UNCHANGED <<file, durable>>

NoSave == UNCHANGED <<pc, saving, diskVars>>

Writes ==
  /\ pc = "opened"
  /\ pc' = "written" /\ tmp' = saving
  /\ UNCHANGED <<uiVars, saving, file, synced, durable, failed, ops, faults>>

Syncs ==
  /\ pc = "written"
  /\ pc' = "synced" /\ synced' = TRUE
  /\ UNCHANGED <<uiVars, saving, file, tmp, durable, failed, ops, faults>>

\* Mutant: the file is renamed without sync_all.
ReplacesUnsynced == pc \in {"written", "synced"}
MayReplace == pc = "synced"

\* The directory is not synced: until it is written back the old file may return.
Renames ==
  /\ MayReplace
  /\ pc' = "idle" /\ file' = tmp
  /\ durable' = durable \cup {IF synced THEN tmp ELSE Unreadable("torn")}
  /\ UNCHANGED <<uiVars, saving, tmp, synced, failed, ops, faults>>

\* A full disk, a missing right: save() returns the error, its callers drop it.
SaveFails ==
  /\ pc # "idle" /\ faults < MaxFaults
  /\ pc' = "idle" /\ failed' = TRUE /\ faults' = faults + 1
  /\ UNCHANGED <<uiVars, saving, diskVars, ops>>

\* The kernel writes the directory back.
WritesBack ==
  /\ durable # {file}
  /\ durable' = {file}
  /\ UNCHANGED <<uiVars, pc, saving, file, tmp, synced, failed, ops, faults>>

-----------------------------------------------------------------------------
(* Start-up, a second launch, the end. *)

Counts == ops < MaxOps /\ ops' = ops + 1

\* AppWindow::new with configuration c: the starter profile of a first run is saved
\* at once, then auto-connect, if the profile still exists, whatever runs already.
OpensWindow(c) ==
  LET w == NewWindow(c)
      i == IF w.conf.auto = None THEN 0 ELSE Position(w.conf, w.conf.auto)
  IN  /\ windows' = Append(windows, IF i = 0 THEN w ELSE [w EXCEPT !.combo = ComboForAuto(w, i)])
      /\ vpn' = IF i = 0 THEN vpn ELSE Connecting(w.conf.profiles[i], "window")
      /\ IF w.conf = c THEN NoSave
         ELSE Saves(w.conf)

Starts ==
  /\ windows = <<>> /\ Counts
  /\ loaded' = Load(file)
  /\ OpensWindow(loaded')
  /\ UNCHANGED <<remembered, failed, faults>>

\* The program is launched again: GTK hands the activation to the running process.
ActivatedAgain ==
  /\ windows # <<>> /\ pc = "idle" /\ Len(windows) < MaxWindows /\ Counts
  /\ OpensWindow(loaded)
  /\ UNCHANGED <<loaded, remembered, failed, faults>>

Gone ==
  /\ windows # <<>>
  /\ windows' = <<>> /\ vpn' = Off /\ remembered' = None /\ loaded' = Default
  /\ pc' = "idle" /\ saving' = Default /\ tmp' = Unreadable("absent") /\ synced' = FALSE
  /\ failed' = FALSE

\* The user quits, or the process is killed at any step.
Dies == Gone /\ Counts /\ UNCHANGED <<file, durable, faults>>

LosesPower ==
  /\ faults < MaxFaults /\ Gone
  /\ file' \in durable /\ durable' = {file'}
  /\ faults' = faults + 1 /\ UNCHANGED ops

-----------------------------------------------------------------------------
(* The user at window k. *)

\* A handler of window k leaves it as w.
Handles(k, w) ==
  /\ pc = "idle" /\ Counts
  /\ windows' = [windows EXCEPT ![k] = w]
  /\ UNCHANGED <<loaded, failed, faults>>

Types(k) ==
  /\ \E p \in Typed : Handles(k, [windows[k] EXCEPT !.editor = p])
  /\ NoSave /\ UNCHANGED <<vpn, remembered>>

SelectsRow(k) ==
  /\ \E i \in DOMAIN windows[k].conf.profiles :
       Handles(k, Shows([windows[k] EXCEPT !.row = i], i))
  /\ NoSave /\ UNCHANGED <<vpn, remembered>>

PicksProfile(k) ==
  /\ \E i \in DOMAIN windows[k].conf.profiles :
       Handles(k, [windows[k] EXCEPT !.combo = i, !.moved = TRUE])
  /\ NoSave /\ UNCHANGED <<vpn, remembered>>

PicksAuto(k) ==
  /\ \E i \in 0 .. Len(windows[k].conf.profiles) : Handles(k, [windows[k] EXCEPT !.auto_row = i])
  /\ NoSave /\ UNCHANGED <<vpn, remembered>>

NewProfile(k) ==
  LET c == windows[k].conf
      new == WithStarter(c)
  IN  /\ Len(c.profiles) < MaxProfiles
      /\ Handles(k, Refreshed(windows[k], new))
      /\ Saves(new) /\ UNCHANGED <<vpn, remembered>>

\* No row selected means the first.
Index(w) == IF w.row = 0 THEN 1 ELSE w.row

Without(s, i) == SubSeq(s, 1, i - 1) \o SubSeq(s, i + 1, Len(s))

\* What a deletion leaves.
Remaining(w) == Config(Without(w.conf.profiles, Index(w)), w.conf.auto)

\* Mutant: the profile is removed but the configuration not saved.
DeleteUnsaved(k) ==
  /\ Index(windows[k]) \in DOMAIN windows[k].conf.profiles
  /\ Handles(k, Refreshed(windows[k], Remaining(windows[k]))) /\ NoSave /\ UNCHANGED <<vpn, remembered>>
DeleteProfile(k) ==
  LET c == Remaining(windows[k])
  IN  /\ Index(windows[k]) \in DOMAIN windows[k].conf.profiles
      /\ Handles(k, Refreshed(windows[k], c))
      /\ Saves(c) /\ UNCHANGED <<vpn, remembered>>

SaveProfile(k) ==
  LET w == windows[k]
      \* no change where there is no such profile
      c == Config([w.conf.profiles EXCEPT ![Index(w)] = w.editor], w.conf.auto)
  IN  Handles(k, Refreshed(w, c)) /\ Saves(c) /\ UNCHANGED <<vpn, remembered>>

SaveSettings(k) ==
  LET w == windows[k]
      name == IF w.auto_row = 0 THEN None ELSE w.conf.profiles[w.auto_row].name
      c == Config(w.conf.profiles, name)
  IN  Handles(k, [w EXCEPT !.conf = c]) /\ Saves(c) /\ UNCHANGED <<vpn, remembered>>

\* The Connect button: a profile without a host is refused.
Toggles(k) ==
  LET w == windows[k]
      p == w.conf.profiles[w.combo]
      connects == ~IsActive /\ w.combo # 0 /\ p.host # ""
  IN  /\ IsActive \/ connects
      /\ Handles(k, IF connects THEN [w EXCEPT !.moved = FALSE, !.unseen = w.was_connected] ELSE w)
      /\ vpn' = IF connects THEN Connecting(p, "window") ELSE Off
      /\ NoSave /\ UNCHANGED remembered

\* What check_status may find of the session's threads.
Found == {vpn} \cup IF IsActive THEN {Off, [vpn EXCEPT !.state = "up"]} ELSE {}

\* poll: check_status, the tray's request, then the name to remember when the session
\* came up.
Polls(k) ==
  \E found \in Found, request \in {"none", "disconnect", "quick connect"} :
    LET w == windows[k]
        i == IF remembered = None THEN 0 ELSE Position(w.conf, remembered)
        now == IF request = "disconnect" THEN Off
               ELSE IF request = "quick connect" /\ i # 0 /\ found.state = "off"
                    THEN Connecting(w.conf.profiles[i], "tray") ELSE found
        up == now.state = "up"
    IN  /\ now # vpn \/ up # w.was_connected
        /\ Handles(k, [w EXCEPT !.was_connected = up, !.unseen = up /\ w.unseen])
        /\ vpn' = now
        /\ remembered' = IF up /\ ~w.was_connected /\ w.combo # 0
                         THEN w.conf.profiles[w.combo].name ELSE remembered
        /\ NoSave

-----------------------------------------------------------------------------
ConfigInit ==
  /\ file \in InitialFiles /\ durable = {file}
  /\ tmp = Unreadable("absent") /\ synced = FALSE
  /\ loaded = Default /\ windows = <<>> /\ vpn = Off /\ remembered = None
  /\ pc = "idle" /\ saving = Default
  /\ failed = FALSE /\ ops = 0 /\ faults = 0

ConfigNext ==
  \/ Starts \/ ActivatedAgain \/ Dies \/ LosesPower
  \/ Writes \/ Syncs \/ Renames \/ SaveFails \/ WritesBack
  \/ \E k \in DOMAIN windows :
       \/ Types(k) \/ SelectsRow(k) \/ PicksProfile(k) \/ PicksAuto(k)
       \/ NewProfile(k) \/ DeleteProfile(k) \/ SaveProfile(k) \/ SaveSettings(k)
       \/ Toggles(k) \/ Polls(k)

ConfigSpec == ConfigInit /\ [][ConfigNext]_configVars

-----------------------------------------------------------------------------
(* Properties. *)

\* Whatever step of save() the process dies or the power fails at, config.json is never
\* a half-written file (save: "so it is never briefly world-readable or half-written"),
\* which the next start would take for no configuration and overwrite with a starter.
FileNeverTorn == \A c \in durable \cup {file} : c.kind # "torn"

\* With one window, what the user sees is what the next start will load: every handler
\* that changes the configuration saved it, unless a save failed.
MemoryIsSaved ==
  Len(windows) = 1 /\ pc = "idle" /\ ~failed => Load(file) = windows[1].conf

\* Quick Connect remembers the profile that was connected, if it was connected from
\* the (only) window, the combo box was not moved or refilled in the meantime, and
\* poll had noticed the end of the session before.
RememberedIsConnected ==
  Len(windows) = 1 =>
    LET w == windows[1]
    IN  w.was_connected /\ vpn.state = "up" /\ vpn.from = "window" /\ ~w.moved /\ ~w.unseen
          => remembered = vpn.name
=============================================================================
