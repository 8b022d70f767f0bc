-------------------------- MODULE ConfigStoreProofs --------------------------
(***************************************************************************)
(* Theorems about ConfigStore, for any profiles, windows and numbers of    *)
(* operations: save() against crashes and power losses at any of its       *)
(* steps, what a window shows against what is saved, and what Quick        *)
(* Connect remembers against what was connected.                           *)
(***************************************************************************)
EXTENDS ConfigStore, TLAPS

\* The strengthening of FileNeverTorn: what save() is given is a configuration, what
\* it has written is that configuration, and what it renames is on disk.
SaveInv ==
  /\ FileNeverTorn
  /\ saving.kind # "torn"
  /\ pc \in {"written", "synced"} => tmp = saving
  /\ pc = "synced" => synced

\* A step that touches neither the file nor a save under way.
LEMMA IdleKeeps ==
  ASSUME SaveInv, NoSave
  PROVE  SaveInv'
  BY DEF SaveInv, NoSave, diskVars, FileNeverTorn

\* A handler hands a configuration to save().
LEMMA SavesKeeps ==
  ASSUME SaveInv, NEW ps, NEW auto, Saves(Config(ps, auto))
  PROVE  SaveInv'
  BY DEF SaveInv, Saves, Config, FileNeverTorn

\* The starter profile of a first run is saved as the window opens.
LEMMA OpensWindowKeeps ==
  ASSUME SaveInv, NEW c, OpensWindow(c)
  PROVE  SaveInv'
  <1> DEFINE w == NewWindow(c)
             c2 == IF FirstRun(c) THEN WithStarter(c) ELSE c
  <1>1. w.conf = c2
    BY DEF NewWindow, Shows
  <1>2. CASE w.conf = c
    BY <1>2, IdleKeeps DEF OpensWindow
  <1>3. CASE w.conf # c
    <2>1. w.conf = Config(Append(c.profiles, Starter[Len(c.profiles) + 1]), c.auto)
      BY <1>1, <1>3 DEF WithStarter
    <2>2. Saves(w.conf)
      BY <1>3 DEF OpensWindow
    <2> QED BY <2>1, <2>2, SavesKeeps
  <1> QED BY <1>2, <1>3

\* The steps of save() itself, in their order; it may fail between any two.
LEMMA SaveStepKeeps ==
  ASSUME SaveInv, Writes \/ Syncs \/ Renames \/ SaveFails \/ WritesBack
  PROVE  SaveInv'
  <1> USE DEF SaveInv, FileNeverTorn, diskVars
  <1>1. CASE Writes
    BY <1>1 DEF Writes
  <1>2. CASE Syncs
    BY <1>2 DEF Syncs
  <1>3. CASE Renames
    BY <1>3 DEF Renames, MayReplace
  <1>4. CASE SaveFails
    BY <1>4 DEF SaveFails
  <1>5. CASE WritesBack
    BY <1>5 DEF WritesBack
  <1> QED BY <1>1, <1>2, <1>3, <1>4, <1>5

\* The end of the process, with or without the machine: what is left is on disk.
LEMMA EndKeeps ==
  ASSUME SaveInv, Dies \/ LosesPower
  PROVE  SaveInv'
  BY DEF SaveInv, FileNeverTorn, Dies, LosesPower, Gone, Default, Config

\* What the user does at a window.
LEMMA HandlerKeeps ==
  ASSUME SaveInv, NEW k \in DOMAIN windows,
         \/ Types(k) \/ SelectsRow(k) \/ PicksProfile(k) \/ PicksAuto(k) \/ NewProfile(k)
         \/ DeleteProfile(k) \/ SaveProfile(k) \/ SaveSettings(k) \/ Toggles(k) \/ Polls(k)
  PROVE  SaveInv'
  <1>1. CASE Types(k) \/ SelectsRow(k) \/ PicksProfile(k) \/ PicksAuto(k) \/ Toggles(k) \/ Polls(k)
    BY <1>1, IdleKeeps DEF Types, SelectsRow, PicksProfile, PicksAuto, Toggles, Polls
  <1>2. CASE NewProfile(k)
    BY <1>2, SavesKeeps DEF NewProfile, WithStarter
  <1>3. CASE DeleteProfile(k)
    BY <1>3, SavesKeeps DEF DeleteProfile, Remaining
  <1>4. CASE SaveProfile(k)
    <2> DEFINE w == windows[k]
    <2>1. Saves(Config([w.conf.profiles EXCEPT ![Index(w)] = w.editor], w.conf.auto))
      BY <1>4 DEF SaveProfile
    <2> QED BY <2>1, SavesKeeps
  <1>5. CASE SaveSettings(k)
    <2> DEFINE w == windows[k]
               name == IF w.auto_row = 0 THEN None ELSE w.conf.profiles[w.auto_row].name
    <2>1. Saves(Config(w.conf.profiles, name))
      BY <1>5 DEF SaveSettings
    <2> QED BY <2>1, SavesKeeps
  <1> QED BY <1>1, <1>2, <1>3, <1>4, <1>5

\* Every step of the program keeps what save() relies on.
LEMMA SaveInvHolds == ConfigSpec => []SaveInv
  <1>1. ConfigInit => SaveInv
    <2>1. \A c \in InitialFiles : c.kind # "torn"
      BY ConfigAssumption
    <2>2. Default.kind = "config"
      BY DEF Default, Config
    <2> QED BY <2>1, <2>2 DEF ConfigInit, SaveInv, FileNeverTorn
  <1>2. SaveInv /\ [ConfigNext]_configVars => SaveInv'
    <2> SUFFICES ASSUME SaveInv, [ConfigNext]_configVars
                 PROVE  SaveInv'
      OBVIOUS
    <2>1. CASE Starts \/ ActivatedAgain
      BY <2>1, OpensWindowKeeps DEF Starts, ActivatedAgain
    <2>2. CASE Dies \/ LosesPower
      BY <2>2, EndKeeps
    <2>3. CASE Writes \/ Syncs \/ Renames \/ SaveFails \/ WritesBack
      BY <2>3, SaveStepKeeps
    <2>4. CASE UNCHANGED configVars
      BY <2>4, IdleKeeps DEF configVars, NoSave
    <2> QED BY <2>1, <2>2, <2>3, <2>4, HandlerKeeps DEF ConfigNext
  <1> QED BY <1>1, <1>2, PTL DEF ConfigSpec

\* Whatever happens while a configuration is saved, config.json is never half-written
\* (Config::save in config.rs).
THEOREM FileIsNeverTorn == ConfigSpec => []FileNeverTorn
  <1>1. SaveInv => FileNeverTorn
    BY DEF SaveInv
  <1> QED BY <1>1, SaveInvHolds, PTL

-----------------------------------------------------------------------------
(* What the user sees, and what the next start will load. *)

\* A window has these fields and no others, whatever they show.
Window(S) ==
  [conf : S, row : S, editor : S, combo : S, auto_row : S, moved : S, unseen : S,
   was_connected : S]
IsWindow(w) ==
  w \in Window({w.conf, w.row, w.editor, w.combo, w.auto_row, w.moved, w.unseen, w.was_connected})

\* A sequence, whatever it holds.
OwnSeq(s) == s \in Seq({s[k] : k \in DOMAIN s})

\* The windows are a sequence of such records.
WindowsOK ==
  /\ OwnSeq(windows)
  /\ \A k \in DOMAIN windows : IsWindow(windows[k])

\* A save under way writes what its window shows; a program that is not running has
\* neither a save nor a session.
MemoryInv ==
  /\ pc \in {"idle", "opened", "written", "synced"}
  /\ windows = <<>> => pc = "idle" /\ vpn = Off
  /\ MemoryIsSaved
  /\ Len(windows) = 1 /\ pc # "idle" /\ ~failed =>
       saving = windows[1].conf /\ saving.kind = "config"

\* What a window whose combo box was left alone since it connected knows of the session:
\* the box shows its profile, poll will see it come up, and did if it is.
Recalls(w, session, name) ==
  session.from = "window" /\ ~w.moved =>
    /\ session.state # "off" => w.combo # 0 /\ w.conf.profiles[w.combo].name = session.name
    /\ session.state = "connecting" /\ ~w.unseen => ~w.was_connected
    /\ session.state = "up" /\ ~w.unseen /\ w.was_connected => name = session.name

SessionOK ==
  /\ vpn \in [state : {vpn.state}, name : {vpn.name}, from : {vpn.from}]
  /\ vpn.state \in {"off", "connecting", "up"}

RememberInv == SessionOK /\ (Len(windows) = 1 => Recalls(windows[1], vpn, remembered))

WindowInv == WindowsOK /\ MemoryInv /\ RememberInv

\* A sequence is one over its own elements.
LEMMA SeqOfItself == ASSUME NEW S, NEW t \in Seq(S) PROVE OwnSeq(t)
  <1>1. t \in [1 .. Len(t) -> {t[k] : k \in DOMAIN t}] /\ Len(t) \in Nat
    OBVIOUS
  <1> QED BY <1>1 DEF OwnSeq

\* A sequence with one more element.
LEMMA AppendIs ==
  ASSUME NEW s, OwnSeq(s), NEW e
  PROVE  /\ OwnSeq(Append(s, e))
         /\ Len(s) \in Nat /\ DOMAIN s = 1 .. Len(s)
         /\ Len(Append(s, e)) = Len(s) + 1 /\ DOMAIN Append(s, e) = 1 .. Len(s) + 1
         /\ \A k \in 1 .. Len(s) : Append(s, e)[k] = s[k]
         /\ Append(s, e)[Len(s) + 1] = e
  <1> DEFINE S == {s[k] : k \in DOMAIN s} \cup {e}
             t == Append(s, e)
  <1>1. s \in Seq(S)
    BY DEF OwnSeq
  <1>2. e \in S
    OBVIOUS
  <1> HIDE DEF S
  <1>3. /\ t \in Seq(S) /\ Len(t) = Len(s) + 1 /\ Len(s) \in Nat /\ DOMAIN s = 1 .. Len(s)
        /\ DOMAIN t = 1 .. Len(s) + 1
        /\ \A k \in 1 .. Len(s) : t[k] = s[k]
        /\ t[Len(s) + 1] = e
    BY <1>1, <1>2
  <1> HIDE DEF t
  <1>4. OwnSeq(t)
    BY <1>3, SeqOfItself
  <1> QED BY <1>3, <1>4 DEF t

\* A sequence with one element replaced.
Replaces(s, i, e, t) == t = [s EXCEPT ![i] = e]
LEMMA ReplacedIs ==
  ASSUME NEW s, OwnSeq(s), NEW i \in DOMAIN s, NEW e, NEW t, Replaces(s, i, e, t)
  PROVE  /\ OwnSeq(t)
         /\ Len(t) = Len(s) /\ DOMAIN t = DOMAIN s /\ DOMAIN s = 1 .. Len(s) /\ Len(s) \in Nat
         /\ t[i] = e /\ \A k \in DOMAIN s : k # i => t[k] = s[k]
  <1> DEFINE S == {s[k] : k \in DOMAIN s} \cup {e}
  <1>1. s \in Seq(S) /\ e \in S
    BY DEF OwnSeq
  <1> HIDE DEF S
  <1>2. /\ t \in Seq(S) /\ Len(t) = Len(s) /\ Len(s) \in Nat /\ DOMAIN s = 1 .. Len(s)
        /\ DOMAIN t = DOMAIN s
        /\ t[i] = e /\ \A k \in DOMAIN s : k # i => t[k] = s[k]
    BY <1>1 DEF Replaces
  <1>3. OwnSeq(t)
    BY ONLY <1>2, SeqOfItself
  <1> QED BY <1>2, <1>3

\* A window whose editor shows another profile.
LEMMA EditorIs ==
  ASSUME NEW w, IsWindow(w), NEW e
  PROVE  LET v == [w EXCEPT !.editor = e]
         IN  /\ IsWindow(v)
             /\ v.conf = w.conf /\ v.combo = w.combo /\ v.moved = w.moved /\ v.unseen = w.unseen /\ v.was_connected = w.was_connected
  <1> DEFINE S == {w.conf, w.row, w.editor, w.combo, w.auto_row, w.moved, w.unseen, w.was_connected,
                   e}
  <1>1. w \in Window(S) /\ e \in S
    BY DEF IsWindow, Window
  <1> HIDE DEF S
  <1> QED BY <1>1 DEF IsWindow, Window

\* A window with another row selected.
LEMMA RowIs ==
  ASSUME NEW w, IsWindow(w), NEW i
  PROVE  LET v == [w EXCEPT !.row = i]
         IN  /\ IsWindow(v)
             /\ v.conf = w.conf /\ v.combo = w.combo /\ v.moved = w.moved /\ v.unseen = w.unseen /\ v.was_connected = w.was_connected
  <1> DEFINE S == {w.conf, w.row, w.editor, w.combo, w.auto_row, w.moved, w.unseen, w.was_connected,
                   i}
  <1>1. w \in Window(S) /\ i \in S
    BY DEF IsWindow, Window
  <1> HIDE DEF S
  <1> QED BY <1>1 DEF IsWindow, Window

\* A window with another profile to connect at start-up.
LEMMA AutoRowIs ==
  ASSUME NEW w, IsWindow(w), NEW i
  PROVE  LET v == [w EXCEPT !.auto_row = i]
         IN  /\ IsWindow(v)
             /\ v.conf = w.conf /\ v.combo = w.combo /\ v.moved = w.moved /\ v.unseen = w.unseen /\ v.was_connected = w.was_connected
  <1> DEFINE S == {w.conf, w.row, w.editor, w.combo, w.auto_row, w.moved, w.unseen, w.was_connected,
                   i}
  <1>1. w \in Window(S) /\ i \in S
    BY DEF IsWindow, Window
  <1> HIDE DEF S
  <1> QED BY <1>1 DEF IsWindow, Window

\* A window whose combo box was set.
LEMMA ComboIs ==
  ASSUME NEW w, IsWindow(w), NEW i
  PROVE  LET v == [w EXCEPT !.combo = i]
         IN  /\ IsWindow(v)
             /\ v.conf = w.conf /\ v.moved = w.moved /\ v.unseen = w.unseen /\ v.was_connected = w.was_connected
             /\ v.combo = i
  <1> DEFINE S == {w.conf, w.row, w.editor, w.combo, w.auto_row, w.moved, w.unseen, w.was_connected,
                   i}
  <1>1. w \in Window(S) /\ i \in S
    BY DEF IsWindow, Window
  <1> HIDE DEF S
  <1> QED BY <1>1 DEF IsWindow, Window

\* A window whose combo box was moved.
LEMMA MovedIs ==
  ASSUME NEW w, IsWindow(w), NEW i
  PROVE  LET v == [w EXCEPT !.combo = i, !.moved = TRUE]
         IN  /\ IsWindow(v)
             /\ v.conf = w.conf /\ v.moved
  <1> DEFINE S == {w.conf, w.row, w.editor, w.combo, w.auto_row, w.moved, w.unseen, w.was_connected,
                   i, TRUE}
  <1>1. w \in Window(S) /\ i \in S /\ TRUE \in S
    BY DEF IsWindow, Window
  <1> HIDE DEF S
  <1> QED BY <1>1 DEF IsWindow, Window

\* A window with other settings.
LEMMA ConfIs ==
  ASSUME NEW w, IsWindow(w), NEW c
  PROVE  LET v == [w EXCEPT !.conf = c]
         IN  /\ IsWindow(v)
             /\ v.combo = w.combo /\ v.moved = w.moved /\ v.unseen = w.unseen /\ v.was_connected = w.was_connected
             /\ v.conf = c
  <1> DEFINE S == {w.conf, w.row, w.editor, w.combo, w.auto_row, w.moved, w.unseen, w.was_connected,
                   c}
  <1>1. w \in Window(S) /\ c \in S
    BY DEF IsWindow, Window
  <1> HIDE DEF S
  <1> QED BY <1>1 DEF IsWindow, Window

\* A window whose lists were filled again.
LEMMA RefreshedIs ==
  ASSUME NEW w, IsWindow(w), NEW c
  PROVE  IsWindow(Refreshed(w, c)) /\ Refreshed(w, c).conf = c /\ Refreshed(w, c).moved
  <1> DEFINE S == {w.conf, w.row, w.editor, w.combo, w.auto_row, w.moved, w.unseen, w.was_connected,
                   c, 0, FirstItem(c), TRUE}
  <1>1. w \in Window(S) /\ c \in S /\ 0 \in S /\ FirstItem(c) \in S /\ TRUE \in S
    BY DEF IsWindow, Window
  <1> HIDE DEF S
  <1> QED BY <1>1 DEF IsWindow, Window, Refreshed, RowAfter

\* A window that connected.
LEMMA ConnectedIs ==
  ASSUME NEW w, IsWindow(w), NEW u
  PROVE  LET v == [w EXCEPT !.moved = FALSE, !.unseen = u]
         IN  /\ IsWindow(v)
             /\ v.conf = w.conf /\ v.combo = w.combo /\ v.was_connected = w.was_connected
             /\ ~v.moved /\ v.unseen = u
  <1> DEFINE S == {w.conf, w.row, w.editor, w.combo, w.auto_row, w.moved, w.unseen, w.was_connected,
                   u, FALSE}
  <1>1. w \in Window(S) /\ u \in S /\ FALSE \in S
    BY DEF IsWindow, Window
  <1> HIDE DEF S
  <1> QED BY <1>1 DEF IsWindow, Window

\* A window that looked at the session.
Polled(w, b, u) == [w EXCEPT !.was_connected = b, !.unseen = u]
LEMMA PolledIs ==
  ASSUME NEW w, IsWindow(w), NEW b, NEW u
  PROVE  LET v == Polled(w, b, u)
         IN  /\ IsWindow(v)
             /\ v.conf = w.conf /\ v.combo = w.combo /\ v.moved = w.moved
             /\ v.was_connected = b /\ v.unseen = u
  <1> DEFINE S == {w.conf, w.row, w.editor, w.combo, w.auto_row, w.moved, w.unseen, w.was_connected,
                   b, u}
  <1>1. w \in Window(S) /\ b \in S /\ u \in S
    BY DEF IsWindow, Window
  <1> HIDE DEF S
  <1> QED BY <1>1 DEF IsWindow, Window, Polled

\* A window opens on what was loaded, or on the starter profile of a first run.
LEMMA NewWindowIs ==
  ASSUME NEW c
  PROVE  /\ IsWindow(NewWindow(c)) /\ ~NewWindow(c).moved /\ ~NewWindow(c).was_connected
         /\ NewWindow(c).conf = c \/ NewWindow(c).conf.kind = "config"
  <1> DEFINE c2 == IF FirstRun(c) THEN WithStarter(c) ELSE c
             auto == IF c2 = c THEN Position(c, c.auto) ELSE 0
             W(e) == [conf |-> c2, row |-> 1, editor |-> e, combo |-> 1, auto_row |-> auto,
                      moved |-> FALSE, unseen |-> FALSE, was_connected |-> FALSE]
  <1>1. NewWindow(c) = IF 1 \in DOMAIN c2.profiles
                       THEN [W(Starter[1]) EXCEPT !.editor = c2.profiles[1]] ELSE W(Starter[1])
    BY DEF NewWindow, Shows
  <1>2. c2 = c \/ c2.kind = "config"
    BY DEF WithStarter, Config
  <1> HIDE DEF c2, auto
  <1>3. IsWindow(W(Starter[1])) /\ ~W(Starter[1]).moved /\ ~W(Starter[1]).was_connected
        /\ W(Starter[1]).conf = c2
    BY DEF IsWindow, Window
  <1> HIDE DEF W
  <1>4. CASE 1 \in DOMAIN c2.profiles
    BY <1>1, <1>2, <1>3, <1>4, EditorIs
  <1>5. CASE 1 \notin DOMAIN c2.profiles
    BY <1>1, <1>2, <1>3, <1>5
  <1> QED BY <1>4, <1>5

\* A handler that leaves the configuration alone, or saves it.
LEMMA HandledKeepsMemory ==
  ASSUME WindowInv, NEW k \in DOMAIN windows, NEW w, IsWindow(w), Handles(k, w),
         \/ NoSave /\ w.conf = windows[k].conf
         \/ Saves(w.conf) /\ w.conf.kind = "config"
  PROVE  WindowsOK' /\ MemoryInv'
  <1> USE DEF WindowInv
  <1>1. /\ OwnSeq(windows')
        /\ Len(windows') = Len(windows) /\ DOMAIN windows' = DOMAIN windows
        /\ DOMAIN windows = 1 .. Len(windows) /\ Len(windows) \in Nat
        /\ windows'[k] = w /\ \A i \in DOMAIN windows : i # k => windows'[i] = windows[i]
    <2>1. OwnSeq(windows) /\ Replaces(windows, k, w, windows')
      BY DEF Handles, WindowsOK, Replaces
    <2> QED BY <2>1, ReplacedIs
  <1>2. WindowsOK'
    BY <1>1 DEF WindowsOK
  <1>a. Len(windows') = Len(windows)
    BY <1>1
  <1>3. pc = "idle" /\ failed' = failed /\ windows # <<>> /\ windows' # <<>>
    BY <1>1 DEF Handles
  <1>4. Len(windows) = 1 => windows'[1] = w /\ k = 1
    BY <1>1
  <1>5. CASE NoSave /\ w.conf = windows[k].conf
    <2>1. pc' = "idle" /\ file' = file
      BY <1>3, <1>5 DEF NoSave, diskVars
    <2>2. Len(windows) = 1 /\ ~failed => Load(file) = windows'[1].conf
      BY <1>3, <1>4, <1>5 DEF MemoryInv, MemoryIsSaved
    <2> QED BY <1>a, <1>2, <1>3, <2>1, <2>2 DEF MemoryInv, MemoryIsSaved
  <1>6. CASE Saves(w.conf) /\ w.conf.kind = "config"
    <2>1. pc' = "opened" /\ saving' = w.conf
      BY <1>6 DEF Saves
    <2> QED BY <1>a, <1>2, <1>3, <1>4, <1>6, <2>1 DEF MemoryInv, MemoryIsSaved
  <1> QED BY <1>2, <1>5, <1>6

\* And what it recalls.
LEMMA HandledRecalls ==
  ASSUME WindowInv, NEW k \in DOMAIN windows, NEW w, IsWindow(w), Handles(k, w), SessionOK',
         Recalls(windows[k], vpn, remembered) => Recalls(w, vpn', remembered')
  PROVE  RememberInv'
  <1> USE DEF WindowInv
  <1>0. OwnSeq(windows) /\ Replaces(windows, k, w, windows')
    BY DEF Handles, WindowsOK, Replaces
  <1>1. /\ Len(windows') = Len(windows) /\ DOMAIN windows = 1 .. Len(windows) /\ Len(windows) \in Nat
        /\ windows'[k] = w
    BY <1>0, ReplacedIs
  <1>2. Len(windows) = 1 => k = 1
    BY <1>1
  <1> QED BY <1>1, <1>2 DEF RememberInv

\* What is the same about a window and the session stays known.
LEMMA SameRecalls ==
  ASSUME NEW v, NEW w, NEW session, NEW name, Recalls(v, session, name),
         w.moved \/ (/\ w.conf.profiles = v.conf.profiles /\ w.combo = v.combo /\ w.moved = v.moved
                     /\ w.unseen = v.unseen /\ w.was_connected = v.was_connected)
  PROVE  Recalls(w, session, name)
  BY DEF Recalls

\* The editor, the lists and the settings.
LEMMA PagesKeepWindows ==
  ASSUME WindowInv, NEW k \in DOMAIN windows,
         \/ Types(k) \/ SelectsRow(k) \/ PicksProfile(k) \/ PicksAuto(k) \/ NewProfile(k)
         \/ DeleteProfile(k) \/ SaveProfile(k) \/ SaveSettings(k)
  PROVE  WindowInv'
  <1>0. IsWindow(windows[k]) /\ UNCHANGED <<vpn, remembered>>
    BY DEF WindowInv, WindowsOK, Types, SelectsRow, PicksProfile, PicksAuto, NewProfile,
       DeleteProfile, SaveProfile, SaveSettings
  <1>1. ASSUME NEW w, IsWindow(w), Handles(k, w),
               \/ NoSave /\ w.conf = windows[k].conf
               \/ Saves(w.conf) /\ w.conf.kind = "config",
               w.moved \/ (/\ w.conf.profiles = windows[k].conf.profiles
                           /\ w.combo = windows[k].combo /\ w.moved = windows[k].moved
                           /\ w.unseen = windows[k].unseen
                           /\ w.was_connected = windows[k].was_connected)
        PROVE  WindowInv'
    <2>1. SessionOK'
      BY <1>0 DEF WindowInv, RememberInv, SessionOK
    <2>2. Recalls(windows[k], vpn, remembered) => Recalls(w, vpn', remembered')
      BY <1>0, <1>1, SameRecalls
    <2> QED BY <1>1, <2>1, <2>2, HandledKeepsMemory, HandledRecalls DEF WindowInv
  <1> DEFINE o == windows[k]
  <1>a. CASE Types(k)
    <2> PICK p \in Typed : Handles(k, [o EXCEPT !.editor = p])
      BY <1>a DEF Types
    <2> QED BY <1>0, <1>1, <1>a, EditorIs DEF Types
  <1>b. CASE SelectsRow(k)
    <2> PICK i \in DOMAIN o.conf.profiles : Handles(k, Shows([o EXCEPT !.row = i], i))
      BY <1>b DEF SelectsRow
    <2> DEFINE v == [o EXCEPT !.row = i]
               w == Shows(v, i)
    <2>1. /\ IsWindow(v) /\ v.conf = o.conf /\ v.combo = o.combo /\ v.moved = o.moved
          /\ v.unseen = o.unseen /\ v.was_connected = o.was_connected
      BY <1>0, RowIs
    <2>2. w = IF i \in DOMAIN v.conf.profiles THEN [v EXCEPT !.editor = v.conf.profiles[i]] ELSE v
      BY DEF Shows
    <2> HIDE DEF v
    <2>3. /\ IsWindow(w) /\ w.conf = o.conf /\ w.combo = o.combo /\ w.moved = o.moved
          /\ w.unseen = o.unseen /\ w.was_connected = o.was_connected
      BY <2>1, <2>2, EditorIs, SMTT(30)
    <2>4. Handles(k, w)
      BY DEF v
    <2> HIDE DEF w
    <2> QED BY <1>1, <1>b, <2>3, <2>4 DEF SelectsRow
  <1>c. CASE PicksProfile(k)
    <2> PICK i \in DOMAIN o.conf.profiles : Handles(k, [o EXCEPT !.combo = i, !.moved = TRUE])
      BY <1>c DEF PicksProfile
    <2> QED BY <1>0, <1>1, <1>c, MovedIs DEF PicksProfile
  <1>d. CASE PicksAuto(k)
    <2> PICK i \in 0 .. Len(o.conf.profiles) : Handles(k, [o EXCEPT !.auto_row = i])
      BY <1>d DEF PicksAuto
    <2> QED BY <1>0, <1>1, <1>d, AutoRowIs DEF PicksAuto
  <1>e. ASSUME NEW ps, NEW auto, Handles(k, Refreshed(o, Config(ps, auto))), Saves(Config(ps, auto))
        PROVE  WindowInv'
    <2> DEFINE c == Config(ps, auto)
    <2>1. c.kind = "config"
      BY DEF Config
    <2>2. IsWindow(Refreshed(o, c)) /\ Refreshed(o, c).conf = c /\ Refreshed(o, c).moved
      BY <1>0, RefreshedIs
    <2> QED BY <1>1, <1>e, <2>1, <2>2
  <1>f. CASE NewProfile(k)
    BY <1>e, <1>f DEF NewProfile, WithStarter
  <1>g. CASE DeleteProfile(k)
    BY <1>e, <1>g DEF DeleteProfile, Remaining
  <1>h. CASE SaveProfile(k)
    <2>1. Handles(k, Refreshed(o, Config([o.conf.profiles EXCEPT ![Index(o)] = o.editor], o.conf.auto)))
          /\ Saves(Config([o.conf.profiles EXCEPT ![Index(o)] = o.editor], o.conf.auto))
      BY <1>h DEF SaveProfile
    <2> QED BY <1>e, <2>1
  <1>i. CASE SaveSettings(k)
    <2> DEFINE name == IF o.auto_row = 0 THEN None ELSE o.conf.profiles[o.auto_row].name
               c == Config(o.conf.profiles, name)
               w == [o EXCEPT !.conf = c]
    <2>1. Handles(k, w) /\ Saves(c)
      BY <1>i DEF SaveSettings
    <2>2. c.kind = "config" /\ c.profiles = o.conf.profiles
      BY DEF Config
    <2> HIDE DEF c
    <2>3. /\ IsWindow(w) /\ w.conf = c /\ w.combo = o.combo /\ w.moved = o.moved
          /\ w.unseen = o.unseen /\ w.was_connected = o.was_connected
      BY <1>0, ConfIs
    <2> QED BY <1>1, <2>1, <2>2, <2>3
  <1> QED BY <1>a, <1>b, <1>c, <1>d, <1>f, <1>g, <1>h, <1>i

\* A session that was just connected is one, and so is none.
LEMMA SessionIs ==
  /\ \A p, from : /\ Connecting(p, from) \in [state : {"connecting"}, name : {p.name}, from : {from}]
                  /\ Connecting(p, from).state = "connecting" /\ Connecting(p, from).name = p.name
                  /\ Connecting(p, from).from = from
  /\ Off \in [state : {"off"}, name : {None}, from : {"nobody"}]
  /\ Off.state = "off" /\ Off.name = None /\ Off.from = "nobody"
  BY DEF Connecting, Off

\* The Connect button connects what the combo box shows.
LEMMA ToggleKeepsWindows ==
  ASSUME WindowInv, NEW k \in DOMAIN windows, Toggles(k)
  PROVE  WindowInv'
  <1> DEFINE o == windows[k]
             p == o.conf.profiles[o.combo]
  <1>0. IsWindow(o) /\ NoSave /\ UNCHANGED remembered
    BY DEF WindowInv, WindowsOK, Toggles
  <1>1. CASE ~IsActive /\ o.combo # 0 /\ p.host # ""
    <2> DEFINE u == o.was_connected
               w == [o EXCEPT !.moved = FALSE, !.unseen = u]
    <2>1. Handles(k, w) /\ vpn' = Connecting(p, "window")
      BY <1>1 DEF Toggles
    <2> HIDE DEF u
    <2>2. IsWindow(w) /\ w.conf = o.conf /\ w.combo = o.combo /\ w.was_connected = o.was_connected
          /\ ~w.moved /\ w.unseen = u
      BY <1>0, ConnectedIs
    <2> HIDE DEF w, p
    <2>3. SessionOK'
      BY <2>1, SessionIs DEF SessionOK
    <2>4. Recalls(w, vpn', remembered')
      <3>1. vpn'.state = "connecting" /\ vpn'.name = p.name
        BY <2>1, SessionIs
      <3>2. w.combo # 0 /\ w.conf.profiles[w.combo].name = p.name
        BY <1>1, <2>2 DEF p
      <3>3. ~w.unseen => ~w.was_connected
        BY <2>2, Zenon DEF u
      <3> QED BY <3>1, <3>2, <3>3 DEF Recalls
    <2> QED BY <1>0, <2>1, <2>2, <2>3, <2>4, HandledKeepsMemory, HandledRecalls DEF WindowInv
  <1>2. CASE ~(~IsActive /\ o.combo # 0 /\ p.host # "")
    <2>1. Handles(k, o) /\ vpn' = Off
      BY <1>2 DEF Toggles
    <2>2. SessionOK'
      BY <2>1, SessionIs DEF SessionOK
    <2>3. Recalls(o, vpn', remembered')
      BY <2>1, SessionIs DEF Recalls
    <2> QED BY <1>0, <2>1, <2>2, <2>3, HandledKeepsMemory, HandledRecalls DEF WindowInv
  <1> QED BY <1>1, <1>2

\* poll remembers the profile that the combo box shows as the session comes up.
LEMMA PollKeepsWindows ==
  ASSUME WindowInv, NEW k \in DOMAIN windows, Polls(k)
  PROVE  WindowInv'
  <1> DEFINE o == windows[k]
             i == IF remembered = None THEN 0 ELSE Position(o.conf, remembered)
             Now(found, request) ==
               IF request = "disconnect" THEN Off
               ELSE IF request = "quick connect" /\ i # 0 /\ found.state = "off"
                    THEN Connecting(o.conf.profiles[i], "tray") ELSE found
  <1>1. PICK found \in Found, request \in {"none", "disconnect", "quick connect"} :
          LET now == Now(found, request)
              up == now.state = "up"
          IN  /\ now # vpn \/ up # o.was_connected
              /\ Handles(k, [o EXCEPT !.was_connected = up, !.unseen = up /\ o.unseen])
              /\ vpn' = now
              /\ remembered' = IF up /\ ~o.was_connected /\ o.combo # 0
                               THEN o.conf.profiles[o.combo].name ELSE remembered
              /\ NoSave
    BY Zenon DEF Polls
  <1> DEFINE now == Now(found, request)
             up == now.state = "up"
             u == up /\ o.unseen
             w == Polled(o, up, u)
  <1>2. /\ Handles(k, w) /\ vpn' = now /\ NoSave
        /\ remembered' = IF up /\ ~o.was_connected /\ o.combo # 0
                         THEN o.conf.profiles[o.combo].name ELSE remembered
    BY <1>1 DEF Polled
  <1>3. now \in {found, Off, Connecting(o.conf.profiles[i], "tray")}
    OBVIOUS
  <1>4. /\ now.state \in {"off", "connecting", "up"}
        /\ now \in [state : {now.state}, name : {now.name}, from : {now.from}]
        /\ now.from = "window" =>
             vpn.from = "window" /\ now.name = vpn.name
             /\ (now.state = vpn.state \/ (now.state = "up" /\ vpn.state # "off"))
    <2>1. SessionOK
      BY DEF WindowInv, RememberInv
    <2>2. found \in {vpn, Off} \/ (found = [vpn EXCEPT !.state = "up"] /\ vpn.state # "off")
      BY DEF Found, IsActive
    <2>3. CASE now = vpn
      BY <2>1, <2>3 DEF SessionOK
    <2>4. CASE now = [vpn EXCEPT !.state = "up"] /\ vpn.state # "off"
      BY <2>1, <2>4 DEF SessionOK
    <2> HIDE DEF now, i, o
    <2>5. CASE now = Off
      BY <2>5, SessionIs
    <2>6. CASE now = Connecting(o.conf.profiles[i], "tray")
      <3> DEFINE p == o.conf.profiles[i]
      <3> HIDE DEF p
      <3>1. now \in [state : {"connecting"}, name : {p.name}, from : {"tray"}]
        BY <2>6, SessionIs DEF p
      <3> QED BY <3>1
    <2> QED BY <1>3, <2>2, <2>3, <2>4, <2>5, <2>6
  <1> HIDE DEF now
  <1>5. up \in BOOLEAN
    OBVIOUS
  <1> HIDE DEF up, u
  <1>6. IsWindow(w) /\ w.conf = o.conf /\ w.combo = o.combo /\ w.moved = o.moved
        /\ w.was_connected = up /\ w.unseen = u
    <2>1. IsWindow(o)
      BY DEF WindowInv, WindowsOK
    <2> HIDE DEF o
    <2>2. \A b, c : LET v == Polled(o, b, c)
                    IN  /\ IsWindow(v)
                        /\ v.conf = o.conf /\ v.combo = o.combo /\ v.moved = o.moved
                        /\ v.was_connected = b /\ v.unseen = c
      BY <2>1, PolledIs
    <2>3. IsWindow(w) /\ w.conf = o.conf /\ w.combo = o.combo /\ w.moved = o.moved
      BY <2>2
    <2>4. w.was_connected = up
      BY <2>2
    <2>5. w.unseen = u
      BY <2>2
    <2> QED BY <2>3, <2>4, <2>5
  <1> HIDE DEF w
  <1>7. SessionOK'
    BY <1>2, <1>4 DEF SessionOK
  <1>8. ASSUME Recalls(o, vpn, remembered), now.from = "window", ~o.moved
        PROVE  /\ now.state # "off" => o.combo # 0 /\ o.conf.profiles[o.combo].name = now.name
               /\ now.state = "connecting" => ~up
               /\ now.state = "up" /\ ~u /\ up => remembered' = now.name
    <2>1. now.state # "off" => o.combo # 0 /\ o.conf.profiles[o.combo].name = now.name
      BY <1>4, <1>8 DEF Recalls
    <2>2. now.state = "connecting" => ~up
      BY DEF up
    <2>3. ASSUME now.state = "up", ~u, up PROVE remembered' = now.name
      <3>1. ~o.unseen
        BY <2>3 DEF u
      <3>2. CASE ~o.was_connected
        BY <1>2, <2>1, <2>3, <3>2
      <3>3. CASE o.was_connected
        <4>1. remembered' = remembered /\ vpn.state # "connecting" /\ vpn.state # "off"
          BY <1>2, <1>4, <1>8, <2>3, <3>1, <3>3 DEF Recalls
        <4>2. vpn.state = "up"
          BY <4>1 DEF WindowInv, RememberInv, SessionOK
        <4> QED BY <1>4, <1>8, <3>1, <3>3, <4>1, <4>2 DEF Recalls
      <3> QED BY <3>2, <3>3
    <2> QED BY <2>1, <2>2, <2>3
  <1>9. Recalls(o, vpn, remembered) => Recalls(w, vpn', remembered')
    BY <1>2, <1>6, <1>8 DEF Recalls
  <1> QED BY <1>2, <1>6, <1>7, <1>9, HandledKeepsMemory, HandledRecalls DEF WindowInv

\* The steps of save() bring what the window shows to the disk, or fail.
LEMMA SaveStepKeepsWindows ==
  ASSUME SaveInv, WindowInv, Writes \/ Syncs \/ Renames \/ SaveFails \/ WritesBack
  PROVE  WindowInv'
  <1> USE DEF WindowInv, uiVars
  <1>1. UNCHANGED <<windows, vpn, remembered>>
    BY DEF Writes, Syncs, Renames, SaveFails, WritesBack
  <1>2. WindowsOK' /\ RememberInv'
    BY <1>1 DEF WindowsOK, RememberInv, SessionOK
  <1>3. MemoryInv'
    <2> USE DEF MemoryInv, MemoryIsSaved
    <2>1. CASE Writes \/ Syncs
      BY <1>1, <2>1 DEF Writes, Syncs
    <2>2. CASE Renames
      <3>1. pc = "synced" /\ tmp = saving /\ file' = tmp /\ pc' = "idle" /\ failed' = failed
        BY <2>2 DEF Renames, MayReplace, SaveInv
      <3>2. saving.kind = "config" => Load(file') = saving
        BY <3>1 DEF Load
      <3> QED BY <1>1, <3>1, <3>2
    <2>3. CASE SaveFails
      BY <1>1, <2>3 DEF SaveFails, diskVars
    <2>4. CASE WritesBack
      BY <1>1, <2>4 DEF WritesBack
    <2> QED BY <2>1, <2>2, <2>3, <2>4
  <1> QED BY <1>2, <1>3

\* A window that opens shows what the file holds, or saves the starter profile.
LEMMA OpensWindowKeepsWindows ==
  ASSUME WindowInv, NEW c, pc = "idle", OpensWindow(c), failed' = failed,
         windows = <<>> => (c = Load(file) /\ remembered' = remembered)
  PROVE  WindowInv'
  <1> USE DEF WindowInv
  <1> DEFINE w == NewWindow(c)
             i == IF w.conf.auto = None THEN 0 ELSE Position(w.conf, w.conf.auto)
             v == IF i = 0 THEN w ELSE [w EXCEPT !.combo = ComboForAuto(w, i)]
             p == w.conf.profiles[i]
  <1>1. /\ windows' = Append(windows, v)
        /\ vpn' = IF i = 0 THEN vpn ELSE Connecting(p, "window")
        /\ IF w.conf = c THEN NoSave ELSE Saves(w.conf)
    BY DEF OpensWindow
  <1>2. /\ IsWindow(w) /\ ~w.moved /\ ~w.was_connected
        /\ w.conf = c \/ w.conf.kind = "config"
    BY NewWindowIs
  <1> HIDE DEF w, i
  <1>3. /\ IsWindow(v) /\ v.conf = w.conf /\ ~v.was_connected
        /\ i # 0 => v.combo = i
    <2>1. CASE i = 0
      BY <1>2, <2>1
    <2>2. CASE i # 0
      BY <1>2, <2>2, ComboIs, SMTT(30) DEF ComboForAuto
    <2> QED BY <2>1, <2>2
  <1> HIDE DEF v, p
  <1>4. /\ OwnSeq(windows') /\ Len(windows') = Len(windows) + 1 /\ Len(windows) \in Nat
        /\ DOMAIN windows = 1 .. Len(windows) /\ DOMAIN windows' = 1 .. Len(windows) + 1
        /\ \A k \in 1 .. Len(windows) : windows'[k] = windows[k]
        /\ windows'[Len(windows) + 1] = v
    <2>1. OwnSeq(windows)
      BY DEF WindowsOK
    <2> QED BY <1>1, <2>1, AppendIs
  <1>5. WindowsOK'
    <2>1. \A k \in DOMAIN windows' : k \in DOMAIN windows \/ k = Len(windows) + 1
      BY <1>4
    <2> QED BY <1>3, <1>4, <2>1 DEF WindowsOK
  <1>6. windows' # <<>>
    BY <1>4
  <1>7. Len(windows') = 1 => windows = <<>> /\ windows'[1] = v
    <2>1. ASSUME Len(windows') = 1 PROVE Len(windows) = 0
      BY <1>4, <2>1
    <2>2. Len(windows) = 0 => windows = <<>>
      BY DEF WindowsOK, OwnSeq
    <2> QED BY <1>4, <2>1, <2>2
  <1>8. MemoryInv'
    <2>1. CASE w.conf = c
      <3>1. pc' = "idle" /\ file' = file
        BY <1>1, <2>1 DEF NoSave, diskVars
      <3> QED BY <1>3, <1>6, <1>7, <2>1, <3>1 DEF MemoryInv, MemoryIsSaved
    <2>2. CASE w.conf # c
      <3>1. pc' = "opened" /\ saving' = w.conf /\ w.conf.kind = "config"
        BY <1>1, <1>2, <2>2 DEF Saves
      <3> QED BY <1>3, <1>6, <1>7, <3>1 DEF MemoryInv, MemoryIsSaved
    <2> QED BY <2>1, <2>2
  <1>9. SessionOK'
    <2>1. CASE i = 0
      BY <1>1, <2>1 DEF RememberInv, SessionOK
    <2>2. CASE i # 0
      BY <1>1, <2>2, SessionIs DEF SessionOK
    <2> QED BY <2>1, <2>2
  <1>10. ASSUME windows = <<>> PROVE Recalls(v, vpn', remembered')
    <2>1. CASE i = 0
      <3>1. vpn' = Off
        BY <1>1, <1>10, <2>1 DEF MemoryInv
      <3> QED BY <3>1, SessionIs DEF Recalls
    <2>2. CASE i # 0
      <3>1. vpn'.state = "connecting" /\ vpn'.name = p.name
        BY <1>1, <2>2, SessionIs
      <3>2. v.combo = i /\ v.conf.profiles[v.combo].name = p.name
        BY <1>3, <2>2 DEF p
      <3> QED BY <1>3, <2>2, <3>1, <3>2 DEF Recalls
    <2> QED BY <2>1, <2>2
  <1> QED BY <1>5, <1>7, <1>8, <1>9, <1>10 DEF RememberInv

\* A program that is not running shows and remembers nothing.
LEMMA NoWindowIsFine ==
  ASSUME windows = <<>>, vpn = Off, pc = "idle"
  PROVE  WindowInv
  <1>1. OwnSeq(windows) /\ Len(windows) = 0 /\ DOMAIN windows = {}
    BY DEF OwnSeq
  <1> QED BY <1>1, SessionIs
          DEF WindowInv, WindowsOK, MemoryInv, MemoryIsSaved, RememberInv, SessionOK

\* Start-up, a second launch and the end.
LEMMA ProcessKeepsWindows ==
  ASSUME WindowInv, Starts \/ ActivatedAgain \/ Dies \/ LosesPower
  PROVE  WindowInv'
  <1>1. CASE Starts
    <2>1. windows = <<>> /\ OpensWindow(loaded') /\ loaded' = Load(file)
          /\ UNCHANGED <<remembered, failed>>
      BY <1>1 DEF Starts
    <2>2. pc = "idle"
      BY <2>1 DEF WindowInv, MemoryInv
    <2> QED BY <2>1, <2>2, OpensWindowKeepsWindows
  <1>2. CASE ActivatedAgain
    BY <1>2, OpensWindowKeepsWindows DEF ActivatedAgain
  <1>3. CASE Dies \/ LosesPower
    <2>1. windows' = <<>> /\ vpn' = Off /\ pc' = "idle"
      BY <1>3 DEF Dies, LosesPower, Gone
    <2>2. OwnSeq(windows') /\ Len(windows') = 0 /\ DOMAIN windows' = {}
      BY <2>1 DEF OwnSeq
    <2> QED BY <2>1, <2>2, SessionIs
            DEF WindowInv, WindowsOK, MemoryInv, MemoryIsSaved, RememberInv, SessionOK
  <1> QED BY <1>1, <1>2, <1>3

\* Every step of the program keeps what its windows know.
LEMMA WindowInvHolds == ConfigSpec => []WindowInv
  <1>1. ConfigInit => WindowInv
    BY NoWindowIsFine DEF ConfigInit
  <1>2. SaveInv /\ WindowInv /\ [ConfigNext]_configVars => WindowInv'
    <2> SUFFICES ASSUME SaveInv, WindowInv, [ConfigNext]_configVars
                 PROVE  WindowInv'
      OBVIOUS
    <2>1. CASE Starts \/ ActivatedAgain \/ Dies \/ LosesPower
      BY <2>1, ProcessKeepsWindows
    <2>2. CASE Writes \/ Syncs \/ Renames \/ SaveFails \/ WritesBack
      BY <2>2, SaveStepKeepsWindows
    <2>3. CASE UNCHANGED configVars
      BY <2>3 DEF configVars, uiVars, diskVars, WindowInv, WindowsOK, MemoryInv, MemoryIsSaved,
         RememberInv, SessionOK
    <2> QED BY <2>1, <2>2, <2>3, PagesKeepWindows, ToggleKeepsWindows, PollKeepsWindows
            DEF ConfigNext
  <1> QED BY <1>1, <1>2, SaveInvHolds, PTL DEF ConfigSpec

\* What the only window shows is what the next start will load: every handler that
\* changes the configuration saved it (save_current_profile and the settings handlers of
\* app.rs), whatever was typed, selected or deleted before.
THEOREM WhatIsSeenIsSaved == ConfigSpec => []MemoryIsSaved
  <1>1. WindowInv => MemoryIsSaved
    BY DEF WindowInv, MemoryInv
  <1> QED BY <1>1, WindowInvHolds, PTL

\* Quick Connect reconnects what the only window had connected (poll in app.rs): the name
\* it remembers is the session's, unless the box was moved meanwhile or the reconnect
\* fell between two polls.
THEOREM QuickConnectRecalls == ConfigSpec => []RememberedIsConnected
  <1>1. WindowInv => RememberedIsConnected
    BY DEF WindowInv, RememberInv, SessionOK, RememberedIsConnected, Recalls
  <1> QED BY <1>1, WindowInvHolds, PTL
=============================================================================
