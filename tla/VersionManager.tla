---------------------------- MODULE VersionManager ----------------------------
(***************************************************************************)
(* policy-gateway-vm: install, hot-update, snapshot, rollback and the      *)
(* automatic recovery, one invocation at a time.  A command is a short     *)
(* program of file operations; a copy truncates its target first, and the  *)
(* process may die, or an operation fail, at each of them.  sha256_file    *)
(* reads a file to its end and compares the hash with nothing, so a torn   *)
(* file passes it.                                                         *)
(***************************************************************************)
EXTENDS Sequences

CONSTANTS
  Version,       \* builds of the gateway
  UserSnapshot,  \* snapshot names an operator chooses
  Absent,        \* the content of a file that is not there
  Torn           \* the content of a file whose writer died or failed

\* Names the program uses itself.
OwnSnapshot == {"default", "last-good", "fresh-install", "pre-install", "pre-rollback"}

ASSUME VersionManagerAssumption ==
  /\ Absent \notin Version
  /\ Torn \notin Version
  /\ Absent # Torn
  /\ UserSnapshot \cap OwnSnapshot = {}

Snapshot == OwnSnapshot \cup UserSnapshot
Content  == Version \cup {Absent, Torn}

------------------------------------------------------------------------------
(* Files *)

InDir(dir, name) == [dir |-> dir, name |-> name]

Program     == InDir("/usr/sbin", "policy-gateway")
InstTmp     == InDir("/usr/sbin", "policy-gateway.inst.tmp")
BinTmp      == InDir("/usr/sbin", "policy-gateway.bin.tmp")
Source      == InDir("/tmp", "source")
Snap(id)    == InDir(id, "main.bin")
SnapTmp(id) == InDir(id, ".main.bin.tmp")

File == {Program, InstTmp, BinTmp, Source}
          \cup {Snap(id) : id \in Snapshot} \cup {SnapTmp(id) : id \in Snapshot}

VARIABLES
  disk,       \* what each file holds
  watchdog,   \* the watchdog file exists; it lives in /tmp
  hotUpdate,  \* the build hot-update.json names
  todo,       \* what is left of the running command
  epilogue,   \* what it does even after it has given up
  copying,    \* its first operation is a copy that has truncated its target
  running,    \* the command, the snapshot it names, and what the file it
              \* takes the program from held when it started
  failed      \* one of its operations has failed

jobVars == <<todo, epilogue, copying, running, failed>>
vars == <<disk, watchdog, hotUpdate, todo, epilogue, copying, running, failed>>

------------------------------------------------------------------------------
(* Operations and commands *)

\* What follows the failure of a copy: nothing ("let _ ="), the end of the
\* command, or the end of the command after the target has been removed.
OnError == {"ignore", "give up", "clean up"}

Copy(from, to, onError) ==
  [op |-> "copy", from |-> from, to |-> to, onError |-> onError]
Rename(from, to) ==
  [op |-> "rename", from |-> from, to |-> to, onError |-> "give up"]
TouchWatchdog ==
  [op |-> "touch", from |-> Source, to |-> Source, onError |-> "ignore"]
RecordUpdate ==
  [op |-> "record", from |-> Source, to |-> Source, onError |-> "ignore"]

\* The backup both install and rollback make of a program that is there.
Backup(id) ==
  IF disk[Program] = Absent THEN << >> ELSE <<Copy(Program, Snap(id), "ignore")>>

\* Mutant: the backup is made when the new program is in place.
InstallStepsLateBackup ==
  <<Copy(Source, InstTmp, "clean up"), Rename(InstTmp, Program)>>
  \o Backup("pre-install")
  \o <<Copy(Program, Snap("fresh-install"), "ignore"),
       Copy(Program, Snap("last-good"), "ignore"),
       TouchWatchdog>>

InstallSteps ==
  Backup("pre-install")
  \o <<Copy(Source, InstTmp, "clean up"),
       Rename(InstTmp, Program),
       Copy(Program, Snap("fresh-install"), "ignore"),
       Copy(Program, Snap("last-good"), "ignore"),
       TouchWatchdog>>

\* Mutant: the snapshot is written in place.
SnapshotStepsInPlace(id) ==
  <<Copy(Program, Snap(id), "clean up")>>
  \o IF id \in {"default", "last-good"}
       THEN <<Copy(Snap(id), SnapTmp("last-good"), "give up"),
              Rename(SnapTmp("last-good"), Snap("last-good"))>>
       ELSE << >>

SnapshotSteps(id) ==
  <<Copy(Program, SnapTmp(id), "clean up"), Rename(SnapTmp(id), Snap(id))>>
  \o IF id \in {"default", "last-good"}
       THEN <<Copy(Snap(id), SnapTmp("last-good"), "give up"),
              Rename(SnapTmp("last-good"), Snap("last-good"))>>
       ELSE << >>

\* Mutant: a failed copy does not stop the rollback.
RollbackStepsUnchecked(id) ==
  Backup("pre-rollback")
  \o <<Copy(Snap(id), BinTmp, "ignore"), Rename(BinTmp, Program), TouchWatchdog>>

RollbackSteps(id) ==
  Backup("pre-rollback")
  \o <<Copy(Snap(id), BinTmp, "clean up"), Rename(BinTmp, Program), TouchWatchdog>>

\* restore() neither makes a backup nor renews the watchdog.
RecoverSteps == <<Copy(Snap("last-good"), BinTmp, "give up"), Rename(BinTmp, Program)>>

------------------------------------------------------------------------------
(* Starting a command *)

Idle == todo = << >>

Begin(kind, id, goal, steps, last) ==
  /\ Idle
  /\ todo'     = steps \o last
  /\ epilogue' = last
  /\ running'  = [kind |-> kind, id |-> id, goal |-> goal]
  /\ failed'   = FALSE
  /\ UNCHANGED <<watchdog, hotUpdate, copying>>

\* The operator brings the file; hot-update downloads it with curl.  A command
\* whose source is missing changes nothing and is left out.
Install(v) ==
  /\ Begin("install", "none", v, InstallSteps, << >>)
  /\ disk' = [disk EXCEPT ![Source] = v]

HotUpdate(v) ==
  /\ Begin("hot-update", "none", v, InstallSteps, <<RecordUpdate>>)
  /\ disk' = [disk EXCEPT ![Source] = v]

TakeSnapshot(id) ==
  /\ disk[Program] # Absent
  /\ Begin("snapshot", id, disk[Program], SnapshotSteps(id), << >>)
  /\ UNCHANGED disk

Rollback(id) ==
  /\ disk[Snap(id)] # Absent
  /\ Begin("rollback", id, disk[Snap(id)], RollbackSteps(id), << >>)
  /\ UNCHANGED disk

\* Run without arguments.
AutoRecover ==
  /\ disk[Program] = Absent \/ ~watchdog
  /\ disk[Snap("last-good")] # Absent
  /\ Begin("recover", "last-good", disk[Snap("last-good")], RecoverSteps, << >>)
  /\ UNCHANGED disk

------------------------------------------------------------------------------
(* Running it *)

Now == Head(todo)

Doing(op) == ~Idle /\ Now.op = op

Continue ==
  /\ todo' = Tail(todo)
  /\ copying' = FALSE
  /\ UNCHANGED <<epilogue, running>>

\* File::create truncates the target.
OpenCopy ==
  /\ Doing("copy") /\ ~copying
  /\ disk[Now.from] # Absent
  /\ disk' = [disk EXCEPT ![Now.to] = Torn]
  /\ copying' = TRUE
  /\ UNCHANGED <<watchdog, hotUpdate, todo, epilogue, running, failed>>

FinishCopy ==
  /\ copying
  /\ disk' = [disk EXCEPT ![Now.to] = disk[Now.from]]
  /\ Continue
  /\ UNCHANGED <<watchdog, hotUpdate, failed>>

\* Before the target is opened or while it is written (no space left).  The
\* clean-up may fail as well.
FailCopy ==
  /\ Doing("copy")
  /\ \/ UNCHANGED disk
     \/ Now.onError = "clean up" /\ disk' = [disk EXCEPT ![Now.to] = Absent]
  /\ todo' = IF Now.onError = "ignore" THEN Tail(todo) ELSE epilogue
  /\ copying' = FALSE
  /\ failed' = TRUE
  /\ UNCHANGED <<watchdog, hotUpdate, epilogue, running>>

DoRename ==
  /\ Doing("rename")
  /\ disk' = [disk EXCEPT ![Now.to] = disk[Now.from], ![Now.from] = Absent]
  /\ Continue
  /\ UNCHANGED <<watchdog, hotUpdate, failed>>

FailRename ==
  /\ Doing("rename")
  /\ todo' = epilogue
  /\ failed' = TRUE
  /\ UNCHANGED <<disk, watchdog, hotUpdate, epilogue, copying, running>>

DoTouch ==
  /\ Doing("touch")
  /\ watchdog' \in {TRUE, watchdog}
  /\ Continue
  /\ UNCHANGED <<disk, hotUpdate, failed>>

\* hot-update.json is written and the download removed, whatever install did.
DoRecord ==
  /\ Doing("record")
  /\ hotUpdate' \in {disk[Source], hotUpdate}
  /\ disk' = [disk EXCEPT ![Source] = Absent]
  /\ Continue
  /\ UNCHANGED <<watchdog, failed>>

------------------------------------------------------------------------------
(* The world around it *)

Stopped ==
  /\ todo' = << >>
  /\ epilogue' = << >>
  /\ copying' = FALSE
  /\ UNCHANGED <<hotUpdate, running, failed>>

Kill == ~Idle /\ Stopped /\ UNCHANGED <<disk, watchdog>>

\* Power loss or reboot: /tmp is empty afterwards.
Reboot ==
  /\ Stopped
  /\ disk' = [disk EXCEPT ![Source] = Absent]
  /\ watchdog' = FALSE

\* A firmware upgrade drops the program and keeps the backups.
LoseProgram ==
  /\ Idle
  /\ disk' = [disk EXCEPT ![Program] = Absent]
  /\ UNCHANGED <<watchdog, hotUpdate, jobVars>>

Init ==
  /\ disk = [f \in File |-> Absent]
  /\ watchdog = FALSE
  /\ hotUpdate = Absent
  /\ todo = << >>
  /\ epilogue = << >>
  /\ copying = FALSE
  /\ running = [kind |-> "none", id |-> "none", goal |-> Absent]
  /\ failed = FALSE

Command ==
  \/ \E v \in Version : Install(v) \/ HotUpdate(v)
  \/ \E id \in Snapshot : TakeSnapshot(id) \/ Rollback(id)
  \/ AutoRecover

Operate == OpenCopy \/ FinishCopy \/ DoRename \/ DoTouch \/ DoRecord

Fault == FailCopy \/ FailRename \/ Kill \/ LoseProgram

Next == Command \/ Operate \/ Fault \/ Reboot

Spec == Init /\ [][Next]_vars
------------------------------------------------------------------------------
(* Properties *)

OperationType == [op : {"copy", "rename", "touch", "record"}, from : File, to : File,
                  onError : OnError]

\* Types, and the shape of a job: only a running copy has truncated a file, and
\* a copy that is running still has its source.
TypeOK ==
  /\ disk \in [File -> Content]
  /\ watchdog \in BOOLEAN
  /\ hotUpdate \in Content
  /\ todo \in Seq(OperationType)
  /\ epilogue \in {<< >>, <<RecordUpdate>>}
  /\ copying \in BOOLEAN
  /\ copying => Doing("copy") /\ disk[Now.from] # Absent
  /\ running \in [kind : {"none", "install", "hot-update", "snapshot", "rollback",
                          "recover"},
                  id : Snapshot \cup {"none"}, goal : Content]
  /\ failed \in BOOLEAN

\* A file that is replaced by renaming a temporary one - the program, and the
\* snapshots an operator names - is torn only as a copy of a file that was torn
\* before: no death, failure or leftover of an earlier command tears it.
TornOnlyFromTorn ==
  [][/\ disk'[Program] = Torn /\ disk[Program] # Torn =>
          \E id \in Snapshot : disk[Snap(id)] = Torn
     /\ \A id \in UserSnapshot \cup {"default"} :
          disk'[Snap(id)] = Torn /\ disk[Snap(id)] # Torn => disk[Program] = Torn]_vars

\* When a command puts a program in place, it is the one the file named by the
\* command held when the command started, whatever ran before and whatever
\* leftovers it found - except for a rollback to pre-rollback.
ProgramIsTheGoal ==
  [][~Idle /\ disk'[Program] # disk[Program] /\ running.id # "pre-rollback"
       => disk'[Program] = running.goal]_vars

\* An install or a rollback replaces a program only when a backup of that very
\* program is there, unless making it failed.
BackupBeforeReplace ==
  [][/\ ~Idle /\ running.kind \in {"install", "hot-update", "rollback"} /\ ~failed
     /\ disk[Program] # Absent /\ disk'[Program] # disk[Program]
     => \E id \in {"pre-install", "pre-rollback"} : disk[Snap(id)] = disk[Program]]_vars
==============================================================================
