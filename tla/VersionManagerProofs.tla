------------------------- MODULE VersionManagerProofs -------------------------
(***************************************************************************)
(* Theorems about VersionManager, for any builds and snapshot names and    *)
(* any number of commands, failures, kills and reboots.                    *)
(***************************************************************************)
EXTENDS VersionManager, Integers, SequenceTheorems, TLAPS

------------------------------------------------------------------------------
(* What a command r is made of                                               *)
(*                                                                           *)
(* A command that replaces the program saves a backup, fetches the new       *)
(* program under a temporary name, and renames it; what it does after that   *)
(* leaves the program alone.                                                 *)

Installing(r) == r.kind \in {"install", "hot-update"}
Replacing(r)  == r.kind \in {"install", "hot-update", "rollback", "recover"}

Origin(r)   == IF Installing(r) THEN Source ELSE Snap(r.id)
Tmp(r)      == IF Installing(r) THEN InstTmp ELSE BinTmp
BackupOf(r) == Snap(IF Installing(r) THEN "pre-install" ELSE "pre-rollback")

Save(r)    == Copy(Program, BackupOf(r), "ignore")
Fetch(r)   == Copy(Origin(r), Tmp(r), IF r.kind = "recover" THEN "give up" ELSE "clean up")
Replace(r) == Rename(Tmp(r), Program)
After      == {Copy(Program, Snap("fresh-install"), "ignore"),
               Copy(Program, Snap("last-good"), "ignore"),
               TouchWatchdog, RecordUpdate}

\* A snapshot takes a copy and names it, and may do the same for last-good.
Take(r)      == Copy(Program, SnapTmp(r.id), "clean up")
Name(r)      == Rename(SnapTmp(r.id), Snap(r.id))
TakeGood(r)  == Copy(Snap(r.id), SnapTmp("last-good"), "give up")
NameGood     == Rename(SnapTmp("last-good"), Snap("last-good"))

Operations(r) ==
  IF Replacing(r) THEN {Save(r), Fetch(r), Replace(r)} \cup After
  ELSE {Take(r), Name(r), TakeGood(r), NameGood}

\* The operation b may come next after a.
Follows(r, a, b) ==
  IF Replacing(r)
    THEN \/ a = Save(r) /\ b = Fetch(r)
         \/ a = Fetch(r) /\ b = Replace(r)
         \/ a \in {Replace(r)} \cup After /\ b \in After
    ELSE b = Name(r) => a = Take(r) \/ r.id = "last-good"

InOrder(r, t) ==
  /\ t \in Seq(Operations(r))
  /\ \A i \in 1..(Len(t) - 1) : Follows(r, t[i], t[i + 1])

------------------------------------------------------------------------------
(* The inductive invariant *)

\* What is left of a command is in order, and what it does after giving up.
JobInv ==
  /\ InOrder(running, todo)
  /\ epilogue # << >> => running.kind = "hot-update"
  /\ running.kind \in {"rollback", "recover", "snapshot"} => running.id \in Snapshot
  /\ running.kind = "recover" => running.id = "last-good"
  /\ running.kind = "none" => Idle
  /\ Installing(running) => running.goal \in Version /\ running.id = "none"

\* The new program is where it comes from until it is put in place, unless the
\* backup of a rollback has overwritten it, and it is complete once fetched.
GoalAt(r, o, d) ==
  /\ o \in {Save(r), Fetch(r), Replace(r)} /\ r.id # "pre-rollback" => d[Origin(r)] = r.goal
  /\ o = Replace(r) => d[Tmp(r)] = d[Origin(r)]

\* The program is saved before the new one is fetched.
BackupAt(r, o, d, f) ==
  o \in {Fetch(r), Replace(r)} /\ r.kind # "recover" /\ ~f /\ d[Program] # Absent
    => d[BackupOf(r)] = d[Program]

\* A snapshot is complete before it gets its name.
SnapshotAt(r, o, d) ==
  o = Name(r) /\ r.id # "last-good" => d[SnapTmp(r.id)] = d[Program]

\* What the next operation o of a command r relies on.
Ready(r, o, d, f) ==
  IF Replacing(r) THEN GoalAt(r, o, d) /\ BackupAt(r, o, d, f) ELSE SnapshotAt(r, o, d)

ManagerInv ==
  /\ TypeOK
  /\ JobInv
  /\ ~Idle => Ready(running, Now, disk, failed)

------------------------------------------------------------------------------
(* Files and operations *)

\* No two of the files a command works on are the same.
LEMMA FilesDiffer ==
  ASSUME NEW i, NEW j
  PROVE  /\ Snap(i) \notin {Program, InstTmp, BinTmp, Source, SnapTmp(j)}
         /\ SnapTmp(i) \notin {Program, InstTmp, BinTmp, Source}
         /\ Snap(i) = Snap(j) => i = j
         /\ SnapTmp(i) = SnapTmp(j) => i = j
         /\ Program \notin {InstTmp, BinTmp, Source}
         /\ InstTmp \notin {BinTmp, Source}
         /\ BinTmp # Source
BY DEF Snap, SnapTmp, Program, InstTmp, BinTmp, Source, InDir

\* The operations of a command that replaces the program.
LEMMA ReplacingFields ==
  ASSUME NEW r
  PROVE  /\ Save(r).op = "copy" /\ Save(r).from = Program /\ Save(r).to = BackupOf(r)
         /\ Save(r).onError = "ignore"
         /\ Fetch(r).op = "copy" /\ Fetch(r).from = Origin(r) /\ Fetch(r).to = Tmp(r)
         /\ Fetch(r).onError # "ignore"
         /\ Replace(r).op = "rename" /\ Replace(r).from = Tmp(r) /\ Replace(r).to = Program
         /\ \A a \in After :
              /\ a.op \in {"copy", "touch", "record"}
              /\ a.op = "copy" => /\ a.from = Program /\ a.onError = "ignore"
                                 /\ a.to \in {Snap("fresh-install"), Snap("last-good")}
              /\ a.onError = "ignore"
BY DEF Save, Fetch, Replace, After, Copy, Rename, TouchWatchdog, RecordUpdate

\* The operations of a snapshot.
LEMMA SnapshotFields ==
  ASSUME NEW r
  PROVE  /\ Take(r).op = "copy" /\ Take(r).from = Program /\ Take(r).to = SnapTmp(r.id)
         /\ Take(r).onError = "clean up"
         /\ Name(r).op = "rename" /\ Name(r).from = SnapTmp(r.id) /\ Name(r).to = Snap(r.id)
         /\ TakeGood(r).op = "copy" /\ TakeGood(r).from = Snap(r.id)
         /\ TakeGood(r).to = SnapTmp("last-good") /\ TakeGood(r).onError = "give up"
         /\ NameGood.op = "rename" /\ NameGood.from = SnapTmp("last-good")
         /\ NameGood.to = Snap("last-good")
BY DEF Take, Name, TakeGood, NameGood, Copy, Rename

\* The files the operations of a replacing command work on.
LEMMA ReplacingFiles ==
  ASSUME NEW r
  PROVE  /\ Tmp(r) \in {InstTmp, BinTmp}
         /\ \E i \in {"pre-install", "pre-rollback"} : BackupOf(r) = Snap(i)
         /\ Origin(r) \notin {Program, Tmp(r)}
         /\ r.id # "pre-rollback" => Origin(r) # BackupOf(r)
         /\ BackupOf(r) \notin {Program, Tmp(r), Snap("fresh-install"), Snap("last-good")}
         /\ Tmp(r) # Program
<1>1. Tmp(r) \in {InstTmp, BinTmp} /\ Tmp(r) # Program
  BY FilesDiffer DEF Tmp
<1>2. \E i \in {"pre-install", "pre-rollback"} : BackupOf(r) = Snap(i)
  BY DEF BackupOf
<1>3. Origin(r) \notin {Program, Tmp(r)}
  BY <1>1, FilesDiffer DEF Origin
<1>4. r.id # "pre-rollback" => Origin(r) # BackupOf(r)
  BY FilesDiffer DEF Origin, BackupOf
<1>5. BackupOf(r) \notin {Program, Tmp(r)}
  BY <1>1, <1>2, FilesDiffer
<1>6. BackupOf(r) \notin {Snap("fresh-install"), Snap("last-good")}
  BY <1>2, FilesDiffer
<1> QED BY <1>1, <1>2, <1>3, <1>4, <1>5, <1>6

\* Its operations are told apart.
LEMMA ReplacingDiffer ==
  ASSUME NEW r
  PROVE  /\ Save(r) # Fetch(r) /\ Save(r) # Replace(r) /\ Fetch(r) # Replace(r)
         /\ {Save(r), Fetch(r), Replace(r)} \cap After = {}
<1>1. Save(r) # Fetch(r) /\ Save(r) # Replace(r) /\ Fetch(r) # Replace(r)
  BY ReplacingFields
<1>2. Save(r) \notin After
  BY ReplacingFields, ReplacingFiles
<1>3. Fetch(r) \notin After
  BY ReplacingFields
<1>4. Replace(r) \notin After
  BY ReplacingFields
<1> QED BY <1>1, <1>2, <1>3, <1>4

\* A command names a snapshot unless it installs a file, so that all it works on
\* are files.
Named(r) == Installing(r) \/ r.id \in Snapshot

LEMMA WorksOnFiles ==
  ASSUME NEW r, Named(r)
  PROVE  /\ Program \in File /\ Tmp(r) \in File /\ Origin(r) \in File /\ BackupOf(r) \in File
BY DEF File, Tmp, Origin, BackupOf, Named, Snapshot, OwnSnapshot

\* Nothing is relied on once the program is in place.
LEMMA ReadyAfter ==
  ASSUME NEW r, Replacing(r), NEW o \in After, NEW d, NEW f
  PROVE  Ready(r, o, d, f)
BY ReplacingDiffer DEF Ready, GoalAt, BackupAt

------------------------------------------------------------------------------
(* The order of operations *)

\* A command that goes on is in order.
LEMMA NextOperation ==
  ASSUME NEW r, NEW t, InOrder(r, t), t # << >>
  PROVE  /\ Head(t) \in Operations(r)
         /\ InOrder(r, Tail(t))
         /\ Tail(t) # << >> => Follows(r, Head(t), Head(Tail(t)))
                               /\ Head(Tail(t)) \in Operations(r)
<1>1. t \in Seq(Operations(r)) /\ Len(t) \in Nat /\ Len(t) > 0 /\ DOMAIN t = 1..Len(t)
  BY DEF InOrder
<1>2. /\ Tail(t) \in Seq(Operations(r)) /\ Len(Tail(t)) = Len(t) - 1
      /\ \A i \in 1..(Len(t) - 1) : Tail(t)[i] = t[i + 1]
      /\ Head(t) = t[1] /\ Head(t) \in Operations(r)
  BY <1>1
<1>3. \A i \in 1..(Len(Tail(t)) - 1) : Follows(r, Tail(t)[i], Tail(t)[i + 1])
  <2> SUFFICES ASSUME NEW i \in 1..(Len(t) - 2)
               PROVE  Follows(r, Tail(t)[i], Tail(t)[i + 1])
    BY <1>1, <1>2
  <2>1. Tail(t)[i] = t[i + 1] /\ Tail(t)[i + 1] = t[(i + 1) + 1]
    BY <1>1, <1>2
  <2>2. i + 1 \in 1..(Len(t) - 1)
    BY <1>1
  <2> QED BY <2>1, <2>2 DEF InOrder
<1>4. ASSUME Tail(t) # << >>
      PROVE  Follows(r, Head(t), Head(Tail(t))) /\ Head(Tail(t)) \in Operations(r)
  <2>1. Len(t) > 1
    BY <1>1, <1>2, <1>4
  <2>2. Head(Tail(t)) = t[2] /\ Head(Tail(t)) \in Operations(r) /\ 1 \in 1..(Len(t) - 1)
    BY <1>1, <1>2, <1>4, <2>1
  <2>3. Follows(r, t[1], t[1 + 1])
    BY <2>2 DEF InOrder
  <2> QED BY <1>2, <2>2, <2>3
<1> QED BY <1>2, <1>3, <1>4 DEF InOrder

------------------------------------------------------------------------------
(* What an operation leaves for the next *)

\* Truncating the target of a copy takes nothing the copy relies on.
LEMMA CopyOpened ==
  ASSUME NEW r, Named(r), NEW o \in Operations(r), o.op = "copy", NEW f,
         NEW d \in [File -> Content], Ready(r, o, d, f),
         NEW e, e = [d EXCEPT ![o.to] = Torn]
  PROVE  Ready(r, o, e, f)
<1>1. CASE Replacing(r)
  <2>1. CASE o = Save(r)
    <3>1. r.id # "pre-rollback" => e[Origin(r)] = d[Origin(r)]
      BY <2>1, ReplacingFields, ReplacingFiles, WorksOnFiles
    <3> QED BY <1>1, <2>1, <3>1, ReplacingDiffer DEF Ready, GoalAt, BackupAt
  <2>2. CASE o = Fetch(r)
    <3>1. /\ e[Origin(r)] = d[Origin(r)] /\ e[Program] = d[Program]
          /\ e[BackupOf(r)] = d[BackupOf(r)]
      <4>1. o.to = Tmp(r)
        BY <2>2, ReplacingFields
      <4>2. \A x \in File \ {Tmp(r)} : e[x] = d[x]
        BY <4>1
      <4> QED BY <4>2, ReplacingFiles, WorksOnFiles
    <3> QED BY <1>1, <2>2, <3>1, ReplacingDiffer DEF Ready, GoalAt, BackupAt
  <2>3. CASE o \in After
    BY <1>1, <2>3, ReadyAfter
  <2>4. o # Replace(r)
    BY ReplacingFields
  <2> QED BY <1>1, <2>1, <2>2, <2>3, <2>4 DEF Operations
<1>2. CASE ~Replacing(r)
  <2>1. o # Name(r)
    BY SnapshotFields
  <2> QED BY <1>2, <2>1 DEF Ready, SnapshotAt
<1> QED BY <1>1, <1>2

\* A finished copy leaves what the next operation relies on.
LEMMA CopyFinished ==
  ASSUME NEW r, Named(r), NEW o \in Operations(r), o.op = "copy", NEW f,
         NEW d \in [File -> Content], Ready(r, o, d, f),
         o.to \in File,
         NEW e, e = [d EXCEPT ![o.to] = d[o.from]],
         NEW b \in Operations(r), Follows(r, o, b)
  PROVE  Ready(r, b, e, f)
<1>1. CASE Replacing(r)
  <2>1. CASE o = Save(r)
    <3>1. b = Fetch(r)
      BY <1>1, <2>1, ReplacingDiffer DEF Follows
    <3>2. r.id # "pre-rollback" => e[Origin(r)] = d[Origin(r)]
      BY <2>1, ReplacingFields, ReplacingFiles, WorksOnFiles
    <3>3. e[BackupOf(r)] = d[Program] /\ e[Program] = d[Program]
      BY <2>1, ReplacingFields, ReplacingFiles, WorksOnFiles
    <3> QED BY <1>1, <2>1, <3>1, <3>2, <3>3, ReplacingDiffer DEF Ready, GoalAt, BackupAt
  <2>2. CASE o = Fetch(r)
    <3>1. b = Replace(r)
      BY <1>1, <2>2, ReplacingDiffer DEF Follows
    <3>2. /\ e[Origin(r)] = d[Origin(r)] /\ e[Program] = d[Program]
          /\ e[BackupOf(r)] = d[BackupOf(r)]
      <4>1. o.to = Tmp(r)
        BY <2>2, ReplacingFields
      <4>2. \A x \in File \ {Tmp(r)} : e[x] = d[x]
        BY <4>1
      <4> QED BY <4>2, ReplacingFiles, WorksOnFiles
    <3>3. e[Tmp(r)] = d[Origin(r)]
      BY <2>2, ReplacingFields
    <3> QED BY <1>1, <2>2, <3>1, <3>2, <3>3, ReplacingDiffer DEF Ready, GoalAt, BackupAt
  <2>3. CASE o \in After
    <3>1. b \in After
      BY <1>1, <2>3, ReplacingDiffer DEF Follows
    <3> QED BY <1>1, <3>1, ReadyAfter
  <2>4. o # Replace(r)
    BY ReplacingFields
  <2> QED BY <1>1, <2>1, <2>2, <2>3, <2>4 DEF Operations
<1>2. CASE ~Replacing(r)
  <2> SUFFICES ASSUME b = Name(r), r.id # "last-good"
               PROVE  e[SnapTmp(r.id)] = e[Program]
    BY <1>2 DEF Ready, SnapshotAt
  <2>1. o = Take(r)
    BY <1>2 DEF Follows
  <2>2. e = [d EXCEPT ![SnapTmp(r.id)] = d[Program]] /\ SnapTmp(r.id) \in File
    BY <2>1, SnapshotFields
  <2> QED BY <2>2, FilesDiffer
<1> QED BY <1>1, <1>2

\* A failed copy that is ignored leaves everything but the backup.
LEMMA CopyIgnored ==
  ASSUME NEW r, NEW o \in Operations(r), o.op = "copy", o.onError = "ignore", NEW f,
         NEW d, Ready(r, o, d, f),
         NEW b \in Operations(r), Follows(r, o, b)
  PROVE  Ready(r, b, d, TRUE)
<1>1. CASE Replacing(r)
  <2>1. CASE o = Save(r)
    <3>1. b = Fetch(r)
      BY <1>1, <2>1, ReplacingDiffer DEF Follows
    <3> QED BY <1>1, <2>1, <3>1, ReplacingDiffer DEF Ready, GoalAt, BackupAt
  <2>2. CASE o \in After
    <3>1. b \in After
      BY <1>1, <2>2, ReplacingDiffer DEF Follows
    <3> QED BY <1>1, <3>1, ReadyAfter
  <2> QED BY <1>1, <2>1, <2>2, ReplacingFields DEF Operations
<1>2. CASE ~Replacing(r)
  BY <1>2, SnapshotFields DEF Operations
<1> QED BY <1>1, <1>2

\* After a rename nothing is relied on, but that a snapshot made under the name
\* of last-good is copied once more.
LEMMA NotCopied ==
  ASSUME NEW r, NEW o \in Operations(r), o.op # "copy", NEW d, NEW f,
         NEW b \in Operations(r), Follows(r, o, b)
  PROVE  Ready(r, b, d, f)
<1>1. CASE Replacing(r)
  <2>1. b \in After
    BY <1>1, ReplacingFields DEF Follows
  <2> QED BY <1>1, <2>1, ReadyAfter
<1>2. CASE ~Replacing(r)
  BY <1>2, SnapshotFields DEF Follows, Ready, SnapshotAt
<1> QED BY <1>1, <1>2

------------------------------------------------------------------------------
(* Starting a command *)

\* Two pieces in order are in order together, if the second may follow the
\* first.
LEMMA InOrderJoined ==
  ASSUME NEW r, NEW s, NEW t, InOrder(r, s), InOrder(r, t),
         s # << >> /\ t # << >> => Follows(r, s[Len(s)], t[1])
  PROVE  /\ InOrder(r, s \o t)
         /\ s # << >> => s \o t # << >> /\ Head(s \o t) = Head(s)
         /\ s \o << >> = s /\ << >> \o t = t
<1>1. /\ s \in Seq(Operations(r)) /\ t \in Seq(Operations(r))
      /\ Len(s) \in Nat /\ Len(t) \in Nat
  BY LenProperties DEF InOrder
<1>2. s \o << >> = s /\ << >> \o t = t
  BY <1>1, ConcatEmptySeq
<1>3. CASE s = << >>
  BY <1>2, <1>3
<1>4. CASE t = << >>
  BY <1>2, <1>4
<1>5. CASE s # << >> /\ t # << >>
  <2> DEFINE u == s \o t
  <2>1. /\ u \in Seq(Operations(r)) /\ Len(u) = Len(s) + Len(t)
        /\ \A i \in 1..(Len(s) + Len(t)) : u[i] = IF i <= Len(s) THEN s[i] ELSE t[i - Len(s)]
    BY <1>1, ConcatProperties
  <2>2. Len(s) > 0 /\ Len(t) > 0
    BY <1>1, <1>5, EmptySeq
  <2> HIDE DEF u
  <2>3. ASSUME NEW i \in 1..(Len(u) - 1)
        PROVE  Follows(r, u[i], u[i + 1])
    <3>1. CASE i < Len(s)
      <4>1. u[i] = s[i] /\ u[i + 1] = s[i + 1] /\ i \in 1..(Len(s) - 1)
        BY <1>1, <2>1, <3>1
      <4> QED BY <4>1 DEF InOrder
    <3>2. CASE i = Len(s)
      <4>1. u[i] = s[Len(s)] /\ u[i + 1] = t[1]
        BY <1>1, <2>1, <2>2, <3>2
      <4> QED BY <1>5, <4>1
    <3>3. CASE i > Len(s)
      <4> DEFINE j == i - Len(s)
      <4>1. u[i] = t[j] /\ u[i + 1] = t[j + 1] /\ j \in 1..(Len(t) - 1)
        BY <1>1, <2>1, <3>3
      <4> QED BY <4>1 DEF InOrder
    <3> QED BY <1>1, <2>1, <3>1, <3>2, <3>3
  <2>4. u # << >> /\ Head(u) = Head(s)
    BY <1>1, <1>5, <2>1, <2>2
  <2> QED BY <1>2, <2>1, <2>3, <2>4 DEF InOrder, u
<1> QED BY <1>3, <1>4, <1>5

\* The pieces commands are made of.
LEMMA InOrderShort ==
  ASSUME NEW r, NEW a \in Operations(r)
  PROVE  InOrder(r, << >>) /\ InOrder(r, <<a>>)
BY DEF InOrder

\* The last operations of an install.
Fresh == Copy(Program, Snap("fresh-install"), "ignore")
Good  == Copy(Program, Snap("last-good"), "ignore")

\* A command that replaces a program is in order: a backup where there is a
\* program, the rest of the command, and the record of a hot update.
LEMMA ReplacingOrder ==
  ASSUME NEW r, Replacing(r), NEW before, NEW rest, NEW last,
         before = << >> \/ before = <<Save(r)>>,
         InOrder(r, rest), rest # << >>, rest[1] = Fetch(r), rest[Len(rest)] \in After,
         last = << >> \/ last = <<RecordUpdate>>
  PROVE  LET t == (before \o rest) \o last
         IN  InOrder(r, t) /\ t # << >> /\ Head(t) = IF before = << >> THEN Fetch(r) ELSE Save(r)
<1> DEFINE s == before \o rest
<1>1. InOrder(r, << >>) /\ InOrder(r, <<Save(r)>>) /\ InOrder(r, <<RecordUpdate>>)
  BY InOrderShort DEF Operations, After
<1>2. Follows(r, Save(r), Fetch(r)) /\ Follows(r, rest[Len(rest)], RecordUpdate)
  BY DEF Follows, After
<1>3. rest \in Seq(Operations(r)) /\ Len(rest) \in Nat /\ Len(rest) > 0
  BY EmptySeq, LenProperties DEF InOrder
<1>4. /\ InOrder(r, s) /\ s # << >>
      /\ Head(s) = IF before = << >> THEN Fetch(r) ELSE Save(r)
      /\ s[Len(s)] = rest[Len(rest)]
  <2>1. CASE before = << >>
    <3>1. s = rest
      BY <1>3, <2>1, ConcatEmptySeq
    <3> HIDE DEF s
    <3> QED BY <1>3, <2>1, <3>1
  <2>2. CASE before = <<Save(r)>>
    <3>1. before # << >> /\ Len(before) = 1 /\ before[1] = Save(r) /\ Head(before) = Save(r)
      BY <2>2
    <3>2. InOrder(r, s) /\ s # << >> /\ Head(s) = Save(r)
      BY <1>1, <1>2, <2>2, <3>1, InOrderJoined
    <3>3. before \in Seq(Operations(r))
      BY <1>1, <2>2 DEF InOrder
    <3>4. Len(s) = 1 + Len(rest) /\ s[1 + Len(rest)] = rest[Len(rest)]
      BY <1>3, <3>1, <3>3, ConcatProperties
    <3> QED BY <3>1, <3>2, <3>4
  <2> QED BY <2>1, <2>2
<1> HIDE DEF s
<1>5. CASE last = << >>
  <2>1. s \o last = s
    BY <1>4, <1>5, ConcatEmptySeq DEF InOrder
  <2> QED BY <1>4, <2>1 DEF s
<1>6. CASE last = <<RecordUpdate>>
  <2>1. last # << >> /\ last[1] = RecordUpdate
    BY <1>6
  <2>2. InOrder(r, s \o last) /\ s \o last # << >> /\ Head(s \o last) = Head(s)
    BY <1>1, <1>2, <1>4, <1>6, <2>1, InOrderJoined
  <2> QED BY <1>4, <2>2 DEF s
<1> QED BY <1>5, <1>6

\* An install is in order, with or without a backup before and a record after it.
LEMMA InstallOrder ==
  ASSUME NEW r, Installing(r), NEW last \in {<< >>, <<RecordUpdate>>}
  PROVE  LET t == InstallSteps \o last
         IN  /\ InOrder(r, t) /\ t # << >>
             /\ Head(t) = IF disk[Program] = Absent THEN Fetch(r) ELSE Save(r)
<1> DEFINE F == Fetch(r)
           R == Replace(r)
           T == TouchWatchdog
           rest == <<F, R, Fresh, Good, T>>
           before == Backup("pre-install")
<1>1. InstallSteps = before \o rest
  BY DEF InstallSteps, Fetch, Replace, Fresh, Good, Origin, Tmp, Installing
<1>2. before = IF disk[Program] = Absent THEN << >> ELSE <<Save(r)>>
  BY DEF Backup, Save, BackupOf
<1>3. /\ F \in Operations(r) /\ R \in Operations(r) /\ Fresh \in Operations(r)
      /\ Good \in Operations(r) /\ T \in Operations(r) /\ T \in After
  BY DEF Operations, Replacing, Installing, After, Fresh, Good
<1>4. /\ Follows(r, F, R) /\ Follows(r, R, Fresh)
      /\ Follows(r, Fresh, Good) /\ Follows(r, Good, T)
  BY DEF Follows, Replacing, Installing, After, Fresh, Good
<1>5. Replacing(r)
  BY DEF Replacing, Installing
<1> HIDE DEF F, R, T, before
<1>6. InOrder(r, rest) /\ rest # << >> /\ rest[1] = F /\ rest[Len(rest)] = T
  BY <1>3, <1>4 DEF InOrder
<1> HIDE DEF rest
<1>7. LET t == (before \o rest) \o last
      IN  InOrder(r, t) /\ t # << >> /\ Head(t) = IF before = << >> THEN Fetch(r) ELSE Save(r)
  BY <1>2, <1>3, <1>5, <1>6, ReplacingOrder DEF F
<1>8. before = << >> <=> disk[Program] = Absent
  BY <1>2
<1> QED BY <1>1, <1>7, <1>8

\* So is a rollback.
LEMMA RollbackOrder ==
  ASSUME NEW r, r.kind = "rollback"
  PROVE  LET t == RollbackSteps(r.id) \o << >>
         IN  /\ InOrder(r, t) /\ t # << >>
             /\ Head(t) = IF disk[Program] = Absent THEN Fetch(r) ELSE Save(r)
<1> DEFINE F == Fetch(r)
           R == Replace(r)
           T == TouchWatchdog
           rest == <<F, R, T>>
           before == Backup("pre-rollback")
<1>1. RollbackSteps(r.id) = before \o rest
  BY DEF RollbackSteps, Fetch, Replace, Origin, Tmp, Installing
<1>2. before = IF disk[Program] = Absent THEN << >> ELSE <<Save(r)>>
  BY DEF Backup, Save, BackupOf, Installing
<1>3. F \in Operations(r) /\ R \in Operations(r) /\ T \in Operations(r) /\ T \in After
  BY DEF Operations, Replacing, After
<1>4. Follows(r, F, R) /\ Follows(r, R, T)
  BY DEF Follows, Replacing, After
<1>5. Replacing(r)
  BY DEF Replacing
<1> HIDE DEF F, R, T, before
<1>6. InOrder(r, rest) /\ rest # << >> /\ rest[1] = F /\ rest[Len(rest)] = T
  BY <1>3, <1>4 DEF InOrder
<1> HIDE DEF rest
<1>7. ASSUME NEW last \in {<< >>, <<RecordUpdate>>}
      PROVE  LET t == (before \o rest) \o last
             IN  InOrder(r, t) /\ t # << >> /\ Head(t) = IF before = << >> THEN Fetch(r) ELSE Save(r)
  <2>1. rest[1] = Fetch(r) /\ rest[Len(rest)] \in After
    BY <1>3, <1>6 DEF F
  <2>2. before = << >> \/ before = <<Save(r)>>
    BY <1>2
  <2> QED BY <1>5, <1>6, <1>7, <2>1, <2>2, ReplacingOrder
<1>8. before = << >> <=> disk[Program] = Absent
  BY <1>2
<1> QED BY <1>1, <1>7, <1>8

\* So is a recovery.
LEMMA RecoverOrder ==
  ASSUME NEW r, r.kind = "recover", r.id = "last-good"
  PROVE  LET t == RecoverSteps \o << >>
         IN  InOrder(r, t) /\ t # << >> /\ Head(t) = Fetch(r)
<1> DEFINE F == Fetch(r)
           R == Replace(r)
           t == <<F, R>>
<1>1. RecoverSteps = t
  BY DEF RecoverSteps, Fetch, Replace, Origin, Tmp, Installing
<1>2. F \in Operations(r) /\ R \in Operations(r) /\ Follows(r, F, R)
  BY DEF Operations, Replacing, Follows
<1> HIDE DEF F, R
<1>3. InOrder(r, t) /\ t # << >> /\ Head(t) = F
  BY <1>2 DEF InOrder
<1> HIDE DEF t
<1>4. t \o << >> = t
  BY <1>3, ConcatEmptySeq DEF InOrder
<1> QED BY <1>1, <1>3, <1>4 DEF F

\* So is a snapshot, with or without the second copy.
LEMMA SnapshotOrder ==
  ASSUME NEW r, r.kind = "snapshot"
  PROVE  LET t == SnapshotSteps(r.id) \o << >>
         IN  InOrder(r, t) /\ t # << >> /\ Head(t) = Take(r)
<1> DEFINE A == Take(r)
           B == Name(r)
           C == TakeGood(r)
           D == NameGood
           first == <<A, B>>
           second == IF r.id \in {"default", "last-good"} THEN <<C, D>> ELSE << >>
<1>1. SnapshotSteps(r.id) = first \o second
  BY DEF SnapshotSteps, Take, Name, TakeGood, NameGood
<1>2. A \in Operations(r) /\ B \in Operations(r) /\ C \in Operations(r) /\ D \in Operations(r)
  BY DEF Operations, Replacing
<1>3. Follows(r, A, B) /\ Follows(r, B, C) /\ Follows(r, C, D)
  <2>1. C # B
    BY SnapshotFields
  <2>2. r.id # "last-good" => D # B
    <3>1. D.to = Snap("last-good") /\ B.to = Snap(r.id)
      BY SnapshotFields
    <3> QED BY <3>1, FilesDiffer
  <2> QED BY <2>1, <2>2 DEF Follows, Replacing
<1> HIDE DEF A, B, C, D
<1>4. InOrder(r, first) /\ first # << >> /\ Head(first) = A /\ first[Len(first)] = B
  BY <1>2, <1>3 DEF InOrder
<1>5. InOrder(r, second) /\ (second # << >> => second[1] = C)
  BY <1>2, <1>3 DEF InOrder
<1> HIDE DEF first, second
<1>6. InOrder(r, first \o second) /\ first \o second # << >> /\ Head(first \o second) = A
  BY <1>3, <1>4, <1>5, InOrderJoined
<1>7. (first \o second) \o << >> = first \o second
  BY <1>6, ConcatEmptySeq DEF InOrder
<1> QED BY <1>1, <1>6, <1>7 DEF A

------------------------------------------------------------------------------
(* Every step keeps the invariant *)

\* What commands are made of are operations on files.
LEMMA OperationsTyped ==
  ASSUME NEW r, Named(r)
  PROVE  Operations(r) \subseteq OperationType
<1>1. Program \in File /\ Tmp(r) \in File /\ Origin(r) \in File /\ BackupOf(r) \in File
      /\ Source \in File /\ Snap("fresh-install") \in File /\ Snap("last-good") \in File
  BY WorksOnFiles DEF File, Snapshot, OwnSnapshot
<1>2. Save(r) \in OperationType /\ Fetch(r) \in OperationType /\ Replace(r) \in OperationType
  BY <1>1 DEF Save, Fetch, Replace, Copy, Rename, OperationType, OnError
<1>3. After \subseteq OperationType
  BY <1>1 DEF After, Copy, TouchWatchdog, RecordUpdate, OperationType, OnError
<1>4. CASE Replacing(r)
  BY <1>2, <1>3, <1>4 DEF Operations
<1>5. CASE ~Replacing(r)
  <2>1. r.id \in Snapshot
    BY <1>5 DEF Named, Replacing, Installing
  <2>2. Snap(r.id) \in File /\ SnapTmp(r.id) \in File /\ SnapTmp("last-good") \in File
    BY <2>1 DEF File, Snapshot, OwnSnapshot
  <2>3. Take(r) \in OperationType /\ Name(r) \in OperationType
        /\ TakeGood(r) \in OperationType /\ NameGood \in OperationType
    BY <1>1, <2>2 DEF Take, Name, TakeGood, NameGood, Copy, Rename, OperationType, OnError
  <2> QED BY <1>5, <2>3 DEF Operations
<1> QED BY <1>4, <1>5

\* The invariant, about a running command.
Underway(r, t, d, f) ==
  /\ InOrder(r, t)
  /\ Named(r)
  /\ Ready(r, Head(t), d, f)

\* A running command is under way.
LEMMA RunningUnderway ==
  ASSUME ManagerInv, ~Idle
  PROVE  /\ Underway(running, todo, disk, failed)
         /\ Now \in Operations(running) /\ Now \in OperationType
         /\ Tail(todo) # << >> => /\ Head(Tail(todo)) \in Operations(running)
                                  /\ Follows(running, Now, Head(Tail(todo)))
<1>1. running.kind \in {"install", "hot-update", "snapshot", "rollback", "recover"}
  BY DEF ManagerInv, JobInv, TypeOK
<1>2. Named(running)
  BY <1>1 DEF ManagerInv, JobInv, Named, Installing
<1>3. InOrder(running, todo) /\ todo # << >>
  BY DEF ManagerInv, JobInv, Idle
<1>4. Ready(running, Head(todo), disk, failed)
  BY DEF ManagerInv, Now
<1> QED BY <1>2, <1>3, <1>4, NextOperation, OperationsTyped DEF Underway, Now

\* A command that begins finds the file it takes the program from.
LEMMA BeginStep ==
  ASSUME ManagerInv, NEW kind, NEW id, NEW goal, NEW steps, NEW last,
         Begin(kind, id, goal, steps, last),
         NEW r, r = [kind |-> kind, id |-> id, goal |-> goal],
         r \in [kind : {"install", "hot-update", "snapshot", "rollback", "recover"},
                id : Snapshot \cup {"none"}, goal : Content],
         Named(r), r.kind = "recover" => r.id = "last-good",
         Installing(r) => r.goal \in Version /\ r.id = "none",
         last = IF r.kind = "hot-update" THEN <<RecordUpdate>> ELSE << >>,
         InOrder(r, steps \o last), steps \o last # << >>,
         NEW o, o = Head(steps \o last),
         disk' \in [File -> Content],
         Ready(r, o, disk', FALSE)
  PROVE  ManagerInv'
<1>1. /\ Idle /\ todo' = steps \o last /\ epilogue' = last /\ running' = r
      /\ failed' = FALSE /\ UNCHANGED <<watchdog, hotUpdate, copying>>
  BY DEF Begin
<1>2. ~copying
  BY <1>1 DEF ManagerInv, TypeOK, Doing
<1>3. steps \o last \in Seq(OperationType)
  BY OperationsTyped, SeqMonotonic DEF InOrder
<1>4. TypeOK'
  BY <1>1, <1>2, <1>3 DEF ManagerInv, TypeOK
<1>5. JobInv'
  <2>1. InOrder(running, todo)'
    BY <1>1 DEF InOrder
  <2>2. r.kind \in {"rollback", "recover", "snapshot"} => r.id \in Snapshot
    BY DEF Named, Installing
  <2>3. r.kind # "none" /\ (last # << >> => r.kind = "hot-update")
    OBVIOUS
  <2>4. Installing(running)' => running'.goal \in Version /\ running'.id = "none"
    BY <1>1 DEF Installing
  <2> QED BY <1>1, <2>1, <2>2, <2>3, <2>4 DEF JobInv
<1>6. Ready(running, Now, disk, failed)'
  <2>1. Now' = o
    BY <1>1 DEF Now
  <2> QED BY <1>1, <2>1
<1> QED BY <1>4, <1>5, <1>6 DEF ManagerInv

\* A command that goes on, or that gives up, is in order.
LEMMA GoesOn ==
  ASSUME ManagerInv, ~Idle,
         todo' = todo \/ todo' = Tail(todo) \/ todo' = epilogue,
         UNCHANGED <<epilogue, running>>
  PROVE  JobInv' /\ todo' \in Seq(OperationType)
<1>1. InOrder(running, todo) /\ Named(running) /\ todo # << >>
  BY RunningUnderway DEF Underway, Idle
<1>2. InOrder(running, epilogue)
  <2>1. epilogue \in {<< >>, <<RecordUpdate>>}
    BY DEF ManagerInv, TypeOK
  <2>2. epilogue # << >> => running.kind = "hot-update"
    BY DEF ManagerInv, JobInv
  <2>3. running.kind = "hot-update" => RecordUpdate \in Operations(running)
    BY DEF Operations, Replacing, After
  <2>4. CASE epilogue = << >>
    BY <2>4 DEF InOrder
  <2>5. CASE epilogue = <<RecordUpdate>>
    BY <2>2, <2>3, <2>5, InOrderShort
  <2> QED BY <2>1, <2>4, <2>5
<1>3. InOrder(running, Tail(todo))
  BY <1>1, NextOperation
<1>4. InOrder(running, todo')
  BY <1>1, <1>2, <1>3
<1>5. todo' \in Seq(OperationType)
  BY <1>1, <1>4, OperationsTyped, SeqMonotonic DEF InOrder
<1>6. InOrder(running, todo)'
  BY <1>4 DEF InOrder
<1>7. running.kind # "none"
  BY DEF ManagerInv, JobInv
<1> QED BY <1>5, <1>6, <1>7 DEF ManagerInv, JobInv, Installing

\* Each command starts with what its first operation relies on: the file it
\* names, and the program its backup will be made of.
LEMMA FirstOperation ==
  ASSUME NEW r, NEW d, NEW o,
         \/ Replacing(r) /\ o = Save(r)
         \/ Replacing(r) /\ o = Fetch(r) /\ (r.kind = "recover" \/ d[Program] = Absent)
         \/ ~Replacing(r) /\ o = Take(r),
         Replacing(r) => d[Origin(r)] = r.goal
  PROVE  Ready(r, o, d, FALSE)
<1>1. Take(r) # Name(r)
  BY SnapshotFields
<1> QED BY <1>1, ReplacingDiffer DEF Ready, GoalAt, BackupAt, SnapshotAt

\* Commands keep the invariant.
LEMMA CommandStep ==
  ASSUME ManagerInv, Command
  PROVE  ManagerInv'
<1>t. /\ disk \in [File -> Content] /\ Version \subseteq Content
      /\ Source \in File /\ Program \in File
  BY DEF ManagerInv, TypeOK, Content, File
<1>1. ASSUME NEW v \in Version, NEW kind \in {"install", "hot-update"},
             NEW last, last = IF kind = "hot-update" THEN <<RecordUpdate>> ELSE << >>,
             Begin(kind, "none", v, InstallSteps, last),
             disk' = [disk EXCEPT ![Source] = v]
      PROVE  ManagerInv'
  <2> DEFINE r == [kind |-> kind, id |-> "none", goal |-> v]
             o == IF disk[Program] = Absent THEN Fetch(r) ELSE Save(r)
  <2>1. /\ r.kind = kind /\ r.id = "none" /\ r.goal = v
        /\ r \in [kind : {"install", "hot-update", "snapshot", "rollback", "recover"},
                  id : Snapshot \cup {"none"}, goal : Content]
    BY <1>t
  <2>2. Installing(r) /\ Replacing(r) /\ Named(r) /\ Origin(r) = Source
    BY <2>1 DEF Installing, Replacing, Named, Origin
  <2>3. last \in {<< >>, <<RecordUpdate>>}
    BY <1>1
  <2> HIDE DEF r
  <2>4. /\ InOrder(r, InstallSteps \o last) /\ InstallSteps \o last # << >>
        /\ Head(InstallSteps \o last) = o
    BY <2>2, <2>3, InstallOrder
  <2>5. disk' \in [File -> Content] /\ disk'[Source] = v /\ disk'[Program] = disk[Program]
    BY <1>1, <1>t, FilesDiffer
  <2>6. Ready(r, o, disk', FALSE)
    BY <2>1, <2>2, <2>5, FirstOperation
  <2> HIDE DEF o
  <2> QED BY <1>1, <2>1, <2>2, <2>4, <2>5, <2>6, BeginStep DEF r
<1>2. ASSUME NEW id \in Snapshot, TakeSnapshot(id)
      PROVE  ManagerInv'
  <2> DEFINE r == [kind |-> "snapshot", id |-> id, goal |-> disk[Program]]
  <2>1. /\ r.kind = "snapshot" /\ r.id = id
        /\ r \in [kind : {"install", "hot-update", "snapshot", "rollback", "recover"},
                  id : Snapshot \cup {"none"}, goal : Content]
    BY <1>t
  <2>2. ~Installing(r) /\ ~Replacing(r) /\ Named(r)
    BY <2>1 DEF Installing, Replacing, Named
  <2>b. Begin("snapshot", id, disk[Program], SnapshotSteps(id), << >>) /\ disk' = disk
    BY <1>2 DEF TakeSnapshot
  <2> HIDE DEF r
  <2>3. /\ InOrder(r, SnapshotSteps(id) \o << >>) /\ SnapshotSteps(id) \o << >> # << >>
        /\ Head(SnapshotSteps(id) \o << >>) = Take(r)
    BY <2>1, SnapshotOrder
  <2>4. Ready(r, Take(r), disk', FALSE)
    BY <2>2, FirstOperation
  <2> QED BY <1>t, <2>b, <2>1, <2>2, <2>3, <2>4, BeginStep DEF r
<1>3. ASSUME NEW id \in Snapshot, Rollback(id)
      PROVE  ManagerInv'
  <2> DEFINE r == [kind |-> "rollback", id |-> id, goal |-> disk[Snap(id)]]
             o == IF disk[Program] = Absent THEN Fetch(r) ELSE Save(r)
  <2>0. Snap(id) \in File
    BY DEF File
  <2>1. /\ r.kind = "rollback" /\ r.id = id /\ r.goal = disk[Snap(id)]
        /\ r \in [kind : {"install", "hot-update", "snapshot", "rollback", "recover"},
                  id : Snapshot \cup {"none"}, goal : Content]
    BY <1>t, <2>0
  <2>2. ~Installing(r) /\ Replacing(r) /\ Named(r) /\ Origin(r) = Snap(id)
    BY <2>1 DEF Installing, Replacing, Named, Origin
  <2>b. Begin("rollback", id, disk[Snap(id)], RollbackSteps(id), << >>) /\ disk' = disk
    BY <1>3 DEF Rollback
  <2> HIDE DEF r
  <2>3. /\ InOrder(r, RollbackSteps(id) \o << >>) /\ RollbackSteps(id) \o << >> # << >>
        /\ Head(RollbackSteps(id) \o << >>) = o
    BY <2>1, RollbackOrder
  <2>4. Ready(r, o, disk', FALSE)
    BY <2>b, <2>1, <2>2, FirstOperation
  <2> HIDE DEF o
  <2> QED BY <1>t, <2>b, <2>1, <2>2, <2>3, <2>4, BeginStep DEF r
<1>4. ASSUME AutoRecover
      PROVE  ManagerInv'
  <2> DEFINE r == [kind |-> "recover", id |-> "last-good", goal |-> disk[Snap("last-good")]]
  <2>0. "last-good" \in Snapshot /\ Snap("last-good") \in File
    BY DEF File, Snapshot, OwnSnapshot
  <2>1. /\ r.kind = "recover" /\ r.id = "last-good" /\ r.goal = disk[Snap("last-good")]
        /\ r \in [kind : {"install", "hot-update", "snapshot", "rollback", "recover"},
                  id : Snapshot \cup {"none"}, goal : Content]
    BY <1>t, <2>0
  <2>2. ~Installing(r) /\ Replacing(r) /\ Named(r) /\ Origin(r) = Snap("last-good")
    BY <2>0, <2>1 DEF Installing, Replacing, Named, Origin
  <2>b. /\ Begin("recover", "last-good", disk[Snap("last-good")], RecoverSteps, << >>)
        /\ disk' = disk
    BY <1>4 DEF AutoRecover
  <2> HIDE DEF r
  <2>3. /\ InOrder(r, RecoverSteps \o << >>) /\ RecoverSteps \o << >> # << >>
        /\ Head(RecoverSteps \o << >>) = Fetch(r)
    BY <2>1, RecoverOrder
  <2>4. Ready(r, Fetch(r), disk', FALSE)
    BY <2>b, <2>1, <2>2, FirstOperation
  <2> QED BY <1>t, <2>b, <2>1, <2>2, <2>3, <2>4, BeginStep DEF r
<1>5. ASSUME NEW v \in Version, Install(v) \/ HotUpdate(v)
      PROVE  ManagerInv'
  BY <1>1, <1>5 DEF Install, HotUpdate
<1> QED BY <1>2, <1>3, <1>4, <1>5 DEF Command

\* The operations keep the invariant.
LEMMA OperateStep ==
  ASSUME ManagerInv, Operate
  PROVE  ManagerInv'
<1> DEFINE b == Head(Tail(todo))
<1>i. ~Idle
  BY DEF Operate, OpenCopy, FinishCopy, DoRename, DoTouch, DoRecord, Doing, ManagerInv, TypeOK
<1>t. /\ disk \in [File -> Content] /\ Source \in File
      /\ Now.from \in File /\ Now.to \in File /\ Torn # Absent /\ {Torn, Absent} \subseteq Content
      /\ watchdog \in BOOLEAN /\ hotUpdate \in Content /\ failed \in BOOLEAN
  BY <1>i, RunningUnderway, VersionManagerAssumption DEF ManagerInv, TypeOK, OperationType, Content, File
<1>r. /\ Ready(running, Now, disk, failed)
      /\ Now \in Operations(running) /\ Named(running)
      /\ Tail(todo) # << >> => b \in Operations(running) /\ Follows(running, Now, b)
  BY <1>i, RunningUnderway DEF Underway, Now
<1>o. ASSUME UNCHANGED <<epilogue, running>>, todo' = todo \/ todo' = Tail(todo)
      PROVE  JobInv' /\ todo' \in Seq(OperationType)
  BY <1>i, <1>o, GoesOn
<1>c. ASSUME Continue, disk' \in [File -> Content], watchdog' \in BOOLEAN,
             hotUpdate' \in Content, failed' \in BOOLEAN,
             Tail(todo) # << >> => Ready(running, b, disk', failed')
      PROVE  ManagerInv'
  <2>1. todo' = Tail(todo) /\ copying' = FALSE /\ UNCHANGED <<epilogue, running>>
    BY <1>c DEF Continue
  <2>2. JobInv' /\ todo' \in Seq(OperationType)
    BY <1>o, <2>1
  <2>3. TypeOK'
    BY <1>c, <2>1, <2>2 DEF ManagerInv, TypeOK
  <2>4. ~Idle' => Ready(running, Now, disk, failed)'
    BY <1>c, <2>1 DEF Idle, Now
  <2> QED BY <2>2, <2>3, <2>4 DEF ManagerInv
<1>1. CASE OpenCopy
  <2>1. /\ Now.op = "copy" /\ disk' = [disk EXCEPT ![Now.to] = Torn] /\ copying' = TRUE
        /\ disk[Now.from] # Absent
        /\ UNCHANGED <<watchdog, hotUpdate, todo, epilogue, running, failed>>
    BY <1>1 DEF OpenCopy, Doing
  <2>2. JobInv'
    BY <1>o, <2>1
  <2>3. disk' \in [File -> Content] /\ disk'[Now.from] # Absent
    BY <1>t, <2>1
  <2>4. TypeOK'
    BY <1>i, <2>1, <2>3 DEF ManagerInv, TypeOK, Doing, Idle, Now
  <2>5. Ready(running, Now, disk', failed)
    BY <1>t, <1>r, <2>1, CopyOpened
  <2>6. Ready(running, Now, disk, failed)'
    BY <2>1, <2>5 DEF Now
  <2> QED BY <2>2, <2>4, <2>6 DEF ManagerInv
<1>2. CASE FinishCopy
  <2>1. /\ Now.op = "copy" /\ disk' = [disk EXCEPT ![Now.to] = disk[Now.from]] /\ Continue
        /\ UNCHANGED <<watchdog, hotUpdate, failed>>
    BY <1>2 DEF FinishCopy, ManagerInv, TypeOK, Doing
  <2>2. disk' \in [File -> Content]
    BY <1>t, <2>1
  <2>3. Tail(todo) # << >> => Ready(running, b, disk', failed)
    <3> HIDE DEF b
    <3> QED BY <1>t, <1>r, <2>1, CopyFinished
  <2> QED BY <1>c, <1>t, <2>1, <2>2, <2>3
<1>3. CASE DoRename
  <2>1. /\ Now.op = "rename" /\ Continue /\ UNCHANGED <<watchdog, hotUpdate, failed>>
        /\ disk' = [disk EXCEPT ![Now.to] = disk[Now.from], ![Now.from] = Absent]
    BY <1>3 DEF DoRename, Doing
  <2>2. disk' \in [File -> Content]
    BY <1>t, <2>1
  <2>3. Tail(todo) # << >> => Ready(running, b, disk', failed)
    BY <1>r, <2>1, NotCopied
  <2> QED BY <1>c, <1>t, <2>1, <2>2, <2>3
<1>4. CASE DoTouch
  <2>1. /\ Now.op = "touch" /\ Continue /\ watchdog' \in {TRUE, watchdog}
        /\ UNCHANGED <<disk, hotUpdate, failed>>
    BY <1>4 DEF DoTouch, Doing
  <2>2. Tail(todo) # << >> => Ready(running, b, disk', failed)
    BY <1>r, <2>1, NotCopied
  <2>3. watchdog' \in BOOLEAN
    BY <1>t, <2>1
  <2> QED BY <1>c, <1>t, <2>1, <2>2, <2>3
<1>5. CASE DoRecord
  <2>1. /\ Now.op = "record" /\ Continue /\ hotUpdate' \in {disk[Source], hotUpdate}
        /\ disk' = [disk EXCEPT ![Source] = Absent]
        /\ UNCHANGED <<watchdog, failed>>
    BY <1>5 DEF DoRecord, Doing
  <2>2. disk' \in [File -> Content] /\ hotUpdate' \in Content
    BY <1>t, <2>1
  <2>3. Tail(todo) # << >> => Ready(running, b, disk', failed)
    BY <1>r, <2>1, NotCopied
  <2> QED BY <1>c, <1>t, <2>1, <2>2, <2>3
<1> QED BY <1>1, <1>2, <1>3, <1>4, <1>5 DEF Operate

\* So do faults and reboots.
LEMMA FaultStep ==
  ASSUME ManagerInv, Fault \/ Reboot
  PROVE  ManagerInv'
<1>t. /\ disk \in [File -> Content] /\ Source \in File /\ Program \in File /\ Absent \in Content
      /\ \A o \in OperationType : o.to \in File
  BY DEF ManagerInv, TypeOK, OperationType, Content, File
<1>e. ASSUME todo' = epilogue, ~Idle, UNCHANGED <<epilogue, running>>
      PROVE  ~Idle' => Ready(running, Now, disk, failed)'
  <2> SUFFICES ASSUME ~Idle'
               PROVE  Ready(running, Now, disk, failed)'
    OBVIOUS
  <2>1. todo' = <<RecordUpdate>> /\ running.kind = "hot-update"
    BY <1>e DEF Idle, ManagerInv, TypeOK, JobInv
  <2>2. Now' = RecordUpdate
    BY <2>1 DEF Now
  <2>3. Replacing(running) /\ RecordUpdate \in After
    BY <2>1 DEF Replacing, After
  <2>4. Ready(running, RecordUpdate, disk', failed')
    BY <2>3, ReadyAfter
  <2> QED BY <1>e, <2>2, <2>4
<1>s. ASSUME Stopped, disk' \in [File -> Content], watchdog' \in BOOLEAN
      PROVE  ManagerInv'
  <2>1. /\ todo' = << >> /\ epilogue' = << >> /\ copying' = FALSE
        /\ UNCHANGED <<hotUpdate, running, failed>>
    BY <1>s DEF Stopped
  <2>2. TypeOK'
    <3>1. << >> \in Seq(OperationType) /\ << >> \in {<< >>, <<RecordUpdate>>} /\ FALSE \in BOOLEAN
      OBVIOUS
    <3>2. /\ hotUpdate \in Content /\ failed \in BOOLEAN
          /\ running \in [kind : {"none", "install", "hot-update", "snapshot", "rollback",
                                  "recover"},
                          id : Snapshot \cup {"none"}, goal : Content]
      BY DEF ManagerInv, TypeOK
    <3>3. todo' \in Seq(OperationType) /\ epilogue' \in {<< >>, <<RecordUpdate>>}
      BY <2>1, <3>1
    <3>4. copying' = FALSE /\ hotUpdate' \in Content /\ failed' \in BOOLEAN
      BY <2>1, <3>2
    <3> QED BY <1>s, <2>1, <3>2, <3>3, <3>4, Zenon DEF TypeOK
  <2>3. InOrder(running', << >>)
    BY DEF InOrder
  <2>4. JobInv'
    BY <2>1, <2>3 DEF ManagerInv, JobInv, Idle, InOrder, Installing
  <2> QED BY <2>1, <2>2, <2>4 DEF ManagerInv, Idle
<1>1. CASE FailCopy
  <2>1. /\ ~Idle /\ Now.op = "copy" /\ copying' = FALSE /\ failed' = TRUE
        /\ disk' = disk \/ disk' = [disk EXCEPT ![Now.to] = Absent]
        /\ Now.onError = "ignore" => disk' = disk
        /\ todo' = IF Now.onError = "ignore" THEN Tail(todo) ELSE epilogue
        /\ UNCHANGED <<watchdog, hotUpdate, epilogue, running>>
    BY <1>1 DEF FailCopy, Doing
  <2>2. JobInv' /\ todo' \in Seq(OperationType)
    BY <2>1, GoesOn
  <2>3. disk' \in [File -> Content]
    BY <1>t, <2>1
  <2>4. TypeOK'
    BY <2>1, <2>2, <2>3 DEF ManagerInv, TypeOK
  <2>5. CASE Now.onError = "ignore"
    <3>1. todo' = Tail(todo) /\ disk' = disk
      BY <2>1, <2>5
    <3>2. Tail(todo) # << >> => Ready(running, Head(Tail(todo)), disk, TRUE)
      <4>1. Ready(running, Now, disk, failed)
        BY <2>1 DEF ManagerInv
      <4> DEFINE b == Head(Tail(todo))
      <4>2. Tail(todo) # << >> => b \in Operations(running) /\ Follows(running, Now, b)
        BY <2>1, RunningUnderway
      <4>3. Now \in Operations(running)
        BY <2>1, RunningUnderway
      <4> HIDE DEF b
      <4>4. Tail(todo) # << >> => Ready(running, b, disk, TRUE)
        BY <2>1, <2>5, <4>1, <4>2, <4>3, CopyIgnored
      <4> QED BY <4>4 DEF b
    <3>3. ~Idle' => Ready(running, Now, disk, failed)'
      BY <2>1, <3>1, <3>2 DEF Idle, Now
    <3> QED BY <2>2, <2>4, <3>3 DEF ManagerInv
  <2>6. CASE Now.onError # "ignore"
    BY <1>e, <2>1, <2>2, <2>4, <2>6 DEF ManagerInv
  <2> QED BY <2>5, <2>6
<1>2. CASE FailRename
  <2>1. /\ ~Idle /\ Now.op = "rename" /\ failed' = TRUE /\ todo' = epilogue
        /\ UNCHANGED <<disk, watchdog, hotUpdate, epilogue, copying, running>>
    BY <1>2 DEF FailRename, Doing
  <2>2. JobInv' /\ todo' \in Seq(OperationType)
    BY <2>1, GoesOn
  <2>3. ~copying
    BY <2>1 DEF ManagerInv, TypeOK, Doing
  <2>4. TypeOK'
    BY <2>1, <2>2, <2>3 DEF ManagerInv, TypeOK
  <2> QED BY <1>e, <2>1, <2>2, <2>4 DEF ManagerInv
<1>3. CASE Kill
  BY <1>s, <1>t, <1>3 DEF Kill, ManagerInv, TypeOK
<1>4. CASE LoseProgram
  <2>1. Idle /\ UNCHANGED <<watchdog, hotUpdate, todo, epilogue, copying, running, failed>>
        /\ disk' \in [File -> Content]
    BY <1>t, <1>4 DEF LoseProgram, jobVars
  <2>2. ~copying
    BY <2>1 DEF ManagerInv, TypeOK, Doing
  <2>3. TypeOK'
    BY <2>1, <2>2 DEF ManagerInv, TypeOK
  <2>4. JobInv'
    BY <2>1 DEF ManagerInv, JobInv, Idle, InOrder, Installing
  <2> QED BY <2>1, <2>3, <2>4 DEF ManagerInv, Idle
<1>5. CASE Reboot
  BY <1>s, <1>t, <1>5 DEF Reboot
<1> QED BY <1>1, <1>2, <1>3, <1>4, <1>5 DEF Fault

------------------------------------------------------------------------------
(* The theorems *)

\* Nothing is running at first.
LEMMA ManagerInit ==
  ASSUME Init
  PROVE  ManagerInv
<1>1. TypeOK
  <2>1. Absent \in Content /\ "none" \in Snapshot \cup {"none"} /\ << >> \in Seq(OperationType)
    BY DEF Content
  <2>2. running \in [kind : {"none", "install", "hot-update", "snapshot", "rollback",
                             "recover"},
                     id : Snapshot \cup {"none"}, goal : Content]
    BY <2>1 DEF Init
  <2>3. disk \in [File -> Content] /\ todo \in Seq(OperationType)
    BY <2>1 DEF Init
  <2> QED BY <2>1, <2>2, <2>3 DEF Init, TypeOK
<1>2. JobInv
  BY DEF Init, JobInv, InOrder, Idle, Installing
<1> QED BY <1>1, <1>2 DEF Init, ManagerInv, Idle

\* Every step keeps the invariant.
LEMMA ManagerStep ==
  ASSUME ManagerInv, [Next]_vars
  PROVE  ManagerInv'
<1>1. CASE UNCHANGED vars
  BY <1>1 DEF vars, ManagerInv, TypeOK, JobInv, Idle, Now, Doing, InOrder, Ready, Installing
<1> QED BY <1>1, CommandStep, OperateStep, FaultStep DEF Next

\* What is left of a command is in order, and what the next operation relies on
\* is on the disk, whatever failed, died or was left over before.
THEOREM ManagerInvariance == Spec => []ManagerInv
BY ManagerInit, ManagerStep, PTL DEF Spec

\* Types, and the shape of a job: only a copy that runs has truncated a file,
\* and it still has its source.
THEOREM ManagerTypes == Spec => []TypeOK
<1>1. ManagerInv => TypeOK
  BY DEF ManagerInv
<1> QED BY <1>1, ManagerInvariance, PTL

\* No copy writes the program or a snapshot an operator names, and one rename
\* each does.
LEMMA RenamedOnly ==
  ASSUME NEW r, NEW o \in Operations(r), NEW id \in UserSnapshot \cup {"default"}
  PROVE  /\ o.op = "copy" => o.to \notin {Program, Snap(id)}
         /\ o.op = "rename" => o.from \notin {Program, Snap(id)}
         /\ o.op = "rename" /\ o.to = Program => Replacing(r) /\ o = Replace(r)
         /\ o.op = "rename" /\ o.to = Snap(id) => ~Replacing(r) /\ o = Name(r) /\ r.id = id
<1>1. id \notin {"last-good", "fresh-install", "pre-install", "pre-rollback"}
  BY VersionManagerAssumption DEF OwnSnapshot
<1>2. Snap(id) \notin {Program, InstTmp, BinTmp, Source, Snap("last-good"),
                       Snap("fresh-install"), Snap("pre-install"), Snap("pre-rollback")}
  BY <1>1, FilesDiffer
<1>3. \A j : /\ Snap(id) # SnapTmp(j) /\ Program # SnapTmp(j) /\ Program # Snap(j)
             /\ Snap(id) = Snap(j) => j = id
  BY FilesDiffer
<1>4. CASE Replacing(r)
  <2>1. Tmp(r) \notin {Program, Snap(id)} /\ BackupOf(r) \notin {Program, Snap(id)}
    BY <1>2, <1>3, ReplacingFiles
  <2>2. CASE o \in {Save(r), Fetch(r)}
    BY <2>1, <2>2, ReplacingFields
  <2>3. CASE o = Replace(r)
    BY <1>3, <1>4, <2>1, <2>3, ReplacingFields
  <2>4. CASE o \in After
    BY <1>2, <1>3, <2>4, ReplacingFields
  <2> QED BY <1>4, <2>2, <2>3, <2>4 DEF Operations
<1>5. CASE ~Replacing(r)
  <2>1. CASE o = Take(r)
    BY <1>3, <2>1, SnapshotFields
  <2>2. CASE o = Name(r)
    BY <1>3, <1>5, <2>2, SnapshotFields
  <2>3. CASE o = TakeGood(r)
    BY <1>3, <2>3, SnapshotFields
  <2>4. CASE o = NameGood
    BY <1>2, <1>3, <2>4, SnapshotFields
  <2> QED BY <1>5, <2>1, <2>2, <2>3, <2>4 DEF Operations
<1> QED BY <1>4, <1>5

\* The program changes when it is lost between commands, or when a command puts
\* the new one in place; a snapshot an operator names when it gets its name.
LEMMA Changes ==
  ASSUME ManagerInv, [Next]_vars, NEW id \in UserSnapshot \cup {"default"}
  PROVE  /\ disk'[Program] # disk[Program] =>
              \/ Idle /\ disk'[Program] = Absent
              \/ /\ ~Idle /\ Replacing(running) /\ Now = Replace(running)
                 /\ disk'[Program] = disk[Tmp(running)]
         /\ disk'[Snap(id)] # disk[Snap(id)] =>
              /\ ~Idle /\ ~Replacing(running) /\ Now = Name(running) /\ running.id = id
              /\ disk'[Snap(id)] = disk[SnapTmp(id)]
<1> DEFINE Kept == disk'[Program] = disk[Program] /\ disk'[Snap(id)] = disk[Snap(id)]
<1>t. disk \in [File -> Content] /\ Program \in File /\ Snap(id) \in File
  BY DEF ManagerInv, TypeOK, File, Snapshot, OwnSnapshot
<1>s. Snap(id) # Program /\ Source \notin {Program, Snap(id)}
  BY FilesDiffer
<1>o. ~Idle => Now \in Operations(running) /\ Now \in OperationType
  BY RunningUnderway
<1>1. ASSUME disk' = disk \/ \E f, x : disk' = [disk EXCEPT ![f] = x] /\ f \notin {Program, Snap(id)}
      PROVE  Kept
  BY <1>1, <1>t
<1>2. CASE UNCHANGED vars
  BY <1>1, <1>2 DEF vars
<1>3. CASE Command
  <2>1. disk' = disk \/ \E v : disk' = [disk EXCEPT ![Source] = v]
    BY <1>3 DEF Command, Install, HotUpdate, TakeSnapshot, Rollback, AutoRecover
  <2> QED BY <1>1, <1>s, <2>1
<1>4. CASE OpenCopy \/ FinishCopy \/ FailCopy
  <2>1. ~Idle /\ Now.op = "copy"
    BY <1>4 DEF OpenCopy, FinishCopy, FailCopy, Doing, ManagerInv, TypeOK
  <2>2. Now.to \notin {Program, Snap(id)}
    BY <1>o, <2>1, RenamedOnly
  <2>3. disk' = disk \/ \E x : disk' = [disk EXCEPT ![Now.to] = x]
    BY <1>4 DEF OpenCopy, FinishCopy, FailCopy
  <2> QED BY <1>1, <2>2, <2>3
<1>5. CASE DoRename
  <2>1. /\ ~Idle /\ Now.op = "rename"
        /\ disk' = [disk EXCEPT ![Now.to] = disk[Now.from], ![Now.from] = Absent]
    BY <1>5 DEF DoRename, Doing
  <2>2. /\ Now.from \notin {Program, Snap(id)}
        /\ Now.to = Program => Replacing(running) /\ Now = Replace(running)
        /\ Now.to = Snap(id) => ~Replacing(running) /\ Now = Name(running) /\ running.id = id
    BY <1>o, <2>1, RenamedOnly
  <2>3. \A f \in {Program, Snap(id)} : disk'[f] = IF f = Now.to THEN disk[Now.from] ELSE disk[f]
    BY <1>t, <2>1, <2>2
  <2>4. Now = Replace(running) => Now.from = Tmp(running)
    BY ReplacingFields
  <2>5. Now = Name(running) => Now.from = SnapTmp(running.id)
    BY SnapshotFields
  <2> QED BY <2>1, <2>2, <2>3, <2>4, <2>5
<1>6. CASE DoTouch \/ FailRename \/ Kill
  BY <1>1, <1>6 DEF DoTouch, FailRename, Kill
<1>7. CASE DoRecord \/ Reboot
  BY <1>1, <1>s, <1>7 DEF DoRecord, Reboot
<1>8. CASE LoseProgram
  BY <1>t, <1>s, <1>8 DEF LoseProgram
<1> QED BY <1>2, <1>3, <1>4, <1>5, <1>6, <1>7, <1>8 DEF Next, Operate, Fault

\* What a command puts in place is what the file it names held, and that the
\* program it replaces is saved.
LEMMA PutInPlace ==
  ASSUME ManagerInv, ~Idle, Replacing(running), Now = Replace(running)
  PROVE  /\ disk[Tmp(running)] = disk[Origin(running)]
         /\ running.id # "pre-rollback" => disk[Origin(running)] = running.goal
         /\ running.kind # "recover" /\ ~failed /\ disk[Program] # Absent
              => disk[BackupOf(running)] = disk[Program]
<1>1. Ready(running, Replace(running), disk, failed)
  BY DEF ManagerInv
<1> QED BY <1>1 DEF Ready, GoalAt, BackupAt

\* When a command puts a program in place, it is the one the file named by the
\* command held when the command started, whatever ran before and whatever
\* leftovers it found - except for a rollback to pre-rollback.
THEOREM InstallsWhatWasNamed == Spec => ProgramIsTheGoal
<1>1. ASSUME ManagerInv, [Next]_vars
      PROVE  [~Idle /\ disk'[Program] # disk[Program] /\ running.id # "pre-rollback"
                => disk'[Program] = running.goal]_vars
  BY <1>1, Changes, PutInPlace
<1> QED BY <1>1, ManagerInvariance, PTL DEF Spec, ProgramIsTheGoal

\* The program, and the snapshots an operator names, are torn only as copies of
\* a file that was torn before: no death, failure or leftover tears them.
THEOREM RenamingNeverTears == Spec => TornOnlyFromTorn
<1>1. ASSUME ManagerInv, [Next]_vars, disk'[Program] = Torn, disk[Program] # Torn
      PROVE  \E id \in Snapshot : disk[Snap(id)] = Torn
  <2>1. /\ ~Idle /\ Replacing(running) /\ Now = Replace(running)
        /\ disk'[Program] = disk[Tmp(running)]
    BY <1>1, Changes, VersionManagerAssumption
  <2>2. disk[Origin(running)] = Torn
    BY <1>1, <2>1, PutInPlace
  <2>3. ~Installing(running)
    <3>1. Installing(running) => running.goal # Torn
      BY <1>1, VersionManagerAssumption DEF ManagerInv, JobInv
    <3>2. Installing(running) => running.id = "none"
      BY <1>1 DEF ManagerInv, JobInv
    <3> QED BY <1>1, <2>1, <2>2, <3>1, <3>2, PutInPlace
  <2>4. running.id \in Snapshot
    BY <1>1, <2>1, <2>3, RunningUnderway DEF Underway, Named
  <2> QED BY <2>2, <2>3, <2>4 DEF Origin
<1>2. ASSUME ManagerInv, [Next]_vars, NEW id \in UserSnapshot \cup {"default"},
             disk'[Snap(id)] = Torn, disk[Snap(id)] # Torn
      PROVE  disk[Program] = Torn
  <2>1. /\ ~Idle /\ ~Replacing(running) /\ Now = Name(running) /\ running.id = id
        /\ disk'[Snap(id)] = disk[SnapTmp(id)]
    BY <1>2, Changes
  <2>2. id # "last-good"
    BY VersionManagerAssumption DEF OwnSnapshot
  <2>3. Ready(running, Name(running), disk, failed)
    BY <1>2, <2>1 DEF ManagerInv
  <2> QED BY <1>2, <2>1, <2>2, <2>3 DEF Ready, SnapshotAt
<1>3. ASSUME ManagerInv, [Next]_vars
      PROVE  [/\ disk'[Program] = Torn /\ disk[Program] # Torn =>
                   \E id \in Snapshot : disk[Snap(id)] = Torn
              /\ \A id \in UserSnapshot \cup {"default"} :
                   disk'[Snap(id)] = Torn /\ disk[Snap(id)] # Torn => disk[Program] = Torn]_vars
  BY <1>1, <1>2, <1>3
<1> QED BY <1>3, ManagerInvariance, PTL DEF Spec, TornOnlyFromTorn

\* An install or a rollback replaces a program only when a backup of that very
\* program is there, unless making it failed.
THEOREM ReplacedProgramIsSaved == Spec => BackupBeforeReplace
<1>1. ASSUME ManagerInv, [Next]_vars, ~Idle,
             running.kind \in {"install", "hot-update", "rollback"}, ~failed,
             disk[Program] # Absent, disk'[Program] # disk[Program]
      PROVE  \E id \in {"pre-install", "pre-rollback"} : disk[Snap(id)] = disk[Program]
  <2>1. Replacing(running) /\ Now = Replace(running)
    BY <1>1, Changes
  <2>2. disk[BackupOf(running)] = disk[Program]
    BY <1>1, <2>1, PutInPlace
  <2> QED BY <2>2, ReplacingFiles
<1>2. ASSUME ManagerInv, [Next]_vars
      PROVE  [/\ ~Idle /\ running.kind \in {"install", "hot-update", "rollback"} /\ ~failed
              /\ disk[Program] # Absent /\ disk'[Program] # disk[Program]
              => \E id \in {"pre-install", "pre-rollback"} :
                   disk[Snap(id)] = disk[Program]]_vars
  BY <1>1, <1>2
<1> QED BY <1>2, ManagerInvariance, PTL DEF Spec, BackupBeforeReplace
==============================================================================
