-------------------------------- MODULE OneShot --------------------------------
(***************************************************************************)
(* Processes started with --json: each gathers its sections in memory with *)
(* the help of ConfigManager, saves them to a temporary file whose name    *)
(* all share, reads it back, prints it and removes it.  A process may end  *)
(* anywhere and leave the file.  A row of a document is <<who, n>>: a key  *)
(* that was set, or an element that was appended to a list.                *)
(***************************************************************************)
EXTENDS Integers, Sequences, Selection

CONSTANTS JsonBuilds,  \* the builds, of "mac", "linux", "windows"
          Followed,    \* the sections that are followed
          Runs,        \* bound: the processes
          MaxRows      \* bound: rows of a section

VARIABLES jsonBuild,  \* the build
          name,       \* the file the shared name leads to, or "none"
          files,      \* the content of each file, by the process that made it
          shot        \* the processes

jvars == <<jsonBuild, name, files, shot>>

JsonMac == <<"os", "cpu", "memory", "gpu", "adapters", "disks", "temperatures">>
JsonLinux == <<"os", "cpu", "memory", "gpu", "adapters", "disks", "temperatures">>
JsonWindows == <<"os", "cpu", "memory", "gpu", "adapters", "disks", "temperatures">>
SectionsOf == [mac |-> JsonMac, linux |-> JsonLinux, windows |-> JsonWindows]
Sections == Selected(SectionsOf[jsonBuild], Followed)

\* The sections made with AppendToArray; the others set keys.
Arrays == {"adapters", "disks"}

Empty == [s \in Followed |-> <<>>]
Json(d) == [is |-> "json", doc |-> d]
Partial == [is |-> "partial", doc |-> Empty]  \* truncated, and not written yet
Nothing == [is |-> "nothing", doc |-> Empty]

Idle == [at |-> "new", todo |-> <<>>, doc |-> Empty, got |-> Empty, fd |-> "none",
         printed |-> Nothing, alone |-> TRUE, kept |-> FALSE]

\* What an earlier process, "old", may have left.
Left == {Json([s \in Followed |-> <<<<"old", 1>>>>]), Partial}

OneShotInit ==
  /\ jsonBuild \in JsonBuilds
  /\ name \in {"none", "old"}
  /\ \E c \in Left : files = [f \in Runs \cup {"old"} |-> IF f = "old" THEN c ELSE Partial]
  /\ shot = [r \in Runs |-> Idle]

Ended == {"new", "failed", "crashed", "done"}
Active(r) == shot[r].at \notin Ended

Moves(r, s) == shot' = [shot EXCEPT ![r] = s]

(***************************************************************************)
(* Start and clean up.                                                     *)
(***************************************************************************)
\* COM or WMI may not be there on Windows.  (alone and kept are for the property
\* only.)
Starts(r, fails) ==
  /\ shot[r].at = "new" /\ (fails => jsonBuild = "windows")
  /\ LET others == {q \in Runs \ {r} : Active(q)} IN
     shot' = [q \in Runs |->
                IF q = r THEN [shot[r] EXCEPT !.at = IF fails THEN "failed" ELSE "remove",
                                             !.alone = others = {}]
                ELSE IF q \in others /\ ~fails THEN [shot[q] EXCEPT !.alone = FALSE] ELSE shot[q]]
  /\ UNCHANGED <<jsonBuild, name, files>>

\* std::remove(), whose result nobody looks at.  Windows does not remove a file that
\* somebody has open; nor does POSIX one of another user in the sticky /tmp.
Removed(r, foreign) ==
  IF \/ jsonBuild = "windows" /\ \E q \in Runs : shot[q].fd = name
     \/ jsonBuild # "windows" /\ foreign /\ name # r
  THEN name ELSE "none"

Skipped(r, foreign) ==
  /\ shot[r].at = "remove"
  /\ Moves(r, [shot[r] EXCEPT !.at = "load"])
  /\ UNCHANGED <<jsonBuild, name, files>>

RemoveTmp(r, foreign) ==
  /\ shot[r].at = "remove"
  /\ name' = Removed(r, foreign)
  /\ Moves(r, [shot[r] EXCEPT !.at = "load", !.kept = name' # "none"])
  /\ UNCHANGED <<jsonBuild, files>>

(***************************************************************************)
(* ConfigManager.                                                          *)
(***************************************************************************)
\* No file, one that does not open, and one that is no JSON or only the beginning of
\* it (a parse error) give an empty object.
Load(r, opens) ==
  /\ shot[r].at = "load"
  /\ Moves(r, [shot[r] EXCEPT
                 !.at = "gather", !.todo = Sections,
                 !.doc = IF name = "none" \/ ~opens THEN Empty ELSE files[name].doc])
  /\ UNCHANGED <<jsonBuild, name, files>>

RowsOf(r, n) == [i \in 1..n |-> <<r, i>>]

\* The first n keys of the section are set, the others left.
SetNested(old, r, n) ==
  [i \in 1..(IF n < Len(old) THEN Len(old) ELSE n) |-> IF i <= n THEN <<r, i>> ELSE old[i]]
AppendToArray(old, r, n) == old \o RowsOf(r, n)

\* One section, up to an exception that is swallowed.
Gather(r, n) ==
  /\ shot[r].at = "gather" /\ shot[r].todo # <<>>
  /\ LET s == Head(shot[r].todo) IN
     Moves(r, [shot[r] EXCEPT
                 !.todo = Tail(@),
                 !.doc[s] = IF s \in Arrays THEN AppendToArray(@, r, n) ELSE SetNested(@, r, n),
                 !.got[s] = RowsOf(r, n)])
  /\ UNCHANGED <<jsonBuild, name, files>>

\* Save() opens and so truncates the file, which may be that of another process, ...
SaveOpens(r, opens) ==
  /\ shot[r].at = "gather" /\ shot[r].todo = <<>>
  /\ IF opens
     THEN LET f == IF name = "none" THEN r ELSE name IN
          /\ name' = f
          /\ files' = [files EXCEPT ![f] = Partial]
          /\ Moves(r, [shot[r] EXCEPT !.at = "write", !.fd = f])
     ELSE /\ Moves(r, [shot[r] EXCEPT !.at = "cleanup", !.printed.is = "failed"])
          /\ UNCHANGED <<name, files>>
  /\ UNCHANGED jsonBuild

\* ... and writes it; text that is no UTF-8 makes it throw.
SaveWrites(r, throws) ==
  /\ shot[r].at = "write"
  /\ files' = IF throws THEN files ELSE [files EXCEPT ![shot[r].fd] = Json(shot[r].doc)]
  /\ Moves(r, [shot[r] EXCEPT !.at = IF throws THEN "cleanup" ELSE "print", !.fd = "none",
                             !.printed.is = IF throws THEN "failed" ELSE @])
  /\ UNCHANGED <<jsonBuild, name>>

(***************************************************************************)
(* Output.                                                                 *)
(***************************************************************************)
Prints(r) ==
  /\ shot[r].at = "print"
  /\ Moves(r, [shot[r] EXCEPT !.at = "cleanup",
                             !.printed = IF name = "none" THEN Nothing ELSE files[name]])
  /\ UNCHANGED <<jsonBuild, name, files>>

CleansUp(r, foreign) ==
  /\ shot[r].at = "cleanup"
  /\ name' = Removed(r, foreign)
  /\ Moves(r, [shot[r] EXCEPT !.at = "done"])
  /\ UNCHANGED <<jsonBuild, files>>

Crash(r) ==
  /\ Active(r)
  /\ Moves(r, [shot[r] EXCEPT !.at = "crashed", !.fd = "none"])
  /\ UNCHANGED <<jsonBuild, name, files>>

OneShotNext ==
  \E r \in Runs :
    \/ \E b \in BOOLEAN : \/ Starts(r, b) \/ RemoveTmp(r, b) \/ Load(r, b)
                          \/ SaveOpens(r, b) \/ SaveWrites(r, b) \/ CleansUp(r, b)
    \/ Prints(r) \/ Crash(r)
    \/ \E n \in 0..MaxRows : Gather(r, n)

OneShotSpec == OneShotInit /\ [][OneShotNext]_jvars

(***************************************************************************)
(* Properties.                                                             *)
(***************************************************************************)
\* The rows of got are in doc.
Holds(doc, got) ==
  \A s \in Followed : \A i \in DOMAIN got[s] : \E j \in DOMAIN doc[s] : doc[s][j] = got[s][i]

\* A process beside which no other runs prints each row it gathered, once, and no
\* row of another, wherever processes before it have ended ("ensure clean start",
\* main_mac.cpp); unless the file cannot be written, or one was left that it could
\* not remove.  With that it may print rows of the other, but then too every row it
\* gathered, or it fails.
OwnDataPrinted ==
  \A r \in Runs :
    shot[r].at = "done" /\ shot[r].alone =>
      \/ shot[r].printed.is = "failed"
      \/ ~shot[r].kept /\ shot[r].printed = Json(shot[r].got)
      \/ shot[r].kept /\ shot[r].printed.is = "json" /\ Holds(shot[r].printed.doc, shot[r].got)
================================================================================
